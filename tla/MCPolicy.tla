----------------------------- MODULE MCPolicy -----------------------------
EXTENDS Policy

CONSTANTS t1, t2

\* Two tools and one operation; rules name the shell tool or any tool,
\* any operation (so one operation tells nothing apart), and may test for
\* the "rm -rf" substring of spec.md scenario 4.
MCTools     == {"shell", "http"}
MCOps       == {"run"}
MCPatterns  == {"rm -rf"}
MCRuleTools == {"shell", "*"}
MCRuleOps   == {"*"}

\* A client may present t1, which the server knows, or t2, which it does
\* not.
MCTokens      == {t1, t2}

\* FARACORE_TOKEN is "t1," (a trailing comma).
TrailingComma == {<<t1, BLANK>>}
=============================================================================
