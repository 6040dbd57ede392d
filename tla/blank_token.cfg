\* FARACORE_TOKEN ends in a comma; one rule is enough for a request to
\* reach a handler.
CONSTANTS
    Tools <- MCTools
    Ops <- MCOps
    Patterns <- MCPatterns
    RuleTools <- MCRuleTools
    RuleOps <- MCRuleOps
    MaxRules = 1
    MaxRiskRules = 0
    t1 = t1  t2 = t2
    Tokens <- MCTokens
    AuthConfigs <- TrailingComma
    BLANK = BLANK
    NONE = NONE
SPECIFICATION Spec
INVARIANT AuthGate
