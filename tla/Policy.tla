------------------------------ MODULE Policy ------------------------------
(***************************************************************************)
(* The policy decision of an action.  server/main.py calls                 *)
(* policies.evaluate(tool, operation, params, context) in submit_action   *)
(* and in playground_eval and maps the decision to a status.  The engine  *)
(* itself (server/policy_engine.py) is not in the repository: Evaluate     *)
(* follows the algorithm of spec.md section 4.2 - the highest risk level *)
(* of the matching risk rules (default low), the effect of the first      *)
(* matching rule (default deny), an allow at high risk promoted to        *)
(* require_approval.  The engine is the context the handlers and the     *)
(* auth gate run in; what is checked here is the gate.                    *)
(*                                                                         *)
(* Both routes sit behind AuthMiddleware (server/auth.py) when a token   *)
(* is configured: a request reaches its handler only with a bearer token *)
(* of the configured comma-separated list.  A token list is kept after  *)
(* strip(), an entry that was only whitespace being BLANK, and a header  *)
(* by the token dispatch extracts from it ("missing" when it does not    *)
(* start with "Bearer ").  Neither route is a public path.                *)
(*                                                                         *)
(* The params of an input are abstracted to the set of Patterns their     *)
(* canonical JSON contains; a rule's pattern is one such substring or    *)
(* NONE.  Numeric and key predicates are equality tests of the same kind  *)
(* and are left out.                                                      *)
(***************************************************************************)
EXTENDS Naturals, Sequences, FiniteSets, SequencesExt

CONSTANTS
    Tools,         \* tool names an agent may submit
    Ops,           \* operation names
    Patterns,      \* substrings a params pattern may test
    RuleTools,     \* tool fields a rule may carry ("*" or a name)
    RuleOps,       \* op fields a rule may carry
    MaxRules,      \* length bound of the rule list
    MaxRiskRules,  \* length bound of the risk rule list
    Tokens,        \* bearer tokens clients may present
    AuthConfigs,   \* FARACORE_TOKEN / FARA_AUTH_TOKEN values split on ",", <<>> if unset
    BLANK,         \* a token that strip() leaves empty
    NONE

ASSUME RuleTools \subseteq Tools \cup {"*"} /\ RuleOps \subseteq Ops \cup {"*"}
ASSUME AuthConfigs \subseteq Seq(Tokens \cup {BLANK})

VARIABLES
    policy,     \* the loaded policy: [rules, risk]
    authToken,  \* AuthMiddleware.auth_token split and stripped, <<>> if unset
    last        \* the last answer of a request, or NONE

vars == <<policy, authToken, last>>

Effects == {"allow", "deny", "require_approval"}
Levels  == {"low", "medium", "high"}
Rank    == [l \in Levels |-> CASE l = "low" -> 0 [] l = "medium" -> 1 [] l = "high" -> 2]

\* A match pattern: tool, op and an optional params substring.
MatchPatterns == [tool : RuleTools, op : RuleOps, pattern : Patterns \cup {NONE}]
PolicyRules   == [match : MatchPatterns, effect : Effects]
RiskRules     == [when : MatchPatterns, level : Levels]
Policies      == [rules : BoundedSeq(PolicyRules, MaxRules),
                  risk  : BoundedSeq(RiskRules, MaxRiskRules)]

\* An input: tool, operation and the patterns its params contain.
Inputs == [tool : Tools, op : Ops, params : SUBSET Patterns]

\* The Authorization header as dispatch reads it.
Headers == {"missing", BLANK} \cup Tokens

(***************************************************************************)
(* The engine (spec.md 4.2)                                               *)
(***************************************************************************)
\* "*" is a wildcard, anything else literal equality; a pattern is a
\* substring of the params' JSON.
MatchesInput(m, in) ==
    /\ m.tool \in {"*", in.tool}
    /\ m.op \in {"*", in.op}
    /\ m.pattern \in {NONE} \cup in.params

\* Step 1: the highest level among the matching risk rules, default low.
RECURSIVE RiskLevel(_, _)
RiskLevel(rs, in) ==
    IF rs = <<>> THEN "low"
    ELSE LET rest == RiskLevel(Tail(rs), in)
         IN IF MatchesInput(Head(rs).when, in) /\ Rank[Head(rs).level] > Rank[rest]
            THEN Head(rs).level ELSE rest

\* Steps 2 and 3: the effect and index of the first matching rule, or the
\* default deny (index 0, "no matching policy rule").
RECURSIVE FirstMatch(_, _, _)
FirstMatch(rules, in, i) ==
    IF i > Len(rules) THEN [effect |-> "deny", rule |-> 0]
    ELSE IF MatchesInput(rules[i].match, in) THEN [effect |-> rules[i].effect, rule |-> i]
    ELSE FirstMatch(rules, in, i + 1)

\* Step 4: an allow at high risk becomes require_approval.
Evaluate(p, in) ==
    LET m == FirstMatch(p.rules, in, 1)
        r == RiskLevel(p.risk, in)
    IN [decision |-> IF m.effect = "allow" /\ r = "high" THEN "require_approval" ELSE m.effect,
        rule |-> m.rule, risk |-> r]

(***************************************************************************)
(* AuthMiddleware.dispatch                                                 *)
(***************************************************************************)
\* No token configured: pass.  Otherwise 401 unless the header starts with
\* "Bearer " and the token after it is one of the stripped entries.
Authorized(header) ==
    \/ authToken = <<>>
    \/ header # "missing" /\ header \in ToSet(authToken)

\* The 401 response; the route is not reached.
Unauthorized(header) ==
    /\ ~Authorized(header)
    /\ last' = [status |-> "unauthorized", token |-> header]
    /\ UNCHANGED <<policy, authToken>>

(***************************************************************************)
(* The handlers                                                            *)
(***************************************************************************)
\* The decision -> status mapping both handlers use.
StatusOf(decision) ==
    CASE decision = "allow" -> "allowed"
      [] decision = "deny"  -> "denied"
      [] OTHER              -> "pending_approval"

\* The answer of a handler that evaluated input in.
Answer(in, header) ==
    LET e == Evaluate(policy, in) IN
    [status |-> StatusOf(e.decision), token |-> header, input |-> in,
     decision |-> e.decision, risk |-> e.risk]

\* submit_action: evaluate, then map the decision to the action's status
\* (the store write and the events are the business of Governor).
SubmitAction(in, header) ==
    /\ Authorized(header)
    /\ last' = Answer(in, header)
    /\ UNCHANGED <<policy, authToken>>

\* playground_eval: the same evaluation, nothing stored.
PlaygroundEval(in, header) ==
    /\ Authorized(header)
    /\ last' = Answer(in, header)
    /\ UNCHANGED <<policy, authToken>>

\* PolicyEngine(settings.policy_file) loads the policy once, at import;
\* the middleware is added when FARACORE_TOKEN or auth_token is set.
Init ==
    /\ policy \in Policies
    /\ authToken \in AuthConfigs
    /\ last = NONE

Next ==
    \/ \E in \in Inputs, h \in Headers : SubmitAction(in, h) \/ PlaygroundEval(in, h)
    \/ \E h \in Headers : Unauthorized(h)


Spec == Init /\ [][Next]_vars

(***************************************************************************)
(* Properties                                                              *)
(***************************************************************************)
TypeOK ==
    /\ policy \in Policies
    /\ authToken \in AuthConfigs
    /\ last = NONE \/ last.status \in {"allowed", "denied", "pending_approval", "unauthorized"}

\* A request reaches submit_action or playground_eval only when no token
\* is configured or it bears one of the configured tokens: a missing,
\* malformed, unknown or empty bearer token gets 401 (spec.md section 6,
\* "missing/invalid header -> 401").
AuthGate ==
    last # NONE /\ last.status # "unauthorized" =>
        \/ authToken = <<>>
        \/ last.token \in Tokens /\ last.token \in ToSet(authToken)

=============================================================================
