------------------------------- MODULE Client -------------------------------
(***************************************************************************)
(* The Python SDK (faracore/sdk/client.py) in two callers: an agent      *)
(* making one call of submit_and_wait, and a human making one call of     *)
(* approve_action or deny_action; the executor's worker runs on the       *)
(* server side.                                                           *)
(*                                                                         *)
(* Each caller is sequential.  Every HTTP call goes through _make_request: *)
(* up to MaxRetries + 1 attempts, each of which may be lost before the    *)
(* server sees it (connection error), answered by a 5xx because a store   *)
(* call raised before anything was written, processed with its response   *)
(* lost (read timeout), or processed and answered.  Server handlers are   *)
(* taken whole here, as one step each: Governor.tla checks what happens   *)
(* when handlers interleave with each other.                              *)
(***************************************************************************)
EXTENDS Naturals, FiniteSets, TLC

CONSTANTS
    Ids,         \* action ids the server may mint
    MaxRetries,  \* ClientConfig.max_retries
    MaxPolls,    \* timeout / poll_interval: sleeps before a loop's deadline
    NULL

ASSUME MaxRetries \in Nat /\ MaxPolls \in Nat

VARIABLES
    srv,      \* srv[a]: stored status of action a, "none" before creation
    tool,     \* the tool of the submitted action ("shell" has an executor)
    pc,       \* pc[c]: where caller c is
    attempt,  \* attempt[c]: attempt number of c's current _make_request
    outcome,  \* outcome[c]: the status returned, or the exception raised
    effect,   \* effect[c]: an attempt of c's current POST changed the server
    polls,    \* sleeps done by the agent's current polling loop
    aid,      \* the action id the agent holds
    args,     \* [requireApproval, autoStart]: the agent's keyword arguments
    target,   \* the action id the human passes to approve_action/deny_action
    verdict   \* TRUE for approve_action, FALSE for deny_action

vars == <<srv, tool, pc, attempt, outcome, effect, polls, aid, args,
          target, verdict>>

Callers == {"agent", "human"}

Decisions == {"allow", "deny", "require_approval"}

Statuses == {"none", "allowed", "denied", "pending_approval", "approved",
             "executing", "succeeded", "failed", "timeout"}

PCs == {"submit", "block", "start", "wait", "idle", "lookup", "post",
        "returned", "raised"}

\* Exceptions: FaraCorePolicyError, FaraCoreDeniedError, FaraCoreTimeoutError,
\* FaraCoreServerError, FaraCoreConnectionError, FaraCoreError.
Errors == {"policy", "denied", "timeout", "server", "connection", "error"}

\* How one attempt of _make_request ends.
Fates == {"answered", "lost_before", "lost_after", "server_error"}

\* get_action: one GET /v1/actions/{id} through _make_request.  A GET
\* changes nothing on the server, so a lost response is no different from
\* a lost request but for the exception it ends in.
GetFates == Fates \ {"lost_after"}

(***************************************************************************)
(* Server handlers (server/main.py), each one step                        *)
(***************************************************************************)
DecisionStatus == "allow" :> "allowed" @@ "deny" :> "denied"
                  @@ "require_approval" :> "pending_approval"

\* submit_action: a fresh uuid4 row with the policy's status.
ServerSubmit(a, d) == srv' = [srv EXCEPT ![a] = DecisionStatus[d]]

\* The statuses start_execution accepts.
StartFrom == {"allowed", "approved"}

\* start_execution and try_execute: EXECUTING for shell, otherwise
\* SUCCEEDED "No executor".  Other statuses get 400 and change nothing.
ServerStart(a) ==
    IF srv[a] \in StartFrom
    THEN /\ srv' = [srv EXCEPT ![a] = IF tool = "shell" THEN "executing"
                                      ELSE "succeeded"]
         /\ effect' = [effect EXCEPT !["agent"] = TRUE]
    ELSE UNCHANGED <<srv, effect>>

\* approve_action: 400 unless pending_approval; the token the human read
\* is the action's only token and is valid until the status moves on.
ServerApproval(a, approve) ==
    IF srv[a] = "pending_approval"
    THEN /\ srv' = [srv EXCEPT ![a] = IF approve THEN "approved" ELSE "denied"]
         /\ effect' = [effect EXCEPT !["human"] = TRUE]
    ELSE UNCHANGED <<srv, effect>>

(***************************************************************************)
(* _make_request                                                           *)
(***************************************************************************)
\* Mutation of RetryOrRaise: the attempt bound is off by one.
RetryOrRaiseOffByOne(c, err) ==
    IF attempt[c] <= MaxRetries
    THEN attempt' = [attempt EXCEPT ![c] = @ + 1] /\ UNCHANGED <<pc, outcome>>
    ELSE /\ pc' = [pc EXCEPT ![c] = "raised"]
         /\ outcome' = [outcome EXCEPT ![c] = err]
         /\ UNCHANGED attempt

\* A failed attempt: try again while attempt < max_retries, else raise.
\* A 5xx or transport error sleeps with backoff first; a 400 does not.
RetryOrRaise(c, err) ==
    IF attempt[c] < MaxRetries
    THEN attempt' = [attempt EXCEPT ![c] = @ + 1] /\ UNCHANGED <<pc, outcome>>
    ELSE /\ pc' = [pc EXCEPT ![c] = "raised"]
         /\ outcome' = [outcome EXCEPT ![c] = err]
         /\ UNCHANGED attempt

\* The error an attempt that got no response raises once retries run out.
TransportError(fate) ==
    CASE fate = "lost_before"  -> "connection"
      [] fate = "lost_after"   -> "timeout"
      [] fate = "server_error" -> "server"

\* The check _make_request makes on a POST /v1/actions response:
\* FaraCorePolicyError when the status is denied, or the decision is deny
\* and the status is not pending_approval.
PolicyDenied(d) ==
    \/ DecisionStatus[d] = "denied"
    \/ d = "deny" /\ DecisionStatus[d] # "pending_approval"

\* A response arrived: the next request starts from attempt 0.
Answered(c) == attempt' = [attempt EXCEPT ![c] = 0]

Goto(c, where) == pc' = [pc EXCEPT ![c] = where] /\ UNCHANGED outcome
Return(c, s) ==
    /\ pc' = [pc EXCEPT ![c] = "returned"]
    /\ outcome' = [outcome EXCEPT ![c] = s]
Raise(c, err) ==
    /\ pc' = [pc EXCEPT ![c] = "raised"]
    /\ outcome' = [outcome EXCEPT ![c] = err]

(***************************************************************************)
(* submit_and_wait (the agent)                                             *)
(***************************************************************************)
AgentVars == <<polls, aid, args>>
HumanVars == <<target, verdict>>

\* The agent moves on to start_action.
BeginStart ==
    /\ Goto("agent", "start")
    /\ effect' = [effect EXCEPT !["agent"] = FALSE]
    /\ UNCHANGED polls

\* One attempt of submit_action's POST /v1/actions: the server creates
\* action a unless the request was lost on the way or answered 5xx.
SubmitAction(a, d, fate) ==
    IF fate \in {"answered", "lost_after"} THEN ServerSubmit(a, d)
    ELSE UNCHANGED srv

\* submit_and_wait: submit_action, whose _make_request raises
\* FaraCorePolicyError on a denial; pending_approval returns unless
\* require_approval; allowed is started when auto_start is set.
Submit ==
    /\ pc["agent"] = "submit"
    /\ \E fate \in Fates, a \in Ids, d \in Decisions :
         /\ srv[a] = "none"
         /\ SubmitAction(a, d, fate)
         /\ IF fate = "answered"
            THEN LET s == DecisionStatus[d] IN
                 /\ aid' = a /\ Answered("agent")
                 /\ CASE PolicyDenied(d) ->
                           Raise("agent", "policy") /\ UNCHANGED <<polls, effect>>
                      [] s = "pending_approval" /\ args.requireApproval ->
                           Goto("agent", "block") /\ polls' = 0
                           /\ UNCHANGED effect
                      [] s = "allowed" /\ args.autoStart -> BeginStart
                      [] OTHER ->
                           Return("agent", s) /\ UNCHANGED <<polls, effect>>
            ELSE /\ RetryOrRaise("agent", TransportError(fate))
                 /\ UNCHANGED <<aid, polls, effect>>
    /\ UNCHANGED <<tool, args, HumanVars>>

\* block_until_approved: check the deadline, get_action, act on the
\* status, sleep.
BlockDeadline ==
    /\ pc["agent"] = "block"
    /\ polls >= MaxPolls
    /\ Raise("agent", "timeout")
    /\ UNCHANGED <<srv, tool, attempt, effect, AgentVars, HumanVars>>

\* The status block_until_approved hands back to submit_and_wait.
AfterBlock(s) ==
    CASE s = "denied" -> Raise("agent", "denied") /\ UNCHANGED <<polls, effect>>
      [] s \in {"approved", "allowed"} /\ args.autoStart -> BeginStart
      [] OTHER -> Return("agent", s) /\ UNCHANGED <<polls, effect>>

BlockPoll ==
    /\ pc["agent"] = "block"
    /\ polls < MaxPolls
    /\ \E fate \in GetFates :
         IF fate = "answered"
         THEN /\ Answered("agent")
              /\ IF srv[aid] \in {"approved", "denied", "allowed",
                                  "succeeded", "failed"}
                 THEN AfterBlock(srv[aid])
                 ELSE polls' = polls + 1 /\ UNCHANGED <<pc, outcome, effect>>
         ELSE RetryOrRaise("agent", TransportError(fate))
              /\ UNCHANGED <<polls, effect>>
    /\ UNCHANGED <<srv, tool, aid, args, HumanVars>>

\* start_action: POST /v1/actions/{id}/start, then wait_for_completion.
\* A 400 (not executable) is an HTTPError below 500: retried at once.
Start ==
    /\ pc["agent"] = "start"
    /\ \E fate \in Fates :
         /\ IF fate \in {"answered", "lost_after"}
            THEN ServerStart(aid) ELSE UNCHANGED <<srv, effect>>
         /\ IF fate = "answered"
            THEN IF srv[aid] \in StartFrom
                 THEN Answered("agent") /\ Goto("agent", "wait") /\ polls' = 0
                 ELSE RetryOrRaise("agent", "error") /\ UNCHANGED polls
            ELSE RetryOrRaise("agent", TransportError(fate)) /\ UNCHANGED polls
    /\ UNCHANGED <<tool, aid, args, HumanVars>>

\* Mutation of WaitPoll: the deadline is never checked.
WaitPollNoDeadline ==
    /\ pc["agent"] = "wait"
    /\ \E fate \in GetFates :
         IF fate = "answered"
         THEN /\ Answered("agent")
              /\ IF srv[aid] \in {"succeeded", "failed", "denied"}
                 THEN Return("agent", srv[aid]) /\ UNCHANGED polls
                 ELSE UNCHANGED <<pc, outcome, polls>>
         ELSE RetryOrRaise("agent", TransportError(fate)) /\ UNCHANGED polls
    /\ UNCHANGED <<srv, tool, effect, aid, args, HumanVars>>

\* wait_for_completion: get_action, return on succeeded, failed or denied,
\* raise past the deadline, sleep.
WaitPoll ==
    /\ pc["agent"] = "wait"
    /\ \E fate \in GetFates :
         IF fate = "answered"
         THEN /\ Answered("agent")
              /\ CASE srv[aid] \in {"succeeded", "failed", "denied"} ->
                        Return("agent", srv[aid]) /\ UNCHANGED polls
                   [] polls >= MaxPolls ->
                        Raise("agent", "timeout") /\ UNCHANGED polls
                   [] OTHER -> polls' = polls + 1 /\ UNCHANGED <<pc, outcome>>
         ELSE RetryOrRaise("agent", TransportError(fate)) /\ UNCHANGED polls
    /\ UNCHANGED <<srv, tool, effect, aid, args, HumanVars>>

(***************************************************************************)
(* approve_action / deny_action with token=None (the human)                *)
(***************************************************************************)
\* The human picks an action it can see and a verdict.
HumanBegin ==
    /\ pc["human"] = "idle"
    /\ \E a \in Ids, v \in BOOLEAN :
         /\ srv[a] # "none"
         /\ target' = a /\ verdict' = v
    /\ Goto("human", "lookup")
    /\ effect' = [effect EXCEPT !["human"] = FALSE]
    /\ UNCHANGED <<srv, tool, attempt, AgentVars>>

\* get_action to read the token; FaraCoreError unless pending_approval.
HumanLookup ==
    /\ pc["human"] = "lookup"
    /\ \E fate \in GetFates :
         IF fate = "answered"
         THEN /\ Answered("human")
              /\ IF srv[target] = "pending_approval"
                 THEN Goto("human", "post") ELSE Raise("human", "error")
         ELSE RetryOrRaise("human", TransportError(fate))
    /\ UNCHANGED <<srv, tool, effect, AgentVars, HumanVars>>

\* POST /v1/actions/{id}/approval with the token and approve = verdict.
HumanPost ==
    /\ pc["human"] = "post"
    /\ \E fate \in Fates :
         /\ IF fate \in {"answered", "lost_after"}
            THEN ServerApproval(target, verdict) ELSE UNCHANGED <<srv, effect>>
         /\ IF fate = "answered"
            THEN IF srv[target] = "pending_approval"
                 THEN Answered("human") /\ Return("human", srv'[target])
                 ELSE RetryOrRaise("human", "error")
            ELSE RetryOrRaise("human", TransportError(fate))
    /\ UNCHANGED <<tool, AgentVars, HumanVars>>

(***************************************************************************)
(* The worker                                                              *)
(***************************************************************************)
\* The run_shell worker stores the outcome of the command.
Worker == \E a \in Ids, s \in {"succeeded", "failed", "timeout"} :
    /\ srv[a] = "executing"
    /\ srv' = [srv EXCEPT ![a] = s]
    /\ UNCHANGED <<tool, pc, attempt, outcome, effect, AgentVars,
                   HumanVars>>

(***************************************************************************)
(* Specification                                                           *)
(***************************************************************************)
Init ==
    /\ srv = [a \in Ids |-> "none"]
    /\ tool \in {"shell", "http"}
    /\ pc = [c \in Callers |-> IF c = "agent" THEN "submit" ELSE "idle"]
    /\ attempt = [c \in Callers |-> 0]
    /\ outcome = [c \in Callers |-> NULL]
    /\ effect = [c \in Callers |-> FALSE]
    /\ polls = 0
    /\ aid = NULL
    /\ args \in [requireApproval: BOOLEAN, autoStart: BOOLEAN]
    /\ target = NULL
    /\ verdict = FALSE

AgentStep == Submit \/ BlockDeadline \/ BlockPoll \/ Start \/ WaitPoll

HumanStep == HumanBegin \/ HumanLookup \/ HumanPost

\* The agent's call is over and the human is not in a call (a human who
\* never acts is allowed): the model may stop here.
Settled ==
    /\ pc["agent"] \in {"returned", "raised"}
    /\ pc["human"] \notin {"lookup", "post"}
    /\ UNCHANGED vars

Next == AgentStep \/ HumanStep \/ Worker \/ Settled

Spec == Init /\ [][Next]_vars

\* A caller that has begun an SDK call keeps running it: each call is a
\* plain loop in the caller's thread.  Nothing obliges the human to begin
\* one, nor the worker to finish the action.
FairSpec ==
    /\ Spec
    /\ WF_vars(AgentStep)
    /\ WF_vars(HumanLookup \/ HumanPost)

(***************************************************************************)
(* Properties                                                              *)
(***************************************************************************)
TypeOK ==
    /\ srv \in [Ids -> Statuses]
    /\ tool \in {"shell", "http"}
    /\ pc \in [Callers -> PCs]
    /\ attempt \in [Callers -> 0..MaxRetries]
    /\ outcome \in [Callers -> Statuses \cup Errors \cup {NULL}]
    /\ effect \in [Callers -> BOOLEAN]
    /\ polls \in 0..MaxPolls
    /\ aid \in Ids \cup {NULL}
    /\ args \in [requireApproval: BOOLEAN, autoStart: BOOLEAN]
    /\ target \in Ids \cup {NULL}
    /\ verdict \in BOOLEAN

\* One submit_and_wait call creates at most one action, however its
\* POST /v1/actions attempts are lost or retried by _make_request.
SubmitCreatesOne == Cardinality({a \in Ids : srv[a] # "none"}) <= 1

\* When start_action or approve_action/deny_action raises FaraCoreError
\* for a rejected request (400 not executable), no attempt of that request
\* took effect: their docstrings say they raise when the action is not in
\* a status the request applies to, and a caller reads it as "nothing
\* happened".  (A transport error after the last attempt may hide an
\* effect; that is the nature of a timeout.)
RaisedMeansNoEffect ==
    [][\A c \in Callers :
         /\ pc[c] \in {"start", "post"}
         /\ pc'[c] = "raised" /\ outcome'[c] = "error"
         => ~effect'[c]]_vars

\* Every SDK call returns or raises: submit_and_wait and approve_action /
\* deny_action end whatever the network does and whether or not the
\* action ever finishes, because _make_request bounds its attempts and
\* block_until_approved and wait_for_completion their deadlines.
CallsReturn ==
    \A c \in Callers :
      pc[c] \notin {"idle", "returned", "raised"} ~> pc[c] \in {"returned", "raised"}

=============================================================================
