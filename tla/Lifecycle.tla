----------------------------- MODULE Lifecycle -----------------------------
(***************************************************************************)
(* The action lifecycle the governor promises (spec.md section 4.3): the  *)
(* status of every action only moves along the edges of the state machine *)
(* table, and a terminal status never changes.  This is the abstract      *)
(* specification; Governor.tla is checked against it through a refinement *)
(* mapping of the stored status.                                          *)
(***************************************************************************)
CONSTANTS Ids

VARIABLE status    \* status[a]: "none" until a is submitted, then its status

Terminal == {"denied", "succeeded", "failed", "timeout"}

Statuses == {"none", "allowed", "denied", "pending_approval", "approved",
             "executing"} \cup Terminal

\* One edge of the table, for one action.
Move(a, from, to) ==
    /\ status[a] \in from
    /\ status' = [status EXCEPT ![a] = to]

\* pending_decision is never observed: submit decides synchronously.
Submit(a)     == \E to \in {"allowed", "denied", "pending_approval"} :
                    Move(a, {"none"}, to)
Approve(a)    == Move(a, {"pending_approval"}, "approved")
Deny(a)       == Move(a, {"pending_approval"}, "denied")
Start(a)      == Move(a, {"allowed", "approved"}, "executing")
\* Section 4.4: with no executor for the tool the action succeeds at once.
NoExecutor(a) == Move(a, {"allowed", "approved"}, "succeeded")
Finish(a)     == \E to \in {"succeeded", "failed", "timeout"} :
                    Move(a, {"executing"}, to)

Init == status = [a \in Ids |-> "none"]

Next == \E a \in Ids :
          \/ Submit(a) \/ Approve(a) \/ Deny(a)
          \/ Start(a) \/ NoExecutor(a) \/ Finish(a)

Spec == Init /\ [][Next]_status

=============================================================================
