----------------------------- MODULE MCGovernor -----------------------------
(***************************************************************************)
(* Model-checking instance of Governor: a few actions, request slots and  *)
(* event loops as model values.                                           *)
(***************************************************************************)
EXTENDS Governor, TLC

CONSTANTS a1, a2, r1, r2, r3, r4, l1, l2

\* One action: actions share nothing but the process, so one shows every
\* race on an action's row.  Three slots are the submit and two handlers
\* racing on its row; four add a third handler.
OneAction == {a1}
ThreeSlots == {r1, r2, r3}
FourSlots == {r1, r2, r3, r4}
OneLoop == {l1}
TwoLoops == {l1, l2}

\* The tool with an executor and one without.
BothTools == {"shell", "http"}
NoExecutorTool == {"http"}

\* Request slots are interchangeable.
SlotSymmetry == Permutations(Reqs)

=============================================================================
