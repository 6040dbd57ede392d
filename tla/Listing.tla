------------------------------ MODULE Listing ------------------------------
(***************************************************************************)
(* Offset pagination of GET /v1/actions while actions are submitted and    *)
(* approved.  A caller pages through sdk list_actions(limit, offset,      *)
(* status) with offset += limit until a page comes back shorter than      *)
(* limit, the usage spec.md section 4.1 describes ("pagination is         *)
(* offset-based").  Each page is one request taken whole: the SDK call,   *)
(* the list_actions handler of server/main.py and one atomic query of    *)
(* SQLiteStore.list_actions: SELECT ... WHERE status = ? ORDER BY          *)
(* created_at DESC LIMIT ? OFFSET ?.  Between two pages other requests    *)
(* insert rows and move pending_approval rows on.                          *)
(*                                                                         *)
(* created_at is datetime.utcnow() taken in Action.new, before            *)
(* create_action commits; with several server processes a row may commit  *)
(* after a younger one, so a new row takes any unused timestamp.           *)
(***************************************************************************)
EXTENDS Naturals, Sequences, FiniteSets, SequencesExt

CONSTANTS
    Ids,      \* action ids
    Limit,    \* the limit the caller passes (default 20)
    Filters,  \* status filters the caller may pass; "any" is no filter
    NULL

ASSUME Limit \in Nat \ {0} /\ Filters \subseteq {"any", "pending_approval"}

VARIABLES
    table,  \* table[a]: a's row [created, status], or NULL before insertion
    scan    \* the paging caller: where it is, its filter, offset and pages

vars == <<table, scan>>

\* created_at values: one per row, in any commit order.
Stamps == 1..Cardinality(Ids)

Statuses == {"allowed", "denied", "pending_approval", "approved"}

(***************************************************************************)
(* Other requests on the table                                            *)
(***************************************************************************)
\* Mutation of Submit: the status is left as Action.new set it.
SubmitPendingDecision(a) ==
    /\ table[a] = NULL
    /\ \E t \in Stamps \ {table[b].created : b \in {b \in Ids : table[b] # NULL}} :
         table' = [table EXCEPT ![a] = [created |-> t, status |-> "pending_decision"]]
    /\ UNCHANGED scan

\* submit_action: create_action inserts a row with the policy's status.
Submit(a) ==
    /\ table[a] = NULL
    /\ \E t \in Stamps \ {table[b].created : b \in {b \in Ids : table[b] # NULL}},
          s \in {"allowed", "denied", "pending_approval"} :
         table' = [table EXCEPT ![a] = [created |-> t, status |-> s]]
    /\ UNCHANGED scan

\* approve_action: a pending row becomes approved or denied.
Approve(a) ==
    /\ table[a] # NULL /\ table[a].status = "pending_approval"
    /\ \E s \in {"approved", "denied"} :
         table' = [table EXCEPT ![a].status = s]
    /\ UNCHANGED scan

(***************************************************************************)
(* One page: sdk list_actions -> GET /v1/actions -> store.list_actions     *)
(***************************************************************************)
\* The WHERE clause built from the filters.
Matches(a, f) == table[a] # NULL /\ (f = "any" \/ table[a].status = f)

\* ORDER BY created_at DESC over the matching rows.
Ordered(f) ==
    SetToSortSeq({a \in Ids : Matches(a, f)},
                 LAMBDA x, y : table[x].created > table[y].created)

\* Mutation of StoreList: LIMIT and OFFSET bound in the wrong order.
StoreListSwapped(f, off) ==
    LET rows == Ordered(f) IN SubSeq(rows, Limit + 1, Min({Len(rows), Limit + off}))

\* LIMIT limit OFFSET offset.
StoreList(f, off) ==
    LET rows == Ordered(f) IN SubSeq(rows, off + 1, Min({Len(rows), off + Limit}))

\* The caller's loop: append the page, stop at a page shorter than limit,
\* otherwise ask for the next one at offset + limit.
Advance(rows) ==
    [scan EXCEPT !.seen = @ \o rows, !.offset = @ + Limit,
                 !.pc = IF Len(rows) < Limit THEN "done" ELSE "paging"]

\* The list_actions handler answers with the query's rows.
ListPage ==
    /\ scan.pc = "paging"
    /\ scan' = Advance(StoreList(scan.filter, scan.offset))
    /\ UNCHANGED table

\* The query raises sqlite3.Error: the inner except re-raises it, the
\* outer one logs it and returns [], a short page.
ListPageStoreError ==
    /\ scan.pc = "paging"
    /\ scan' = [Advance(<<>>) EXCEPT !.failed = TRUE]
    /\ UNCHANGED table

\* sdk list_actions: the GET fails on every attempt of _make_request,
\* which raises.
ListPageRaised ==
    /\ scan.pc = "paging"
    /\ scan' = [scan EXCEPT !.pc = "raised"]
    /\ UNCHANGED table

(***************************************************************************)
(* The caller                                                              *)
(***************************************************************************)
\* A caller starts at offset 0 with one filter.  base records the rows
\* that matched the filter when the scan began.
BeginScan ==
    /\ scan.pc = "idle"
    /\ \E f \in Filters :
         scan' = [pc |-> "paging", filter |-> f, offset |-> 0, seen |-> <<>>,
                  base |-> {a \in Ids : Matches(a, f)}, failed |-> FALSE]
    /\ UNCHANGED table

Init ==
    /\ table = [a \in Ids |-> NULL]
    /\ scan = [pc |-> "idle", filter |-> "any", offset |-> 0, seen |-> <<>>,
               base |-> {}, failed |-> FALSE]

\* Every id is taken and the scan is over: the model stops here.
Settled ==
    /\ \A a \in Ids : table[a] # NULL
    /\ scan.pc \in {"done", "raised"}
    /\ UNCHANGED vars

Next ==
    \/ \E a \in Ids : Submit(a) \/ Approve(a)
    \/ BeginScan \/ ListPage \/ ListPageStoreError \/ ListPageRaised
    \/ Settled

Spec == Init /\ [][Next]_vars

(***************************************************************************)
(* Properties                                                              *)
(***************************************************************************)
TypeOK ==
    /\ table \in [Ids -> [created : Stamps, status : Statuses] \cup {NULL}]
    /\ scan.pc \in {"idle", "paging", "done", "raised"}
    /\ scan.filter \in Filters \cup {"any"}
    /\ scan.offset \in Nat
    /\ scan.seen \in Seq(Ids)
    /\ scan.base \subseteq Ids
    /\ scan.failed \in BOOLEAN

\* A scan that reached a short page, none of whose queries failed, has
\* seen every action that matched its filter when it began and still
\* matches it: rows inserted between two pages, at any created_at, and
\* rows leaving the filter may shift the offsets, yet list_actions with
\* offset += limit must not skip a row that stayed in the listing.
ScanComplete ==
    scan.pc = "done" /\ ~scan.failed =>
        \A a \in scan.base : Matches(a, scan.filter) => Contains(scan.seen, a)

=============================================================================
