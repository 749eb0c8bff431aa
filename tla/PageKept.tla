------------------------------ MODULE PageKept ------------------------------
(***************************************************************************)
(* PageAging with a memory of the looks of shrink_active_list() that kept  *)
(* a page active for its age, to state how soon a page that no task marks  *)
(* is deactivated.                                                         *)
(***************************************************************************)
EXTENDS PageAging

VARIABLE kept   \* how many of them there were, up to one more than there should,
                \* since the counter was last changed by anything else

keptVars == <<vars, kept>>

\* The pages shrink_active_list() is done with in this step.
Looked == {page[r] : r \in {s \in Reclaimers : rpc[s] = "age" /\ rpc'[s] = "active"}}

\* The pages whose counter a task resets, or page_check_references() stores.
Changed ==
    {marking[t] : t \in {u \in Tasks : marking[u] # None /\ marking'[u] = None}}
    \cup {page[r] : r \in {s \in Reclaimers :
                             rpc[s] \in {"check", "undo"} /\ rpc'[s] # rpc[s]}}

KeptInit == Init /\ kept = [p \in Pages |-> 0]

KeptNext ==
    /\ Next
    /\ kept' = [p \in Pages |->
                   IF p \in Changed THEN 0
                   ELSE IF p \notin Looked THEN kept[p]
                   ELSE IF ~PageActive'[p] THEN 0
                   ELSE IF kept[p] <= PG_REFERENCED_SHRINK_THRESHOLD
                   THEN kept[p] + 1 ELSE kept[p]]

KeptSpec == KeptInit /\ [][KeptNext]_keptVars

PressedKeptSpec == KeptSpec /\ MemoryPressure

\* No page is kept active for its age more than twice in a row.  The third look
\* deactivates it unless a task marked the page, or it went through a scan of
\* the inactive list, in between: whatever value the counter started from, also
\* one that wraps, though a reset may be lost and the page may change its user.
KeptAtMostTwice == \A p \in Pages : kept[p] <= PG_REFERENCED_SHRINK_THRESHOLD

-----------------------------------------------------------------------------
(* The inductive invariant behind it.                                      *)

KeptType == kept \in [Pages -> Nat]

\* The counter of a page that was kept tells how often; the one that has gone
\* round to 0 tells one less.
CounterOfKept ==
    \A p \in Pages :
       \/ kept[p] = 0
       \/ kept[p] = 1 /\ PG_referenced[p] \in {0, 1}
       \/ kept[p] = 2 /\ PG_referenced[p] = 1

\* Who looks at a page that was kept has loaded the counter it has.
LoadOfKept ==
    \A r \in Reclaimers : rpc[r] = "age" /\ kept[page[r]] > 0 =>
                             loaded[r] = PG_referenced[page[r]]

\* Whose counter page_check_references() has stored was not kept since.
UndoneIsNotKept == \A r \in Reclaimers : rpc[r] = "undo" => kept[page[r]] = 0

KeptInv == KeptType /\ CounterOfKept /\ LoadOfKept /\ UndoneIsNotKept

=============================================================================
