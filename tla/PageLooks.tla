----------------------------- MODULE PageLooks -----------------------------
(***************************************************************************)
(* PageAging with a memory of the scans that left a page older, to state   *)
(* what the counter PG_referenced is for: a page that a task has marked,   *)
(* or has just taken into use, is deactivated for its age only after as    *)
(* many of them as the threshold says.  The counter falls short of that in *)
(* two ways, which the memory allows for: a reset while a scan is between  *)
(* its load and its last store may be lost, and a page taken into use      *)
(* starts with the age its last user left.                                 *)
(***************************************************************************)
EXTENDS PageAging

CONSTANT Watched   \* bound: the pages whose scans are remembered

VARIABLE due   \* the scans that have yet to leave the page older before it
               \* may be deactivated for its age

lookVars == <<vars, due>>

\* A task resets the page's counter, or takes the page into use, in this step.
Reset(p) == \E t \in Tasks : marking[t] = p /\ marking'[t] = None
Taken(p) == list[p] = "free" /\ ~used[p] /\ used'[p]

\* The reclaimers that end shrink_active_list()'s look at their page.
Aging == {r \in Reclaimers : rpc[r] = "age" /\ rpc'[r] = "active"}

\* Those that end page_check_references()'s, but for the ones that have yet to
\* set the counter back: these do not leave the page older.
Checking == {r \in Reclaimers : rpc[r] = "check" /\ rpc'[r] \in {"reclaim", "shrink"}}

\* A reclaimer has loaded the page's counter and will store it (again).
Counting(p) == \E r \in Reclaimers :
                  rpc[r] \in {"age", "check", "undo"} /\ page[r] = p

\* The scans the page has ahead of it after this step.
Due(p) ==
    IF Reset(p)
    THEN IF p \in Watched /\ ~Counting(p) THEN PG_REFERENCED_SHRINK_THRESHOLD ELSE 0
    ELSE IF Taken(p)
    THEN IF p \in Watched /\ PG_referenced[p] = 0
         THEN PG_REFERENCED_SHRINK_THRESHOLD ELSE 0
    ELSE IF due[p] > 0 /\ \E r \in Aging \cup Checking : page[r] = p
    THEN due[p] - 1
    ELSE due[p]

LooksInit == Init /\ due = [p \in Pages |-> 0]

LooksNext == Next /\ due' = [p \in Pages |-> Due(p)]

LooksSpec == LooksInit /\ [][LooksNext]_lookVars

\* shrink_active_list() deactivates a page for its age only when the scan is
\* the second one, since the page was marked or taken into use, that left the
\* page older: whatever the other scans did to it in between, and however
\* often page_check_references() set the counter back.
DeactivatedAfterTwoLooks ==
    [][\A r \in Aging : PageActive'[page[r]] \/ due'[page[r]] = 0]_lookVars

-----------------------------------------------------------------------------
(* The inductive invariant behind it.                                      *)

DueType == due \in [Pages -> 0..PG_REFERENCED_SHRINK_THRESHOLD]

\* A page with scans ahead of it is younger than the threshold by these.
\* Its counter may be one more while a reclaimer has yet to set it back.
CounterTells ==
    \A p \in Pages : due[p] > 0 =>
       \/ PG_referenced[p] + due[p] <= PG_REFERENCED_SHRINK_THRESHOLD
       \/ \E r \in Reclaimers : rpc[r] = "undo" /\ page[r] = p

\* The counter such a page's reclaimer has loaded is the one the page has, but
\* for what the reclaimer has stored itself.
LoadsAreFresh ==
    \A r \in Reclaimers :
       rpc[r] \in {"age", "check", "undo"} /\ due[page[r]] > 0 =>
          /\ loaded[r] + due[page[r]] <= PG_REFERENCED_SHRINK_THRESHOLD
          /\ PG_referenced[page[r]] =
                IF rpc[r] = "undo" THEN loaded[r] + 1 ELSE loaded[r]

LooksInv == DueType /\ CounterTells /\ LoadsAreFresh

=============================================================================
