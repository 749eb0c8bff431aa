--------------------------- MODULE PageLookTwice ---------------------------
(***************************************************************************)
(* PageAging with a memory of which pages page_check_references() has      *)
(* spared, to state what its comment says of them.                         *)
(***************************************************************************)
EXTENDS PageAging

VARIABLE spared   \* the pages the last check of which spared them

\* The reclaimers that decide on a file page with young ptes in this step.
Deciding == {r \in Reclaimers : rpc[r] = "undo" /\ rpc'[r] = "shrink"}

\* The reclaimers that find no young pte, or ignore it.
Ignoring == {r \in Reclaimers : rpc[r] = "check" /\ rpc'[r] = "reclaim"}

LookInit == Init /\ spared = {}

LookNext ==
    /\ Next
    /\ spared' = {p \in (spared \ {page[r] : r \in Ignoring})
                           \cup {page[r] : r \in Deciding} :
                     ~PageActive'[p] /\ list'[p] # "free"}

LookSpec == LookInit /\ [][LookNext]_<<vars, spared>>

\* The comment in page_check_references(): "Mark it and spare it for another
\* trip around the inactive list.  Another page table reference will lead to
\* its activation."
SecondReferenceActivates ==
    [][\A r \in Deciding :
          page[r] \in spared => PageActive'[page[r]]]_<<vars, spared>>

=============================================================================
