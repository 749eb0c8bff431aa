----------------------------- MODULE PageAging -----------------------------
(***************************************************************************)
(* The page replacement algorithm of Project 2: the kernel's LRU lists     *)
(* with the counter PG_referenced that the project adds to struct page,    *)
(* as the files mm/vmscan.c and mm/swap.c use it.                          *)
(*                                                                         *)
(* Several reclaimers (kswapd and tasks in direct reclaim) shrink the      *)
(* lists while tasks use, drop and mark pages.  The kernel is built for    *)
(* one processor with preemption: a section under zone->lru_lock is one    *)
(* step, anything else can be preempted, between the load and the store of *)
(* ++page->PG_referenced too.  A list is the set of its pages: a scan      *)
(* takes any of them.  No page is mlocked or part of a compound page.      *)
(***************************************************************************)
EXTENDS Naturals, FiniteSets

CONSTANTS
    Pages,
    Anon,        \* the pages backed by swap (PageSwapBacked)
    Exec,        \* the pages mapped executable (VM_EXEC)
    Reclaimers,  \* the contexts that call shrink_zone()
    kswapd,      \* one of them
    Tasks,       \* the tasks that call mark_page_accessed()
    Swap,        \* there is swap space (total_swap_pages)
    inactive_ratio, \* zone->inactive_ratio
    WordSize,    \* how many values an unsigned long has
    MaxPtes,     \* bound: how many page tables map a page
    None         \* no page, no reclaimer

ASSUME PagesOK ==
    /\ Anon \subseteq Pages /\ Exec \subseteq Pages
    /\ kswapd \in Reclaimers
    /\ Swap \in BOOLEAN
    /\ inactive_ratio \in Nat \ {0}
    /\ WordSize \in Nat /\ WordSize > 2
    /\ MaxPtes \in Nat
    /\ None \notin Pages \cup Reclaimers

PG_REFERENCED_SHRINK_THRESHOLD == 2

VARIABLES
    list,           \* the list the link page->lru is on
    by,             \* the reclaimer whose list that is
    PageLRU, PageActive,
    PG_referenced,
    young,          \* how many of a page's ptes have the young bit set
    used,           \* the page is in the page cache or in a page table
    dying,          \* the last reference is gone, the page is being released
    marking,        \* the page each task is marking
    activating,     \* it found the page inactive and will activate it
    rpc,            \* where each reclaimer is
    file,           \* the active list it scans is that of the file pages
    page,           \* the page it works on
    references,     \* referenced_ptes
    loaded,         \* the value of PG_referenced it loaded (referenced_time)
    reclaim_mode    \* sc->reclaim_mode

pageVars == <<list, by, PageLRU, PageActive, PG_referenced, young, used, dying>>
taskVars == <<marking, activating>>
scanVars == <<rpc, file, page, references, loaded, reclaim_mode>>
vars     == <<list, by, PageLRU, PageActive, PG_referenced, young, used, dying,
              marking, activating, rpc, file, page, references, loaded,
              reclaim_mode>>

LruLists  == {"active", "inactive"}
ScanLists == {"l_hold", "l_active", "l_inactive", "page_list", "ret_pages",
              "free_pages"}

Labels    == {"idle", "activeStart", "isolateActive", "active", "age",
              "isolateInactive", "count", "shrink", "check", "undo", "reclaim"}

On(r, l)  == {p \in Pages : list[p] = l /\ by[p] = r}
OfKind(isfile)  == {p \in Pages : p \notin Anon <=> isfile}
SameKind(p, q)  == p \in Anon <=> q \in Anon
Marked(p) == \E t \in Tasks : marking[t] = p

-----------------------------------------------------------------------------
(* The tasks.                                                              *)

\* __pagevec_lru_add(): the pages pvec go to the list they are for, and the
\* pagevec's references are dropped.
pagevec_lru_add(pvec) ==
    /\ PageLRU' = [p \in Pages |-> PageLRU[p] \/ p \in pvec]
    /\ PageActive' = [p \in Pages |-> PageActive[p] \/ p \in pvec \cap Anon]
    /\ list' = [p \in Pages |-> IF p \notin pvec THEN list[p]
                                ELSE IF p \in Anon THEN "active" ELSE "inactive"]
    /\ dying' = [p \in Pages |-> \/ dying[p]
                                 \/ p \in pvec /\ ~used'[p] /\ ~Marked(p)]

\* A free page is taken into use and added to the pagevec for its list.  When
\* the pagevec is full with it, its pages go to the list; pages that are not
\* modelled are in it too, so it can be full at any time.  Nobody sets
\* PG_referenced: the counter keeps the value of the last use.
lru_cache_add(p) ==
    /\ list[p] = "free"
    /\ used' = [used EXCEPT ![p] = TRUE]
    /\ \/ /\ list' = [list EXCEPT ![p] = "pagevec"]
          /\ UNCHANGED <<PageLRU, PageActive, dying>>
       \/ pagevec_lru_add({p} \cup {q \in Pages : list[q] = "pagevec" /\ SameKind(p, q)})
    /\ UNCHANGED <<by, PG_referenced, young, taskVars, scanVars>>

\* A task uses the page through one more of the page tables that map it.
Touch(p) ==
    /\ used[p] /\ young[p] < MaxPtes
    /\ young' = [young EXCEPT ![p] = @ + 1]
    /\ UNCHANGED <<list, by, PageLRU, PageActive, PG_referenced, used, dying,
                   taskVars, scanVars>>

\* The page leaves the page cache and the page tables.  Who drops the last
\* reference (a scan and a pagevec hold one too) has to release the page.
Drop(p) ==
    /\ used[p]
    /\ used' = [used EXCEPT ![p] = FALSE]
    /\ young' = [young EXCEPT ![p] = 0]
    /\ dying' = [dying EXCEPT ![p] = list[p] \in LruLists /\ ~Marked(p)]
    /\ UNCHANGED <<list, by, PageLRU, PageActive, PG_referenced, taskVars,
                   scanVars>>

\* release_pages(): the page is taken off the LRU, if it is there, and freed.
release_pages(p) ==
    /\ dying[p]
    /\ dying' = [dying EXCEPT ![p] = FALSE]
    /\ IF PageLRU[p]
       THEN /\ PageLRU' = [PageLRU EXCEPT ![p] = FALSE]
            /\ PageActive' = [PageActive EXCEPT ![p] = FALSE]
       ELSE UNCHANGED <<PageLRU, PageActive>>
    /\ list' = [list EXCEPT ![p] = "free"]
    /\ by' = [by EXCEPT ![p] = None]
    /\ UNCHANGED <<PG_referenced, young, used, taskVars, scanVars>>

\* mark_page_accessed(), with its caller's reference to the page: the task
\* tests without a lock whether the page is on the inactive list, ...
MarkTest(t, p) ==
    /\ marking[t] = None /\ used[p]
    /\ marking' = [marking EXCEPT ![t] = p]
    /\ activating' = [activating EXCEPT ![t] = PageLRU[p] /\ ~PageActive[p]]
    /\ UNCHANGED <<pageVars, scanVars>>

\* Mutant: the test is not made again under the lock.
activate_page_blind(t) ==
    LET p == marking[t] IN
    /\ p # None /\ activating[t]
    /\ activating' = [activating EXCEPT ![t] = FALSE]
    /\ PageActive' = [PageActive EXCEPT ![p] = TRUE]
    /\ list' = [list EXCEPT ![p] = "active"]
    /\ UNCHANGED <<by, PageLRU, PG_referenced, young, used, dying, marking,
                   scanVars>>

\* ... if so activates it, unless it is not there any more, ...
activate_page(t) ==
    LET p == marking[t] IN
    /\ p # None /\ activating[t]
    /\ activating' = [activating EXCEPT ![t] = FALSE]
    /\ IF PageLRU[p] /\ ~PageActive[p]
       THEN /\ PageActive' = [PageActive EXCEPT ![p] = TRUE]
            /\ list' = [list EXCEPT ![p] = "active"]
       ELSE UNCHANGED <<PageActive, list>>
    /\ UNCHANGED <<by, PageLRU, PG_referenced, young, used, dying, marking,
                   scanVars>>

\* ... and resets the counter.
MarkReset(t) ==
    LET p == marking[t] IN
    /\ p # None /\ ~activating[t]
    /\ PG_referenced' = [PG_referenced EXCEPT ![p] = 0]
    /\ marking' = [marking EXCEPT ![t] = None]
    /\ dying' = [dying EXCEPT ![p] =
                    /\ list[p] \in LruLists /\ ~used[p]
                    /\ \A o \in Tasks \ {t} : marking[o] # p]
    /\ UNCHANGED <<list, by, PageLRU, PageActive, young, used, activating,
                   scanVars>>

\* deactivate_page() of a page no page table maps.
lru_deactivate_fn(p) ==
    /\ PageLRU[p] /\ used[p] /\ young[p] = 0
    /\ PageActive' = [PageActive EXCEPT ![p] = FALSE]
    /\ list' = [list EXCEPT ![p] = "inactive"]
    /\ UNCHANGED <<by, PageLRU, PG_referenced, young, used, dying, taskVars,
                   scanVars>>

-----------------------------------------------------------------------------
(* What the scans have in common.                                          *)

Goto(r, l) == rpc' = [rpc EXCEPT ![r] = l]

\* Every scan sets the reclaim mode before it reads it: what a scan leaves in it
\* does not matter.
EndScan(r) ==
    /\ Goto(r, "idle")
    /\ reclaim_mode' = [reclaim_mode EXCEPT ![r] = "single"]

\* lru_add_drain(): all pagevecs are emptied.
lru_add_drain ==
    /\ UNCHANGED <<by, PG_referenced, young, used, taskVars>>
    /\ pagevec_lru_add({p \in Pages : list[p] = "pagevec"})

\* Mutant: get_page() instead of get_page_unless_zero().
isolate_lru_pages_blind(r, S, l) ==
    /\ \A p \in S : PageLRU[p]
    /\ PageLRU' = [p \in Pages |-> PageLRU[p] /\ p \notin S]
    /\ list' = [p \in Pages |-> IF p \in S THEN l ELSE list[p]]
    /\ by' = [p \in Pages |-> IF p \in S THEN r ELSE by[p]]
    /\ UNCHANGED <<PageActive, PG_referenced, young, used, dying, taskVars>>

\* isolate_lru_pages(): the scan takes pages off the LRU and holds them by a
\* reference, unless their last reference is gone.
isolate_lru_pages(r, S, l) ==
    /\ \A p \in S : PageLRU[p] /\ ~dying[p]
    /\ PageLRU' = [p \in Pages |-> PageLRU[p] /\ p \notin S]
    /\ list' = [p \in Pages |-> IF p \in S THEN l ELSE list[p]]
    /\ by' = [p \in Pages |-> IF p \in S THEN r ELSE by[p]]
    /\ UNCHANGED <<PageActive, PG_referenced, young, used, dying, taskVars>>

\* The pages A go back to the active list and the pages I to the inactive one,
\* and the scan drops its references; a page nobody else holds is freed, and so
\* are the pages in F.
PutBack(r, A, I, F) ==
    LET free == F \cup {p \in A \cup I : ~used[p] /\ ~Marked(p)} IN
    /\ PageLRU' = [p \in Pages |-> PageLRU[p] \/ p \in (A \cup I) \ free]
    /\ PageActive' = [p \in Pages |-> PageActive[p] /\ p \notin free]
    /\ list' = [p \in Pages |-> IF p \in free THEN "free"
                                ELSE IF p \in A THEN "active"
                                ELSE IF p \in I THEN "inactive" ELSE list[p]]
    /\ by' = [p \in Pages |-> IF p \in A \cup I \cup F THEN None ELSE by[p]]
    /\ EndScan(r)
    /\ UNCHANGED <<PG_referenced, young, used, dying, taskVars, file, page,
                   references, loaded>>

\* page_referenced() of a page the scan has locked: the young ptes, which it
\* makes old.
page_referenced(r, p) ==
    /\ references' = [references EXCEPT ![r] = young[p]]
    /\ young' = [young EXCEPT ![p] = 0]

-----------------------------------------------------------------------------
(* shrink_active_list()                                                    *)

\* Whether active pages of the kind need to be deactivated: file pages until
\* half of them are inactive, anonymous pages if they can be swapped out.
inactive_list_is_low(isfile) ==
    LET active   == Cardinality({p \in OfKind(isfile) : list[p] = "active"})
        inactive == Cardinality({p \in OfKind(isfile) : list[p] = "inactive"})
    IN  IF isfile THEN active > inactive
        ELSE Swap /\ inactive * inactive_ratio < active

\* shrink_list(), for an active list: the list is scanned only in that case.
shrink_list(r, isfile) ==
    /\ rpc[r] = "idle"
    /\ inactive_list_is_low(isfile)
    /\ Goto(r, "activeStart")
    /\ file' = [file EXCEPT ![r] = isfile]
    /\ UNCHANGED <<pageVars, taskVars, page, references, loaded, reclaim_mode>>

ActiveStart(r) ==
    /\ rpc[r] = "activeStart"
    /\ lru_add_drain
    /\ Goto(r, "isolateActive")
    /\ reclaim_mode' = [reclaim_mode EXCEPT ![r] = "single"]
    /\ UNCHANGED <<file, page, references, loaded>>

\* Some pages of the active list.
ActiveIsolate(r) ==
    /\ rpc[r] = "isolateActive"
    /\ \E S \in SUBSET {p \in OfKind(file[r]) : list[p] = "active"} :
          isolate_lru_pages(r, S, "l_hold")
    /\ Goto(r, "active")
    /\ file' = [file EXCEPT ![r] = FALSE]
    /\ UNCHANGED <<page, references, loaded, reclaim_mode>>

\* Mutant: an executable mapping is enough.
UsedAsCodeOnce(p, locked) == locked /\ p \in Exec \ Anon

\* page_referenced() finds the file page used through an executable mapping.
UsedAsCode(p, locked) == locked /\ young[p] > 0 /\ p \in Exec \ Anon

\* A page used as code stays active; any other page grows older, which begins
\* with loading its counter.  page_referenced() makes the ptes old, unless it
\* fails to lock the page (a file page): then it reports a reference, but no
\* mapping.
ActiveTake(r, p) ==
    /\ rpc[r] = "active"
    /\ p \in On(r, "l_hold")
    /\ \E locked \in IF p \in Anon THEN {TRUE} ELSE BOOLEAN :
          /\ young' = [young EXCEPT ![p] = IF locked THEN 0 ELSE @]
          /\ IF UsedAsCode(p, locked)
             THEN /\ list' = [list EXCEPT ![p] = "l_active"]
                  /\ UNCHANGED <<rpc, page, loaded>>
             ELSE /\ Goto(r, "age")
                  /\ page' = [page EXCEPT ![r] = p]
                  /\ loaded' = [loaded EXCEPT ![r] = PG_referenced[p]]
                  /\ UNCHANGED list
    /\ UNCHANGED <<by, PageLRU, PageActive, PG_referenced, used, dying,
                   taskVars, file, references, reclaim_mode>>

\* Mutant: the age is computed and not stored.
ActiveAgeForgets(r) ==
    LET p   == page[r]
        age == (loaded[r] + 1) % WordSize
    IN
    /\ rpc[r] = "age"
    /\ IF age < PG_REFERENCED_SHRINK_THRESHOLD
       THEN /\ list' = [list EXCEPT ![p] = "l_active"]
            /\ UNCHANGED PageActive
       ELSE /\ list' = [list EXCEPT ![p] = "l_inactive"]
            /\ PageActive' = [PageActive EXCEPT ![p] = FALSE]
    /\ Goto(r, "active")
    /\ page' = [page EXCEPT ![r] = None]
    /\ loaded' = [loaded EXCEPT ![r] = 0]
    /\ UNCHANGED <<PG_referenced, by, PageLRU, young, used, dying, taskVars, file,
                   references, reclaim_mode>>

\* The counter is stored; a page that is old enough is deactivated.
ActiveAge(r) ==
    LET p   == page[r]
        age == (loaded[r] + 1) % WordSize
    IN
    /\ rpc[r] = "age"
    /\ PG_referenced' = [PG_referenced EXCEPT ![p] = age]
    /\ IF age < PG_REFERENCED_SHRINK_THRESHOLD
       THEN /\ list' = [list EXCEPT ![p] = "l_active"]
            /\ UNCHANGED PageActive
       ELSE /\ list' = [list EXCEPT ![p] = "l_inactive"]
            /\ PageActive' = [PageActive EXCEPT ![p] = FALSE]
    /\ Goto(r, "active")
    /\ page' = [page EXCEPT ![r] = None]
    /\ loaded' = [loaded EXCEPT ![r] = 0]
    /\ UNCHANGED <<by, PageLRU, young, used, dying, taskVars, file, references,
                   reclaim_mode>>

\* move_active_pages_to_lru(), twice.
ActiveDone(r) ==
    /\ rpc[r] = "active"
    /\ On(r, "l_hold") = {}
    /\ PutBack(r, On(r, "l_active"), On(r, "l_inactive"), {})

shrink_active_list(r) ==
    \/ \E isfile \in BOOLEAN : shrink_list(r, isfile)
    \/ ActiveStart(r) \/ ActiveIsolate(r) \/ ActiveAge(r) \/ ActiveDone(r)
    \/ \E p \in Pages : ActiveTake(r, p)

-----------------------------------------------------------------------------
(* shrink_inactive_list(), with shrink_page_list()                         *)

\* Lumpy reclaim is for allocations of more than one page.
InactiveStart(r, lumpy) ==
    /\ rpc[r] = "idle"
    /\ lru_add_drain
    /\ Goto(r, "isolateInactive")
    /\ reclaim_mode' =
          [reclaim_mode EXCEPT ![r] = IF lumpy THEN "lumpyAsync" ELSE "single"]
    /\ UNCHANGED <<file, page, references, loaded>>

\* Pages of one inactive list; lumpy reclaim adds their neighbours in memory,
\* from any list.
InactiveIsolate(r) ==
    /\ rpc[r] = "isolateInactive"
    /\ \E S \in SUBSET {p \in Pages : list[p] \in LruLists} :
          /\ IF reclaim_mode[r] = "single"
             THEN /\ \A p \in S : list[p] = "inactive"
                  /\ S \subseteq Anon \/ S \cap Anon = {}
             ELSE S # {} => \E p \in S : list[p] = "inactive"
          /\ isolate_lru_pages(r, S, "page_list")
          /\ \/ S = {} /\ EndScan(r)
             \/ S # {} /\ Goto(r, "count") /\ UNCHANGED reclaim_mode
    /\ UNCHANGED <<file, page, references, loaded>>

\* update_isolated_counts() clears the flag of the active ones among them.
update_isolated_counts(r) ==
    /\ rpc[r] = "count"
    /\ PageActive' = [p \in Pages |-> PageActive[p] /\ p \notin On(r, "page_list")]
    /\ Goto(r, "shrink")
    /\ UNCHANGED <<list, by, PageLRU, PG_referenced, young, used, dying,
                   taskVars, file, page, references, loaded, reclaim_mode>>

\* A page whose lock is taken, that may not be unmapped, or that is being
\* written back is kept; only the last leaves the reclaim mode as it is.
PageSkip(r, p) ==
    /\ rpc[r] = "shrink"
    /\ p \in On(r, "page_list")
    /\ list' = [list EXCEPT ![p] = "ret_pages"]
    /\ reclaim_mode' \in {reclaim_mode, [reclaim_mode EXCEPT ![r] = "single"]}
    /\ UNCHANGED <<by, PageLRU, PageActive, PG_referenced, young, used, dying,
                   taskVars, file, rpc, page, references, loaded>>

\* page_check_references() begins: the page tables, and the counter's load.
PageCheck(r, p) ==
    /\ rpc[r] = "shrink"
    /\ p \in On(r, "page_list")
    /\ page_referenced(r, p)
    /\ Goto(r, "check")
    /\ page' = [page EXCEPT ![r] = p]
    /\ loaded' = [loaded EXCEPT ![r] = PG_referenced[p]]
    /\ UNCHANGED <<list, by, PageLRU, PageActive, PG_referenced, used, dying,
                   taskVars, file, reclaim_mode>>

\* The reclaimer is done with its page, which goes to list l.
PageTo(r, l) ==
    /\ list' = [list EXCEPT ![page[r]] = l]
    /\ Goto(r, "shrink")
    /\ page' = [page EXCEPT ![r] = None]
    /\ loaded' = [loaded EXCEPT ![r] = 0]
    /\ references' = [references EXCEPT ![r] = 0]

reset_reclaim_mode(r) == reclaim_mode' = [reclaim_mode EXCEPT ![r] = "single"]

\* The labels keep_locked and activate_locked.
KeepLocked(r) ==
    /\ PageTo(r, "ret_pages")
    /\ reset_reclaim_mode(r)
    /\ UNCHANGED PageActive

\* Mutant: the reclaim mode is left as it is.
ActivateLockedLumpy(r) ==
    /\ PageTo(r, "ret_pages")
    /\ PageActive' = [PageActive EXCEPT ![page[r]] = TRUE]
    /\ UNCHANGED reclaim_mode

ActivateLocked(r) ==
    /\ PageTo(r, "ret_pages")
    /\ reset_reclaim_mode(r)
    /\ PageActive' = [PageActive EXCEPT ![page[r]] = TRUE]

\* The counter is stored, and the first decisions of page_check_references().
\* (PAGEREF_RECLAIM_CLEAN differs from PAGEREF_RECLAIM for dirty pages only.
\* What is not read any more, here and elsewhere, is set to 0 or None.)
PageCheckAge(r) ==
    LET p == page[r] IN
    /\ rpc[r] = "check"
    /\ PG_referenced' = [PG_referenced EXCEPT ![p] = (loaded[r] + 1) % WordSize]
    /\ \/ /\ reclaim_mode[r] # "single" \/ references[r] = 0
          /\ Goto(r, "reclaim")
          /\ references' = [references EXCEPT ![r] = 0]
          /\ loaded' = [loaded EXCEPT ![r] = 0]
          /\ UNCHANGED <<list, PageActive, page, reclaim_mode>>
       \/ /\ reclaim_mode[r] = "single" /\ references[r] > 0 /\ p \in Anon
          /\ ActivateLocked(r)
       \/ /\ reclaim_mode[r] = "single" /\ references[r] > 0 /\ p \notin Anon
          /\ Goto(r, "undo")
          /\ UNCHANGED <<list, PageActive, page, references, loaded, reclaim_mode>>
    /\ UNCHANGED <<by, PageLRU, young, used, dying, taskVars, file>>

\* Mutant: the counter is signed.
PageUndoAgeSigned(r) ==
    LET p == page[r] IN
    /\ rpc[r] = "undo"
    /\ PG_referenced' = [PG_referenced EXCEPT ![p] = @ - 1]
    /\ IF loaded[r] < 1 \/ references[r] > 1 \/ p \in Exec
       THEN ActivateLocked(r)
       ELSE KeepLocked(r)
    /\ UNCHANGED <<by, PageLRU, young, used, dying, taskVars, file>>

\* Mutant: the counter is not set back.
PageUndoAgeKept(r) ==
    LET p == page[r] IN
    /\ rpc[r] = "undo"
    /\ IF loaded[r] < 1 \/ references[r] > 1 \/ p \in Exec
       THEN ActivateLocked(r)
       ELSE KeepLocked(r)
    /\ UNCHANGED <<PG_referenced, by, PageLRU, young, used, dying, taskVars, file>>

\* A file page with young ptes: the counter is set back.  The compiler may
\* load it again, or use the value the reclaimer has just stored.
PageUndoAge(r) ==
    LET p == page[r] IN
    /\ rpc[r] = "undo"
    /\ \E v \in {PG_referenced[p], (loaded[r] + 1) % WordSize} :
          PG_referenced' = [PG_referenced EXCEPT ![p] =
                               (v + WordSize - 1) % WordSize]
    /\ IF loaded[r] < 1 \/ references[r] > 1 \/ p \in Exec
       THEN ActivateLocked(r)
       ELSE KeepLocked(r)
    /\ UNCHANGED <<by, PageLRU, young, used, dying, taskVars, file>>

\* The attempt to reclaim the page: it may find no swap space, fail to unmap
\* it or to write it out.  A page somebody else holds is never freed.
PageReclaim(r) ==
    LET p == page[r] IN
    /\ rpc[r] = "reclaim"
    /\ \/ /\ ~Marked(p) /\ (p \in Anon => Swap)
          /\ PageTo(r, "free_pages")
          /\ used' = [used EXCEPT ![p] = FALSE]
          /\ young' = [young EXCEPT ![p] = 0]
          /\ UNCHANGED <<PageActive, reclaim_mode>>
       \/ ActivateLocked(r) /\ UNCHANGED <<used, young>>
       \/ KeepLocked(r) /\ UNCHANGED <<used, young>>
       \/ \* The page is being written out: the label keep_lumpy.
          /\ PageTo(r, "ret_pages")
          /\ UNCHANGED <<PageActive, reclaim_mode, used, young>>
    /\ UNCHANGED <<by, PageLRU, PG_referenced, dying, taskVars, file>>

\* should_reclaim_stall(): direct lumpy reclaim that did not free every page
\* may go over the rest again and wait for the writes.
PageListAgain(r) ==
    LET again == On(r, "ret_pages")
        free  == On(r, "free_pages")
    IN
    /\ rpc[r] = "shrink" /\ On(r, "page_list") = {}
    /\ r # kswapd /\ reclaim_mode[r] = "lumpyAsync" /\ again # {}
    /\ reclaim_mode' = [reclaim_mode EXCEPT ![r] = "lumpySync"]
    /\ list' = [p \in Pages |-> IF p \in again THEN "page_list"
                                ELSE IF p \in free THEN "free" ELSE list[p]]
    /\ by' = [p \in Pages |-> IF p \in free THEN None ELSE by[p]]
    /\ UNCHANGED <<PageLRU, PageActive, PG_referenced, young, used, dying,
                   taskVars, file, rpc, page, references, loaded>>

\* putback_inactive_pages(): each page to the list its flag says.
InactiveDone(r) ==
    /\ rpc[r] = "shrink" /\ On(r, "page_list") = {}
    /\ LET active == {p \in On(r, "ret_pages") : PageActive[p]} IN
       PutBack(r, active, On(r, "ret_pages") \ active, On(r, "free_pages"))

shrink_inactive_list(r) ==
    \/ \E lumpy \in BOOLEAN : InactiveStart(r, lumpy)
    \/ InactiveIsolate(r) \/ update_isolated_counts(r)
    \/ \E p \in Pages : PageSkip(r, p) \/ PageCheck(r, p)
    \/ PageCheckAge(r) \/ PageUndoAge(r) \/ PageReclaim(r)
    \/ PageListAgain(r) \/ InactiveDone(r)

-----------------------------------------------------------------------------

Init ==
    /\ list = [p \in Pages |-> "free"]
    /\ by = [p \in Pages |-> None]
    /\ PageLRU = [p \in Pages |-> FALSE] /\ PageActive = [p \in Pages |-> FALSE]
    /\ PG_referenced = [p \in Pages |-> 0]
    /\ young = [p \in Pages |-> 0]
    /\ used = [p \in Pages |-> FALSE] /\ dying = [p \in Pages |-> FALSE]
    /\ marking = [t \in Tasks |-> None]
    /\ activating = [t \in Tasks |-> FALSE]
    /\ rpc = [r \in Reclaimers |-> "idle"]
    /\ file = [r \in Reclaimers |-> FALSE]
    /\ page = [r \in Reclaimers |-> None]
    /\ references = [r \in Reclaimers |-> 0]
    /\ loaded = [r \in Reclaimers |-> 0]
    /\ reclaim_mode = [r \in Reclaimers |-> "single"]

Use(p) == \/ lru_cache_add(p) \/ Touch(p) \/ Drop(p) \/ release_pages(p)
          \/ lru_deactivate_fn(p)

mark_page_accessed(t) ==
    \/ \E p \in Pages : MarkTest(t, p)
    \/ activate_page(t) \/ MarkReset(t)

Next ==
    \/ \E p \in Pages : Use(p)
    \/ \E t \in Tasks : mark_page_accessed(t)
    \/ \E r \in Reclaimers : shrink_active_list(r) \/ shrink_inactive_list(r)

Spec == Init /\ [][Next]_vars

\* While memory is short kswapd keeps running.  The scans that have begun go
\* on; unless kswapd finds, again and again, that a list need not be scanned,
\* it begins a scan of that list again and again, and these come round to every
\* page of the list (the list is taken from the tail and returned to the
\* head).  A page that is being released is released in the end.  The tasks
\* may stop anywhere.
NotLow(isfile) == rpc[kswapd] = "idle" /\ ~inactive_list_is_low(isfile)

MemoryPressure ==
    /\ \A p \in Pages : WF_vars(release_pages(p))
    /\ \A r \in Reclaimers :
          WF_vars(/\ rpc[r] # "idle"
                  /\ shrink_active_list(r) \/ shrink_inactive_list(r))
    /\ \A isfile \in BOOLEAN :
          []<>NotLow(isfile) \/ []<><<shrink_list(kswapd, isfile)>>_vars
    /\ \A p \in Pages : SF_vars(ActiveIsolate(kswapd) /\ by'[p] = kswapd)

PressedSpec == Spec /\ MemoryPressure

-----------------------------------------------------------------------------

TypeOK ==
    /\ list \in [Pages -> LruLists \cup ScanLists \cup {"free", "pagevec"}]
    /\ by \in [Pages -> Reclaimers \cup {None}]
    /\ PageLRU \in [Pages -> BOOLEAN] /\ PageActive \in [Pages -> BOOLEAN]
    /\ PG_referenced \in [Pages -> 0..(WordSize - 1)]
    /\ young \in [Pages -> 0..MaxPtes]
    /\ used \in [Pages -> BOOLEAN] /\ dying \in [Pages -> BOOLEAN]
    /\ marking \in [Tasks -> Pages \cup {None}]
    /\ activating \in [Tasks -> BOOLEAN]
    /\ rpc \in [Reclaimers -> Labels] /\ file \in [Reclaimers -> BOOLEAN]
    /\ page \in [Reclaimers -> Pages \cup {None}]
    /\ references \in [Reclaimers -> 0..MaxPtes]
    /\ loaded \in [Reclaimers -> 0..(WordSize - 1)]
    /\ reclaim_mode \in [Reclaimers -> {"single", "lumpyAsync", "lumpySync"}]

\* The flags tell the list, whoever moved the page last: PageLRU and
\* PageActive of every page on a list of the zone, and no flag on a page that
\* is free or new (the page allocator refuses one that has them set).
FlagsTellTheList ==
    \A p \in Pages :
       /\ PageLRU[p] <=> list[p] \in LruLists
       /\ list[p] = "active" => PageActive[p]
       /\ list[p] \in {"inactive", "free", "pagevec"} => ~PageActive[p]

\* VM_BUG_ON(PageActive(page)) in shrink_page_list(), for each page it takes,
\* also the second time over.
NoActiveInPageList ==
    \A r \in Reclaimers : rpc[r] = "shrink" =>
       \A p \in On(r, "page_list") : ~PageActive[p]

\* A page is released only when nobody holds it: no scan, no pagevec, no task
\* that marks it, and no user.
ReleasedByTheLast ==
    \A p \in Pages : dying[p] \/ list[p] = "free" =>
       ~used[p] /\ ~Marked(p) /\ by[p] = None /\ list[p] # "pagevec"

\* A page that is not used any more grows old: while memory is short, a page
\* stays active for ever only if it is touched or marked again and again, or if
\* kswapd finds again and again that enough pages of its kind are inactive.
IdlePagesAge ==
    \A p \in Pages :
       <>[]PageActive[p] =>
          \/ []<><<Touch(p) \/ \E t \in Tasks : MarkTest(t, p)>>_vars
          \/ []<>NotLow(p \notin Anon)

-----------------------------------------------------------------------------
(* The inductive invariant behind the three safety properties.             *)

ActiveScan   == {"l_hold", "l_active", "l_inactive"}
InactiveScan == {"page_list", "ret_pages", "free_pages"}
Working      == {"count", "shrink", "check", "undo", "reclaim"}

\* A page on a list of a scan belongs to a reclaimer that is in that scan.
ScansHoldTheirPages ==
    \A p \in Pages :
       /\ by[p] = None <=> list[p] \notin ScanLists
       /\ list[p] \in ActiveScan => rpc[by[p]] \in {"active", "age"}
       /\ list[p] \in InactiveScan => rpc[by[p]] \in Working
       /\ list[p] \in {"ret_pages", "free_pages"} => rpc[by[p]] # "count"

\* The page a reclaimer works on is still on the list it took it from.
ScansKnowTheirPage ==
    \A r \in Reclaimers :
       /\ rpc[r] = "age" => page[r] \in On(r, "l_hold")
       /\ rpc[r] \in {"check", "undo", "reclaim"} =>
             page[r] \in On(r, "page_list")

\* What PageActive says of a page off the LRU.  A page activated by a scan of
\* the inactive list ends lumpy reclaim, so the scan is not repeated.
FlagsInScans ==
    \A p \in Pages :
       /\ list[p] \in {"l_hold", "l_active"} => PageActive[p]
       /\ list[p] \in {"l_inactive", "free_pages"} => ~PageActive[p]
       /\ list[p] = "page_list" => rpc[by[p]] = "count" \/ ~PageActive[p]
       /\ list[p] = "ret_pages" /\ PageActive[p] =>
             reclaim_mode[by[p]] = "single"

\* Only a page on the LRU waits to be released, and one that is on its way to
\* the free list has no user.
LastReference ==
    \A p \in Pages :
       /\ dying[p] => list[p] \in LruLists
       /\ dying[p] \/ list[p] \in {"free", "free_pages"} =>
             ~used[p] /\ ~Marked(p)

PageInv ==
    /\ FlagsTellTheList /\ ScansHoldTheirPages /\ ScansKnowTheirPage
    /\ FlagsInScans /\ LastReference

=============================================================================
