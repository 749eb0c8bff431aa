----------------------------- MODULE PageProofs -----------------------------
(***************************************************************************)
(* Theorems about PageAging, for any pages, reclaimers and tasks.  First   *)
(* the type invariant, one lemma for each group of actions; then PageInv,  *)
(* which is inductive given the types, and what it implies; then, with the *)
(* memories of PageLooks and PageKept, what the counter PG_referenced      *)
(* achieves.                                                               *)
(***************************************************************************)
EXTENDS PageLooks, PageKept, TLAPS

LEMMA CounterType ==
    ASSUME NEW v \in 0..(WordSize - 1)
    PROVE  /\ (v + 1) % WordSize \in 0..(WordSize - 1)
           /\ (v + WordSize - 1) % WordSize \in 0..(WordSize - 1)
BY PagesOK

\* What the pages of a pagevec are given is typed.
LEMMA PagevecTypes ==
    ASSUME TypeOK, NEW pvec, pagevec_lru_add(pvec), used' \in [Pages -> BOOLEAN]
    PROVE  /\ list' \in [Pages -> LruLists \cup ScanLists \cup {"free", "pagevec"}]
           /\ PageLRU' \in [Pages -> BOOLEAN] /\ PageActive' \in [Pages -> BOOLEAN]
           /\ dying' \in [Pages -> BOOLEAN]
BY DEF TypeOK, pagevec_lru_add, LruLists, ScanLists

\* The tasks' steps keep the types.
LEMMA TaskTypes ==
    ASSUME TypeOK,
           \/ \E p \in Pages : Use(p)
           \/ \E t \in Tasks : mark_page_accessed(t)
    PROVE  TypeOK'
<1> USE PagesOK DEF TypeOK, pageVars, taskVars, scanVars, LruLists, ScanLists
<1>1. ASSUME NEW p \in Pages, lru_cache_add(p) PROVE TypeOK'
  BY <1>1, PagevecTypes DEF lru_cache_add
<1>2. ASSUME NEW p \in Pages, Touch(p) PROVE TypeOK'
  BY <1>2 DEF Touch
<1>3. ASSUME NEW p \in Pages, Drop(p) PROVE TypeOK'
  BY <1>3 DEF Drop
<1>4. ASSUME NEW p \in Pages, release_pages(p) PROVE TypeOK'
  BY <1>4 DEF release_pages
<1>5. ASSUME NEW p \in Pages, lru_deactivate_fn(p) PROVE TypeOK'
  BY <1>5 DEF lru_deactivate_fn
<1>6. ASSUME NEW t \in Tasks, activate_page(t) PROVE TypeOK'
  <2> DEFINE p == marking[t]
  <2>1. p \in Pages
    BY <1>6 DEF activate_page
  <2>2. PageActive' \in [Pages -> BOOLEAN]
    <3>1. \/ PageActive' = [PageActive EXCEPT ![p] = TRUE]
          \/ PageActive' = PageActive
      BY <1>6 DEF activate_page
    <3> QED BY <3>1
  <2>3. list' \in [Pages -> LruLists \cup ScanLists \cup {"free", "pagevec"}]
    BY <1>6 DEF activate_page
  <2>4. /\ activating' = [activating EXCEPT ![t] = FALSE]
        /\ UNCHANGED <<by, PageLRU, PG_referenced, young, used, dying, marking,
                       rpc, file, page, references, loaded, reclaim_mode>>
    BY <1>6 DEF activate_page
  <2> QED BY <2>2, <2>3, <2>4
<1>7. ASSUME NEW t \in Tasks, MarkReset(t) PROVE TypeOK'
  BY <1>7 DEF MarkReset
<1>8. ASSUME NEW t \in Tasks, NEW p \in Pages, MarkTest(t, p) PROVE TypeOK'
  <2>1. activating' \in [Tasks -> BOOLEAN]
    BY <1>8 DEF MarkTest
  <2>2. /\ marking' = [marking EXCEPT ![t] = p]
        /\ UNCHANGED <<pageVars, scanVars>>
    BY <1>8 DEF MarkTest
  <2> QED BY <2>1, <2>2
<1> QED BY <1>1, <1>2, <1>3, <1>4, <1>5, <1>6, <1>7, <1>8
        DEF Use, mark_page_accessed

\* The steps of shrink_active_list() keep the types.
LEMMA ActiveTypes ==
    ASSUME TypeOK, NEW r \in Reclaimers, shrink_active_list(r)
    PROVE  TypeOK'
<1> USE PagesOK DEF TypeOK, LruLists, ScanLists, Labels, taskVars, Goto
<1>1. CASE ActiveStart(r)
  BY <1>1, PagevecTypes DEF ActiveStart, lru_add_drain
<1>2. CASE ActiveIsolate(r)
  BY <1>2 DEF ActiveIsolate, isolate_lru_pages
<1>3. ASSUME NEW p \in Pages, ActiveTake(r, p) PROVE TypeOK'
  BY <1>3 DEF ActiveTake
<1>4. CASE ActiveAge(r)
  <2>1. PG_referenced' \in [Pages -> 0..(WordSize - 1)]
    <3>1. (loaded[r] + 1) % WordSize \in 0..(WordSize - 1)
      BY CounterType
    <3> QED BY <1>4, <3>1 DEF ActiveAge
  <2>2. /\ list' \in [Pages -> LruLists \cup ScanLists \cup {"free", "pagevec"}]
        /\ PageActive' \in [Pages -> BOOLEAN]
    BY <1>4 DEF ActiveAge
  <2>3. /\ rpc' = [rpc EXCEPT ![r] = "active"]
        /\ page' = [page EXCEPT ![r] = None]
        /\ loaded' = [loaded EXCEPT ![r] = 0]
        /\ UNCHANGED <<by, PageLRU, young, used, dying, taskVars, file,
                       references, reclaim_mode>>
    BY <1>4 DEF ActiveAge
  <2> QED BY <2>1, <2>2, <2>3
<1>5. CASE ActiveDone(r)
  BY <1>5 DEF ActiveDone, PutBack, EndScan
<1>6. ASSUME NEW isfile \in BOOLEAN, shrink_list(r, isfile) PROVE TypeOK'
  BY <1>6 DEF shrink_list, pageVars
<1> QED BY <1>1, <1>2, <1>3, <1>4, <1>5, <1>6 DEF shrink_active_list

\* What the ends of shrink_page_list()'s loop body change is typed.
LEMMA EndTypes ==
    ASSUME TypeOK, NEW r \in Reclaimers, NEW l \in ScanLists, PageTo(r, l)
    PROVE  /\ list' \in [Pages -> LruLists \cup ScanLists \cup {"free", "pagevec"}]
           /\ rpc' \in [Reclaimers -> Labels]
           /\ page' \in [Reclaimers -> Pages \cup {None}]
           /\ references' \in [Reclaimers -> 0..MaxPtes]
           /\ loaded' \in [Reclaimers -> 0..(WordSize - 1)]
<1>1. list' \in [Pages -> LruLists \cup ScanLists \cup {"free", "pagevec"}]
  BY DEF TypeOK, PageTo
<1>2. rpc' \in [Reclaimers -> Labels]
  BY DEF TypeOK, PageTo, Goto, Labels
<1>3. page' \in [Reclaimers -> Pages \cup {None}]
  BY DEF TypeOK, PageTo
<1>4. /\ references' \in [Reclaimers -> 0..MaxPtes]
      /\ loaded' \in [Reclaimers -> 0..(WordSize - 1)]
  BY PagesOK DEF TypeOK, PageTo
<1> QED BY <1>1, <1>2, <1>3, <1>4

\* So is what the labels keep_locked and activate_locked change.
LEMMA LabelTypes ==
    ASSUME TypeOK, NEW r \in Reclaimers, ActivateLocked(r) \/ KeepLocked(r)
    PROVE  /\ PageTo(r, "ret_pages") /\ "ret_pages" \in ScanLists
           /\ PageActive' \in [Pages -> BOOLEAN]
           /\ reclaim_mode' \in [Reclaimers -> {"single", "lumpyAsync", "lumpySync"}]
<1>1. PageActive' \in [Pages -> BOOLEAN]
  BY DEF TypeOK, ActivateLocked, KeepLocked
<1>2. reclaim_mode' \in [Reclaimers -> {"single", "lumpyAsync", "lumpySync"}]
  BY DEF TypeOK, ActivateLocked, KeepLocked, reset_reclaim_mode
<1> QED BY <1>1, <1>2 DEF ActivateLocked, KeepLocked, ScanLists

\* The steps of shrink_inactive_list() keep the types.
LEMMA InactiveTypes ==
    ASSUME TypeOK, NEW r \in Reclaimers, shrink_inactive_list(r)
    PROVE  TypeOK'
<1> USE PagesOK DEF TypeOK, LruLists, ScanLists, Labels, taskVars, Goto
<1>1. ASSUME NEW lumpy \in BOOLEAN, InactiveStart(r, lumpy) PROVE TypeOK'
  BY <1>1, PagevecTypes DEF InactiveStart, lru_add_drain
<1>2. CASE InactiveIsolate(r)
  BY <1>2 DEF InactiveIsolate, isolate_lru_pages, EndScan
<1>3. CASE update_isolated_counts(r)
  BY <1>3 DEF update_isolated_counts
<1>4. ASSUME NEW p \in Pages, PageSkip(r, p) PROVE TypeOK'
  BY <1>4 DEF PageSkip
<1>5. ASSUME NEW p \in Pages, PageCheck(r, p) PROVE TypeOK'
  BY <1>5 DEF PageCheck, page_referenced
<1>6. CASE PageCheckAge(r)
  <2>1. PG_referenced' \in [Pages -> 0..(WordSize - 1)]
    <3>1. (loaded[r] + 1) % WordSize \in 0..(WordSize - 1)
      BY CounterType
    <3> QED BY <1>6, <3>1 DEF PageCheckAge
  <2>2. UNCHANGED <<by, PageLRU, young, used, dying, taskVars, file>>
    BY <1>6 DEF PageCheckAge
  <2>3. CASE ActivateLocked(r)
    <3>1. PageTo(r, "ret_pages") /\ "ret_pages" \in ScanLists
      BY <2>3, LabelTypes
    <3> HIDE DEF LruLists, ScanLists, Labels
    <3> QED BY <2>1, <2>2, <2>3, <3>1, EndTypes, LabelTypes
  <2>4. CASE \/ Goto(r, "reclaim") \/ Goto(r, "undo")
    <3>1. /\ UNCHANGED <<list, PageActive, page, reclaim_mode>>
          /\ \/ UNCHANGED <<references, loaded>>
             \/ /\ references' = [references EXCEPT ![r] = 0]
                /\ loaded' = [loaded EXCEPT ![r] = 0]
      BY <1>6, <2>4 DEF PageCheckAge, ActivateLocked, PageTo
    <3> QED BY <2>1, <2>2, <2>4, <3>1
  <2> QED BY <1>6, <2>3, <2>4 DEF PageCheckAge
<1>7. CASE PageUndoAge(r)
  <2>1. PG_referenced' \in [Pages -> 0..(WordSize - 1)]
    <3>1. PICK v \in {PG_referenced[page[r]], (loaded[r] + 1) % WordSize} :
             PG_referenced' = [PG_referenced EXCEPT ![page[r]] =
                                  (v + WordSize - 1) % WordSize]
      BY <1>7 DEF PageUndoAge
    <3>2. page[r] \in Pages => (v + WordSize - 1) % WordSize \in 0..(WordSize - 1)
      BY CounterType
    <3> QED BY <3>1, <3>2
  <2>2. UNCHANGED <<by, PageLRU, young, used, dying, taskVars, file>>
    BY <1>7 DEF PageUndoAge
  <2>3. ActivateLocked(r) \/ KeepLocked(r)
    BY <1>7 DEF PageUndoAge
  <2>4. PageTo(r, "ret_pages") /\ "ret_pages" \in ScanLists
    BY <2>3, LabelTypes
  <2> HIDE DEF LruLists, ScanLists, Labels
  <2> QED BY <2>1, <2>2, <2>3, <2>4, EndTypes, LabelTypes
<1>8. CASE PageReclaim(r)
  <2>1. /\ used' \in [Pages -> BOOLEAN]
        /\ young' \in [Pages -> 0..MaxPtes]
        /\ UNCHANGED <<by, PageLRU, PG_referenced, dying, taskVars, file>>
    <3>1. \/ UNCHANGED <<used, young>>
          \/ /\ used' = [used EXCEPT ![page[r]] = FALSE]
             /\ young' = [young EXCEPT ![page[r]] = 0]
      BY <1>8 DEF PageReclaim
    <3>2. UNCHANGED <<by, PageLRU, PG_referenced, dying, taskVars, file>>
      BY <1>8 DEF PageReclaim
    <3>3. used' \in [Pages -> BOOLEAN]
      BY <3>1
    <3>4. young' \in [Pages -> 0..MaxPtes]
      BY <3>1
    <3> QED BY <3>2, <3>3, <3>4
  <2>2. CASE ActivateLocked(r) \/ KeepLocked(r)
    <3>1. PageTo(r, "ret_pages") /\ "ret_pages" \in ScanLists
      BY <2>2, LabelTypes
    <3> HIDE DEF LruLists, ScanLists, Labels
    <3> QED BY <2>1, <2>2, <3>1, EndTypes, LabelTypes
  <2>3. CASE /\ PageTo(r, "free_pages") \/ PageTo(r, "ret_pages")
             /\ UNCHANGED <<PageActive, reclaim_mode>>
    <3>1. {"ret_pages", "free_pages"} \subseteq ScanLists
      OBVIOUS
    <3> HIDE DEF LruLists, ScanLists, Labels
    <3> QED BY <2>1, <2>3, <3>1, EndTypes
  <2> QED BY <1>8, <2>2, <2>3 DEF PageReclaim
<1>9. CASE PageListAgain(r)
  BY <1>9 DEF PageListAgain
<1>10. CASE InactiveDone(r)
  BY <1>10 DEF InactiveDone, PutBack, EndScan
<1> QED BY <1>1, <1>2, <1>3, <1>4, <1>5, <1>6, <1>7, <1>8, <1>9, <1>10
        DEF shrink_inactive_list

\* The type invariant of the page replacement: PG_referenced stays a word, and
\* every list, flag and register has the value of its kind.
THEOREM PageTypes == Spec => []TypeOK
<1>1. Init => TypeOK
  BY PagesOK DEF Init, TypeOK, LruLists, ScanLists, Labels
<1>2. TypeOK /\ [Next]_vars => TypeOK'
  <2> SUFFICES ASSUME TypeOK, [Next]_vars PROVE TypeOK'
    OBVIOUS
  <2>1. CASE UNCHANGED vars
    BY <2>1 DEF vars, TypeOK
  <2> QED BY <2>1, TaskTypes, ActiveTypes, InactiveTypes DEF Next
<1> QED BY <1>1, <1>2, PTL DEF Spec

-----------------------------------------------------------------------------
(* PageInv is inductive, given TypeOK.                                     *)

\* The pages of a pagevec go to the LRU: they are in nobody's hands before.
LEMMA PagevecKeepsPages ==
    ASSUME TypeOK, PageInv, NEW pvec \in SUBSET Pages, pagevec_lru_add(pvec),
           \A p \in pvec : list[p] \in {"free", "pagevec"},
           \A p \in pvec : list[p] = "free" => used'[p],
           \A p \in Pages \ pvec : used'[p] <=> used[p],
           UNCHANGED <<by, marking, page, rpc, reclaim_mode>>
    PROVE  PageInv'
<1> USE PagesOK DEF TypeOK, PageInv, LruLists, ScanLists, ActiveScan,
        InactiveScan, Working
<1>1. ASSUME NEW p \in Pages
      PROVE  /\ p \notin pvec =>
                   /\ list'[p] = list[p] /\ (PageLRU'[p] <=> PageLRU[p])
                   /\ PageActive'[p] <=> PageActive[p]
                   /\ dying'[p] <=> dying[p]
             /\ p \in pvec =>
                   /\ list'[p] = IF p \in Anon THEN "active" ELSE "inactive"
                   /\ PageLRU'[p]
                   /\ PageActive'[p] <=> PageActive[p] \/ p \in Anon
                   /\ dying'[p] <=> dying[p] \/ (~used'[p] /\ ~Marked(p))
  BY DEF pagevec_lru_add
<1>2. FlagsTellTheList'
  BY <1>1 DEF FlagsTellTheList
<1>3. ScansHoldTheirPages'
  BY <1>1 DEF ScansHoldTheirPages
<1>4. ScansKnowTheirPage'
  BY <1>1 DEF ScansKnowTheirPage, On
<1>5. FlagsInScans'
  BY <1>1 DEF FlagsInScans, ScansHoldTheirPages
<1>6. LastReference'
  BY <1>1 DEF LastReference, Marked
<1> QED BY <1>2, <1>3, <1>4, <1>5, <1>6

\* The tasks keep PageInv.
LEMMA TasksKeepPages ==
    ASSUME TypeOK, PageInv,
           \/ \E p \in Pages : Use(p)
           \/ \E t \in Tasks : mark_page_accessed(t)
    PROVE  PageInv'
<1> USE PagesOK DEF TypeOK, PageInv, FlagsTellTheList, ScansHoldTheirPages,
        ScansKnowTheirPage, FlagsInScans, LastReference, ActiveScan,
        InactiveScan, Working, LruLists, ScanLists, On, Marked, pageVars,
        taskVars, scanVars
<1>1. ASSUME NEW p \in Pages, lru_cache_add(p) PROVE PageInv'
  <2>1. CASE list' = [list EXCEPT ![p] = "pagevec"]
    BY <1>1, <2>1 DEF lru_cache_add, pagevec_lru_add
  <2>2. ASSUME NEW pvec \in SUBSET Pages, pagevec_lru_add(pvec), p \in pvec,
               \A q \in pvec \ {p} : list[q] = "pagevec"
        PROVE  PageInv'
    <3>1. /\ used' = [used EXCEPT ![p] = TRUE] /\ list[p] = "free"
          /\ UNCHANGED <<by, marking, rpc, page, reclaim_mode>>
      BY <1>1 DEF lru_cache_add
    <3>2. used'[p] /\ \A q \in Pages \ {p} : used'[q] <=> used[q]
      BY <3>1
    <3>3. /\ \A q \in pvec : list[q] \in {"free", "pagevec"}
          /\ \A q \in pvec : list[q] = "free" => used'[q]
          /\ \A q \in Pages \ pvec : used'[q] <=> used[q]
      BY <2>2, <3>1, <3>2
    <3> HIDE DEF TypeOK, PageInv
    <3> QED BY <2>2, <3>1, <3>3, PagevecKeepsPages
  <2> QED BY <1>1, <2>1, <2>2 DEF lru_cache_add
<1>2. ASSUME NEW p \in Pages, Touch(p) PROVE PageInv'
  BY <1>2 DEF Touch
<1>3. ASSUME NEW p \in Pages, Drop(p) PROVE PageInv'
  BY <1>3 DEF Drop
<1>4. ASSUME NEW p \in Pages, release_pages(p) PROVE PageInv'
  BY <1>4 DEF release_pages
<1>5. ASSUME NEW p \in Pages, lru_deactivate_fn(p) PROVE PageInv'
  BY <1>5 DEF lru_deactivate_fn
<1>6. ASSUME NEW t \in Tasks, activate_page(t) PROVE PageInv'
  BY <1>6 DEF activate_page
<1>7. ASSUME NEW t \in Tasks, MarkReset(t) PROVE PageInv'
  BY <1>7 DEF MarkReset
<1>8. ASSUME NEW t \in Tasks, NEW p \in Pages, MarkTest(t, p) PROVE PageInv'
  BY <1>8 DEF MarkTest
<1> QED BY <1>1, <1>2, <1>3, <1>4, <1>5, <1>6, <1>7, <1>8
        DEF Use, mark_page_accessed

\* So does lru_add_drain(), with which both scans begin.
LEMMA DrainKeepsPages ==
    ASSUME TypeOK, PageInv, lru_add_drain, UNCHANGED page,
           NEW r \in Reclaimers, NEW l \in {"isolateActive", "isolateInactive"},
           NEW m \in {"single", "lumpyAsync"}, rpc[r] \in {"idle", "activeStart"},
           rpc' = [rpc EXCEPT ![r] = l],
           reclaim_mode' = [reclaim_mode EXCEPT ![r] = m]
    PROVE  PageInv'
<1> USE PagesOK DEF TypeOK, PageInv, LruLists, ScanLists, ActiveScan,
        InactiveScan, Working
<1>1. ASSUME NEW p \in Pages
      PROVE  /\ UNCHANGED <<by, used, marking>>
             /\ list[p] # "pagevec" =>
                   /\ list'[p] = list[p] /\ (PageLRU'[p] <=> PageLRU[p])
                   /\ PageActive'[p] <=> PageActive[p]
                   /\ dying'[p] <=> dying[p]
             /\ list[p] = "pagevec" =>
                   /\ list'[p] = IF p \in Anon THEN "active" ELSE "inactive"
                   /\ PageLRU'[p]
                   /\ PageActive'[p] <=> PageActive[p] \/ p \in Anon
                   /\ dying'[p] <=> dying[p] \/ (~used[p] /\ ~Marked(p))
  BY DEF lru_add_drain, pagevec_lru_add, taskVars
<1>2. FlagsTellTheList'
  BY <1>1 DEF FlagsTellTheList
<1>3. ScansHoldTheirPages'
  BY <1>1 DEF ScansHoldTheirPages
<1>4. ScansKnowTheirPage'
  BY <1>1 DEF ScansKnowTheirPage, On
<1>5. FlagsInScans'
  BY <1>1 DEF FlagsInScans, ScansHoldTheirPages
<1>6. LastReference'
  BY <1>1 DEF LastReference, Marked
<1> QED BY <1>2, <1>3, <1>4, <1>5, <1>6

\* And the return of a scan's pages, with which both end.
LEMMA PutBackKeepsPages ==
    ASSUME TypeOK, PageInv, NEW r \in Reclaimers, NEW A \in SUBSET Pages,
           NEW I \in SUBSET Pages, NEW F \in SUBSET Pages, PutBack(r, A, I, F),
           \A p \in Pages : by[p] = r <=> p \in A \cup I \cup F,
           \A p \in F : list[p] = "free_pages",
           \A p \in A : list[p] \in {"l_active", "ret_pages"} /\ PageActive[p],
           \A p \in I : list[p] \in {"l_inactive", "ret_pages"} /\ ~PageActive[p]
    PROVE  PageInv'
<1> USE PagesOK DEF TypeOK, PageInv, LruLists, ScanLists, ActiveScan,
        InactiveScan, Working
<1> DEFINE free == F \cup {p \in A \cup I : ~used[p] /\ ~Marked(p)}
           S    == A \cup I
<1>1. /\ rpc' = [rpc EXCEPT ![r] = "idle"]
      /\ reclaim_mode' = [reclaim_mode EXCEPT ![r] = "single"]
      /\ UNCHANGED <<used, dying, marking, page>>
  BY DEF PutBack, EndScan, Goto, taskVars
<1>2. ASSUME NEW p \in Pages
      PROVE  /\ p \notin S \cup F =>
                   /\ list'[p] = list[p] /\ (PageLRU'[p] <=> PageLRU[p])
                   /\ (PageActive'[p] <=> PageActive[p]) /\ by'[p] = by[p]
             /\ p \in S \cup F => by'[p] = None
             /\ p \in free =>
                   /\ list'[p] = "free" /\ ~PageActive'[p]
                   /\ PageLRU'[p] <=> PageLRU[p]
             /\ p \in S \ free =>
                   /\ list'[p] = IF p \in A THEN "active" ELSE "inactive"
                   /\ PageLRU'[p] /\ (PageActive'[p] <=> PageActive[p])
  BY DEF PutBack
<1>3. F \subseteq free /\ free \subseteq S \cup F
  OBVIOUS
<1>9. /\ \A p \in S : /\ list[p] \in {"l_active", "l_inactive", "ret_pages"}
                      /\ p \in A <=> PageActive[p]
      /\ \A p \in Pages : by[p] = r <=> p \in S \cup F
  OBVIOUS
<1> HIDE DEF free, S
<1>4. FlagsTellTheList'
  BY <1>2, <1>3, <1>9 DEF FlagsTellTheList
<1>5. ScansHoldTheirPages'
  BY <1>1, <1>2, <1>3, <1>9 DEF ScansHoldTheirPages
<1>6. ScansKnowTheirPage'
  BY <1>1, <1>2, <1>3, <1>9 DEF ScansKnowTheirPage, On
<1>7. FlagsInScans'
  BY <1>1, <1>2, <1>3, <1>9 DEF FlagsInScans, ScansHoldTheirPages
<1>8. LastReference'
  <2>1. \A p \in free : ~used[p] /\ ~Marked(p)
    BY DEF free, LastReference
  <2> QED BY <1>1, <1>2, <1>3, <1>9, <2>1 DEF LastReference, Marked
<1> QED BY <1>4, <1>5, <1>6, <1>7, <1>8

\* The steps of shrink_active_list() keep PageInv.
LEMMA ActiveKeepsPages ==
    ASSUME TypeOK, PageInv, NEW r \in Reclaimers, shrink_active_list(r)
    PROVE  PageInv'
<1> USE PagesOK DEF TypeOK, PageInv, FlagsTellTheList, ScansHoldTheirPages,
        ScansKnowTheirPage, FlagsInScans, LastReference, ActiveScan,
        InactiveScan, Working, LruLists, ScanLists, On, Marked, Goto, taskVars
<1>1. CASE ActiveStart(r)
  BY <1>1, DrainKeepsPages DEF ActiveStart
<1>2. CASE ActiveIsolate(r)
  BY <1>2 DEF ActiveIsolate, isolate_lru_pages
<1>3. ASSUME NEW p \in Pages, ActiveTake(r, p) PROVE PageInv'
  BY <1>3 DEF ActiveTake
<1>4. CASE ActiveAge(r)
  BY <1>4 DEF ActiveAge
<1>5. CASE ActiveDone(r)
  <2> DEFINE A == On(r, "l_active")
             I == On(r, "l_inactive")
  <2>1. /\ A \in SUBSET Pages /\ I \in SUBSET Pages
        /\ \A p \in A : list[p] \in {"l_active", "ret_pages"} /\ PageActive[p]
        /\ \A p \in I : list[p] \in {"l_inactive", "ret_pages"} /\ ~PageActive[p]
        /\ \A p \in Pages : by[p] = r <=> p \in A \cup I \cup {}
    BY <1>5 DEF ActiveDone
  <2>2. PutBack(r, A, I, {})
    BY <1>5 DEF ActiveDone
  <2> HIDE DEF A, I, TypeOK, PageInv
  <2> QED BY <2>1, <2>2, PutBackKeepsPages
<1>6. ASSUME NEW isfile \in BOOLEAN, shrink_list(r, isfile) PROVE PageInv'
  BY <1>6 DEF shrink_list, pageVars
<1> QED BY <1>1, <1>2, <1>3, <1>4, <1>5, <1>6 DEF shrink_active_list

\* A reclaimer that keeps or activates its page keeps PageInv.
LEMMA EndKeepsPages ==
    ASSUME TypeOK, PageInv, NEW r \in Reclaimers,
           rpc[r] \in {"check", "undo", "reclaim"},
           ActivateLocked(r) \/ KeepLocked(r),
           UNCHANGED <<by, PageLRU, used, dying, marking>>
    PROVE  PageInv'
<1> USE PagesOK DEF TypeOK, PageInv, LruLists, ScanLists, ActiveScan,
        InactiveScan, Working
<1>1. page[r] \in Pages /\ list[page[r]] = "page_list" /\ by[page[r]] = r
  BY DEF ScansKnowTheirPage, On
<1>2. /\ list' = [list EXCEPT ![page[r]] = "ret_pages"]
      /\ rpc' = [rpc EXCEPT ![r] = "shrink"]
      /\ page' = [page EXCEPT ![r] = None]
      /\ reclaim_mode' = [reclaim_mode EXCEPT ![r] = "single"]
  BY DEF ActivateLocked, KeepLocked, PageTo, Goto, reset_reclaim_mode
<1>3. \A p \in Pages : p # page[r] => PageActive'[p] = PageActive[p]
  BY DEF ActivateLocked, KeepLocked
<1>4. FlagsTellTheList'
  BY <1>1, <1>2, <1>3 DEF FlagsTellTheList
<1>5. ScansHoldTheirPages'
  BY <1>1, <1>2 DEF ScansHoldTheirPages
<1>6. ScansKnowTheirPage'
  BY <1>1, <1>2 DEF ScansKnowTheirPage, On
<1>7. FlagsInScans'
  BY <1>1, <1>2, <1>3 DEF FlagsInScans
<1>8. LastReference'
  BY <1>1, <1>2 DEF LastReference, Marked
<1> QED BY <1>4, <1>5, <1>6, <1>7, <1>8

\* The steps of shrink_inactive_list() keep PageInv.
LEMMA InactiveKeepsPages ==
    ASSUME TypeOK, PageInv, NEW r \in Reclaimers, shrink_inactive_list(r)
    PROVE  PageInv'
<1> USE PagesOK DEF TypeOK, PageInv, FlagsTellTheList, ScansHoldTheirPages,
        ScansKnowTheirPage, FlagsInScans, LastReference, ActiveScan,
        InactiveScan, Working, LruLists, ScanLists, On, Marked, Goto, taskVars
<1>1. ASSUME NEW lumpy \in BOOLEAN, InactiveStart(r, lumpy) PROVE PageInv'
  BY <1>1, DrainKeepsPages DEF InactiveStart
<1>2. CASE InactiveIsolate(r)
  BY <1>2 DEF InactiveIsolate, isolate_lru_pages, EndScan
<1>3. CASE update_isolated_counts(r)
  BY <1>3 DEF update_isolated_counts
<1>4. ASSUME NEW p \in Pages, PageSkip(r, p) PROVE PageInv'
  BY <1>4 DEF PageSkip
<1>5. ASSUME NEW p \in Pages, PageCheck(r, p) PROVE PageInv'
  BY <1>5 DEF PageCheck, page_referenced
<1>6. CASE PageCheckAge(r)
  <2>1. /\ rpc[r] = "check" /\ UNCHANGED <<by, PageLRU, used, dying, marking>>
    BY <1>6 DEF PageCheckAge
  <2>2. CASE ActivateLocked(r)
    <3> HIDE DEF TypeOK, PageInv
    <3> QED BY <2>1, <2>2, EndKeepsPages
  <2>3. CASE /\ Goto(r, "reclaim") \/ Goto(r, "undo")
             /\ UNCHANGED <<list, PageActive, page, reclaim_mode>>
    BY <2>1, <2>3
  <2> QED BY <1>6, <2>2, <2>3 DEF PageCheckAge
<1>7. CASE PageUndoAge(r)
  <2>1. /\ rpc[r] = "undo" /\ UNCHANGED <<by, PageLRU, used, dying, marking>>
        /\ ActivateLocked(r) \/ KeepLocked(r)
    BY <1>7 DEF PageUndoAge
  <2> HIDE DEF TypeOK, PageInv
  <2> QED BY <2>1, EndKeepsPages
<1>8. CASE PageReclaim(r)
  <2>1. /\ rpc[r] = "reclaim" /\ page[r] \in On(r, "page_list")
        /\ UNCHANGED <<by, PageLRU, dying, marking>>
    BY <1>8 DEF PageReclaim
  <2>2. CASE (ActivateLocked(r) \/ KeepLocked(r)) /\ UNCHANGED used
    <3> HIDE DEF TypeOK, PageInv
    <3> QED BY <2>1, <2>2, EndKeepsPages
  <2>3. CASE /\ ~Marked(page[r]) /\ PageTo(r, "free_pages")
             /\ used' = [used EXCEPT ![page[r]] = FALSE]
             /\ UNCHANGED <<PageActive, reclaim_mode>>
    BY <2>1, <2>3 DEF PageTo
  <2>4. CASE PageTo(r, "ret_pages") /\ UNCHANGED <<PageActive, reclaim_mode, used>>
    BY <2>1, <2>4 DEF PageTo
  <2> QED BY <1>8, <2>2, <2>3, <2>4 DEF PageReclaim
<1>9. CASE PageListAgain(r)
  BY <1>9 DEF PageListAgain
<1>10. CASE InactiveDone(r)
  <2> DEFINE A == {p \in On(r, "ret_pages") : PageActive[p]}
             I == On(r, "ret_pages") \ A
             F == On(r, "free_pages")
  <2>1. /\ A \in SUBSET Pages /\ I \in SUBSET Pages /\ F \in SUBSET Pages
        /\ \A p \in A : list[p] \in {"l_active", "ret_pages"} /\ PageActive[p]
        /\ \A p \in I : list[p] \in {"l_inactive", "ret_pages"} /\ ~PageActive[p]
        /\ \A p \in F : list[p] = "free_pages"
        /\ \A p \in Pages : by[p] = r <=> p \in A \cup I \cup F
    BY <1>10 DEF InactiveDone
  <2>2. PutBack(r, A, I, F)
    BY <1>10 DEF InactiveDone
  <2> HIDE DEF A, I, F, TypeOK, PageInv
  <2> QED BY <2>1, <2>2, PutBackKeepsPages
<1> QED BY <1>1, <1>2, <1>3, <1>4, <1>5, <1>6, <1>7, <1>8, <1>9, <1>10
        DEF shrink_inactive_list

\* PageInv holds in every reachable state, for any pages, reclaimers and tasks.
THEOREM PagesKeptInOrder == Spec => []PageInv
<1>1. Init => PageInv
  BY PagesOK DEF Init, PageInv, FlagsTellTheList, ScansHoldTheirPages,
         ScansKnowTheirPage, FlagsInScans, LastReference, ActiveScan,
         InactiveScan, Working, LruLists, ScanLists, On, Marked
<1>2. TypeOK /\ PageInv /\ [Next]_vars => PageInv'
  <2> SUFFICES ASSUME TypeOK, PageInv, [Next]_vars PROVE PageInv'
    OBVIOUS
  <2>1. CASE UNCHANGED vars
    BY <2>1 DEF vars, PageInv, FlagsTellTheList, ScansHoldTheirPages,
         ScansKnowTheirPage, FlagsInScans, LastReference, On, Marked
  <2> QED BY <2>1, TasksKeepPages, ActiveKeepsPages, InactiveKeepsPages DEF Next
<1> QED BY <1>1, <1>2, PageTypes, PTL DEF Spec

\* The flags of a page and the list it is on always agree.
THEOREM FlagsAgree == Spec => []FlagsTellTheList
<1>1. PageInv => FlagsTellTheList
  BY DEF PageInv
<1> QED BY <1>1, PagesKeptInOrder, PTL

\* VM_BUG_ON(PageActive(page)) in shrink_page_list() never fires: whoever
\* activates a page ends lumpy reclaim, and so the second pass.
THEOREM NoBugOnActive == Spec => []NoActiveInPageList
<1>1. PageInv => NoActiveInPageList
  BY DEF PageInv, FlagsInScans, NoActiveInPageList, On
<1> QED BY <1>1, PagesKeptInOrder, PTL

\* No page is released or free while a scan, a pagevec, a task or a user holds
\* it.
THEOREM NoEarlyRelease == Spec => []ReleasedByTheLast
<1>1. PageInv => ReleasedByTheLast
  BY DEF PageInv, LastReference, ScansHoldTheirPages, ReleasedByTheLast,
         LruLists, ScanLists
<1> QED BY <1>1, PagesKeptInOrder, PTL

-----------------------------------------------------------------------------
(* The steps that matter to the counter.                                   *)

CountingAt == {"age", "check", "undo"}

\* A page whose counter a reclaimer has loaded is in that reclaimer's hands,
\* on a list of its own.
LEMMA OneCounts ==
    ASSUME ScansKnowTheirPage, NEW r \in Reclaimers, rpc[r] \in CountingAt
    PROVE  /\ page[r] \in Pages /\ by[page[r]] = r
           /\ list[page[r]] \in {"l_hold", "page_list"}
           /\ \A s \in Reclaimers : rpc[s] \in CountingAt /\ page[s] = page[r] => s = r
BY DEF ScansKnowTheirPage, On, CountingAt

\* The steps that neither load nor store a counter: a reclaimer that has one
\* loaded stays where it is.
QuietScan(r) ==
    /\ rpc'[r] = rpc[r] \/ rpc[r] \notin CountingAt
    /\ rpc'[r] \in CountingAt =>
          rpc'[r] = rpc[r] /\ page'[r] = page[r] /\ loaded'[r] = loaded[r]

Quiet ==
    /\ UNCHANGED PG_referenced
    /\ \A p \in Pages : ~Reset(p)
    /\ \A r \in Reclaimers : QuietScan(r)

\* A reclaimer loads the counter of a page it holds.
Loads(r, p, l) ==
    /\ rpc[r] \notin CountingAt /\ by[p] = r
    /\ rpc' = [rpc EXCEPT ![r] = l]
    /\ page' = [page EXCEPT ![r] = p]
    /\ loaded' = [loaded EXCEPT ![r] = PG_referenced[p]]
    /\ UNCHANGED <<used, PG_referenced, marking>>

\* It stores the counter one higher and is done with it, ...
Stores(r, l) ==
    /\ \/ rpc[r] = "age" /\ l = "active"
       \/ rpc[r] = "check" /\ l \in {"reclaim", "shrink"}
    /\ rpc' = [rpc EXCEPT ![r] = l]
    /\ \A s \in Reclaimers \ {r} : page'[s] = page[s] /\ loaded'[s] = loaded[s]
    /\ PG_referenced' = [PG_referenced EXCEPT ![page[r]] = (loaded[r] + 1) % WordSize]
    /\ \A p \in Pages : ~Taken(p)
    /\ UNCHANGED marking

\* ... or has yet to set it back.
StoresToUndo(r) ==
    /\ rpc[r] = "check"
    /\ rpc' = [rpc EXCEPT ![r] = "undo"]
    /\ PG_referenced' = [PG_referenced EXCEPT ![page[r]] = (loaded[r] + 1) % WordSize]
    /\ UNCHANGED <<used, marking, page, loaded>>

\* The steps of the tasks.
LEMMA TaskCounterSteps ==
    ASSUME TypeOK,
           \/ \E p \in Pages : Use(p)
           \/ \E t \in Tasks : mark_page_accessed(t)
    PROVE  Quiet \/ \E t \in Tasks : MarkReset(t)
<1>1. ASSUME NEW p \in Pages, Use(p) PROVE Quiet
  BY <1>1, PagesOK DEF Use, lru_cache_add, Touch, Drop, release_pages, lru_deactivate_fn,
              taskVars, scanVars, Quiet, QuietScan, Reset
<1>2. ASSUME NEW t \in Tasks, NEW p \in Pages, MarkTest(t, p) PROVE Quiet
  BY <1>2, PagesOK DEF MarkTest, pageVars, scanVars, Quiet, QuietScan, Reset, TypeOK
<1>3. ASSUME NEW t \in Tasks, activate_page(t) PROVE Quiet
  BY <1>3, PagesOK DEF activate_page, scanVars, Quiet, QuietScan, Reset
<1> QED BY <1>1, <1>2, <1>3 DEF mark_page_accessed

\* What a reclaimer's step leaves alone when neither end of it counts a page.
LEMMA ReclaimerQuiet ==
    ASSUME TypeOK, NEW r \in Reclaimers, NEW l, rpc[r] \notin CountingAt,
           l \notin CountingAt, rpc' = [rpc EXCEPT ![r] = l],
           \A s \in Reclaimers \ {r} : page'[s] = page[s] /\ loaded'[s] = loaded[s],
           UNCHANGED <<PG_referenced, marking>>
    PROVE  Quiet
BY PagesOK DEF Quiet, QuietScan, Reset, TypeOK

\* The steps of shrink_active_list().
LEMMA ActiveCounterSteps ==
    ASSUME TypeOK, NEW r \in Reclaimers, shrink_active_list(r)
    PROVE  \/ Quiet
           \/ \E p \in Pages : Loads(r, p, "age")
           \/ ActiveAge(r) /\ Stores(r, "active")
<1> USE DEF taskVars
<1>1. CASE \/ \E isfile \in BOOLEAN : shrink_list(r, isfile)
           \/ ActiveStart(r) \/ ActiveIsolate(r) \/ ActiveDone(r)
  BY <1>1, ReclaimerQuiet DEF shrink_list, ActiveStart, ActiveIsolate, ActiveDone,
     PutBack, EndScan, lru_add_drain, isolate_lru_pages, Goto, CountingAt, pageVars
<1>2. ASSUME NEW p \in Pages, ActiveTake(r, p) PROVE Quiet \/ Loads(r, p, "age")
  <2>1. CASE UNCHANGED rpc
    BY <1>2, <2>1, PagesOK DEF ActiveTake, Goto, TypeOK, Quiet, QuietScan, Reset, CountingAt
  <2>2. CASE rpc' # rpc
    BY <1>2, <2>2 DEF ActiveTake, Goto, On, CountingAt, Loads
  <2> QED BY <2>1, <2>2
<1>3. CASE ActiveAge(r)
  <2>1. \A p \in Pages : ~Taken(p)
    BY <1>3, PagesOK DEF ActiveAge, Taken, TypeOK
  <2>2. \A s \in Reclaimers \ {r} : page'[s] = page[s] /\ loaded'[s] = loaded[s]
    BY <1>3 DEF ActiveAge, TypeOK
  <2> QED BY <1>3, <2>1, <2>2 DEF ActiveAge, Goto, Stores
<1> QED BY <1>1, <1>2, <1>3 DEF shrink_active_list

\* The steps of shrink_inactive_list().
LEMMA InactiveCounterSteps ==
    ASSUME TypeOK, NEW r \in Reclaimers, shrink_inactive_list(r)
    PROVE  \/ Quiet
           \/ \E p \in Pages : Loads(r, p, "check")
           \/ Stores(r, "reclaim") \/ Stores(r, "shrink")
           \/ StoresToUndo(r) \/ PageUndoAge(r)
<1> USE DEF taskVars
<1>1. ASSUME \/ \E lumpy \in BOOLEAN : InactiveStart(r, lumpy)
             \/ InactiveIsolate(r) \/ update_isolated_counts(r)
             \/ InactiveDone(r)
      PROVE  Quiet
  BY <1>1, ReclaimerQuiet DEF InactiveStart, InactiveIsolate, InactiveDone,
     update_isolated_counts, PutBack, EndScan, lru_add_drain, isolate_lru_pages,
     Goto, CountingAt
<1>2. ASSUME \/ \E p \in Pages : PageSkip(r, p)
             \/ PageListAgain(r)
      PROVE  Quiet
  BY <1>2, PagesOK DEF PageSkip, PageListAgain, Quiet, QuietScan, Reset
<1>3. ASSUME NEW p \in Pages, PageCheck(r, p) PROVE Loads(r, p, "check")
  BY <1>3 DEF PageCheck, Goto, On, CountingAt, Loads
<1>4. ASSUME PageCheckAge(r)
      PROVE  Stores(r, "reclaim") \/ Stores(r, "shrink") \/ StoresToUndo(r)
  <2>1. /\ rpc[r] = "check" /\ UNCHANGED <<used, marking>>
        /\ PG_referenced' = [PG_referenced EXCEPT ![page[r]] =
                                (loaded[r] + 1) % WordSize]
    BY <1>4 DEF PageCheckAge
  <2>2. CASE /\ Goto(r, "reclaim") /\ UNCHANGED page
             /\ loaded' = [loaded EXCEPT ![r] = 0]
    <3>1. \A p \in Pages : ~Taken(p)
      BY <2>1 DEF Taken
    <3>2. \A s \in Reclaimers \ {r} : page'[s] = page[s] /\ loaded'[s] = loaded[s]
      BY <2>2 DEF TypeOK
    <3> QED BY <2>1, <2>2, <3>1, <3>2 DEF Goto, Stores
  <2>3. CASE ActivateLocked(r)
    <3>1. /\ rpc' = [rpc EXCEPT ![r] = "shrink"]
          /\ \A s \in Reclaimers \ {r} : page'[s] = page[s] /\ loaded'[s] = loaded[s]
      BY <2>3 DEF ActivateLocked, PageTo, Goto, TypeOK
    <3>2. \A p \in Pages : ~Taken(p)
      BY <2>1 DEF Taken
    <3> QED BY <2>1, <3>1, <3>2 DEF Stores
  <2>4. CASE Goto(r, "undo") /\ UNCHANGED <<page, loaded>>
    BY <2>1, <2>4 DEF Goto, StoresToUndo
  <2> QED BY <1>4, <2>2, <2>3, <2>4 DEF PageCheckAge
<1>5. ASSUME PageReclaim(r) PROVE Quiet
  <2>1. /\ rpc[r] = "reclaim" /\ UNCHANGED <<PG_referenced, marking>>
        /\ rpc' = [rpc EXCEPT ![r] = "shrink"]
        /\ \A s \in Reclaimers \ {r} : page'[s] = page[s] /\ loaded'[s] = loaded[s]
    BY <1>5 DEF PageReclaim, ActivateLocked, KeepLocked, PageTo, Goto, TypeOK
  <2> QED BY <2>1, ReclaimerQuiet DEF CountingAt
<1> QED BY <1>1, <1>2, <1>3, <1>4, <1>5 DEF shrink_inactive_list

\* Every step is quiet, a reset, a load, a store or the setting back.
LEMMA CounterSteps ==
    ASSUME TypeOK, Next
    PROVE  \/ Quiet
           \/ \E t \in Tasks : MarkReset(t)
           \/ \E r \in Reclaimers, p \in Pages, l \in {"age", "check"} : Loads(r, p, l)
           \/ \E r \in Reclaimers : ActiveAge(r) /\ Stores(r, "active")
           \/ \E r \in Reclaimers, l \in {"reclaim", "shrink"} : Stores(r, l)
           \/ \E r \in Reclaimers : StoresToUndo(r) \/ PageUndoAge(r)
BY TaskCounterSteps, ActiveCounterSteps, InactiveCounterSteps DEF Next

\* Only ActiveAge ends shrink_active_list()'s look at a page.
LEMMA LooksAt ==
    ASSUME TypeOK, Next, NEW r \in Reclaimers, rpc[r] = "age", rpc'[r] = "active"
    PROVE  ActiveAge(r) /\ Stores(r, "active")
<1>1. ~ Quiet /\ ~ \E t \in Tasks : MarkReset(t)
  BY DEF Quiet, QuietScan, CountingAt, MarkReset, scanVars
<1>2. ~ \E s \in Reclaimers, p \in Pages, l \in {"age", "check"} : Loads(s, p, l)
  BY DEF Loads, TypeOK, CountingAt
<1>3. ~ \E s \in Reclaimers, l \in {"reclaim", "shrink"} : Stores(s, l)
  BY DEF Stores, TypeOK
<1>4. ~ \E s \in Reclaimers : StoresToUndo(s)
  BY DEF StoresToUndo, TypeOK
<1>5. ~ \E s \in Reclaimers : PageUndoAge(s)
  BY DEF PageUndoAge, ActivateLocked, KeepLocked, PageTo, Goto, TypeOK
<1>6. PICK s \in Reclaimers : ActiveAge(s) /\ Stores(s, "active")
  BY <1>1, <1>2, <1>3, <1>4, <1>5, CounterSteps
<1>7. s = r
  BY <1>6 DEF Stores, TypeOK
<1> QED BY <1>6, <1>7

-----------------------------------------------------------------------------
(* LooksInv is inductive, given TypeOK and PageInv.                        *)

\* They keep LooksInv: a page taken into use is in no reclaimer's hands.
LEMMA QuietKeepsLooks ==
    ASSUME TypeOK, PageInv, LooksInv, Quiet, due' = [p \in Pages |-> Due(p)]
    PROVE  LooksInv'
<1> USE PagesOK DEF PG_REFERENCED_SHRINK_THRESHOLD
<1>1. Aging = {} /\ Checking = {}
  BY DEF Quiet, QuietScan, Aging, Checking, CountingAt
<1>2. ASSUME NEW p \in Pages
      PROVE  /\ ~Taken(p) => due'[p] = due[p]
             /\ Taken(p) => due'[p] = 0 \/ (PG_referenced[p] = 0 /\ due'[p] = 2)
  BY <1>1 DEF Quiet, Due
<1>3. DueType'
  BY <1>2 DEF LooksInv, DueType
<1>4. ASSUME NEW r \in Reclaimers, rpc'[r] \in CountingAt
      PROVE  /\ rpc'[r] = rpc[r] /\ page'[r] = page[r] /\ loaded'[r] = loaded[r]
             /\ page[r] \in Pages /\ ~Taken(page[r])
  <2>1. rpc'[r] = rpc[r] /\ page'[r] = page[r] /\ loaded'[r] = loaded[r]
    BY <1>4 DEF Quiet, QuietScan
  <2>2. page[r] \in Pages /\ list[page[r]] \in {"l_hold", "page_list"}
    BY <1>4, <2>1, OneCounts DEF PageInv
  <2> QED BY <2>1, <2>2 DEF Taken
<1>5. LoadsAreFresh'
  BY <1>2, <1>4 DEF LooksInv, LoadsAreFresh, Quiet, CountingAt
<1>6. CounterTells'
  <2> SUFFICES ASSUME NEW p \in Pages, due'[p] > 0,
                      ~ PG_referenced'[p] + due'[p] <= 2
               PROVE  \E r \in Reclaimers : rpc'[r] = "undo" /\ page'[r] = p
    BY DEF CounterTells
  <2>1. ~Taken(p) /\ due'[p] = due[p]
    BY <1>2 DEF Quiet
  <2>2. PICK r \in Reclaimers : rpc[r] = "undo" /\ page[r] = p
    BY <2>1 DEF LooksInv, CounterTells, Quiet
  <2>3. rpc'[r] = "undo" /\ page'[r] = p
    BY <2>2 DEF Quiet, QuietScan, CountingAt
  <2> QED BY <2>3
<1> QED BY <1>3, <1>5, <1>6 DEF LooksInv

\* A step that loads the counter of a page that is on a list of its own.
LEMMA LoadKeepsLooks ==
    ASSUME TypeOK, PageInv, LooksInv, due' = [p \in Pages |-> Due(p)],
           NEW r \in Reclaimers, NEW p \in Pages, NEW l \in {"age", "check"},
           Loads(r, p, l)
    PROVE  LooksInv'
<1> USE PagesOK DEF PG_REFERENCED_SHRINK_THRESHOLD, Loads
<1>1. /\ Aging = {} /\ Checking = {}
      /\ \A q \in Pages : ~Reset(q) /\ ~Taken(q)
  BY DEF Aging, Checking, Reset, Taken, CountingAt, TypeOK
<1>2. due' = due
  BY <1>1 DEF Due, LooksInv, DueType
<1>3. \A s \in Reclaimers : rpc[s] = "undo" => page[s] # p
  BY OneCounts DEF PageInv, CountingAt
<1>4. CounterTells'
  BY <1>2 DEF LooksInv, CounterTells, CountingAt, TypeOK
<1>5. LoadsAreFresh'
  <2> SUFFICES ASSUME NEW s \in Reclaimers, rpc'[s] \in CountingAt,
                      due'[page'[s]] > 0
               PROVE  /\ loaded'[s] + due'[page'[s]] <= 2
                      /\ PG_referenced'[page'[s]] =
                            IF rpc'[s] = "undo" THEN loaded'[s] + 1 ELSE loaded'[s]
    BY DEF LoadsAreFresh, CountingAt
  <2>1. CASE s = r
    BY <2>1, <1>2, <1>3 DEF LooksInv, CounterTells, TypeOK
  <2>2. CASE s # r
    BY <2>2, <1>2 DEF LooksInv, LoadsAreFresh, TypeOK, CountingAt
  <2> QED BY <2>1, <2>2
<1> QED BY <1>2, <1>4, <1>5 DEF LooksInv, DueType

\* A step that stores the counter one higher and is done with it leaves the
\* page older.
LEMMA StoreKeepsLooks ==
    ASSUME TypeOK, PageInv, LooksInv, due' = [p \in Pages |-> Due(p)],
           NEW r \in Reclaimers, NEW l, Stores(r, l)
    PROVE  /\ LooksInv'
           /\ due[page[r]] > 0 => /\ due'[page[r]] = due[page[r]] - 1
                                  /\ loaded[r] + due[page[r]] <= 2
<1> USE PagesOK DEF PG_REFERENCED_SHRINK_THRESHOLD, Stores
<1>1. /\ rpc[r] \in CountingAt /\ rpc[r] # "undo" /\ l \notin CountingAt
      /\ \A p \in Pages : ~Reset(p)
      /\ Aging \cup Checking = {r}
  BY DEF Aging, Checking, Reset, CountingAt, TypeOK
<1>2. /\ page[r] \in Pages
      /\ \A s \in Reclaimers : rpc[s] \in CountingAt /\ page[s] = page[r] => s = r
  BY <1>1, OneCounts DEF PageInv
<1>3. ASSUME NEW p \in Pages
      PROVE  /\ p # page[r] => due'[p] = due[p]
             /\ p = page[r] =>
                   due'[p] = IF due[p] > 0 THEN due[p] - 1 ELSE due[p]
  BY <1>1 DEF Due
<1>4. due[page[r]] > 0 => loaded[r] + due[page[r]] <= 2
  BY <1>1 DEF LooksInv, LoadsAreFresh, CountingAt
<1>5. due[page[r]] \in 0..2 /\ loaded[r] \in 0..(WordSize - 1)
  BY <1>2 DEF LooksInv, DueType, TypeOK
<1>6. due'[page[r]] > 0 => PG_referenced'[page[r]] = 1 /\ due'[page[r]] = 1
  <2> SUFFICES ASSUME due'[page[r]] > 0
               PROVE  PG_referenced'[page[r]] = 1 /\ due'[page[r]] = 1
    OBVIOUS
  <2>1. due'[page[r]] = 1 /\ loaded[r] = 0
    BY <1>2, <1>3, <1>4, <1>5
  <2>2. (loaded[r] + 1) % WordSize = 1
    BY <2>1
  <2> QED BY <1>2, <2>1, <2>2 DEF TypeOK
<1>7. DueType'
  BY <1>3 DEF LooksInv, DueType
<1>8. ASSUME NEW s \in Reclaimers, rpc'[s] \in CountingAt
      PROVE  /\ s # r /\ rpc'[s] = rpc[s] /\ page'[s] = page[s]
             /\ loaded'[s] = loaded[s] /\ page[s] \in Pages /\ page[s] # page[r]
  <2>1. s # r
    BY <1>1, <1>8 DEF TypeOK
  <2>2. rpc'[s] = rpc[s] /\ page'[s] = page[s] /\ loaded'[s] = loaded[s]
    BY <2>1 DEF TypeOK
  <2>3. page[s] \in Pages
    BY <1>8, <2>2, OneCounts DEF PageInv
  <2> QED BY <1>2, <1>8, <2>1, <2>2, <2>3
<1>9. LoadsAreFresh'
  BY <1>3, <1>8 DEF LooksInv, LoadsAreFresh, CountingAt, TypeOK
<1>10. CounterTells'
  <2> SUFFICES ASSUME NEW p \in Pages, due'[p] > 0,
                      ~ PG_referenced'[p] + due'[p] <= 2
               PROVE  \E s \in Reclaimers : rpc'[s] = "undo" /\ page'[s] = p
    BY DEF CounterTells
  <2>1. p # page[r]
    BY <1>6
  <2>2. due'[p] = due[p] /\ PG_referenced'[p] = PG_referenced[p]
    BY <1>3, <2>1 DEF TypeOK
  <2>3. PICK s \in Reclaimers : rpc[s] = "undo" /\ page[s] = p
    BY <2>2 DEF LooksInv, CounterTells
  <2>4. rpc'[s] = "undo" /\ page'[s] = p
    BY <1>1, <2>3 DEF TypeOK
  <2> QED BY <2>4
<1> QED BY <1>2, <1>3, <1>4, <1>7, <1>9, <1>10 DEF LooksInv

\* The first store of page_check_references() that the second will undo.
LEMMA StoreToUndoKeepsLooks ==
    ASSUME TypeOK, PageInv, LooksInv, due' = [p \in Pages |-> Due(p)],
           NEW r \in Reclaimers, StoresToUndo(r)
    PROVE  LooksInv'
<1> USE PagesOK DEF PG_REFERENCED_SHRINK_THRESHOLD, StoresToUndo
<1>1. /\ \A q \in Pages : ~Reset(q) /\ ~Taken(q)
      /\ Aging = {} /\ Checking = {}
  BY DEF Aging, Checking, Reset, Taken, TypeOK
<1>2. due' = due
  BY <1>1 DEF Due, LooksInv, DueType
<1>3. /\ page[r] \in Pages
      /\ \A s \in Reclaimers : rpc[s] \in CountingAt /\ page[s] = page[r] => s = r
  BY OneCounts DEF PageInv, CountingAt
<1>4. due[page[r]] > 0 => /\ loaded[r] + due[page[r]] <= 2
                          /\ (loaded[r] + 1) % WordSize = loaded[r] + 1
  <2>1. due[page[r]] > 0 => loaded[r] + due[page[r]] <= 2
    BY DEF LooksInv, LoadsAreFresh
  <2>2. due[page[r]] \in 0..2 /\ loaded[r] \in 0..(WordSize - 1)
    BY <1>3 DEF LooksInv, DueType, TypeOK
  <2>3. due[page[r]] > 0 => loaded[r] = 0 \/ loaded[r] = 1
    BY <2>1, <2>2
  <2>4. 1 % WordSize = 1 /\ 2 % WordSize = 2
    OBVIOUS
  <2> QED BY <2>1, <2>3, <2>4
<1>5. LoadsAreFresh'
  <2> SUFFICES ASSUME NEW s \in Reclaimers, rpc'[s] \in CountingAt,
                      due'[page'[s]] > 0
               PROVE  /\ loaded'[s] + due'[page'[s]] <= 2
                      /\ PG_referenced'[page'[s]] =
                            IF rpc'[s] = "undo" THEN loaded'[s] + 1 ELSE loaded'[s]
    BY DEF LoadsAreFresh, CountingAt
  <2>1. CASE s = r
    BY <2>1, <1>2, <1>3, <1>4 DEF TypeOK
  <2>2. CASE s # r
    <3>1. rpc[s] \in CountingAt /\ rpc'[s] = rpc[s] /\ page[s] # page[r]
      BY <2>2, <1>3 DEF TypeOK, CountingAt
    <3> QED BY <3>1, <1>2 DEF LooksInv, LoadsAreFresh, TypeOK, CountingAt
  <2> QED BY <2>1, <2>2
<1>6. CounterTells'
  BY <1>2, <1>3 DEF LooksInv, CounterTells, TypeOK
<1> QED BY <1>2, <1>5, <1>6 DEF LooksInv, DueType

\* The second, which sets the counter back: whichever value it starts from,
\* the page is as old as before, unless its counter was reset in between.
LEMMA UndoKeepsLooks ==
    ASSUME TypeOK, PageInv, LooksInv, due' = [p \in Pages |-> Due(p)],
           NEW r \in Reclaimers, PageUndoAge(r)
    PROVE  LooksInv'
<1> USE PagesOK DEF PG_REFERENCED_SHRINK_THRESHOLD
<1>1. /\ rpc[r] = "undo" /\ UNCHANGED <<used, marking>>
      /\ rpc' = [rpc EXCEPT ![r] = "shrink"]
      /\ \A s \in Reclaimers \ {r} : page'[s] = page[s] /\ loaded'[s] = loaded[s]
  BY DEF PageUndoAge, ActivateLocked, KeepLocked, PageTo, Goto, taskVars, TypeOK
<1>2. /\ \A q \in Pages : ~Reset(q) /\ ~Taken(q)
      /\ Aging = {} /\ Checking = {}
  BY <1>1 DEF Aging, Checking, Reset, Taken, TypeOK
<1>3. due' = due
  BY <1>2 DEF Due, LooksInv, DueType
<1>4. /\ page[r] \in Pages
      /\ \A s \in Reclaimers : rpc[s] \in CountingAt /\ page[s] = page[r] => s = r
  BY <1>1, OneCounts DEF PageInv, CountingAt
<1>5. PICK v \in {PG_referenced[page[r]], (loaded[r] + 1) % WordSize} :
         PG_referenced' = [PG_referenced EXCEPT ![page[r]] =
                              (v + WordSize - 1) % WordSize]
  BY DEF PageUndoAge
<1>6. due[page[r]] > 0 => PG_referenced'[page[r]] + due[page[r]] <= 2
  <2> SUFFICES ASSUME due[page[r]] > 0
               PROVE  PG_referenced'[page[r]] + due[page[r]] <= 2
    OBVIOUS
  <2>1. /\ loaded[r] + due[page[r]] <= 2
        /\ PG_referenced[page[r]] = loaded[r] + 1
    BY <1>1 DEF LooksInv, LoadsAreFresh
  <2>2. due[page[r]] \in 0..2 /\ loaded[r] \in 0..(WordSize - 1)
    BY <1>4 DEF LooksInv, DueType, TypeOK
  <2>3. loaded[r] = 0 \/ loaded[r] = 1
    BY <2>1, <2>2
  <2>4. 1 % WordSize = 1 /\ 2 % WordSize = 2
    OBVIOUS
  <2>5. v = loaded[r] + 1
    BY <1>5, <2>1, <2>3, <2>4
  <2>6. /\ (1 + WordSize - 1) % WordSize = 0
        /\ (2 + WordSize - 1) % WordSize = 1
    OBVIOUS
  <2>7. (v + WordSize - 1) % WordSize = loaded[r]
    BY <2>3, <2>5, <2>6
  <2> QED BY <1>4, <1>5, <2>1, <2>7 DEF TypeOK
<1>7. ASSUME NEW p \in Pages, p # page[r]
      PROVE  PG_referenced'[p] = PG_referenced[p]
  BY <1>5, <1>7 DEF TypeOK
<1>8. ASSUME NEW s \in Reclaimers, rpc'[s] \in CountingAt
      PROVE  /\ s # r /\ rpc'[s] = rpc[s] /\ page'[s] = page[s]
             /\ loaded'[s] = loaded[s] /\ page[s] \in Pages /\ page[s] # page[r]
  <2>1. s # r
    BY <1>1, <1>8 DEF TypeOK, CountingAt
  <2>2. rpc'[s] = rpc[s] /\ page'[s] = page[s] /\ loaded'[s] = loaded[s]
    BY <1>1, <2>1 DEF TypeOK
  <2>3. page[s] \in Pages
    BY <1>8, <2>2, OneCounts DEF PageInv
  <2> QED BY <1>4, <1>8, <2>1, <2>2, <2>3
<1>9. LoadsAreFresh'
  BY <1>3, <1>7, <1>8 DEF LooksInv, LoadsAreFresh, CountingAt
<1>10. CounterTells'
  <2> SUFFICES ASSUME NEW p \in Pages, due'[p] > 0,
                      ~ PG_referenced'[p] + due'[p] <= 2
               PROVE  \E s \in Reclaimers : rpc'[s] = "undo" /\ page'[s] = p
    BY DEF CounterTells
  <2>1. p # page[r]
    BY <1>3, <1>6
  <2>2. PICK s \in Reclaimers : rpc[s] = "undo" /\ page[s] = p
    BY <1>3, <1>7, <2>1 DEF LooksInv, CounterTells
  <2>3. rpc'[s] = "undo" /\ page'[s] = p
    BY <1>1, <2>1, <2>2 DEF TypeOK
  <2> QED BY <2>3
<1> QED BY <1>3, <1>9, <1>10 DEF LooksInv, DueType

\* A reset while no reclaimer counts the page sets the counter to what the
\* page has ahead of it; any other excuses the page.
LEMMA ResetKeepsLooks ==
    ASSUME TypeOK, PageInv, LooksInv, due' = [p \in Pages |-> Due(p)],
           NEW t \in Tasks, MarkReset(t)
    PROVE  LooksInv'
<1> USE PagesOK DEF PG_REFERENCED_SHRINK_THRESHOLD
<1> DEFINE p == marking[t]
<1>1. /\ p \in Pages
      /\ PG_referenced' = [PG_referenced EXCEPT ![p] = 0]
      /\ UNCHANGED <<list, rpc, page, loaded>>
  BY DEF MarkReset, TypeOK, scanVars
<1>2. /\ \A q \in Pages : (Reset(q) <=> q = p) /\ ~Taken(q)
      /\ Aging = {} /\ Checking = {}
  BY <1>1 DEF MarkReset, Aging, Checking, Reset, Taken, TypeOK
<1>3. ASSUME NEW q \in Pages
      PROVE  /\ q # p => due'[q] = due[q] /\ PG_referenced'[q] = PG_referenced[q]
             /\ q = p => due'[q] = 0 \/ (~Counting(p) /\ due'[q] = 2)
  BY <1>1, <1>2 DEF Due, TypeOK
<1>4. PG_referenced'[p] = 0
  BY <1>1 DEF TypeOK
<1> HIDE DEF p
<1>5. DueType'
  BY <1>3 DEF LooksInv, DueType
<1>6. CounterTells'
  BY <1>1, <1>3, <1>4 DEF LooksInv, CounterTells
<1>7. LoadsAreFresh'
  <2> SUFFICES ASSUME NEW s \in Reclaimers, rpc'[s] \in CountingAt,
                      due'[page'[s]] > 0
               PROVE  /\ loaded'[s] + due'[page'[s]] <= 2
                      /\ PG_referenced'[page'[s]] =
                            IF rpc'[s] = "undo" THEN loaded'[s] + 1 ELSE loaded'[s]
    BY DEF LoadsAreFresh, CountingAt
  <2>1. page[s] \in Pages
    BY <1>1, OneCounts DEF PageInv
  <2>2. page[s] # p
    <3>1. page[s] = p => Counting(p)
      BY <1>1 DEF Counting, CountingAt
    <3> QED BY <1>1, <1>3, <3>1
  <2> QED BY <1>1, <1>3, <2>1, <2>2 DEF LooksInv, LoadsAreFresh, CountingAt
<1> QED BY <1>5, <1>6, <1>7 DEF LooksInv

\* What every step keeps.
LEMMA StepsKeepLooks ==
    TypeOK /\ PageInv /\ LooksInv /\ [LooksNext]_lookVars => LooksInv'
<1> SUFFICES ASSUME TypeOK, PageInv, LooksInv, [LooksNext]_lookVars PROVE LooksInv'
  OBVIOUS
<1>1. CASE UNCHANGED lookVars
  BY <1>1 DEF lookVars, vars, LooksInv, DueType, CounterTells, LoadsAreFresh
<1>2. CASE LooksNext
  <2>1. due' = [p \in Pages |-> Due(p)] /\ Next
    BY <1>2 DEF LooksNext
  <2> QED BY <2>1, CounterSteps, QuietKeepsLooks, ResetKeepsLooks, LoadKeepsLooks,
             StoreKeepsLooks, StoreToUndoKeepsLooks, UndoKeepsLooks
<1> QED BY <1>1, <1>2

\* The reclaimer whose page is deactivated for its age was the last to leave
\* it older of those it had ahead of it.
LEMMA StepsDeactivateLate ==
    TypeOK /\ PageInv /\ LooksInv /\ [LooksNext]_lookVars =>
       [\A r \in Aging : PageActive'[page[r]] \/ due'[page[r]] = 0]_lookVars
<1> SUFFICES ASSUME TypeOK, PageInv, LooksInv, LooksNext, NEW r \in Aging,
                    ~ PageActive'[page[r]]
             PROVE  due'[page[r]] = 0
  OBVIOUS
<1>1. r \in Reclaimers /\ rpc[r] = "age" /\ rpc'[r] = "active"
  BY DEF Aging
<1>2. ActiveAge(r) /\ Stores(r, "active")
  BY <1>1, LooksAt DEF LooksNext
<1>5. due[page[r]] > 0 => /\ due'[page[r]] = due[page[r]] - 1
                          /\ loaded[r] + due[page[r]] <= 2
  BY <1>1, <1>2, StoreKeepsLooks DEF LooksNext
<1>6. page[r] \in Pages /\ PageActive[page[r]]
  BY <1>1 DEF PageInv, ScansKnowTheirPage, FlagsInScans, On
<1>7. (loaded[r] + 1) % WordSize >= 2
  <2>1. ~ (loaded[r] + 1) % WordSize < PG_REFERENCED_SHRINK_THRESHOLD
    BY <1>2, <1>6 DEF ActiveAge
  <2>2. (loaded[r] + 1) % WordSize \in 0..(WordSize - 1)
    BY <1>1, CounterType DEF TypeOK
  <2> QED BY <2>1, <2>2 DEF PG_REFERENCED_SHRINK_THRESHOLD
<1>8. loaded[r] # 0
  BY <1>7, PagesOK
<1>9. loaded[r] \in Nat /\ due[page[r]] \in 0..2
  BY <1>1, <1>6 DEF TypeOK, LooksInv, DueType, PG_REFERENCED_SHRINK_THRESHOLD
<1>10. due[page[r]] = 0 => due'[page[r]] = 0
  <2>1. \A q \in Pages : ~Reset(q) /\ ~Taken(q)
    BY <1>2, PagesOK DEF Stores, Reset
  <2> QED BY <1>6, <2>1 DEF LooksNext, Due
<1> QED BY <1>5, <1>8, <1>9, <1>10

\* The memory does not get in the way of the program's steps.
LEMMA LooksAreSteps == LooksSpec => Spec
<1>1. LooksInit => Init
  BY DEF LooksInit
<1>2. [LooksNext]_lookVars => [Next]_vars
  BY DEF LooksNext, lookVars
<1> QED BY <1>1, <1>2, PTL DEF LooksSpec, Spec

\* The counter and what the reclaimers have loaded of it never run ahead of
\* the scans a page has behind it, for any pages, reclaimers and tasks.
THEOREM CountersTellTheLooks == LooksSpec => []LooksInv
<1>1. LooksInit => LooksInv
  BY DEF LooksInit, Init, LooksInv, DueType, CounterTells, LoadsAreFresh,
         PG_REFERENCED_SHRINK_THRESHOLD
<1> QED BY <1>1, StepsKeepLooks, LooksAreSteps, PageTypes, PagesKeptInOrder, PTL
        DEF LooksSpec

\* A page is deactivated for its age only by the second scan that left it
\* older since it was marked or taken into use, except after a reset a scan
\* may have overwritten and for a page that was old when it was taken.
THEOREM AgedByTwoLooks == LooksSpec => DeactivatedAfterTwoLooks
<1> QED BY StepsDeactivateLate, CountersTellTheLooks, LooksAreSteps, PageTypes,
           PagesKeptInOrder, PTL DEF LooksSpec, DeactivatedAfterTwoLooks

-----------------------------------------------------------------------------
(* KeptInv is inductive, given TypeOK and PageInv.                         *)

\* What KeptNext makes of kept.
Remembers ==
    kept' = [p \in Pages |->
                IF p \in Changed THEN 0
                ELSE IF p \notin Looked THEN kept[p]
                ELSE IF ~PageActive'[p] THEN 0
                ELSE IF kept[p] <= PG_REFERENCED_SHRINK_THRESHOLD
                THEN kept[p] + 1 ELSE kept[p]]

\* A step that ends no look of shrink_active_list() keeps KeptInv if it changes
\* the counters of pages in Changed only, and loads what is there.
LEMMA OthersKeepKept ==
    ASSUME TypeOK, KeptInv, Remembers, Looked = {},
           \A p \in Pages \ Changed : PG_referenced'[p] = PG_referenced[p],
           \A r \in Reclaimers : rpc'[r] \in {"age", "undo"} => page'[r] \in Pages,
           \A r \in Reclaimers : rpc'[r] = "age" =>
              \/ rpc[r] = "age" /\ page'[r] = page[r] /\ loaded'[r] = loaded[r]
              \/ loaded'[r] = PG_referenced'[page'[r]],
           \A r \in Reclaimers : rpc'[r] = "undo" =>
              \/ rpc[r] = "undo" /\ page'[r] = page[r]
              \/ page'[r] \in Changed
    PROVE  KeptInv'
<1>1. \A p \in Pages : kept'[p] = IF p \in Changed THEN 0 ELSE kept[p]
  BY DEF Remembers
<1>2. KeptType'
  BY DEF Remembers, KeptInv, KeptType
<1>3. CounterOfKept'
  BY <1>1 DEF KeptInv, CounterOfKept
<1>4. LoadOfKept'
  BY <1>1 DEF KeptInv, LoadOfKept
<1>5. UndoneIsNotKept'
  BY <1>1 DEF KeptInv, UndoneIsNotKept
<1> QED BY <1>2, <1>3, <1>4, <1>5 DEF KeptInv

LEMMA QuietKeepsKept ==
    ASSUME TypeOK, PageInv, KeptInv, Remembers, Quiet
    PROVE  KeptInv'
<1>1. Looked = {} /\ Changed = {}
  <2>1. ASSUME NEW t \in Tasks, marking[t] # None PROVE marking'[t] # None
    BY <2>1 DEF Quiet, Reset, TypeOK
  <2> QED BY <2>1 DEF Quiet, QuietScan, CountingAt, Looked, Changed
<1>2. ASSUME NEW r \in Reclaimers, rpc'[r] \in CountingAt
      PROVE  /\ rpc[r] = rpc'[r] /\ page'[r] = page[r] /\ loaded'[r] = loaded[r]
             /\ page[r] \in Pages
  <2>1. rpc[r] = rpc'[r] /\ page'[r] = page[r] /\ loaded'[r] = loaded[r]
    BY <1>2 DEF Quiet, QuietScan
  <2> QED BY <1>2, <2>1, OneCounts DEF PageInv
<1> QED BY <1>1, <1>2, OthersKeepKept DEF Quiet, CountingAt

LEMMA ResetKeepsKept ==
    ASSUME TypeOK, PageInv, KeptInv, Remembers, NEW t \in Tasks, MarkReset(t)
    PROVE  KeptInv'
<1>1. /\ PG_referenced' = [PG_referenced EXCEPT ![marking[t]] = 0]
      /\ UNCHANGED <<rpc, page, loaded>>
      /\ marking[t] # None /\ marking' = [marking EXCEPT ![t] = None]
  BY DEF MarkReset, scanVars
<1>2. Looked = {}
  BY <1>1 DEF Looked
<1>3. marking[t] \in Changed
  BY <1>1 DEF Changed, TypeOK
<1>4. \A p \in Pages \ Changed : PG_referenced'[p] = PG_referenced[p]
  BY <1>1, <1>3 DEF TypeOK
<1>5. \A r \in Reclaimers : rpc'[r] \in CountingAt => page'[r] \in Pages
  BY <1>1, OneCounts DEF PageInv
<1> QED BY <1>1, <1>2, <1>4, <1>5, OthersKeepKept DEF CountingAt

LEMMA LoadKeepsKept ==
    ASSUME TypeOK, PageInv, KeptInv, Remembers, NEW r \in Reclaimers,
           NEW p \in Pages, NEW l \in {"age", "check"}, Loads(r, p, l)
    PROVE  KeptInv'
<1>1. Looked = {}
  BY DEF Looked, Loads, TypeOK, CountingAt
<1>2. UNCHANGED PG_referenced
  BY DEF Loads
<1>3. ASSUME NEW s \in Reclaimers, rpc'[s] \in CountingAt
      PROVE  \/ /\ rpc[s] = rpc'[s] /\ page'[s] = page[s] /\ loaded'[s] = loaded[s]
                /\ page[s] \in Pages
             \/ /\ rpc'[s] # "undo" /\ page'[s] = p
                /\ loaded'[s] = PG_referenced'[page'[s]]
  <2>1. CASE s = r
    BY <2>1 DEF Loads, TypeOK
  <2>2. CASE s # r
    <3>1. rpc[s] = rpc'[s] /\ page'[s] = page[s] /\ loaded'[s] = loaded[s]
      BY <2>2 DEF Loads, TypeOK
    <3> QED BY <1>3, <3>1, OneCounts DEF PageInv
  <2> QED BY <2>1, <2>2
<1> QED BY <1>1, <1>2, <1>3, OthersKeepKept DEF CountingAt

\* The stores of page_check_references().
CheckStores(r, l, v) ==
    /\ rpc[r] \in {"check", "undo"} /\ l # rpc[r]
    /\ rpc' = [rpc EXCEPT ![r] = l]
    /\ \A s \in Reclaimers \ {r} : page'[s] = page[s] /\ loaded'[s] = loaded[s]
    /\ l = "undo" => page'[r] = page[r]
    /\ PG_referenced' = [PG_referenced EXCEPT ![page[r]] = v]

Checks(r) == \E l \in {"reclaim", "shrink", "undo"} : \E v : CheckStores(r, l, v)

LEMMA CheckKeepsKept ==
    ASSUME TypeOK, PageInv, KeptInv, Remembers, NEW r \in Reclaimers,
           Checks(r)
    PROVE  KeptInv'
<1> PICK l \in {"reclaim", "shrink", "undo"} : \E v : CheckStores(r, l, v)
  BY DEF Checks
<1> PICK v : CheckStores(r, l, v)
  OBVIOUS
<1> USE DEF CheckStores
<1>1. page[r] \in Pages
  BY OneCounts DEF PageInv, CountingAt
<1>2. Looked = {}
  BY DEF Looked, TypeOK
<1>3. page[r] \in Changed
  BY DEF Changed, TypeOK
<1>4. \A p \in Pages \ Changed : PG_referenced'[p] = PG_referenced[p]
  BY <1>3 DEF TypeOK
<1>5. ASSUME NEW s \in Reclaimers, rpc'[s] \in CountingAt, s # r
      PROVE  /\ rpc[s] = rpc'[s] /\ page'[s] = page[s] /\ loaded'[s] = loaded[s]
             /\ page[s] \in Pages
  <2>1. rpc[s] = rpc'[s] /\ page'[s] = page[s] /\ loaded'[s] = loaded[s]
    BY <1>5 DEF TypeOK
  <2> QED BY <1>5, <2>1, OneCounts DEF PageInv
<1>6. rpc'[r] = l
  BY DEF TypeOK
<1> QED BY <1>1, <1>2, <1>3, <1>4, <1>5, <1>6, OthersKeepKept DEF CountingAt

\* The store of shrink_active_list(): a page that is kept for the second time
\* in a row has the counter 1 after it, so that there is no third time.
LEMMA AgeKeepsKept ==
    ASSUME TypeOK, PageInv, KeptInv, Remembers, NEW r \in Reclaimers,
           ActiveAge(r), Stores(r, "active")
    PROVE  KeptInv'
<1> USE PagesOK
<1> DEFINE q   == page[r]
           age == (loaded[r] + 1) % WordSize
<1>1. /\ rpc[r] = "age" /\ rpc' = [rpc EXCEPT ![r] = "active"]
      /\ \A s \in Reclaimers \ {r} : page'[s] = page[s] /\ loaded'[s] = loaded[s]
      /\ PG_referenced' = [PG_referenced EXCEPT ![q] = age]
      /\ UNCHANGED marking
  BY DEF ActiveAge, Stores
<1>2. q \in Pages /\ \A s \in Reclaimers : rpc[s] \in CountingAt /\ page[s] = q => s = r
  BY <1>1, OneCounts DEF PageInv, CountingAt
<1>3. Looked = {q} /\ Changed = {}
  BY <1>1 DEF Looked, Changed, TypeOK
<1>4. age \in 0..(WordSize - 1) /\ loaded[r] \in 0..(WordSize - 1)
  <2>1. loaded[r] \in 0..(WordSize - 1)
    BY DEF TypeOK
  <2> QED BY <2>1, CounterType
<1>5. PageActive'[q] => age < 2
  <2>1. ~(age < 2) => PageActive' = [PageActive EXCEPT ![q] = FALSE]
    BY DEF ActiveAge, PG_REFERENCED_SHRINK_THRESHOLD
  <2> QED BY <1>2, <2>1 DEF TypeOK
<1>6. ASSUME NEW p \in Pages
      PROVE  /\ p # q => kept'[p] = kept[p] /\ PG_referenced'[p] = PG_referenced[p]
             /\ p = q => /\ kept'[p] = IF PageActive'[q] THEN kept[q] + 1 ELSE 0
                         /\ PG_referenced'[p] = age
  <2>1. /\ p # q => kept'[p] = kept[p]
        /\ p = q => kept'[p] = IF PageActive'[q] THEN kept[q] + 1 ELSE 0
    <3>1. kept[q] <= PG_REFERENCED_SHRINK_THRESHOLD
      BY <1>2 DEF KeptInv, CounterOfKept, PG_REFERENCED_SHRINK_THRESHOLD
    <3> QED BY <1>3, <3>1 DEF Remembers
  <2>2. /\ p # q => PG_referenced'[p] = PG_referenced[p]
        /\ p = q => PG_referenced'[p] = age
    BY <1>1 DEF TypeOK
  <2> QED BY <2>1, <2>2
<1>7. kept[q] > 0 => loaded[r] = PG_referenced[q]
  BY <1>1 DEF KeptInv, LoadOfKept
<1>8. \/ kept[q] = 0
      \/ kept[q] = 1 /\ loaded[r] \in {0, 1}
      \/ kept[q] = 2 /\ loaded[r] = 1
  BY <1>2, <1>7 DEF KeptInv, CounterOfKept
<1>9. (loaded[r] = 0 => age = 1) /\ (loaded[r] = 1 => age = 2)
  <2>1. 1 % WordSize = 1 /\ 2 % WordSize = 2
    OBVIOUS
  <2> QED BY <2>1
<1> HIDE DEF age
<1>10. PageActive'[q] => \/ kept[q] = 0 /\ age \in {0, 1}
                         \/ kept[q] = 1 /\ age = 1
  BY <1>4, <1>5, <1>8, <1>9
<1> HIDE DEF q
<1>11. KeptType'
  BY <1>3 DEF Remembers, KeptInv, KeptType
<1>12. CounterOfKept'
  <2> SUFFICES ASSUME NEW p \in Pages
               PROVE  \/ kept'[p] = 0
                      \/ kept'[p] = 1 /\ PG_referenced'[p] \in {0, 1}
                      \/ kept'[p] = 2 /\ PG_referenced'[p] = 1
    BY DEF CounterOfKept
  <2>1. CASE p # q
    BY <1>6, <2>1 DEF KeptInv, CounterOfKept
  <2>2. CASE p = q /\ PageActive'[q]
    BY <1>6, <1>10, <2>2
  <2>3. CASE p = q /\ ~PageActive'[q]
    BY <1>6, <2>3
  <2> QED BY <2>1, <2>2, <2>3
<1>13. ASSUME NEW s \in Reclaimers, rpc'[s] \in CountingAt
       PROVE  /\ rpc[s] = rpc'[s] /\ page'[s] = page[s] /\ loaded'[s] = loaded[s]
              /\ page[s] \in Pages /\ page[s] # q
  <2>1. s # r
    BY <1>1, <1>13 DEF TypeOK, CountingAt
  <2>2. rpc[s] = rpc'[s] /\ page'[s] = page[s] /\ loaded'[s] = loaded[s]
    BY <1>1, <2>1 DEF TypeOK
  <2> QED BY <1>2, <1>13, <2>1, <2>2, OneCounts DEF PageInv
<1>14. LoadOfKept'
  BY <1>6, <1>13 DEF KeptInv, LoadOfKept, CountingAt
<1>15. UndoneIsNotKept'
  BY <1>6, <1>13 DEF KeptInv, UndoneIsNotKept, CountingAt
<1> QED BY <1>11, <1>12, <1>14, <1>15 DEF KeptInv

\* What every step keeps.
LEMMA StepsKeepKept ==
    TypeOK /\ PageInv /\ KeptInv /\ [KeptNext]_keptVars => KeptInv'
<1> SUFFICES ASSUME TypeOK, PageInv, KeptInv, [KeptNext]_keptVars PROVE KeptInv'
  OBVIOUS
<1>1. CASE UNCHANGED keptVars
  BY <1>1 DEF keptVars, vars, KeptInv, KeptType, CounterOfKept, LoadOfKept,
     UndoneIsNotKept
<1>2. CASE KeptNext
  <2>1. Remembers /\ Next
    BY <1>2 DEF KeptNext, Remembers
  <2>2. ASSUME NEW r \in Reclaimers, NEW l \in {"reclaim", "shrink"}, Stores(r, l)
        PROVE  KeptInv'
    <3>1. CheckStores(r, l, (loaded[r] + 1) % WordSize)
      BY <2>2 DEF Stores, CheckStores
    <3>2. Checks(r)
      BY <3>1 DEF Checks
    <3> QED BY <2>1, <3>2, CheckKeepsKept
  <2>3. ASSUME NEW r \in Reclaimers, StoresToUndo(r) PROVE KeptInv'
    <3>1. CheckStores(r, "undo", (loaded[r] + 1) % WordSize)
      BY <2>3 DEF StoresToUndo, CheckStores
    <3>2. Checks(r)
      BY <3>1 DEF Checks
    <3> QED BY <2>1, <3>2, CheckKeepsKept
  <2>4. ASSUME NEW r \in Reclaimers, PageUndoAge(r) PROVE KeptInv'
    <3>1. /\ rpc[r] = "undo" /\ rpc' = [rpc EXCEPT ![r] = "shrink"]
          /\ \A s \in Reclaimers \ {r} : page'[s] = page[s] /\ loaded'[s] = loaded[s]
      BY <2>4 DEF PageUndoAge, ActivateLocked, KeepLocked, PageTo, Goto, TypeOK
    <3>2. PICK v : PG_referenced' = [PG_referenced EXCEPT ![page[r]] =
                                        (v + WordSize - 1) % WordSize]
      BY <2>4 DEF PageUndoAge
    <3>3. CheckStores(r, "shrink", (v + WordSize - 1) % WordSize)
      BY <3>1, <3>2 DEF CheckStores
    <3>4. Checks(r)
      BY <3>3 DEF Checks
    <3> QED BY <2>1, <3>4, CheckKeepsKept
  <2> QED BY <2>1, <2>2, <2>3, <2>4, CounterSteps, QuietKeepsKept, ResetKeepsKept,
             LoadKeepsKept, AgeKeepsKept
<1> QED BY <1>1, <1>2

LEMMA KeptAreSteps == KeptSpec => Spec
<1>1. KeptInit => Init
  BY DEF KeptInit
<1>2. [KeptNext]_keptVars => [Next]_vars
  BY DEF KeptNext, keptVars
<1> QED BY <1>1, <1>2, PTL DEF KeptSpec, Spec

\* No page is kept active for its age three times in a row, for any pages,
\* reclaimers and tasks and any size of the counter.
THEOREM NoThirdTime == KeptSpec => []KeptAtMostTwice
<1>1. KeptInit => KeptInv
  BY DEF KeptInit, Init, KeptInv, KeptType, CounterOfKept, LoadOfKept,
         UndoneIsNotKept
<1>2. KeptInv => KeptAtMostTwice
  BY DEF KeptInv, KeptType, CounterOfKept, KeptAtMostTwice,
         PG_REFERENCED_SHRINK_THRESHOLD
<1> QED BY <1>1, <1>2, StepsKeepKept, KeptAreSteps, PageTypes, PagesKeptInOrder, PTL
        DEF KeptSpec

=============================================================================
