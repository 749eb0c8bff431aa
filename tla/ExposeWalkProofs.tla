-------------------------- MODULE ExposeWalkProofs --------------------------
(***************************************************************************)
(* What the walk of expose_page_table() achieves, for any sizes of pages,  *)
(* tables and directories, any kernel sections, frames, areas and          *)
(* addresses: it maps the page tables of the range and no others, the      *)
(* programs find the ones they look up, and a call on a target that keeps  *)
(* its mm is lost for one reason only.  And the programs read the          *)
(* addresses they are given as they are written.                           *)
(***************************************************************************)
EXTENDS ExposeProofs, SequenceTheorems, WellFoundedInduction

\* A region is the addresses from a multiple of PGDIR_SIZE up to the next.
LEMMA QuotientIs ==
    ASSUME NEW a \in Nat, NEW k \in Nat \ {0}, NEW q \in Nat,
           q * k <= a, a < (q + 1) * k
    PROVE  a \div k = q
<1> DEFINE d == a \div k
<1>1. d \in Nat /\ (a % k) \in Nat /\ (a % k) < k
  OBVIOUS
<1>2. a = (k * d) + (a % k)
  OBVIOUS
<1>3. d < q + 1
  BY QuotientBound
<1>4. d < q => (d + 1) * k <= q * k
  BY <1>1
<1>5. (d + 1) * k = (k * d) + k
  BY <1>1
<1>6. k * d \in Nat /\ q * k \in Nat
  BY <1>1
<1>7. ~(d < q)
  BY <1>1, <1>2, <1>4, <1>5, <1>6
<1> QED
  BY <1>1, <1>3, <1>7

LEMMA QuotientBounds ==
    ASSUME NEW a \in Nat, NEW k \in Nat \ {0}
    PROVE  /\ a \div k \in Nat
           /\ (a \div k) * k <= a /\ a < ((a \div k) + 1) * k
           /\ a % k = 0 => a = (a \div k) * k
<1> DEFINE d == a \div k
<1>1. d \in Nat /\ (a % k) \in Nat /\ (a % k) < k
  OBVIOUS
<1>2. a = (k * d) + (a % k)
  OBVIOUS
<1>3. (d + 1) * k = (k * d) + k /\ d * k = k * d /\ k * d \in Nat
  BY <1>1
<1> HIDE DEF d
<1>4. d * k <= a /\ a < (d + 1) * k /\ (a % k = 0 => a = d * k)
  BY <1>1, <1>2, <1>3
<1> QED
  BY <1>1, <1>4 DEF d

LEMMA RegionIs ==
    ASSUME NEW a \in Nat, NEW r \in Nat
    PROVE  Region(a) = r <=> r * PGDIR_SIZE <= a /\ a < (r + 1) * PGDIR_SIZE
<1>1. PGDIR_SIZE \in Nat \ {0}
  BY Sizes
<1>2. ASSUME Region(a) = r
      PROVE  r * PGDIR_SIZE <= a /\ a < (r + 1) * PGDIR_SIZE
  BY <1>1, <1>2, QuotientBounds DEF Region
<1>3. ASSUME r * PGDIR_SIZE <= a, a < (r + 1) * PGDIR_SIZE
      PROVE  Region(a) = r
  BY <1>1, <1>3, QuotientIs DEF Region
<1> QED
  BY <1>2, <1>3

\* The end of the region of a is a number above a, and a start.
LEMMA Boundary ==
    ASSUME NEW a \in Nat
    PROVE  /\ Region(a) \in Nat
           /\ (Region(a) + 1) * PGDIR_SIZE \in Nat
           /\ Region(a) * PGDIR_SIZE \in Nat
           /\ a < (Region(a) + 1) * PGDIR_SIZE
           /\ Region(a) * PGDIR_SIZE <= a
<1>1. PGDIR_SIZE \in Nat \ {0}
  BY Sizes
<1>2. Region(a) \in Nat
  BY <1>1, QuotientBounds DEF Region
<1>3. (Region(a) + 1) * PGDIR_SIZE \in Nat /\ Region(a) * PGDIR_SIZE \in Nat
  BY <1>1, <1>2
<1> QED
  BY <1>2, <1>3, RegionIs

LEMMA BoundaryDivides ==
    ASSUME NEW q \in Nat
    PROVE  (q * PGDIR_SIZE) % PGDIR_SIZE = 0
<1> DEFINE k == PGDIR_SIZE
           a == q * k
<1>1. k \in Nat \ {0}
  BY Sizes
<1>2. a \in Nat /\ a < (q + 1) * k
  <2>1. (q + 1) * k = a + k /\ a \in Nat
    BY <1>1
  <2> QED
    BY <1>1, <2>1
<1>3. a \div k = q
  BY <1>1, <1>2, QuotientIs
<1>4. a = (k * (a \div k)) + (a % k) /\ (a % k) \in Nat
  BY <1>1, <1>2
<1>5. k * q = a
  BY <1>1
<1> HIDE DEF a, k
<1>6. a % k = 0
  BY <1>2, <1>3, <1>4, <1>5
<1> QED
  BY <1>6 DEF a, k

\* Between an address and the end of its region there is no other start.
LEMMA NoStartBetween ==
    ASSUME NEW a \in Nat, NEW c \in Nat, a < c, c < (Region(a) + 1) * PGDIR_SIZE
    PROVE  Region(c) = Region(a) /\ c % PGDIR_SIZE # 0
<1>1. /\ Region(a) \in Nat /\ Region(a) * PGDIR_SIZE \in Nat
      /\ Region(a) * PGDIR_SIZE <= a
  BY Boundary
<1>2. Region(a) * PGDIR_SIZE <= c
  BY <1>1
<1>3. Region(c) = Region(a)
  BY <1>1, <1>2, RegionIs
<1>4. c % PGDIR_SIZE = 0 => c = Region(c) * PGDIR_SIZE
  BY Sizes, QuotientBounds DEF Region
<1> QED
  BY <1>1, <1>3, <1>4

\* Where a round goes.
LEMMA NextRound ==
    ASSUME NEW a \in Nat, NEW e \in Nat
    PROVE  LET n == pgd_addr_end(a, e)
           IN  /\ n \in Nat
               /\ n = e \/ (n = (Region(a) + 1) * PGDIR_SIZE /\ n < e /\ a < n)
               /\ n <= e /\ n <= (Region(a) + 1) * PGDIR_SIZE
               /\ a < e => a < n
               /\ a > e => n = e
<1>1. /\ Region(a) \in Nat /\ (Region(a) + 1) * PGDIR_SIZE \in Nat
      /\ a < (Region(a) + 1) * PGDIR_SIZE
  BY Boundary
<1> QED
  BY <1>1 DEF pgd_addr_end

-----------------------------------------------------------------------------
(* The six outcomes of a round of walk_page_range().                       *)

Looks == addr # end_vaddr /\ PfnMapAt(addr) = {}

RoundEnds == addr = end_vaddr /\ pc' = "unload" /\ UNCHANGED <<addr, record>>

RoundSkips(v) ==
    /\ addr # end_vaddr /\ v \in PfnMapAt(addr)
    /\ addr' = v[2] /\ pc' = "walk" /\ UNCHANGED record

RoundFindsNone ==
    /\ Looks /\ addr' = pgd_addr_end(addr, end_vaddr) /\ pc' = "walk"
    /\ UNCHANGED record
    /\ walk_mm \notin gone => ~HasTable(Region(addr))

RoundMaps(f) ==
    /\ Looks /\ addr' = pgd_addr_end(addr, end_vaddr) /\ pc' = "walk"
    /\ f # NoFrame /\ (walk_mm \notin gone => f = table[walk_mm][Region(addr)])
    /\ \A r \in Regions : pgd_base[r] = NULL
    /\ mapped'[1] = f
    /\ pgd_base' = [pgd_base EXCEPT ![Region(addr)] = page_table_addr]

RoundGivesUp == pc' = "unload" /\ err' = TRUE /\ UNCHANGED <<mapped, pgd_base, pte_base>>

RoundIsLost ==
    /\ pc' = "oops" /\ UNCHANGED <<mapped, pgd_base, pte_base>>
    /\ walk_mm \notin gone => /\ Looks /\ mapped[1] # NoFrame
                              /\ HasTable(Region(addr))

LEMMA Rounds ==
    IInv /\ EInv /\ walk_page_range =>
       \/ RoundEnds \/ RoundFindsNone \/ RoundGivesUp \/ RoundIsLost
       \/ \E v \in PfnMapAt(addr) : RoundSkips(v)
       \/ \E f \in Frames : RoundMaps(f)
<1> SUFFICES ASSUME IInv, EInv, walk_page_range
             PROVE  \/ RoundEnds \/ RoundFindsNone \/ RoundGivesUp \/ RoundIsLost
                    \/ \E v \in PfnMapAt(addr) : RoundSkips(v)
                    \/ \E f \in Frames : RoundMaps(f)
  OBVIOUS
<1>0. pc = "walk"
  BY DEF walk_page_range
<1>t. /\ mapped \in [1..PTRS_PER_PGD -> Frames \cup {NoFrame}]
      /\ Region(addr) \in Regions /\ walk_mm \in Mms
      /\ table \in [Mms -> [Regions -> Frames \cup {NoFrame}]]
  BY <1>0, RegionOfAddress
     DEF IInv, CallInv, TypeOK, WalkType, RecordType, TargetType
<1>o. PageOf(pte_base) = 1 /\ 1 \in 1..PTRS_PER_PGD
  BY OnePage DEF EInv, AreaInv
<1>1. CASE addr = end_vaddr
  BY <1>1 DEF walk_page_range, RoundEnds, Goto
<1>2. ASSUME addr # end_vaddr, NEW v \in PfnMapAt(addr), addr' = v[2],
             UNCHANGED <<pc, record>>
      PROVE  RoundSkips(v)
  BY <1>0, <1>2 DEF RoundSkips
<1>3. ASSUME addr # end_vaddr, walk_mm \in gone, Goto("oops"), UNCHANGED <<addr, record>>
      PROVE  RoundIsLost
  BY <1>3 DEF RoundIsLost, Goto, record
<1>4. ASSUME Looks, addr' = pgd_addr_end(addr, end_vaddr),
             NEW f \in IF walk_mm \in gone THEN Frames \cup {NoFrame}
                                           ELSE {table[walk_mm][Region(addr)]},
             IF f = NoFrame /\ Region(addr) \notin Sections
             THEN UNCHANGED <<pc, record>>
             ELSE for_pmd_entry(Region(addr), f)
      PROVE  \/ RoundFindsNone \/ RoundGivesUp \/ RoundIsLost
             \/ \E g \in Frames : RoundMaps(g)
  <2>1. /\ f \in Frames \cup {NoFrame}
        /\ walk_mm \notin gone => f = table[walk_mm][Region(addr)]
    BY <1>4, <1>t
  <2>2. CASE f = NoFrame /\ Region(addr) \notin Sections
    BY <1>0, <1>4, <2>1, <2>2 DEF RoundFindsNone, HasTable
  <2>3. CASE ~(f = NoFrame /\ Region(addr) \notin Sections)
    <3>1. for_pmd_entry(Region(addr), f)
      BY <1>4, <2>3
    <3>2. CASE Goto("unload") /\ err' = TRUE /\ UNCHANGED <<mapped, pgd_base, pte_base>>
      BY <3>2 DEF RoundGivesUp, Goto
    <3>3. CASE /\ Region(addr) \notin Sections /\ mapped[1] # NoFrame
               /\ Goto("oops") /\ UNCHANGED <<err, mapped, pgd_base, pte_base>>
      BY <1>4, <2>1, <2>3, <3>3 DEF RoundIsLost, HasTable, Goto
    <3>4. CASE /\ Region(addr) \notin Sections /\ mapped[1] = NoFrame
               /\ mapped' = [mapped EXCEPT ![1] = f]
               /\ pgd_base' = [pgd_base EXCEPT ![Region(addr)] = pte_base]
               /\ Goto("walk")
      <4>1. pte_base = page_table_addr /\ \A r \in Regions : pgd_base[r] = NULL
        BY <3>4 DEF EInv, AreaInv
      <4>2. mapped'[1] = f /\ f # NoFrame /\ f \in Frames
        BY <1>t, <1>o, <2>1, <2>3, <3>4
      <4>3. RoundMaps(f)
        BY <1>4, <2>1, <3>4, <4>1, <4>2 DEF RoundMaps, Goto
      <4> QED
        BY <4>2, <4>3
    <3> QED
      BY <1>o, <3>1, <3>2, <3>3, <3>4 DEF for_pmd_entry
  <2> QED
    BY <2>2, <2>3
<1> QED
  <2>1. CASE addr # end_vaddr
    <3>1. \/ \E v \in PfnMapAt(addr) : addr' = v[2] /\ UNCHANGED <<pc, record>>
          \/ walk_mm \in gone /\ Goto("oops") /\ UNCHANGED <<addr, record>>
          \/ /\ PfnMapAt(addr) = {}
             /\ addr' = pgd_addr_end(addr, end_vaddr)
             /\ \E f \in IF walk_mm \in gone THEN Frames \cup {NoFrame}
                                             ELSE {table[walk_mm][Region(addr)]} :
                   IF f = NoFrame /\ Region(addr) \notin Sections
                   THEN UNCHANGED <<pc, record>>
                   ELSE for_pmd_entry(Region(addr), f)
      BY <2>1 DEF walk_page_range
    <3> QED
      BY <2>1, <3>1, <1>2, <1>3, <1>4 DEF Looks
  <2> QED
    BY <1>1, <2>1

\* The mm that is the target's is not freed.
LEMMA TargetsMmIsThere == IInv /\ mm # NoMm => mm \notin gone
<1> SUFFICES ASSUME IInv, mm # NoMm PROVE mm \notin gone
  OBVIOUS
<1>1. mm \in Nat /\ \A m \in gone : m < mm
  BY MmsAreNumbers DEF IInv, TargetInv, TypeOK, TargetType
<1>2. ~(mm < mm)
  BY <1>1
<1> QED
  BY <1>1, <1>2

\* In a walk with nothing amiss, the mm walked is the target's and is locked.
LEMMA WalkedMm ==
    ASSUME IInv, pc \in {"walk", "unload"}, GoodWalk
    PROVE  /\ walk_mm = mm /\ locked = mm /\ mm \in Mms /\ activity[mm] = -1
           /\ ~Switching /\ walk_mm \notin gone
<1>1. walk_mm = mm /\ locked = mm /\ activity[mm] = -1 /\ ~Switching
  BY DEF IInv, LockInv, Holding, GoodWalk
<1>2. mm # NoMm /\ mm \in Mms
  BY <1>1 DEF IInv, CallInv, Holding, TypeOK, TargetType
<1> QED
  BY <1>1, <1>2, TargetsMmIsThere

-----------------------------------------------------------------------------
(* What the call does to a target that keeps its mm.                       *)

\* The target has another mm, or none, only by leaving the one it has.
LEMMA MmChanges ==
    IInv /\ Target =>
       \/ mm' = mm
       \/ /\ Switching /\ mm # NoMm /\ (mm' = NoMm \/ mm' = mm + 1)
          /\ tpc' = "exit put" => mm' = NoMm
BY DEF IInv, TargetInv, Switching, Target, __pte_alloc, munmap, Leave, LeaveDown,
       LeaveSwitch, mmput, release_task

LEMMA TargetKeeps == IInv /\ KeepInv /\ Target => KeepInv'
<1> SUFFICES ASSUME IInv, KeepInv, Target PROVE KeepInv'
  OBVIOUS
<1>0. UNCHANGED <<pc, pass, locked, right, walk_mm, mm0>>
  BY TargetLeavesCall DEF callerVars, locks, args
<1>t. /\ mm \in Mms \cup {NoMm} /\ mm0 \in Mms \cup {NoMm}
      /\ Mms \subseteq Nat \ {NoMm}
  BY MmsAreNumbers DEF IInv, TypeOK, TargetType, ArgsType
<1>1. tpc' \in {"exit put", "zombie", "reaped"} => mm' = NoMm
  BY DEF IInv, TargetInv, KeepInv, Target, __pte_alloc, munmap, Leave, LeaveDown,
         LeaveSwitch, mmput, release_task
<1>2. CASE mm' = mm
  BY <1>0, <1>1, <1>2 DEF KeepInv, Holding
<1>3. CASE mm' = NoMm
  BY <1>0, <1>1, <1>3 DEF KeepInv, Holding
<1>4. CASE mm # NoMm /\ mm' = mm + 1
  <2>1. mm \in Nat /\ mm0 \in Nat /\ mm0 # NoMm /\ mm0 <= mm
    BY <1>4, <1>t DEF KeepInv
  <2>2. mm0 <= mm' /\ mm' # mm0
    BY <1>4, <2>1
  <2> QED
    BY <1>0, <1>1, <2>1, <2>2 DEF KeepInv, Holding
<1> QED
  BY <1>2, <1>3, <1>4, MmChanges

LEMMA CallKeeps == IInv /\ KeepInv /\ (Main \/ Call) => KeepInv'
<1> SUFFICES ASSUME IInv, KeepInv, Main \/ Call PROVE KeepInv'
  OBVIOUS
<1>0. UNCHANGED <<tpc, mm>>
  BY CallLeavesTarget
<1>t. /\ mm \in Mms \cup {NoMm} /\ mm0 \in Mms \cup {NoMm}
      /\ Mms \subseteq Nat \ {NoMm}
  BY MmsAreNumbers DEF IInv, TypeOK, TargetType, ArgsType
<1>i. CallInv
  BY DEF IInv
<1>m. mm # NoMm => mm <= mm
  BY <1>t
<1> USE DEF KeepInv, Holding, Goto, args, locks
<1>1. CASE Main
  <2>1. /\ pc = "main" /\ pc' = "call" /\ mm0' = mm
        /\ UNCHANGED <<pass, locked, right, walk_mm>>
    BY <1>1 DEF Main, main
  <2>2. right
    BY <2>1
  <2>3. pc' # "main" /\ pc' # "down" /\ ~Holding' /\ pass' # 2
    <3>1. pass = 1
      BY <2>1, <1>i DEF CallInv
    <3> HIDE DEF KeepInv
    <3> QED
      BY <2>1, <3>1
  <2> HIDE DEF Holding
  <2> QED
    BY <1>0, <1>m, <2>1, <2>2, <2>3, Zenon
<1>2. CASE find_get_pid
  BY <1>0, <1>2 DEF find_get_pid
<1>3. CASE get_pid_task
  BY <1>0, <1>3 DEF get_pid_task
<1>4. CASE LoadSem
  BY <1>0, <1>4 DEF LoadSem
<1>5. CASE down_write
  <2>1. /\ pc = "down" /\ pc' # "main" /\ UNCHANGED <<pass, locked, walk_mm, mm0>>
    BY <1>5 DEF down_write
  <2>2. mm = mm0 /\ mm # NoMm => right' /\ locked = mm
    <3>1. right' = right \/ right' = (right /\ mm = locked)
      BY <1>5 DEF down_write
    <3> QED
      BY <2>1, <3>1, Zenon
  <2> QED
    BY <1>0, <2>1, <2>2
<1>6. CASE ListAreas
  BY <1>0, <1>6 DEF ListAreas
<1>7. CASE LoadSemAgain
  BY <1>0, <1>7 DEF LoadSemAgain
<1>8. CASE up_write
  BY <1>0, <1>8 DEF up_write
<1>9. CASE SetUp
  BY <1>0, <1>9 DEF SetUp
<1>10. CASE walk_page_range
  <2>1. /\ pc = "walk" /\ pc' \in {"walk", "unload", "oops"}
        /\ UNCHANGED <<pass, locked, right, walk_mm, mm0>>
    BY <1>10 DEF walk_page_range, for_pmd_entry
  <2> QED
    BY <1>0, <2>1
<1>11. CASE CopyPgd
  BY <1>0, <1>11 DEF CopyPgd
<1>12. CASE ReadEntry
  BY <1>0, <1>12 DEF ReadEntry
<1> QED
  BY <1>1, <1>2, <1>3, <1>4, <1>5, <1>6, <1>7, <1>8, <1>9, <1>10, <1>11, <1>12
     DEF Call

\* Each round leaves the regions it has mapped behind.
LEMMA WalkBehind == IInv /\ EInv /\ BehindInv /\ walk_page_range => BehindInv'
<1> SUFFICES ASSUME IInv, EInv, BehindInv, walk_page_range PROVE BehindInv'
  OBVIOUS
<1>0. pc = "walk" /\ end_vaddr' = end_vaddr
  BY DEF walk_page_range, args
<1>t. /\ addr \in Nat /\ end_vaddr \in Nat /\ pgd_base \in [Regions -> Nat]
      /\ Region(addr) \in Regions
  BY Sizes, RegionOfAddress DEF IInv, TypeOK, WalkType, ArgsType, RecordType
<1>r. \A r \in Regions : r \in Nat /\ (r + 1) * PGDIR_SIZE \in Nat
  BY Sizes DEF Regions
<1>b. \A r \in Regions : pgd_base[r] # NULL =>
                           (r + 1) * PGDIR_SIZE <= addr \/ addr = end_vaddr
  BY <1>0 DEF BehindInv
<1>s. ASSUME UNCHANGED <<mapped, pgd_base>>, pc' # "walk" PROVE BehindInv'
  BY <1>s DEF BehindInv
<1>1. CASE RoundEnds \/ RoundGivesUp \/ RoundIsLost
  BY <1>1, <1>s DEF RoundEnds, RoundGivesUp, RoundIsLost, record
<1>2. ASSUME NEW v \in PfnMapAt(addr), RoundSkips(v) PROVE BehindInv'
  <2>1. addr < v[2] /\ v[2] \in Nat
    BY ExposeOK DEF PfnMapAt, IInv, TypeOK, TargetType
  <2>2. addr # end_vaddr /\ addr' = v[2] /\ UNCHANGED <<mapped, pgd_base>>
    BY <1>2 DEF RoundSkips, record
  <2>3. \A r \in Regions : pgd_base[r] # NULL => (r + 1) * PGDIR_SIZE <= addr'
    BY <1>t, <1>r, <1>b, <2>1, <2>2
  <2> QED
    BY <2>2, <2>3 DEF BehindInv
<1>n. ASSUME Looks, addr' = pgd_addr_end(addr, end_vaddr)
      PROVE  /\ addr' \in Nat /\ (addr' = end_vaddr \/ addr < addr')
             /\ addr' = end_vaddr \/ addr' = (Region(addr) + 1) * PGDIR_SIZE
  BY <1>n, <1>t, NextRound
<1>3. CASE RoundFindsNone
  <2>1. UNCHANGED <<mapped, pgd_base>> /\ addr # end_vaddr
    BY <1>3 DEF RoundFindsNone, record, Looks
  <2>2. addr' \in Nat /\ (addr' = end_vaddr \/ addr < addr')
    BY <1>3, <1>n DEF RoundFindsNone
  <2>3. \A r \in Regions : pgd_base[r] # NULL =>
                             (r + 1) * PGDIR_SIZE <= addr' \/ addr' = end_vaddr
    BY <1>t, <1>r, <1>b, <2>1, <2>2
  <2> QED
    BY <1>0, <2>1, <2>3 DEF BehindInv
<1>4. ASSUME NEW f \in Frames, RoundMaps(f) PROVE BehindInv'
  <2>1. /\ \A r \in Regions : pgd_base[r] = NULL
        /\ pgd_base' = [pgd_base EXCEPT ![Region(addr)] = page_table_addr]
        /\ page_table_addr # NULL
    BY <1>4 DEF RoundMaps, page_table_addr, NULL
  <2>2. addr' \in Nat /\ (addr' = end_vaddr \/ addr' = (Region(addr) + 1) * PGDIR_SIZE)
    BY <1>4, <1>n DEF RoundMaps
  <2>3. \A r \in Regions : pgd_base'[r] # NULL => r = Region(addr)
    BY <1>t, <2>1
  <2>4. pgd_base'[Region(addr)] # NULL
    BY <1>t, <2>1
  <2>5. addr' = end_vaddr \/ (Region(addr) + 1) * PGDIR_SIZE <= addr'
    BY <2>2
  <2>6. \A r \in Regions : pgd_base'[r] # NULL =>
                             (r + 1) * PGDIR_SIZE <= addr' \/ addr' = end_vaddr
    BY <2>3, <2>5
  <2> QED
    BY <1>0, <1>t, <2>4, <2>6 DEF BehindInv
<1> QED
  BY <1>1, <1>2, <1>3, <1>4, Rounds

LEMMA CallBehind == IInv /\ EInv /\ BehindInv /\ (Main \/ Call) => BehindInv'
<1> SUFFICES ASSUME IInv, EInv, BehindInv, Main \/ Call PROVE BehindInv'
  OBVIOUS
<1>s. ASSUME UNCHANGED record, pc' # "walk" PROVE BehindInv'
  BY <1>s DEF BehindInv, record
<1>1. CASE walk_page_range
  BY <1>1, WalkBehind
<1>2. CASE down_write
  <2>1. UNCHANGED record /\ \A r \in Regions : pgd_base[r] = NULL
    BY <1>2 DEF down_write, EInv, AreaInv
  <2> QED
    BY <2>1 DEF BehindInv, record
<1>3. CASE Main \/ find_get_pid \/ get_pid_task \/ LoadSem \/ ListAreas
           \/ LoadSemAgain \/ up_write \/ SetUp \/ CopyPgd \/ ReadEntry
  BY <1>3, <1>s DEF Main, main, find_get_pid, get_pid_task, LoadSem, ListAreas,
                    LoadSemAgain, up_write, SetUp, CopyPgd, ReadEntry, Goto
<1> QED
  BY <1>1, <1>2, <1>3 DEF Call

-----------------------------------------------------------------------------
(* What the walk maps.                                                     *)

\* What the walk is given stays as it should be.
LEMMA TargetRange == IInv /\ RangeInv /\ Target => RangeInv'
<1> SUFFICES ASSUME IInv, RangeInv, Target PROVE RangeInv'
  OBVIOUS
<1>0. UNCHANGED <<pc, begin_vaddr, end_vaddr>>
  BY TargetLeavesCall DEF callerVars, args
<1>t. table \in [Mms -> [Regions -> Frames \cup {NoFrame}]] /\ Sections \subseteq Regions
  BY ExposeOK DEF IInv, TypeOK, TargetType
<1>1. pfnmap' = pfnmap \/ pfnmap' = {}
  BY DEF Target, __pte_alloc, munmap, Leave, LeaveDown, LeaveSwitch, mmput, release_task
<1>2. \A m \in Mms, r \in Sections : table'[m][r] = NoFrame
  <2>n. \A m \in Mms, r \in Sections : table[m][r] = NoFrame
    BY DEF RangeInv
  <2>1. ASSUME NEW q \in Regions, NEW f \in Frames, __pte_alloc(q, f)
        PROVE  \A m \in Mms, r \in Sections : table'[m][r] = NoFrame
    <3>1. q \notin Sections /\ table' = [table EXCEPT ![mm][q] = f]
      BY <2>1 DEF __pte_alloc
    <3> QED
      BY <1>t, <2>n, <3>1
  <2>2. ASSUME NEW q \in Regions, munmap(q)
        PROVE  \A m \in Mms, r \in Sections : table'[m][r] = NoFrame
    <3>1. table' = [table EXCEPT ![mm][q] = NoFrame]
      BY <2>2 DEF munmap
    <3> QED
      BY <1>t, <2>n, <3>1
  <2>3. ASSUME mmput PROVE \A m \in Mms, r \in Sections : table'[m][r] = NoFrame
    <3>1. table' = [table EXCEPT ![old_mm] = NoTables]
      BY <2>3 DEF mmput
    <3> QED
      BY <1>t, <2>n, <3>1 DEF NoTables
  <2>4. \/ table' = table \/ mmput
        \/ \E q \in Regions : munmap(q) \/ \E f \in Frames : __pte_alloc(q, f)
    BY DEF Target, Leave, LeaveDown, LeaveSwitch, release_task
  <2> QED
    BY <2>n, <2>1, <2>2, <2>3, <2>4
<1>3. \A v, w \in pfnmap' : v = w
  BY <1>1 DEF RangeInv
<1> QED
  BY <1>0, <1>2, <1>3 DEF RangeInv

LEMMA CallRange == IInv /\ RangeInv /\ (Main \/ Call) => RangeInv'
<1> SUFFICES ASSUME IInv, RangeInv, Main \/ Call PROVE RangeInv'
  OBVIOUS
<1>0. UNCHANGED <<table, pfnmap>>
  BY CallLeavesTarget
<1>t. begin_vaddr \in Int /\ end_vaddr \in Int
  BY Sizes DEF IInv, TypeOK, ArgsType
<1> DEFINE in(l) == l \notin {"main", "call", "done", "oops", "segv"}
<1>1. in(pc') => begin_vaddr' < end_vaddr'
  <2>1. CASE Main
    BY <2>1 DEF Main, main, Goto
  <2>2. CASE find_get_pid
    BY <1>t, <2>2 DEF find_get_pid, Goto, args
  <2>3. CASE walk_page_range
    <3>1. pc = "walk" /\ UNCHANGED <<begin_vaddr, end_vaddr>>
      BY <2>3 DEF walk_page_range, args
    <3> QED
      BY <3>1 DEF RangeInv
  <2>4. CASE get_pid_task \/ LoadSem \/ down_write \/ ListAreas \/ LoadSemAgain
             \/ up_write \/ SetUp \/ CopyPgd \/ ReadEntry
    <3>1. in(pc) /\ UNCHANGED <<begin_vaddr, end_vaddr>>
      BY <2>4 DEF get_pid_task, LoadSem, down_write, ListAreas, LoadSemAgain, up_write,
                  SetUp, CopyPgd, ReadEntry, args
    <3> QED
      BY <3>1 DEF RangeInv
  <2> QED
    BY <2>1, <2>2, <2>3, <2>4 DEF Call
<1> QED
  BY <1>0, <1>1 DEF RangeInv

\* While the semaphore is the call's, the target's tables and its area stay.
LEMMA HeldStill ==
    ASSUME IInv, Target, pc \in {"walk", "unload"}, GoodWalk
    PROVE  /\ table'[walk_mm] = table[walk_mm]
           /\ walk_mm = 1 => pfnmap' = pfnmap
<1>0. /\ walk_mm = mm /\ locked = mm /\ mm \in Mms /\ activity[mm] = -1
      /\ ~Switching
  BY WalkedMm
<1>t. /\ Mms \subseteq Nat \ {NoMm} /\ old_mm \in Mms \cup {NoMm}
      /\ table \in [Mms -> [Regions -> Frames \cup {NoFrame}]]
  BY MmsAreNumbers DEF IInv, TypeOK, TargetType
<1>1. activity[mm] # 0 /\ ~(activity[mm] >= 0)
  BY <1>0
<1>2. UNCHANGED <<table, pfnmap>> \/ mmput
  <2>1. ASSUME NEW r \in Regions, NEW f \in Frames PROVE ~__pte_alloc(r, f)
    BY <1>1 DEF __pte_alloc
  <2>2. ASSUME NEW r \in Regions PROVE ~munmap(r)
    BY <1>1 DEF munmap
  <2> QED
    BY <2>1, <2>2 DEF Target, Leave, LeaveDown, LeaveSwitch, release_task
<1>3. CASE mmput
  <2>1. /\ table' = [table EXCEPT ![old_mm] = NoTables]
        /\ old_mm < mm /\ old_mm # NoMm
    BY <1>0, <1>3, <1>t DEF mmput, IInv, TargetInv
  <2>2. old_mm \in Nat /\ old_mm # 0 /\ mm \in Nat
    BY <1>0, <1>t, <2>1 DEF NoMm
  <2>3. old_mm # mm /\ mm # 1
    BY <2>1, <2>2
  <2> QED
    BY <1>0, <1>t, <2>1, <2>3
<1> QED
  BY <1>2, <1>3

\* A step that changes nothing the walk sees changes nothing it has achieved.
LEMMA WalkSame ==
    ASSUME UNCHANGED <<begin_vaddr, end_vaddr, addr, walk_mm, pgd_base, mapped>>,
           table'[walk_mm] = table[walk_mm],
           walk_mm = 1 => pfnmap' = pfnmap
    PROVE  /\ OwnTables => OwnTables'
           /\ AtTheEnd => AtTheEnd'
           /\ OnTheWay => OnTheWay'
           /\ PastTheEnd => PastTheEnd'
<1>1. \A a : PfnMapAt(a)' = PfnMapAt(a)
  BY DEF PfnMapAt
<1>2. \A r : HasTable(r)' <=> HasTable(r)
  BY DEF HasTable
<1>3. \A a : Start(a)' <=> Start(a)
  BY DEF Start
<1>4. /\ \A r : InRange(r)' <=> InRange(r)
      /\ \A r : Overshot(r)' <=> Overshot(r)
      /\ \A r, n : Visited(r, n)' <=> Visited(r, n)
  BY <1>1 DEF InRange, Overshot, Visited, Region
<1>5. OwnTables => OwnTables'
  BY DEF OwnTables
<1>6. AtTheEnd => AtTheEnd'
  BY <1>2, <1>4 DEF AtTheEnd
<1>7. PastTheEnd => PastTheEnd'
  BY <1>1, <1>2, <1>3, <1>4 DEF PastTheEnd
<1>8. OnTheWay => OnTheWay'
  BY <1>1, <1>2, <1>3, <1>4 DEF OnTheWay
<1> QED
  BY <1>5, <1>6, <1>7, <1>8

\* The addresses of an area are not visited.
LEMMA SkipVisits ==
    ASSUME NEW v \in PfnMapAt(addr), v \in Nat \X Nat, NEW n \in Nat, NEW r,
           begin_vaddr \in Nat, addr \in Nat, begin_vaddr <= addr,
           addr <= n, n <= v[2]
    PROVE  Visited(r, n) <=> Visited(r, addr)
<1>1. v[1] \in Nat /\ v[2] \in Nat /\ v[1] <= addr
  BY DEF PfnMapAt
<1>2. ASSUME NEW a \in begin_vaddr..n - 1, PfnMapAt(a) = {} PROVE a \in begin_vaddr..addr - 1
  <2>1. a \in Int /\ a < n
    OBVIOUS
  <2>2. addr <= a => v \in PfnMapAt(a)
    BY <1>1, <2>1 DEF PfnMapAt
  <2> QED
    BY <1>2, <2>1, <2>2
<1>3. ASSUME NEW a \in begin_vaddr..addr - 1 PROVE a \in begin_vaddr..n - 1
  OBVIOUS
<1> QED
  BY <1>2, <1>3 DEF Visited

\* A round that looks an address up visits its region and no other.
LEMMA LookVisits ==
    ASSUME PfnMapAt(addr) = {}, NEW n \in Nat, NEW r,
           begin_vaddr \in Nat, addr \in Nat, begin_vaddr <= addr,
           addr < n, n <= (Region(addr) + 1) * PGDIR_SIZE
    PROVE  Visited(r, n) <=> Visited(r, addr) \/ r = Region(addr)
<1>1. ASSUME NEW a \in begin_vaddr..n - 1, Region(a) = r, r # Region(addr)
      PROVE  a \in begin_vaddr..addr - 1
  <2>1. a \in Nat /\ a < n /\ (Region(addr) + 1) * PGDIR_SIZE \in Nat
    BY Boundary
  <2>2. a > addr => Region(a) = Region(addr)
    BY <2>1, NoStartBetween
  <2>3. a # addr /\ ~(a > addr)
    BY <1>1, <2>2
  <2> QED
    BY <2>1, <2>3
<1>2. ASSUME NEW a \in begin_vaddr..addr - 1 PROVE a \in begin_vaddr..n - 1
  OBVIOUS
<1>3. addr \in begin_vaddr..n - 1
  OBVIOUS
<1> QED
  BY <1>1, <1>2, <1>3 DEF Visited

\* No area the walk has met on its way leads past where it is.
LEMMA NothingOvershot ==
    ASSUME NEW r, begin_vaddr \in Nat, end_vaddr \in Nat,
           \A v \in pfnmap : v[2] \in Nat,
           \A a \in begin_vaddr..end_vaddr - 1 :
              Start(a) => \A v \in PfnMapAt(a) : v[2] <= end_vaddr
    PROVE  ~Overshot(r)
<1> SUFFICES ASSUME NEW a \in begin_vaddr..end_vaddr - 1, Start(a),
                    NEW v \in PfnMapAt(a), v[2] > end_vaddr
             PROVE  FALSE
  BY DEF Overshot, Start
<1>1. v[2] \in Nat /\ v[2] <= end_vaddr
  BY DEF PfnMapAt
<1> QED
  BY <1>1

\* What is to be shown of a round, in terms of the state before it.
LEMMA AfterRound ==
    ASSUME UNCHANGED <<begin_vaddr, end_vaddr, walk_mm, table, pfnmap>>
    PROVE  /\ OwnTables' <=> \A r \in Regions : pgd_base'[r] # NULL =>
                                                mapped'[1] = table[walk_mm][r]
           /\ OnTheWay' <=>
                 /\ Start(addr') \/ \E v \in pfnmap : walk_mm = 1 /\ addr' = v[2]
                 /\ \A a \in begin_vaddr..addr' - 1 :
                       Start(a) => \A v \in PfnMapAt(a) : v[2] <= addr'
                 /\ \A r \in Regions : pgd_base'[r] # NULL <=>
                                          HasTable(r) /\ Visited(r, addr')
           /\ PastTheEnd' <=>
                 /\ \E a \in begin_vaddr..end_vaddr - 1 :
                       Start(a) /\ \E v \in PfnMapAt(a) : v[2] = addr'
                 /\ \A r \in Regions : pgd_base'[r] # NULL <=> HasTable(r) /\ InRange(r)
           /\ AtTheEnd' <=>
                 \A r \in Regions : pgd_base'[r] # NULL <=>
                                    HasTable(r) /\ (InRange(r) \/ Overshot(r))
<1>1. \A a : PfnMapAt(a)' = PfnMapAt(a)
  BY DEF PfnMapAt
<1>2. \A r : HasTable(r)' <=> HasTable(r)
  BY DEF HasTable
<1>3. /\ \A r : InRange(r)' <=> InRange(r)
      /\ \A r : Overshot(r)' <=> Overshot(r)
  BY <1>1 DEF InRange, Overshot, Region
<1>4. \A r : Visited(r, addr)' <=> Visited(r, addr')
  BY <1>1 DEF Visited, Region
<1>5. (\A a : Start(a)' <=> Start(a)) /\ (Start(addr)' <=> Start(addr'))
  BY DEF Start
<1>6. OwnTables' <=> \A r \in Regions : pgd_base'[r] # NULL =>
                                          mapped'[1] = table[walk_mm][r]
  BY DEF OwnTables
<1>7. AtTheEnd' <=> \A r \in Regions : pgd_base'[r] # NULL <=>
                                         HasTable(r) /\ (InRange(r) \/ Overshot(r))
  BY <1>2, <1>3 DEF AtTheEnd
<1>8. PastTheEnd' <=>
         /\ \E a \in begin_vaddr..end_vaddr - 1 :
               Start(a) /\ \E v \in PfnMapAt(a) : v[2] = addr'
         /\ \A r \in Regions : pgd_base'[r] # NULL <=> HasTable(r) /\ InRange(r)
  BY <1>1, <1>2, <1>3, <1>5 DEF PastTheEnd
<1>9. OnTheWay' <=>
         /\ Start(addr') \/ \E v \in pfnmap : walk_mm = 1 /\ addr' = v[2]
         /\ \A a \in begin_vaddr..addr' - 1 :
               Start(a) => \A v \in PfnMapAt(a) : v[2] <= addr'
         /\ \A r \in Regions : pgd_base'[r] # NULL <=> HasTable(r) /\ Visited(r, addr')
  BY <1>1, <1>2, <1>4, <1>5 DEF OnTheWay
<1> QED
  BY <1>6, <1>7, <1>8, <1>9

\* A round that looks an address up has the region's table mapped if there is one.
LEMMA LookMaps ==
    ASSUME IInv, OwnTables, walk_mm \notin gone,
           UNCHANGED <<begin_vaddr, end_vaddr, walk_mm, table, pfnmap>>,
           RoundFindsNone \/ \E f \in Frames : RoundMaps(f)
    PROVE  /\ Looks /\ addr' = pgd_addr_end(addr, end_vaddr) /\ pc' = "walk"
           /\ \A r \in Regions : pgd_base'[r] # NULL <=>
                 pgd_base[r] # NULL \/ (r = Region(addr) /\ HasTable(r))
           /\ OwnTables'
<1>t. pgd_base \in [Regions -> Nat] /\ Region(addr) \in Regions
  BY RegionOfAddress DEF IInv, TypeOK, RecordType, WalkType
<1>1. CASE RoundFindsNone
  <2>1. UNCHANGED <<pgd_base, mapped>> /\ ~HasTable(Region(addr))
    BY <1>1 DEF RoundFindsNone, record
  <2>2. OwnTables'
    BY <2>1, AfterRound DEF OwnTables
  <2> QED
    BY <1>1, <2>1, <2>2 DEF RoundFindsNone
<1>2. ASSUME NEW f \in Frames, RoundMaps(f)
      PROVE  /\ Looks /\ addr' = pgd_addr_end(addr, end_vaddr) /\ pc' = "walk"
             /\ \A r \in Regions : pgd_base'[r] # NULL <=>
                   pgd_base[r] # NULL \/ (r = Region(addr) /\ HasTable(r))
             /\ OwnTables'
  <2>1. /\ HasTable(Region(addr)) /\ mapped'[1] = table[walk_mm][Region(addr)]
        /\ \A r \in Regions : pgd_base[r] = NULL
        /\ pgd_base' = [pgd_base EXCEPT ![Region(addr)] = page_table_addr]
        /\ page_table_addr # NULL
    BY <1>2 DEF RoundMaps, HasTable, page_table_addr, NULL
  <2>2. \A r \in Regions : pgd_base'[r] # NULL <=> r = Region(addr)
    BY <1>t, <2>1
  <2>3. OwnTables'
    BY <2>1, <2>2, AfterRound
  <2> QED
    BY <1>2, <2>1, <2>2, <2>3 DEF RoundMaps
<1> QED
  BY <1>1, <1>2

\* A round that skips an area keeps what a walk knows.
LEMMA SkipKeeps ==
    ASSUME IInv, RangeInv, Walking,
           UNCHANGED <<begin_vaddr, end_vaddr, walk_mm, table, pfnmap>>,
           NEW v \in PfnMapAt(addr), RoundSkips(v)
    PROVE  Walking'
<1>t. addr \in Nat /\ begin_vaddr \in Nat /\ end_vaddr \in Nat
  BY Sizes DEF IInv, TypeOK, WalkType, ArgsType
<1>v. /\ v \in pfnmap /\ v \in Nat \X Nat /\ walk_mm = 1
      /\ v[1] <= addr /\ addr < v[2] /\ v[2] \in Nat
  BY ExposeOK DEF PfnMapAt, IInv, TypeOK, TargetType
<1>o. \A a : \A w \in PfnMapAt(a) : w = v
  BY <1>v DEF RangeInv, PfnMapAt
<1>1. UNCHANGED <<pgd_base, mapped>> /\ addr' = v[2] /\ addr # end_vaddr
  BY DEF RoundSkips, record
<1>2. addr < end_vaddr
  <2>1. SUFFICES ASSUME addr > end_vaddr PROVE FALSE
    BY <1>t, <1>1
  <2>2. PICK a \in begin_vaddr..end_vaddr - 1 : \E w \in PfnMapAt(a) : w[2] = addr
    BY <2>1 DEF Walking, PastTheEnd
  <2>3. v[2] = addr
    BY <2>2, <1>o
  <2> QED
    BY <1>v, <1>t, <2>3
<1>3. OnTheWay
  BY <1>2 DEF Walking
<1>4. OwnTables'
  BY <1>1, AfterRound DEF Walking, OwnTables
<1>5. begin_vaddr' <= addr'
  BY <1>t, <1>v, <1>1 DEF Walking
<1>6. \A r : \A n \in Nat : addr <= n /\ n <= v[2] => (Visited(r, n) <=> Visited(r, addr))
  BY <1>t, <1>v, SkipVisits DEF Walking
<1>7. addr' < end_vaddr => OnTheWay'
  <2> SUFFICES ASSUME v[2] < end_vaddr PROVE OnTheWay'
    BY <1>1
  <2>1. \E w \in pfnmap : walk_mm = 1 /\ addr' = w[2]
    BY <1>v, <1>1
  <2>2. \A a \in begin_vaddr..addr' - 1 :
           Start(a) => \A w \in PfnMapAt(a) : w[2] <= addr'
    BY <1>v, <1>o, <1>1
  <2>3. \A r \in Regions : pgd_base'[r] # NULL <=> HasTable(r) /\ Visited(r, addr')
    <3>1. addr <= v[2] /\ v[2] <= v[2]
      BY <1>t, <1>v
    <3> QED
      BY <3>1, <1>v, <1>1, <1>3, <1>6 DEF OnTheWay
  <2> QED
    BY <2>1, <2>2, <2>3, AfterRound
<1>8. v[2] >= end_vaddr => \A r : InRange(r) <=> Visited(r, addr)
  <2> SUFFICES ASSUME v[2] >= end_vaddr, NEW r PROVE InRange(r) <=> Visited(r, addr)
    OBVIOUS
  <2>1. Visited(r, end_vaddr) <=> Visited(r, addr)
    BY <1>t, <1>v, <1>2, <1>6
  <2> QED
    BY <2>1 DEF Visited, InRange
<1>9. addr' > end_vaddr => PastTheEnd'
  <2> SUFFICES ASSUME v[2] > end_vaddr PROVE PastTheEnd'
    BY <1>1
  <2>1. Start(addr)
    <3>1. ASSUME NEW w \in pfnmap, addr = w[2] PROVE FALSE
      <4>1. w = v
        BY <1>v DEF RangeInv
      <4> QED
        BY <3>1, <4>1, <1>v, <1>t
    <3> QED
      BY <1>3, <3>1 DEF OnTheWay
  <2>2. addr \in begin_vaddr..end_vaddr - 1
    BY <1>t, <1>2 DEF Walking
  <2>3. \E a \in begin_vaddr..end_vaddr - 1 :
           Start(a) /\ \E w \in PfnMapAt(a) : w[2] = addr'
    BY <1>1, <2>1, <2>2
  <2>4. \A r \in Regions : pgd_base'[r] # NULL <=> HasTable(r) /\ InRange(r)
    BY <1>t, <1>v, <1>1, <1>3, <1>8 DEF OnTheWay
  <2> QED
    BY <2>3, <2>4, AfterRound
<1>10. addr' = end_vaddr => AtTheEnd'
  <2> SUFFICES ASSUME v[2] = end_vaddr PROVE AtTheEnd'
    BY <1>1
  <2>1. \A r : ~Overshot(r)
    <3>1. \A w \in pfnmap : w[2] \in Nat
      BY ExposeOK DEF IInv, TypeOK, TargetType
    <3>2. \A a \in begin_vaddr..end_vaddr - 1 :
             Start(a) => \A w \in PfnMapAt(a) : w[2] <= end_vaddr
      BY <1>t, <1>o
    <3> QED
      BY <1>t, <3>1, <3>2, NothingOvershot
  <2>2. \A r \in Regions : pgd_base'[r] # NULL <=> HasTable(r) /\ InRange(r)
    BY <1>t, <1>v, <1>1, <1>3, <1>8 DEF OnTheWay
  <2> QED
    BY <2>1, <2>2, AfterRound
<1> QED
  BY <1>4, <1>5, <1>7, <1>9, <1>10 DEF Walking

LEMMA BelowEnd == ASSUME NEW b \in Nat, NEW n \in Nat, NEW x \in b..n - 1
                  PROVE  x \in Nat /\ x < n
OBVIOUS

\* So does a round that looks an address up.
LEMMA LookKeeps ==
    ASSUME IInv, RangeInv, Walking, walk_mm \notin gone,
           UNCHANGED <<begin_vaddr, end_vaddr, walk_mm, table, pfnmap>>,
           RoundFindsNone \/ \E f \in Frames : RoundMaps(f),
           begin_vaddr < end_vaddr
    PROVE  Walking'
<1>t. addr \in Nat /\ begin_vaddr \in Nat /\ end_vaddr \in Nat
  BY Sizes DEF IInv, TypeOK, WalkType, ArgsType
<1>w. \A w \in pfnmap : w[2] \in Nat
  BY ExposeOK DEF IInv, TypeOK, TargetType
<1>b. begin_vaddr <= addr
  BY DEF Walking
<1>1. /\ Looks /\ addr' = pgd_addr_end(addr, end_vaddr)
      /\ \A r \in Regions : pgd_base'[r] # NULL <=>
            pgd_base[r] # NULL \/ (r = Region(addr) /\ HasTable(r))
      /\ OwnTables'
  BY LookMaps DEF Walking
<1>2. addr # end_vaddr /\ PfnMapAt(addr) = {}
  BY <1>1 DEF Looks
<1>3. /\ addr' \in Nat /\ addr' <= end_vaddr
      /\ addr' <= (Region(addr) + 1) * PGDIR_SIZE
      /\ addr' = end_vaddr \/ addr' = (Region(addr) + 1) * PGDIR_SIZE
      /\ addr < end_vaddr => addr < addr'
      /\ addr > end_vaddr => addr' = end_vaddr
  BY <1>t, <1>1, NextRound
<1>4. begin_vaddr' <= addr'
  BY <1>t, <1>b, <1>2, <1>3
<1>5. ~(addr' > end_vaddr)
  BY <1>t, <1>3
<1>6. CASE addr < end_vaddr
  <2>1. OnTheWay /\ addr < addr'
    BY <1>6, <1>3 DEF Walking
  <2>2. \A r \in Regions : pgd_base'[r] # NULL <=> HasTable(r) /\ Visited(r, addr')
    <3>1. \A r : Visited(r, addr') <=> Visited(r, addr) \/ r = Region(addr)
      BY <1>t, <1>b, <1>2, <1>3, <2>1, LookVisits
    <3> QED
      BY <1>1, <2>1, <3>1 DEF OnTheWay
  <2>3. \A a \in begin_vaddr..addr' - 1 :
           Start(a) => \A v \in PfnMapAt(a) : v[2] <= addr'
    <3> SUFFICES ASSUME NEW a \in begin_vaddr..addr' - 1, Start(a), NEW v \in PfnMapAt(a)
                 PROVE  v[2] <= addr'
      OBVIOUS
    <3>1. v[2] \in Nat /\ a \in Nat /\ a < addr'
      <4>1. addr' \in Nat
        BY <1>3
      <4>2. a \in Nat /\ a < addr'
        BY <1>t, <4>1, BelowEnd
      <4> QED
        BY <1>w, <4>2 DEF PfnMapAt
    <3>2. ~(a > addr)
      <4> SUFFICES ASSUME a > addr PROVE FALSE
        OBVIOUS
      <4>1. a < (Region(addr) + 1) * PGDIR_SIZE
        <5>1. (Region(addr) + 1) * PGDIR_SIZE \in Nat
          BY <1>t, Boundary
        <5> QED
          BY <1>3, <3>1, <5>1
      <4>2. a % PGDIR_SIZE # 0
        BY <1>t, <3>1, <4>1, NoStartBetween
      <4>3. a # begin_vaddr
        BY <1>t, <1>b, <3>1
      <4> QED
        BY <4>2, <4>3 DEF Start
    <3>3. a # addr
      BY <1>2
    <3>4. a \in begin_vaddr..addr - 1
      BY <1>t, <3>1, <3>2, <3>3
    <3>5. v[2] <= addr
      BY <2>1, <3>4 DEF OnTheWay
    <3> QED
      BY <1>t, <1>3, <2>1, <3>1, <3>5
  <2>4. CASE addr' = end_vaddr
    <3>1. \A r : ~Overshot(r)
      BY <1>t, <1>w, <2>3, <2>4, NothingOvershot
    <3>2. \A r : InRange(r) <=> Visited(r, addr')
      BY <2>4 DEF InRange, Visited
    <3>3. AtTheEnd'
      BY <2>2, <3>1, <3>2, AfterRound
    <3>4. ~(addr' < end_vaddr)
      BY <1>t, <2>4
    <3> QED
      BY <1>1, <1>4, <1>5, <3>3, <3>4 DEF Walking
  <2>5. CASE addr' # end_vaddr
    <3>1. Start(addr')
      <4>1. Region(addr) + 1 \in Nat /\ addr' = (Region(addr) + 1) * PGDIR_SIZE
        BY <1>t, <1>3, <2>5, Boundary
      <4> QED
        BY <4>1, BoundaryDivides DEF Start
    <3>2. OnTheWay'
      BY <2>2, <2>3, <3>1, AfterRound
    <3> QED
      BY <1>1, <1>4, <1>5, <2>5, <3>2 DEF Walking
  <2> QED
    BY <2>4, <2>5
<1>7. CASE addr > end_vaddr
  <2>1. PastTheEnd /\ addr' = end_vaddr
    BY <1>7, <1>3 DEF Walking
  <2>2. PICK a \in begin_vaddr..end_vaddr - 1 :
               Start(a) /\ \E v \in PfnMapAt(a) : v[2] = addr
    BY <2>1 DEF PastTheEnd
  <2>3. PICK v \in PfnMapAt(a) : v[2] = addr
    BY <2>2
  <2>4. ASSUME NEW r PROVE Overshot(r) <=> r = Region(addr)
    <3>1. r = Region(addr) => Overshot(r)
      BY <1>7, <2>2, <2>3 DEF Overshot, Start
    <3>2. ASSUME Overshot(r) PROVE r = Region(addr)
      <4>1. PICK c \in begin_vaddr..end_vaddr - 1 :
                   \E w \in PfnMapAt(c) : Region(w[2]) = r
        BY <3>2 DEF Overshot
      <4>2. \A w \in PfnMapAt(c) : w = v
        BY DEF RangeInv, PfnMapAt
      <4> QED
        BY <2>3, <4>1, <4>2
    <3> QED
      BY <3>1, <3>2
  <2>5. \A r \in Regions : pgd_base'[r] # NULL <=>
                           HasTable(r) /\ (InRange(r) \/ Overshot(r))
    BY <1>1, <2>1, <2>4 DEF PastTheEnd
  <2>6. AtTheEnd'
    BY <2>5, AfterRound
  <2>7. ~(addr' < end_vaddr)
    BY <1>t, <2>1
  <2> QED
    BY <1>1, <1>4, <1>5, <2>6, <2>7 DEF Walking
<1> QED
  BY <1>t, <1>2, <1>6, <1>7

LEMMA WalkWalks ==
    IInv /\ EInv /\ RangeInv /\ WalkInv /\ walk_page_range => WalkInv'
<1> SUFFICES ASSUME IInv, EInv, RangeInv, WalkInv, walk_page_range, GoodWalk
             PROVE  WalkInv'
  <2>1. walk_page_range => (GoodWalk' <=> GoodWalk)
    BY DEF walk_page_range, GoodWalk, locks
  <2> QED
    BY <2>1 DEF WalkInv
<1>0. /\ pc = "walk"
      /\ UNCHANGED <<begin_vaddr, end_vaddr, walk_mm, table, pfnmap>>
  BY DEF walk_page_range, targetVars, args
<1>1. Walking /\ walk_mm \notin gone
  BY <1>0, WalkedMm DEF WalkInv
<1>2. begin_vaddr < end_vaddr
  BY <1>0 DEF RangeInv
<1>3. CASE RoundEnds
  <2>1. UNCHANGED <<addr, pgd_base, mapped>> /\ OwnTables /\ AtTheEnd
    BY <1>1, <1>3 DEF RoundEnds, record, Walking
  <2>2. OwnTables' /\ AtTheEnd'
    BY <1>0, <2>1, WalkSame
  <2> QED
    BY <1>3, <2>2 DEF RoundEnds, WalkInv
<1>4. CASE RoundGivesUp \/ RoundIsLost
  BY <1>4 DEF RoundGivesUp, RoundIsLost, WalkInv
<1>5. ASSUME NEW v \in PfnMapAt(addr), RoundSkips(v) PROVE WalkInv'
  <2>1. Walking' /\ pc' = "walk"
    BY <1>0, <1>1, <1>5, SkipKeeps DEF RoundSkips
  <2> QED
    BY <2>1 DEF WalkInv
<1>6. CASE RoundFindsNone \/ \E f \in Frames : RoundMaps(f)
  <2>1. Walking' /\ pc' = "walk"
    BY <1>0, <1>1, <1>2, <1>6, LookKeeps DEF RoundFindsNone, RoundMaps
  <2> QED
    BY <2>1 DEF WalkInv
<1> QED
  BY <1>3, <1>4, <1>5, <1>6, Rounds

\* The walk begins with an empty directory at the beginning of the range.
LEMMA WalkBegins ==
    IInv /\ EInv /\ RangeInv /\ down_write => WalkInv'
<1> SUFFICES ASSUME IInv, EInv, RangeInv, down_write, pc' = "walk"
             PROVE  Walking'
  BY DEF WalkInv, down_write, Goto
<1>0. /\ pc = "down" /\ addr' = begin_vaddr
      /\ UNCHANGED <<begin_vaddr, end_vaddr, walk_mm, table, pfnmap, pgd_base, mapped>>
  BY DEF down_write, args, record, Goto
<1>t. begin_vaddr \in Nat /\ end_vaddr \in Nat /\ begin_vaddr < end_vaddr
  BY <1>0, Sizes DEF IInv, TypeOK, ArgsType, RangeInv
<1>1. \A r \in Regions : pgd_base[r] = NULL
  BY <1>0 DEF EInv, AreaInv
<1>2. OwnTables'
  BY <1>0, <1>1, AfterRound
<1>3. OnTheWay'
  <2>1. begin_vaddr..begin_vaddr - 1 = {}
    BY <1>t
  <2>2. \A r : ~Visited(r, addr')
    BY <1>0, <2>1 DEF Visited
  <2>3. Start(addr')
    BY <1>0 DEF Start
  <2>4. \A a \in begin_vaddr..addr' - 1 :
           Start(a) => \A v \in PfnMapAt(a) : v[2] <= addr'
    BY <1>0, <2>1
  <2> QED
    BY <1>0, <1>1, <2>2, <2>3, <2>4, AfterRound
<1>4. addr' < end_vaddr' /\ begin_vaddr' <= addr'
  BY <1>0, <1>t
<1>5. ~(addr' > end_vaddr') /\ addr' # end_vaddr'
  BY <1>0, <1>t
<1> QED
  BY <1>2, <1>3, <1>4, <1>5 DEF Walking

LEMMA CallWalks ==
    IInv /\ EInv /\ RangeInv /\ WalkInv /\ (Main \/ Call) => WalkInv'
<1> SUFFICES ASSUME IInv, EInv, RangeInv, WalkInv, Main \/ Call PROVE WalkInv'
  OBVIOUS
<1>1. CASE walk_page_range
  BY <1>1, WalkWalks
<1>2. CASE down_write
  BY <1>2, WalkBegins
<1>3. CASE ListAreas
  <2>1. pass = 1 /\ pass' = pass /\ pc' # "walk"
    BY <1>3 DEF ListAreas, IInv, CallInv, locks, Goto
  <2> QED
    BY <2>1 DEF WalkInv
<1>4. CASE Main \/ find_get_pid \/ get_pid_task \/ LoadSem \/ LoadSemAgain
           \/ up_write \/ SetUp \/ CopyPgd \/ ReadEntry
  <2>1. pc' \notin {"walk", "unload"}
    BY <1>4 DEF Main, main, find_get_pid, get_pid_task, LoadSem, LoadSemAgain,
                up_write, SetUp, CopyPgd, ReadEntry, Goto
  <2> QED
    BY <2>1 DEF WalkInv
<1> QED
  BY <1>1, <1>2, <1>3, <1>4 DEF Call

\* Nothing the target does meanwhile changes what the walk has achieved.
LEMMA TargetWalks == IInv /\ WalkInv /\ Target => WalkInv'
<1> SUFFICES ASSUME IInv, WalkInv, Target PROVE WalkInv'
  OBVIOUS
<1>0. UNCHANGED <<pc, pass, err, locked, right, begin_vaddr, end_vaddr, addr, walk_mm,
                  pgd_base, mapped>>
  BY TargetLeavesCall DEF callerVars, args, locks, record
<1>g. GoodWalk' <=> GoodWalk
  BY <1>0 DEF GoodWalk
<1>1. CASE ~(GoodWalk /\ pc \in {"walk", "unload"})
  BY <1>0, <1>1, <1>g DEF WalkInv
<1>2. CASE GoodWalk /\ pc \in {"walk", "unload"}
  <2>1. /\ table'[walk_mm] = table[walk_mm]
        /\ walk_mm = 1 => pfnmap' = pfnmap
    BY <1>2, HeldStill
  <2>2. /\ OwnTables => OwnTables'
        /\ AtTheEnd => AtTheEnd'
        /\ OnTheWay => OnTheWay'
        /\ PastTheEnd => PastTheEnd'
    BY <1>0, <2>1, WalkSame
  <2>3. Walking => Walking'
    BY <1>0, <2>2 DEF Walking
  <2> QED
    BY <1>0, <1>g, <2>2, <2>3 DEF WalkInv
<1> QED
  BY <1>1, <1>2

LEMMA WalksInit == Init => WInv
<1> SUFFICES ASSUME Init PROVE WInv
  OBVIOUS
<1>1. RangeInv
  <2>1. \A m \in Mms, r \in Sections : table[m][r] = NoFrame
    BY ExposeOK DEF Init, NoTables
  <2> QED
    BY <2>1 DEF Init, RangeInv
<1>2. WalkInv
  BY DEF Init, WalkInv
<1> QED
  BY <1>1, <1>2 DEF WInv

LEMMA WalksNext == IInv /\ EInv /\ WInv /\ [Next]_vars => WInv'
<1> SUFFICES ASSUME IInv, EInv, RangeInv, WalkInv, [Next]_vars PROVE WInv'
  BY DEF WInv
<1>1. CASE Target
  BY <1>1, TargetRange, TargetWalks DEF WInv
<1>2. CASE Main \/ Call
  BY <1>2, CallRange, CallWalks DEF WInv
<1>3. CASE UNCHANGED vars
  <2>1. RangeInv'
    BY <1>3 DEF vars, RangeInv
  <2>2. UNCHANGED <<begin_vaddr, end_vaddr, addr, walk_mm, pgd_base, mapped, table,
                    pfnmap, pc, pass, err, locked, right>>
    BY <1>3 DEF vars
  <2>3. /\ OwnTables => OwnTables'
        /\ AtTheEnd => AtTheEnd'
        /\ OnTheWay => OnTheWay'
        /\ PastTheEnd => PastTheEnd'
    BY <2>2, WalkSame
  <2>4. Walking => Walking'
    BY <2>2, <2>3 DEF Walking
  <2>5. WalkInv'
    BY <2>2, <2>3, <2>4 DEF WalkInv, GoodWalk
  <2> QED
    BY <2>1, <2>5 DEF WInv
<1> QED
  BY <1>1, <1>2, <1>3 DEF Next, Rest

\* A walk that was not given up has put into the directory the page tables of the
\* range and no others, whatever the target did before and does meanwhile: the
\* rounds of walk_page_range() visit every region of the range once, skip the
\* VM_PFNMAP area, and go past the end only when the area does.
THEOREM WalkExposesTheRange == Spec => []ExposesTheRange
<1>1. IInv /\ EInv /\ WInv => ExposesTheRange
  <2> SUFFICES ASSUME IInv, EInv, WInv, pc = "unload", pass = 2, GoodWalk, ~err,
                      NEW r \in Regions
               PROVE  IF table[locked][r] # NoFrame /\ (InRange(r) \/ Overshot(r))
                      THEN /\ pgd_base[r] # NULL /\ pgd_base[r] % 2 = 0
                           /\ mapped[PageOf(pgd_base[r])] = table[locked][r]
                      ELSE pgd_base[r] = NULL
    BY DEF ExposesTheRange
  <2>1. OwnTables /\ AtTheEnd /\ walk_mm = locked
    BY DEF WInv, WalkInv, GoodWalk
  <2>2. pgd_base[r] # NULL <=>
           table[locked][r] # NoFrame /\ (InRange(r) \/ Overshot(r))
    BY <2>1 DEF AtTheEnd, HasTable
  <2>3. pgd_base[r] # NULL => /\ pgd_base[r] = page_table_addr
                              /\ mapped[1] = table[locked][r]
    BY <2>1 DEF OwnTables, EInv, AreaInv
  <2>4. PageOf(page_table_addr) = 1 /\ page_table_addr % 2 = 0
    BY OnePage DEF page_table_addr
  <2> QED
    BY <2>2, <2>3, <2>4
<1> QED
  BY InvInit, InvNext, TablesInit, TablesNext, WalksInit, WalksNext, <1>1, PTL DEF Spec

-----------------------------------------------------------------------------
(* How a call is lost.                                                     *)

\* A target whose semaphore is never released can neither get nor free a table,
\* nor leave its mm.
LEMMA TargetOops ==
    IInv /\ EInv /\ KeepInv /\ OopsHasAReason /\ Target => OopsHasAReason'
<1> SUFFICES ASSUME IInv, EInv, KeepInv, OopsHasAReason, Target, pc' = "oops", mm' = mm0',
                    mm' # NoMm
             PROVE  /\ activity'[mm'] = -1
                    /\ \E r, s \in Regions : /\ pgd_base'[r] # NULL
                                             /\ pgd_base'[s] = NULL
                                             /\ table'[mm'][s] # NoFrame
                                             /\ InRange(s)' \/ Overshot(s)'
  BY DEF OopsHasAReason
<1>0. UNCHANGED <<pc, pgd_base, mm0, pass, begin_vaddr, end_vaddr, walk_mm>>
  BY TargetLeavesCall DEF callerVars, record, args, locks
<1>t. /\ mm \in Mms \cup {NoMm} /\ mm0 \in Mms \cup {NoMm}
      /\ Mms \subseteq Nat \ {NoMm} /\ activity \in [Mms -> Int]
      /\ old_mm \in Mms \cup {NoMm}
      /\ table \in [Mms -> [Regions -> Frames \cup {NoFrame}]]
  BY MmsAreNumbers DEF IInv, TypeOK, TargetType, ArgsType
<1>1. mm' = mm
  <2>1. SUFFICES ASSUME mm # NoMm, mm' = mm + 1 PROVE FALSE
    BY MmChanges
  <2>2. mm0 <= mm /\ mm0 = mm + 1
    BY <1>0, <2>1 DEF KeepInv
  <2> QED
    BY <1>t, <2>1, <2>2
<1>2. /\ activity[mm] = -1
      /\ \E r, s \in Regions : /\ pgd_base[r] # NULL /\ pgd_base[s] = NULL
                               /\ table[mm][s] # NoFrame
                               /\ InRange(s) \/ Overshot(s)
  BY <1>0, <1>1 DEF OopsHasAReason
<1>3. activity[mm] < 0 /\ activity[mm] # 0 /\ ~(activity[mm] >= 0)
  BY <1>2
<1>4. \/ UNCHANGED <<activity, table, pfnmap>> \/ mmput
  <2>1. ASSUME NEW r \in Regions, NEW f \in Frames PROVE ~__pte_alloc(r, f) /\ ~munmap(r)
    BY <1>3 DEF __pte_alloc, munmap
  <2>2. ~LeaveDown
    BY <1>3 DEF LeaveDown, IInv, TargetInv
  <2>3. ~LeaveSwitch
    <3>1. LeaveSwitch => mm' = NoMm \/ mm' = mm + 1
      BY DEF LeaveSwitch
    <3>2. mm \in Nat
      BY <1>t, <1>1
    <3> QED
      BY <1>1, <3>1, <3>2
  <2>4. ASSUME NEW r \in Regions PROVE ~munmap(r)
    BY <1>3 DEF munmap
  <2>5. \/ \E why \in {"exec", "exit"} : Leave(why)
        \/ mmput \/ release_task
    BY <2>1, <2>2, <2>3, <2>4 DEF Target
  <2> QED
    BY <2>5 DEF Leave, release_task
<1>5. mmput => activity' = activity /\ table'[mm] = table[mm] /\ mm # 1
  <2> SUFFICES ASSUME mmput
               PROVE  activity' = activity /\ table'[mm] = table[mm] /\ mm # 1
    OBVIOUS
  <2>1. /\ activity' = activity /\ table' = [table EXCEPT ![old_mm] = NoTables]
        /\ old_mm < mm /\ old_mm # NoMm
    BY <1>1 DEF mmput, IInv, TargetInv
  <2>2. old_mm \in Nat /\ old_mm # 0 /\ mm \in Nat
    BY <1>t, <1>1, <2>1 DEF NoMm
  <2>3. old_mm # mm /\ mm # 1
    BY <2>1, <2>2
  <2> QED
    BY <1>t, <1>1, <2>1, <2>3
<1>6. activity' = activity /\ table'[mm] = table[mm]
  BY <1>4, <1>5
<1>7. walk_mm = mm
  <2>1. pass = 2
    BY <1>2 DEF EInv, AreaInv, IInv, TypeOK, LocksType
  <2> QED
    BY <1>0, <1>1, <2>1 DEF KeepInv
<1>8. walk_mm = 1 => pfnmap' = pfnmap
  BY <1>4, <1>5, <1>7
<1>9. \A r : (InRange(r)' <=> InRange(r)) /\ (Overshot(r)' <=> Overshot(r))
  <2>1. \A a : PfnMapAt(a)' = PfnMapAt(a)
    BY <1>0, <1>8 DEF PfnMapAt
  <2> QED
    BY <1>0, <2>1 DEF InRange, Overshot, Region
<1> QED
  BY <1>0, <1>1, <1>2, <1>6, <1>9

\* The round that is lost looks up a region of the range, or, past its end, the
\* one in which an area ends.
LEMMA WalkOops ==
    IInv /\ EInv /\ WInv /\ KeepInv /\ BehindInv /\ walk_page_range => OopsHasAReason'
<1> SUFFICES ASSUME IInv, EInv, WInv, KeepInv, BehindInv, walk_page_range, pc' = "oops",
                    mm' = mm0', mm' # NoMm
             PROVE  /\ activity'[mm'] = -1
                    /\ \E r, s \in Regions : /\ pgd_base'[r] # NULL
                                             /\ pgd_base'[s] = NULL
                                             /\ table'[mm'][s] # NoFrame
                                             /\ InRange(s)' \/ Overshot(s)'
  BY DEF OopsHasAReason
<1>0. /\ pc = "walk" /\ pass = 2
      /\ UNCHANGED <<mm, mm0, activity, table, pfnmap, walk_mm, begin_vaddr, end_vaddr>>
  BY DEF walk_page_range, targetVars, args, IInv, CallInv
<1>1. walk_mm = mm /\ right /\ locked = mm
  BY <1>0 DEF KeepInv, Holding
<1>2. activity[mm] = -1 /\ walk_mm \notin gone
  BY <1>0, <1>1, WalkedMm DEF GoodWalk
<1>3. RoundIsLost
  BY Rounds DEF RoundEnds, RoundFindsNone, RoundGivesUp, RoundSkips, RoundMaps
<1>4. /\ Looks /\ mapped[1] # NoFrame /\ HasTable(Region(addr))
      /\ pgd_base' = pgd_base
  BY <1>2, <1>3 DEF RoundIsLost
<1>5. PICK r \in Regions : pgd_base[r] # NULL
  BY <1>4 DEF BehindInv
<1>6. Region(addr) \in Regions /\ addr \in Nat
  BY RegionOfAddress, Sizes DEF IInv, TypeOK, WalkType
<1>7. pgd_base[Region(addr)] = NULL
  <2>1. addr < (Region(addr) + 1) * PGDIR_SIZE /\ (Region(addr) + 1) * PGDIR_SIZE \in Nat
    BY <1>6, Boundary
  <2>2. ~((Region(addr) + 1) * PGDIR_SIZE <= addr)
    BY <1>6, <2>1
  <2>3. addr # end_vaddr
    BY <1>4 DEF Looks
  <2> QED
    BY <1>0, <1>6, <2>2, <2>3 DEF BehindInv
<1>8. InRange(Region(addr)) \/ Overshot(Region(addr))
  <2>t. begin_vaddr \in Nat /\ end_vaddr \in Nat
    BY Sizes DEF IInv, TypeOK, ArgsType
  <2>1. Walking /\ PfnMapAt(addr) = {} /\ addr # end_vaddr
    BY <1>0, <1>1, <1>4 DEF WInv, WalkInv, GoodWalk, Looks
  <2>2. CASE addr < end_vaddr
    <3>1. addr \in begin_vaddr..end_vaddr - 1
      BY <1>6, <2>t, <2>1, <2>2 DEF Walking
    <3> QED
      BY <2>1, <3>1 DEF InRange
  <2>3. CASE addr > end_vaddr
    <3>1. PICK a \in begin_vaddr..end_vaddr - 1 :
                 Start(a) /\ \E v \in PfnMapAt(a) : v[2] = addr
      BY <2>1, <2>3 DEF Walking, PastTheEnd
    <3> QED
      BY <2>3, <3>1 DEF Overshot, Start
  <2> QED
    BY <1>6, <2>t, <2>1, <2>2, <2>3
<1>9. \A q : (InRange(q)' <=> InRange(q)) /\ (Overshot(q)' <=> Overshot(q))
  <2>1. \A a : PfnMapAt(a)' = PfnMapAt(a)
    BY <1>0 DEF PfnMapAt
  <2> QED
    BY <1>0, <2>1 DEF InRange, Overshot, Region
<1>10. PICK q \in Regions : q = Region(addr)
  BY <1>6
<1>11. /\ pgd_base[q] = NULL /\ table[mm][q] # NoFrame
       /\ InRange(q)' \/ Overshot(q)'
  BY <1>1, <1>4, <1>7, <1>8, <1>9, <1>10 DEF HasTable
<1> QED
  BY <1>0, <1>2, <1>4, <1>5, <1>11

LEMMA CallOops ==
    IInv /\ EInv /\ WInv /\ KInv /\ (Main \/ Call) => OopsHasAReason'
<1> SUFFICES ASSUME IInv, EInv, WInv, KeepInv, BehindInv, Main \/ Call,
                    pc' = "oops", mm' = mm0', mm' # NoMm
             PROVE  OopsHasAReason'
  BY DEF KInv, OopsHasAReason
<1>0. UNCHANGED <<tpc, mm>>
  BY CallLeavesTarget
<1> USE DEF Goto, args
<1>1. ~Main /\ ~find_get_pid /\ ~up_write /\ ~SetUp /\ ~CopyPgd /\ ~ReadEntry
  BY DEF Main, main, find_get_pid, up_write, SetUp, CopyPgd, ReadEntry
<1>2. ~get_pid_task
  BY <1>0 DEF get_pid_task, KeepInv
<1>3. ~LoadSem /\ ~LoadSemAgain
  BY <1>0 DEF LoadSem, LoadSemAgain
<1>4. ~down_write
  <2> SUFFICES ASSUME down_write PROVE FALSE
    OBVIOUS
  <2>1. locked \in gone /\ pc = "down" /\ mm0' = mm0
    BY DEF down_write
  <2>2. locked = mm
    BY <1>0, <2>1 DEF KeepInv
  <2> QED
    BY <1>0, <2>1, <2>2, TargetsMmIsThere
<1>5. ~ListAreas
  <2> SUFFICES ASSUME ListAreas PROVE FALSE
    OBVIOUS
  <2>1. mm # locked /\ pc = "list" /\ mm0' = mm0
    BY DEF ListAreas
  <2> QED
    BY <1>0, <2>1 DEF KeepInv, Holding
<1> QED
  BY <1>1, <1>2, <1>3, <1>4, <1>5, WalkOops DEF Call

LEMMA KeepsInit == Init => KInv
<1> SUFFICES ASSUME Init PROVE KInv
  OBVIOUS
<1>1. KeepInv
  <2>1. mm # NoMm => mm0 <= mm
    BY DEF Init, NoMm
  <2> QED
    BY <2>1 DEF Init, KeepInv, Holding
<1>2. BehindInv
  BY OnePage DEF Init, BehindInv
<1> QED
  BY <1>1, <1>2 DEF KInv, OopsHasAReason, Init

LEMMA KeepsNext == IInv /\ EInv /\ WInv /\ KInv /\ [Next]_vars => KInv'
<1> SUFFICES ASSUME IInv, EInv, WInv, KInv, [Next]_vars PROVE KInv'
  OBVIOUS
<1>1. CASE Target
  <2>1. KeepInv' /\ OopsHasAReason'
    BY <1>1, TargetKeeps, TargetOops DEF KInv
  <2>2. BehindInv'
    BY <1>1, TargetLeavesCall DEF KInv, BehindInv, callerVars, record, args
  <2> QED
    BY <2>1, <2>2 DEF KInv
<1>2. CASE Main \/ Call
  <2>1. OopsHasAReason'
    BY <1>2, CallOops
  <2> QED
    BY <1>2, <2>1, CallKeeps, CallBehind DEF KInv
<1>3. CASE UNCHANGED vars
  <2>1. KeepInv' /\ BehindInv'
    BY <1>3 DEF vars, KInv, KeepInv, BehindInv, Holding
  <2>2. \A a : PfnMapAt(a)' = PfnMapAt(a)
    BY <1>3 DEF vars, PfnMapAt
  <2>3. \A r : (InRange(r)' <=> InRange(r)) /\ (Overshot(r)' <=> Overshot(r))
    BY <1>3, <2>2 DEF vars, InRange, Overshot, Region
  <2>4. OopsHasAReason'
    BY <1>3, <2>3 DEF vars, KInv, OopsHasAReason
  <2> QED
    BY <2>1, <2>4 DEF KInv
<1> QED
  BY <1>1, <1>2, <1>3 DEF Next, Rest

\* A call on a target that keeps its mm is lost for one reason only: the range
\* (or the region past it to which a VM_PFNMAP area leads) has a second page
\* table, and for_pmd_entry() maps it onto the page of the first.  The target's
\* semaphore then stays taken.
THEOREM LostForOneReason == Spec => []OopsHasAReason
<1>1. KInv => OopsHasAReason
  BY DEF KInv
<1> QED
  BY InvInit, InvNext, TablesInit, TablesNext, WalksInit, WalksNext, KeepsInit,
     KeepsNext, <1>1, PTL DEF Spec

-----------------------------------------------------------------------------

\* The pages that a page table maps are those of its region.
LEMMA PagesOfRegion ==
    ASSUME NEW b \in Nat, NEW e \in Nat, NEW p \in Nat,
           b \div PAGE_SIZE <= p, p <= e \div PAGE_SIZE
    PROVE  LET r == p \div PTRS_PER_PTE
           IN  /\ r \in Nat /\ r * PGDIR_SIZE \in Nat
               /\ r * PGDIR_SIZE <= e
               /\ b < (r + 1) * PGDIR_SIZE
<1> DEFINE r == p \div PTRS_PER_PTE
<1>s. PAGE_SIZE \in Nat \ {0} /\ PTRS_PER_PTE \in Nat \ {0}
  BY Sizes
<1>1. /\ r \in Nat /\ r * PTRS_PER_PTE <= p /\ p < (r + 1) * PTRS_PER_PTE
      /\ r * PTRS_PER_PTE \in Nat /\ (r + 1) * PTRS_PER_PTE \in Nat
  <2>1. r \in Nat /\ r * PTRS_PER_PTE <= p /\ p < (r + 1) * PTRS_PER_PTE
    BY <1>s, QuotientBounds
  <2> HIDE DEF r
  <2> QED
    BY <1>s, <2>1
<1>2. /\ (e \div PAGE_SIZE) \in Nat /\ (e \div PAGE_SIZE) * PAGE_SIZE <= e
      /\ (b \div PAGE_SIZE) \in Nat /\ b < ((b \div PAGE_SIZE) + 1) * PAGE_SIZE
  BY <1>s, QuotientBounds
<1> HIDE DEF r
<1>3. \A x, y \in Nat : x <= y => x * PAGE_SIZE <= y * PAGE_SIZE
  BY <1>s
<1>4. /\ r * PGDIR_SIZE = (r * PTRS_PER_PTE) * PAGE_SIZE
      /\ (r + 1) * PGDIR_SIZE = ((r + 1) * PTRS_PER_PTE) * PAGE_SIZE
      /\ r * PGDIR_SIZE \in Nat /\ (r + 1) * PGDIR_SIZE \in Nat
  BY <1>s, <1>1 DEF PGDIR_SIZE
<1>5. r * PGDIR_SIZE <= e
  <2> DEFINE x == r * PTRS_PER_PTE
             y == e \div PAGE_SIZE
  <2>1. x \in Nat /\ y \in Nat /\ x <= y
    BY <1>1, <1>2
  <2>2. x * PAGE_SIZE <= y * PAGE_SIZE /\ y * PAGE_SIZE <= e
    BY <1>2, <1>3, <2>1
  <2>3. x * PAGE_SIZE \in Nat /\ y * PAGE_SIZE \in Nat /\ r * PGDIR_SIZE = x * PAGE_SIZE
    BY <1>s, <1>4, <2>1
  <2> HIDE DEF x, y
  <2> QED
    BY <2>2, <2>3
<1>6. b < (r + 1) * PGDIR_SIZE
  <2> DEFINE x == (b \div PAGE_SIZE) + 1
             y == (r + 1) * PTRS_PER_PTE
  <2>1. x \in Nat /\ y \in Nat /\ x <= y
    BY <1>1, <1>2
  <2>2. b < x * PAGE_SIZE /\ x * PAGE_SIZE <= y * PAGE_SIZE
    BY <1>2, <1>3, <2>1
  <2>3. /\ x * PAGE_SIZE \in Nat /\ y * PAGE_SIZE \in Nat
        /\ (r + 1) * PGDIR_SIZE = y * PAGE_SIZE
    BY <1>s, <1>4, <2>1
  <2> HIDE DEF x, y
  <2> QED
    BY <2>2, <2>3
<1> QED
  BY <1>1, <1>4, <1>5, <1>6 DEF r

\* The pages of the range are in order.
LEMMA PagesInOrder ==
    ASSUME NEW b \in Nat, NEW e \in Nat, b <= e
    PROVE  b \div PAGE_SIZE <= e \div PAGE_SIZE
<1> DEFINE x == b \div PAGE_SIZE
           y == e \div PAGE_SIZE
<1>s. PAGE_SIZE \in Nat \ {0}
  BY Sizes
<1>1. /\ x \in Nat /\ x * PAGE_SIZE <= b
      /\ y \in Nat /\ e < (y + 1) * PAGE_SIZE
  BY <1>s, QuotientBounds
<1> HIDE DEF x, y
<1>2. y < x => (y + 1) * PAGE_SIZE <= x * PAGE_SIZE
  BY <1>s, <1>1
<1>3. (y + 1) * PAGE_SIZE \in Nat /\ x * PAGE_SIZE \in Nat
  BY <1>s, <1>1
<1>4. x <= y
  BY <1>1, <1>2, <1>3
<1> QED
  BY <1>4 DEF x, y

\* VATranslate and vm_inspector find a page table for every page they look up
\* that has one in the target, unless a new table begins with end_vaddr: the
\* pages of a table are in one region, and only that of end_vaddr need not have
\* an address in the range.
THEOREM ProgramsFindTheirTables == Spec => []ProgramFindsItsTables
<1>1. IInv /\ EInv /\ WInv => ProgramFindsItsTables
  <2> SUFFICES ASSUME IInv, EInv, WInv, pc = "unload", pass = 2, GoodWalk, ~err,
                      pfnmap = {},
                      NEW p \in (begin_vaddr \div PAGE_SIZE)..LastPage,
                      table[locked][p \div PTRS_PER_PTE] # NoFrame,
                      (p \div PTRS_PER_PTE) * PGDIR_SIZE # end_vaddr
               PROVE  pgd_base[p \div PTRS_PER_PTE] # NULL
    BY DEF ProgramFindsItsTables
  <2> DEFINE r == p \div PTRS_PER_PTE
  <2>t. /\ begin_vaddr \in 0..TopAddr - 1 /\ end_vaddr \in 0..TopAddr - 1
        /\ begin_vaddr \in Nat /\ end_vaddr \in Nat /\ begin_vaddr < end_vaddr
    BY Sizes DEF IInv, TypeOK, ArgsType, WInv, RangeInv
  <2>1. /\ begin_vaddr \div PAGE_SIZE \in Nat /\ end_vaddr \div PAGE_SIZE \in Nat
        /\ begin_vaddr \div PAGE_SIZE <= end_vaddr \div PAGE_SIZE
    BY <2>t, PagesInOrder, Sizes
  <2>2. /\ p \in Nat /\ begin_vaddr \div PAGE_SIZE <= p
        /\ p <= end_vaddr \div PAGE_SIZE
    BY <2>1 DEF LastPage
  <2>3. /\ r \in Nat /\ r * PGDIR_SIZE \in Nat
        /\ r * PGDIR_SIZE <= end_vaddr
        /\ begin_vaddr < (r + 1) * PGDIR_SIZE
    BY <2>t, <2>2, PagesOfRegion
  <2>4. r \in Regions
    <3>1. end_vaddr \div PAGE_SIZE \in Pages
      BY <2>t, PageOfAddress
    <3>2. p \in Pages
      BY <2>2, <3>1, Sizes DEF Pages
    <3> QED
      BY <3>2, TableOfPage
  <2> HIDE DEF r
  <2>5. \E a \in begin_vaddr..end_vaddr - 1 : Region(a) = r
    <3>0. r * PGDIR_SIZE < end_vaddr
      BY <2>t, <2>3 DEF r
    <3>1. CASE begin_vaddr <= r * PGDIR_SIZE
      <4> DEFINE a == r * PGDIR_SIZE
      <4>1. a \in begin_vaddr..end_vaddr - 1
        BY <2>t, <2>3, <3>0, <3>1
      <4>2. a < (r + 1) * PGDIR_SIZE
        <5>1. (r + 1) * PGDIR_SIZE = a + PGDIR_SIZE /\ PGDIR_SIZE \in Nat \ {0}
          BY <2>3, Sizes
        <5> QED
          BY <2>3, <5>1
      <4>3. Region(a) = r
        BY <2>3, <4>2, RegionIs
      <4> QED
        BY <4>1, <4>3
    <3>2. CASE r * PGDIR_SIZE < begin_vaddr
      <4>1. r * PGDIR_SIZE <= begin_vaddr
        BY <2>t, <2>3, <3>2
      <4>2. Region(begin_vaddr) = r
        BY <2>t, <2>3, <4>1, RegionIs
      <4>3. begin_vaddr \in begin_vaddr..end_vaddr - 1
        BY <2>t
      <4> QED
        BY <4>2, <4>3
    <3> QED
      BY <2>t, <2>3, <3>1, <3>2
  <2>6. InRange(r)
    BY <2>5 DEF InRange, PfnMapAt
  <2>7. AtTheEnd /\ HasTable(r)
    BY DEF WInv, WalkInv, GoodWalk, HasTable, r
  <2>8. pgd_base[r] # NULL
    BY <2>4, <2>6, <2>7 DEF AtTheEnd
  <2> QED
    BY <2>8 DEF r
<1> QED
  BY InvInit, InvNext, TablesInit, TablesNext, WalksInit, WalksNext, <1>1, PTL DEF Spec

-----------------------------------------------------------------------------
(* The conversion of an argument.  What a recursive definition computes is *)
(* shown by its least counterexample: the length, or the position, where   *)
(* the claim would first fail follows one where it holds.                  *)

LEMMA LeastNumber ==
    ASSUME NEW S, S \subseteq Nat, S # {}
    PROVE  \E n \in S : \A m \in S : ~(m < n)
<1>1. PICK n \in S : \A m \in S : ~(<<m, n>> \in OpToRel(<, Nat))
  BY NatLessThanWellFounded, WFMin
<1>2. \A m \in S : m < n => <<m, n>> \in OpToRel(<, Nat)
  BY DEF OpToRel
<1> QED
  BY <1>1, <1>2

HexChar == Digit \cup Capital \cup Small

LEMMA DigitRange ==
    ASSUME NEW c \in HexChar
    PROVE  /\ c \in Nat /\ DigitValue(c) \in Nat /\ DigitValue(c) < 16
           /\ c < 56 <=> DigitValue(c) < 8
BY DEF HexChar, Digit, Capital, Small, Char, DigitValue

\* The digit that lower() returns is worth 8 less.
LEMMA LowerTakesEight ==
    ASSUME NEW c \in HexChar, c >= 56
    PROVE  /\ lower(c) \in HexChar
           /\ DigitValue(c) = DigitValue(lower(c)) + 8
<1>1. CASE c \in Small
  BY <1>1 DEF HexChar, Digit, Capital, Small, Char, DigitValue, lower
<1>2. CASE c \in Capital
  BY <1>2 DEF HexChar, Digit, Capital, Small, Char, DigitValue, lower
<1>3. CASE c \in Digit
  BY <1>3 DEF HexChar, Digit, Capital, Small, Char, DigitValue, lower
<1> QED
  BY <1>1, <1>2, <1>3 DEF HexChar

\* v is what the prefixes of s up to the nth stand for.
Values(s, n, v) == v = [k \in 0..n |->
                           IF k = 0 THEN 0 ELSE 16 * v[k - 1] + DigitValue(s[k])]

\* There is such a v for every n: one for the prefix before makes the next.
LEMMA ValuesExist ==
    ASSUME NEW s, NEW n \in Nat
    PROVE  \E v : Values(s, n, v)
<1> SUFFICES ASSUME ~ \E v : Values(s, n, v) PROVE FALSE
  OBVIOUS
<1> DEFINE bad == {m \in Nat : ~ \E v : Values(s, m, v)}
<1>1. PICK m \in bad : \A o \in bad : ~(o < m)
  <2>1. bad \subseteq Nat /\ bad # {}
    OBVIOUS
  <2> HIDE DEF bad
  <2> QED
    BY <2>1, LeastNumber
<1>2. CASE m = 0
  <2> DEFINE v == [k \in 0..0 |-> 0]
  <2>1. Values(s, 0, v)
    BY DEF Values
  <2> QED
    BY <1>2, <2>1
<1>3. CASE m # 0
  <2>1. m - 1 \in Nat /\ m - 1 < m
    BY <1>3
  <2>2. PICK v : Values(s, m - 1, v)
    BY <1>1, <2>1
  <2> DEFINE w == [k \in 0..m |-> IF k = 0 THEN 0 ELSE 16 * v[k - 1] + DigitValue(s[k])]
  <2>3. \A k \in 0..m - 1 : w[k] = v[k]
    BY <2>2, <2>1 DEF Values
  <2>4. \A k \in 0..m : k # 0 => k - 1 \in 0..m - 1
    BY <2>1
  <2>5. Values(s, m, w)
    BY <2>3, <2>4 DEF Values
  <2> QED
    BY <2>5
<1> QED
  BY <1>2, <1>3

\* So the definition of PrefixValue is good.
LEMMA PrefixValues ==
    ASSUME NEW s, Len(s) \in Nat
    PROVE  Values(s, Len(s), PrefixValue(s))
<1>1. PrefixValue(s) = CHOOSE v : Values(s, Len(s), v)
  BY DEF PrefixValue, Values
<1>2. \E v : Values(s, Len(s), v)
  BY ValuesExist
<1> QED
  BY <1>1, <1>2

\* The values v grow digit by digit.
Steps(s, n, v) ==
    /\ v[0] = 0
    /\ \A k \in 1..n : /\ k - 1 \in 0..n
                       /\ DigitValue(s[k]) \in Nat /\ DigitValue(s[k]) < 16
                       /\ v[k] = 16 * v[k - 1] + DigitValue(s[k])
    /\ \A k \in 0..n : v[k] \in Nat

LEMMA ValueSteps ==
    ASSUME NEW n \in Nat, NEW s \in [1..n -> HexChar]
    PROVE  /\ Len(s) = n /\ HexValue(s) = PrefixValue(s)[n]
           /\ Steps(s, n, PrefixValue(s)) /\ HexValue(s) \in Nat
<1> DEFINE v == PrefixValue(s)
<1>1. Len(s) = n
  <2>1. s \in Seq(HexChar)
    BY SeqDef
  <2> QED
    BY <2>1, LenProperties
<1>2. Values(s, n, v)
  BY <1>1, PrefixValues
<1>3. /\ v[0] = 0
      /\ \A k \in 1..n : /\ k - 1 \in 0..n /\ s[k] \in HexChar
                         /\ v[k] = 16 * v[k - 1] + DigitValue(s[k])
  BY <1>2 DEF Values
<1> HIDE DEF v
<1>4. \A k \in 0..n : v[k] \in Nat
  <2> SUFFICES ASSUME NEW j \in 0..n, v[j] \notin Nat PROVE FALSE
    OBVIOUS
  <2> DEFINE bad == {k \in 0..n : v[k] \notin Nat}
  <2>1. bad \subseteq Nat /\ bad # {}
    OBVIOUS
  <2>2. PICK k \in bad : \A o \in bad : ~(o < k)
    <3> HIDE DEF bad
    <3> QED BY <2>1, LeastNumber
  <2>3. k \in 1..n
    BY <1>3
  <2>4. v[k - 1] \in Nat
    BY <2>2, <2>3
  <2>5. DigitValue(s[k]) \in Nat
    BY <1>3, <2>3, DigitRange
  <2> QED
    BY <1>3, <2>2, <2>3, <2>4, <2>5
<1>5. \A k \in 1..n : DigitValue(s[k]) \in Nat /\ DigitValue(s[k]) < 16
  BY <1>3, DigitRange
<1>6. Steps(s, n, v)
  BY <1>3, <1>4, <1>5 DEF Steps
<1>7. HexValue(s) = v[n] /\ v[n] \in Nat
  BY <1>1, <1>4 DEF v, HexValue
<1> QED
  BY <1>1, <1>6, <1>7 DEF v

\* The string of 1 << 31.
TopString(n) == [k \in 1..n |-> IF k = 1 THEN 56 ELSE 48]

Growth(n, w) ==
    /\ w[1] = 8
    /\ \A k \in 2..n : w[k] = 16 * w[k - 1]
    /\ \A k \in 1..n : w[k] \in Nat

LEMMA TopSteps ==
    ASSUME NEW n \in Nat \ {0}
    PROVE  /\ TopString(n) \in [1..n -> HexChar]
           /\ Growth(n, PrefixValue(TopString(n)))
<1> DEFINE s == TopString(n)
           v == PrefixValue(s)
<1>1. 48 \in HexChar /\ 56 \in HexChar /\ DigitValue(48) = 0 /\ DigitValue(56) = 8
  BY DEF HexChar, Digit, Capital, Small, Char, DigitValue
<1>2. s \in [1..n -> HexChar]
  BY <1>1 DEF TopString
<1>3. s[1] = 56 /\ \A k \in 2..n : s[k] = 48
  BY DEF TopString
<1> HIDE DEF s
<1>s. Steps(s, n, v)
  BY <1>2, ValueSteps
<1> HIDE DEF v
<1>4. /\ v[0] = 0
      /\ \A k \in 1..n : v[k] = 16 * v[k - 1] + DigitValue(s[k])
      /\ \A k \in 0..n : v[k] \in Nat
  BY <1>s DEF Steps
<1>5. v[1] = 8
  <2>1. v[1] = 16 * v[0] + DigitValue(s[1])
    BY <1>4
  <2> QED
    BY <1>1, <1>3, <1>4, <2>1
<1>6. ASSUME NEW k \in 2..n PROVE v[k] = 16 * v[k - 1]
  <2>1. v[k] = 16 * v[k - 1] + DigitValue(s[k]) /\ v[k - 1] \in Nat
    BY <1>4
  <2> QED
    BY <1>1, <1>3, <2>1
<1> QED
  BY <1>2, <1>4, <1>5, <1>6 DEF v, s, Growth

\* A string whose first digit is less than 8 is below the top one, and any is
\* below the double of it.
LEMMA BelowTop ==
    ASSUME NEW n \in Nat, NEW N \in Nat, n <= N,
           NEW s \in [1..n -> HexChar], NEW k \in 1..n
    PROVE  /\ DigitValue(s[1]) < 8 =>
                 PrefixValue(s)[k] < PrefixValue(TopString(N))[k]
           /\ PrefixValue(s)[k] < 2 * PrefixValue(TopString(N))[k]
<1> DEFINE v == PrefixValue(s)
           w == PrefixValue(TopString(N))
           Holds(j) == (DigitValue(s[1]) < 8 => v[j] < w[j]) /\ v[j] < 2 * w[j]
<1>1. Steps(s, n, v)
  BY ValueSteps
<1>2. Growth(N, w)
  BY TopSteps
<1> HIDE DEF v, w
<1>4. Holds(1)
  <2>1. /\ v[1] = 16 * v[0] + DigitValue(s[1]) /\ v[0] = 0
        /\ DigitValue(s[1]) \in Nat /\ DigitValue(s[1]) < 16
    <3>1. 1 \in 1..n /\ 1 - 1 = 0
      OBVIOUS
    <3> QED BY <1>1, <3>1 DEF Steps
  <2>2. w[1] = 8
    BY <1>2 DEF Growth
  <2>3. v[1] = DigitValue(s[1])
    BY <2>1
  <2> QED
    BY <2>1, <2>2, <2>3
<1>5. ASSUME NEW j \in 2..n, Holds(j - 1) PROVE Holds(j)
  <2>1. /\ j - 1 \in 1..n /\ j \in 1..n /\ j \in 2..N /\ j - 1 \in 1..N
    OBVIOUS
  <2>2. /\ v[j] = 16 * v[j - 1] + DigitValue(s[j]) /\ v[j - 1] \in Nat
        /\ w[j] = 16 * w[j - 1] /\ w[j - 1] \in Nat
        /\ DigitValue(s[j]) \in Nat /\ DigitValue(s[j]) < 16
    BY <1>1, <1>2, <2>1 DEF Steps, Growth
  <2> QED
    BY <1>5, <2>2
<1> SUFFICES ASSUME ~ Holds(k) PROVE FALSE
  BY DEF v, w
<1> DEFINE bad == {j \in 1..n : ~ Holds(j)}
<1>6. bad \subseteq Nat /\ bad # {}
  OBVIOUS
<1>7. PICK j \in bad : \A o \in bad : ~(o < j)
  <2> HIDE DEF bad
  <2> QED BY <1>6, LeastNumber
<1>8. j \in 1..n /\ ~ Holds(j)
  BY <1>7
<1>9. j \in 2..n
  <2> HIDE DEF Holds
  <2> QED BY <1>4, <1>8
<1>10. Holds(j - 1)
  <2>1. j - 1 \in 1..n /\ j - 1 < j
    BY <1>9
  <2> HIDE DEF Holds
  <2> QED BY <1>7, <2>1
<1> HIDE DEF Holds
<1> QED
  BY <1>5, <1>8, <1>9, <1>10

\* The values of the top string grow with the length.
LEMMA ShorterIsBelow ==
    ASSUME NEW n \in Nat \ {0}, NEW N \in Nat, n < N, NEW s \in [1..n -> HexChar]
    PROVE  HexValue(s) < PrefixValue(TopString(N))[N]
<1> DEFINE w == PrefixValue(TopString(N))
           x == HexValue(s)
<1>1. x \in Nat /\ x < 2 * w[n]
  BY ValueSteps, BelowTop
<1>g. Growth(N, w)
  BY TopSteps
<1> HIDE DEF w, x
<1>2. /\ \A j \in 2..N : w[j] = 16 * w[j - 1]
      /\ \A j \in 1..N : w[j] \in Nat
  BY <1>g DEF Growth
<1>3. ASSUME NEW j \in n + 1..N, x < 2 * w[j - 1] PROVE x < w[j]
  <2>1. j \in 2..N /\ j - 1 \in 1..N
    OBVIOUS
  <2>2. w[j] = 16 * w[j - 1] /\ w[j - 1] \in Nat
    BY <1>2, <2>1
  <2> QED
    BY <1>1, <1>3, <2>2
<1> SUFFICES ASSUME ~(x < w[N]) PROVE FALSE
  BY DEF x, w
<1> DEFINE bad == {j \in n + 1..N : ~(x < w[j])}
<1>4. bad \subseteq Nat /\ bad # {}
  OBVIOUS
<1>5. PICK j \in bad : \A o \in bad : ~(o < j)
  <2> HIDE DEF bad
  <2> QED BY <1>4, LeastNumber
<1>6. x < 2 * w[j - 1]
  <2>1. CASE j = n + 1
    BY <1>1, <2>1
  <2>2. CASE j # n + 1
    <3>1. j - 1 \in n + 1..N /\ j - 1 < j /\ j - 1 \in 1..N
      BY <2>2
    <3>2. x < w[j - 1] /\ w[j - 1] \in Nat
      BY <1>2, <1>5, <3>1
    <3> QED
      BY <1>1, <3>2
  <2> QED BY <2>1, <2>2
<1> QED
  BY <1>3, <1>5, <1>6

\* Lowering the first digit takes the top string off the value.
LEMMA LoweredBy ==
    ASSUME NEW n \in Nat \ {0}, NEW s \in [1..n -> HexChar],
           NEW t \in [1..n -> HexChar],
           DigitValue(s[1]) = DigitValue(t[1]) + 8,
           \A k \in 2..n : s[k] = t[k]
    PROVE  HexValue(s) = HexValue(t) + PrefixValue(TopString(n))[n]
<1> DEFINE v == PrefixValue(s)
           u == PrefixValue(t)
           w == PrefixValue(TopString(n))
           Holds(j) == v[j] = u[j] + w[j]
<1>1. HexValue(s) = v[n] /\ Steps(s, n, v)
  BY ValueSteps
<1>2. HexValue(t) = u[n] /\ Steps(t, n, u)
  BY ValueSteps
<1>3. Growth(n, w)
  BY TopSteps
<1> HIDE DEF v, u, w
<1>5. Holds(1)
  <2>1. /\ v[1] = 16 * v[0] + DigitValue(s[1]) /\ v[0] = 0
        /\ u[1] = 16 * u[0] + DigitValue(t[1]) /\ u[0] = 0
        /\ DigitValue(s[1]) \in Nat /\ DigitValue(t[1]) \in Nat
    <3>1. 1 \in 1..n /\ 1 - 1 = 0
      OBVIOUS
    <3> QED BY <1>1, <1>2, <3>1 DEF Steps
  <2>2. w[1] = 8
    BY <1>3 DEF Growth
  <2>3. v[1] = DigitValue(s[1]) /\ u[1] = DigitValue(t[1])
    BY <2>1
  <2> QED BY <2>2, <2>3
<1>6. ASSUME NEW j \in 2..n, Holds(j - 1) PROVE Holds(j)
  <2>1. /\ v[j] = 16 * v[j - 1] + DigitValue(s[j]) /\ v[j - 1] \in Nat
        /\ u[j] = 16 * u[j - 1] + DigitValue(t[j]) /\ u[j - 1] \in Nat
        /\ w[j] = 16 * w[j - 1] /\ w[j - 1] \in Nat
        /\ DigitValue(t[j]) \in Nat /\ s[j] = t[j]
    <3>1. j \in 1..n /\ j - 1 \in 0..n /\ j - 1 \in 1..n
      OBVIOUS
    <3>2. /\ v[j] = 16 * v[j - 1] + DigitValue(s[j]) /\ v[j - 1] \in Nat
      BY <1>1, <3>1 DEF Steps
    <3>3. /\ u[j] = 16 * u[j - 1] + DigitValue(t[j]) /\ u[j - 1] \in Nat
          /\ DigitValue(t[j]) \in Nat
      BY <1>2, <3>1 DEF Steps
    <3>4. /\ w[j] = 16 * w[j - 1] /\ w[j - 1] \in Nat
      BY <1>3, <3>1 DEF Growth
    <3> QED BY <3>2, <3>3, <3>4
  <2> QED
    BY <1>6, <2>1
<1> SUFFICES ASSUME ~ Holds(n) PROVE FALSE
  BY <1>1, <1>2 DEF w
<1> DEFINE bad == {j \in 1..n : ~ Holds(j)}
<1>7. bad \subseteq Nat /\ bad # {}
  OBVIOUS
<1>8. PICK j \in bad : \A o \in bad : ~(o < j)
  <2> HIDE DEF bad
  <2> QED BY <1>7, LeastNumber
<1>9. j \in 1..n /\ ~ Holds(j)
  BY <1>8
<1>10. j \in 2..n
  <2> HIDE DEF Holds
  <2> QED BY <1>5, <1>9
<1>11. Holds(j - 1)
  <2>1. j - 1 \in 1..n /\ j - 1 < j
    BY <1>10
  <2> HIDE DEF Holds
  <2> QED BY <1>8, <2>1
<1> HIDE DEF Holds
<1> QED
  BY <1>6, <1>9, <1>10, <1>11

\* strtolu() returns what its string stands for, though strtol() does not.
LEMMA HexConverted == AllConverted
<1> SUFFICES ASSUME NEW s \in HexStrings PROVE strtolu(s) = HexValue(s)
  BY DEF AllConverted
<1>1. PICK n \in 1..HexDigits : s \in [1..n -> HexChar]
  BY DEF HexStrings, HexChar
<1>2. Len(s) = n /\ HexValue(s) \in Nat /\ HexValue(s) = PrefixValue(s)[n]
  BY <1>1, ValueSteps
<1>3. /\ ULONG_TOP = PrefixValue(TopString(HexDigits))[HexDigits]
      /\ ULONG_TOP \in Nat
  <2>1. /\ TopString(HexDigits) \in [1..HexDigits -> HexChar]
        /\ PrefixValue(TopString(HexDigits))[HexDigits] \in Nat
    BY HexDigitsOK, TopSteps DEF Growth
  <2> QED
    BY <2>1, HexDigitsOK, ValueSteps DEF ULONG_TOP, TopString
<1>4. s[1] \in HexChar
  BY <1>1
<1>5. CASE n < HexDigits
  <2>1. HexValue(s) < ULONG_TOP
    BY <1>1, <1>3, <1>5, HexDigitsOK, ShorterIsBelow
  <2> QED
    BY <1>2, <1>3, <1>5, <2>1 DEF strtolu, strtol, LONG_MAX
<1>6. CASE n = HexDigits /\ ~(s[1] >= 56)
  <2>1. DigitValue(s[1]) < 8
    BY <1>4, <1>6, DigitRange
  <2>2. PrefixValue(s)[n] < PrefixValue(TopString(HexDigits))[n]
    BY <1>1, <1>6, <2>1, HexDigitsOK, BelowTop
  <2> QED
    BY <1>2, <1>3, <1>6, <2>2 DEF strtolu, strtol, LONG_MAX
<1>7. CASE n = HexDigits /\ s[1] >= 56
  <2> DEFINE t == [s EXCEPT ![1] = lower(s[1])]
  <2>1. lower(s[1]) \in HexChar /\ DigitValue(s[1]) = DigitValue(lower(s[1])) + 8
    BY <1>4, <1>7, LowerTakesEight
  <2>2. /\ t \in [1..n -> HexChar] /\ t[1] = lower(s[1])
        /\ \A k \in 2..n : s[k] = t[k]
    BY <1>1, <2>1
  <2>3. strtolu(s) = strtol(t) + ULONG_TOP
    BY <1>2, <1>7 DEF strtolu
  <2> HIDE DEF t
  <2>4. HexValue(s) = HexValue(t) + ULONG_TOP
    BY <1>1, <1>3, <1>7, <2>1, <2>2, HexDigitsOK, LoweredBy
  <2>5. HexValue(t) < ULONG_TOP /\ HexValue(t) \in Nat
    <3>1. DigitValue(t[1]) < 8
      BY <1>4, <2>1, <2>2, DigitRange
    <3>2. PrefixValue(t)[n] < PrefixValue(TopString(HexDigits))[n]
      BY <1>7, <2>2, <3>1, HexDigitsOK, BelowTop
    <3>3. HexValue(t) = PrefixValue(t)[n] /\ HexValue(t) \in Nat
      BY <2>2, ValueSteps
    <3> QED
      BY <1>3, <1>7, <3>2, <3>3
  <2>6. strtol(t) = HexValue(t)
    BY <1>3, <2>5 DEF strtol, LONG_MAX
  <2> QED
    BY <2>3, <2>4, <2>6
<1> QED
  BY <1>1, <1>5, <1>6, <1>7, HexDigitsOK

\* A program that calls has read its addresses as they were written, for words
\* of any number of hex digits and every string of digits that fits.
THEOREM ArgumentsConverted == Spec => []ConvertsHex
<1>1. ConvertsHex
  BY HexConverted DEF ConvertsHex
<1> QED
  BY <1>1, PTL

=============================================================================
