---------------------------- MODULE ExposeProofs ----------------------------
(***************************************************************************)
(* For any sizes of pages, tables and directories, any kernel sections,    *)
(* frames, areas and addresses and any number of programs the target       *)
(* executes: the variables keep their types, and expose_page_table()       *)
(* releases the semaphore it has taken.                                    *)
(***************************************************************************)
EXTENDS ExposePageTable, TLAPS

\* The quotient of the addresses of a directory is one of its entries.
LEMMA QuotientBound ==
    ASSUME NEW a \in Nat, NEW k \in Nat \ {0}, NEW n \in Nat, a < n * k
    PROVE  a \div k \in Nat /\ a \div k < n
<1> DEFINE q == a \div k
<1>1. q \in Nat /\ (a % k) \in Nat
  OBVIOUS
<1>2. a = (k * q) + (a % k)
  OBVIOUS
<1>3. k * q \in Nat /\ n * k \in Nat
  BY <1>1
<1>4. k * q <= a
  BY <1>1, <1>2, <1>3
<1>5. q >= n => n * k <= k * q
  BY <1>1
<1> QED
  BY <1>1, <1>3, <1>4, <1>5

LEMMA Sizes ==
    /\ PAGE_SIZE \in Nat \ {0} /\ PTRS_PER_PTE \in Nat \ {0}
    /\ PTRS_PER_PGD \in Nat \ {0} /\ LastMm \in Nat \ {0}
    /\ PGDIR_SIZE \in Nat \ {0} /\ TopAddr \in Nat \ {0}
<1>1. /\ PAGE_SIZE \in Nat \ {0} /\ PTRS_PER_PTE \in Nat \ {0}
      /\ PTRS_PER_PGD \in Nat \ {0} /\ LastMm \in Nat \ {0}
  BY ExposeOK
<1>2. PGDIR_SIZE \in Nat \ {0}
  BY <1>1 DEF PGDIR_SIZE
<1> QED
  BY <1>1, <1>2 DEF TopAddr

\* Every address is in the region of an entry of the directory.
LEMMA RegionOfAddress ==
    ASSUME NEW a \in 0..TopAddr - 1
    PROVE  Region(a) \in Regions
<1>1. a \in Nat /\ a < PTRS_PER_PGD * PGDIR_SIZE
  BY Sizes DEF TopAddr
<1> QED
  BY <1>1, Sizes, QuotientBound DEF Region, Regions

\* The walk stays below the top of the address space.
LEMMA NextInSpace ==
    ASSUME NEW a \in 0..TopAddr - 1, NEW e \in 0..TopAddr - 1
    PROVE  pgd_addr_end(a, e) \in 0..TopAddr - 1
<1>1. Region(a) \in Nat
  BY RegionOfAddress DEF Regions
<1>2. (Region(a) + 1) * PGDIR_SIZE \in Nat
  BY <1>1, Sizes
<1> QED
  BY <1>2, Sizes DEF pgd_addr_end

\* The last byte plus one, as VATranslate computes it, is an address.
LEMMA WrapInSpace ==
    ASSUME NEW b \in 0..TopAddr - 1
    PROVE  (b + 1) % TopAddr \in 0..TopAddr - 1
BY Sizes

LEMMA TypeInit == Init => TypeOK
<1> SUFFICES ASSUME Init PROVE TypeOK
  OBVIOUS
<1> USE Sizes DEF Init, Mms
<1>1. TargetType
  BY DEF TargetType, NoTables
<1>2. ArgsType /\ LocksType
  BY DEF ArgsType, LocksType
<1>3. RecordType
  BY DEF RecordType, NULL, page_table_addr
<1>4. WalkType
  BY DEF WalkType
<1> QED
  BY <1>1, <1>2, <1>3, <1>4 DEF TypeOK

\* What a step leaves alone keeps its type.
LEMMA ArgsStay == ArgsType /\ UNCHANGED args => ArgsType'
BY DEF ArgsType, args

LEMMA LocksStay == LocksType /\ UNCHANGED locks => LocksType'
BY DEF LocksType, locks

LEMMA RecordStays == RecordType /\ UNCHANGED record => RecordType'
BY DEF RecordType, record

LEMMA TargetStays == TargetType /\ UNCHANGED <<targetVars, freed>> => TargetType'
BY DEF TargetType, targetVars

LEMMA CallStays == TypeOK /\ UNCHANGED callerVars =>
                      ArgsType' /\ LocksType' /\ RecordType' /\ WalkType'
<1> SUFFICES ASSUME TypeOK, UNCHANGED callerVars
             PROVE  ArgsType' /\ LocksType' /\ RecordType' /\ WalkType'
  OBVIOUS
<1>1. UNCHANGED args /\ UNCHANGED locks /\ UNCHANGED record
  BY DEF callerVars
<1>2. WalkType'
  BY DEF callerVars, WalkType, TypeOK
<1> QED
  BY <1>1, <1>2, ArgsStay, LocksStay, RecordStays DEF TypeOK

LEMMA MmsAreNumbers == Mms \subseteq Nat \ {NoMm}
<1>1. LastMm \in Nat
  BY Sizes
<1> QED
  BY <1>1 DEF Mms, NoMm

LEMMA NextMm ==
    ASSUME NEW m \in Mms, m < LastMm
    PROVE  m + 1 \in Mms
<1>1. LastMm \in Nat
  BY Sizes
<1> QED
  BY <1>1 DEF Mms

LEMMA CountStays ==
    ASSUME NEW c \in [Mms -> Int], NEW m \in Mms, NEW n \in Int
    PROVE  [c EXCEPT ![m] = n] \in [Mms -> Int]
OBVIOUS

\* Each step of the target keeps the types.
LEMMA TargetTypes == TypeOK /\ TargetInv /\ Target => TypeOK'
<1> SUFFICES ASSUME TypeOK, TargetInv, Target PROVE TargetType' /\ UNCHANGED callerVars
  BY CallStays DEF TypeOK
<1> USE DEF TypeOK, TargetType
<1>1. ASSUME NEW r \in Regions, NEW f \in Frames, __pte_alloc(r, f)
      PROVE  TargetType' /\ UNCHANGED callerVars
  BY <1>1 DEF __pte_alloc
<1>2. ASSUME NEW r \in Regions, munmap(r)
      PROVE  TargetType' /\ UNCHANGED callerVars
  <2>1. mm \in Mms
    BY <1>2 DEF munmap
  <2>2. freed' \subseteq Frames
    BY <1>2, <2>1 DEF munmap, Mapped
  <2> QED
    BY <1>2, <2>1, <2>2 DEF munmap
<1>3. ASSUME NEW why \in {"exec", "exit"}, Leave(why)
      PROVE  TargetType' /\ UNCHANGED callerVars
  BY <1>3 DEF Leave
<1>4. CASE LeaveDown
  <2>1. old_mm \in Mms
    BY <1>4 DEF LeaveDown, TargetInv
  <2>2. activity' \in [Mms -> Int]
    <3>1. activity' = [activity EXCEPT ![old_mm] = activity[old_mm] + 1]
      BY <1>4 DEF LeaveDown
    <3>2. activity[old_mm] + 1 \in Int
      <4>1. activity \in [Mms -> Int]
        OBVIOUS
      <4> HIDE DEF TypeOK, TargetType, TargetInv
      <4> QED
        BY <2>1, <4>1
    <3> QED
      BY <2>1, <3>1, <3>2, CountStays
  <2> QED
    BY <1>4, <2>1, <2>2 DEF LeaveDown
<1>5. CASE LeaveSwitch
  <2>1. mm \in Mms /\ old_mm = mm
    BY <1>5 DEF LeaveSwitch, TargetInv, Switching
  <2>2. tpc = "exec switch" => mm + 1 \in Mms
    <3>1. tpc = "exec switch" => mm < LastMm
      BY DEF TargetInv
    <3> QED
      BY <2>1, <3>1, NextMm
  <2>3. mm' \in Mms \cup {NoMm}
    BY <1>5, <2>2 DEF LeaveSwitch
  <2>4. activity' \in [Mms -> Int]
    <3>1. activity' = [activity EXCEPT ![old_mm] = activity[old_mm] - 1]
      BY <1>5 DEF LeaveSwitch
    <3>2. activity[old_mm] - 1 \in Int
      <4>1. activity \in [Mms -> Int]
        OBVIOUS
      <4> HIDE DEF TypeOK, TargetType, TargetInv
      <4> QED
        BY <2>1, <4>1
    <3> QED
      BY <2>1, <3>1, <3>2, CountStays
  <2> QED
    BY <1>5, <2>3, <2>4 DEF LeaveSwitch
<1>6. CASE mmput
  <2>1. freed' \subseteq Frames
    BY <1>6 DEF mmput, Mapped, TargetInv
  <2>2. table' \in [Mms -> [Regions -> Frames \cup {NoFrame}]]
    BY <1>6 DEF mmput, NoTables
  <2>3. gone' \subseteq Mms
    BY <1>6 DEF mmput, TargetInv
  <2> QED
    BY <1>6, <2>1, <2>2, <2>3 DEF mmput
<1>7. CASE release_task
  BY <1>7 DEF release_task
<1> QED
  BY <1>1, <1>2, <1>3, <1>4, <1>5, <1>6, <1>7 DEF Target

\* A round of the walk keeps the types.
LEMMA WalkTypes == TypeOK /\ CallInv /\ walk_page_range => TypeOK'
<1> SUFFICES ASSUME TypeOK, CallInv, walk_page_range PROVE TypeOK'
  OBVIOUS
<1> USE DEF TypeOK
<1> DEFINE Ok == RecordType' /\ pc' \in {"walk", "unload", "oops"}
<1>1. addr' \in 0..TopAddr - 1
  <2>1. pgd_addr_end(addr, end_vaddr) \in 0..TopAddr - 1
    BY NextInSpace DEF WalkType, ArgsType
  <2>2. \A v \in PfnMapAt(addr) : v[2] \in 0..TopAddr - 1
    <3>1. \A v \in PfnMapAt(addr) : v \in PfnMaps
      BY DEF PfnMapAt, TargetType
    <3> QED
      BY <3>1, ExposeOK, Sizes
  <2> QED
    BY <2>1, <2>2 DEF walk_page_range, WalkType
<1>2. ASSUME UNCHANGED record, pc' \in {"walk", "unload", "oops"} PROVE Ok
  BY <1>2, RecordStays
<1>3. ASSUME NEW f \in Frames \cup {NoFrame}, NEW r, for_pmd_entry(r, f) PROVE Ok
  <2>1. pc' \in {"walk", "unload", "oops"}
    BY <1>3 DEF for_pmd_entry, Goto
  <2>2. err' \in BOOLEAN
    BY <1>3 DEF for_pmd_entry, RecordType
  <2>3. /\ pgd_base' \in [Regions -> Nat] /\ pte_base' \in Nat
        /\ mapped' \in [1..PTRS_PER_PGD -> Frames \cup {NoFrame}]
    BY <1>3 DEF for_pmd_entry, RecordType, EACH_PTE_SIZE
  <2> QED
    BY <2>1, <2>2, <2>3 DEF RecordType
<1>4. table[walk_mm][Region(addr)] \in Frames \cup {NoFrame}
  <2>1. walk_mm \in Mms /\ Region(addr) \in Regions
    BY RegionOfAddress DEF walk_page_range, CallInv, WalkType
  <2> QED
    BY <2>1 DEF TargetType
<1>5. pc = "walk"
  BY DEF walk_page_range
<1>6. Ok
  <2>1. CASE addr = end_vaddr
    BY <2>1, <1>2 DEF walk_page_range, Goto
  <2>2. CASE addr # end_vaddr
    <3>1. ASSUME NEW v \in PfnMapAt(addr), UNCHANGED <<pc, record>> PROVE Ok
      BY <3>1, <1>2, <1>5
    <3>2. CASE walk_mm \in gone /\ Goto("oops") /\ UNCHANGED <<addr, record>>
      BY <3>2, <1>2 DEF Goto
    <3>3. ASSUME NEW f \in Frames \cup {NoFrame},
                 IF f = NoFrame /\ Region(addr) \notin Sections
                 THEN UNCHANGED <<pc, record>>
                 ELSE for_pmd_entry(Region(addr), f)
          PROVE  Ok
      BY <3>3, <1>2, <1>3, <1>5
    <3> QED
      BY <2>2, <3>1, <3>2, <3>3, <1>4 DEF walk_page_range
  <2> QED
    BY <2>1, <2>2
<1>7. TargetType' /\ ArgsType' /\ LocksType'
  BY TargetStays, ArgsStay, LocksStay DEF walk_page_range
<1>8. WalkType'
  BY <1>1, <1>6 DEF walk_page_range, WalkType
<1> QED
  BY <1>6, <1>7, <1>8

\* Each step of the call and of the programs keeps the types.
LEMMA CallTypes == TypeOK /\ CallInv /\ (Main \/ Call) => TypeOK'
<1> SUFFICES ASSUME TypeOK, CallInv, Main \/ Call PROVE TypeOK'
  OBVIOUS
<1> USE ArgsStay, LocksStay, RecordStays, TargetStays DEF TypeOK, Goto
<1>1. ASSUME NEW p \in {"VATranslate", "vm_inspector"}, NEW b \in Addrs,
             NEW e \in Addrs, NEW a \in BOOLEAN, main(p, b, e, a)
      PROVE  TypeOK'
  <2>1. b \in 0..TopAddr - 1 /\ e \in 0..TopAddr - 1
    BY ExposeOK
  <2>2. end_vaddr' \in 0..TopAddr - 1
    BY <1>1, <2>1, WrapInSpace DEF main
  <2>3. ArgsType'
    BY <1>1, <2>1, <2>2 DEF main, ArgsType, TargetType
  <2> QED
    BY <1>1, <2>3 DEF main, WalkType
<1>2. CASE find_get_pid
  BY <1>2 DEF find_get_pid, WalkType
<1>3. CASE get_pid_task
  BY <1>3 DEF get_pid_task, WalkType
<1>4. CASE LoadSem
  <2>1. LocksType'
    BY <1>4 DEF LoadSem, LocksType, TargetType
  <2> QED
    BY <1>4, <2>1 DEF LoadSem, WalkType
<1>5. CASE down_write
  <2>1. right' \in BOOLEAN
    BY <1>5 DEF down_write, LocksType
  <2>2. LocksType'
    BY <1>5, <2>1 DEF down_write, LocksType
  <2>3. TargetType'
    <3>1. locked \in Mms
      BY <1>5 DEF down_write, CallInv, LocksType
    <3>2. activity' \in [Mms -> Int]
      <4>1. activity \in [Mms -> Int]
        BY DEF TargetType
      <4>2. \/ activity' = activity
            \/ activity' = [activity EXCEPT ![locked] = -1]
        BY <1>5 DEF down_write
      <4> QED
        BY <3>1, <4>1, <4>2, CountStays
    <3> QED
      BY <1>5, <3>2 DEF down_write, TargetType
  <2>4. WalkType'
    BY <1>5 DEF down_write, WalkType, ArgsType
  <2> QED
    BY <1>5, <2>2, <2>3, <2>4 DEF down_write
<1>6. CASE ListAreas
  BY <1>6 DEF ListAreas, WalkType
<1>7. CASE LoadSemAgain
  <2>1. LocksType'
    BY <1>7 DEF LoadSemAgain, LocksType, TargetType
  <2> QED
    BY <1>7, <2>1 DEF LoadSemAgain, WalkType
<1>8. CASE up_write
  <2>1. TargetType'
    <3>1. unlocked \in Mms
      BY <1>8 DEF up_write, CallInv, LocksType
    <3>2. activity' \in [Mms -> Int]
      <4>1. activity \in [Mms -> Int]
        BY DEF TargetType
      <4>2. activity' = [activity EXCEPT ![unlocked] = 0]
        BY <1>8 DEF up_write
      <4> QED
        BY <3>1, <4>1, <4>2, CountStays
    <3> QED
      BY <1>8, <3>2 DEF up_write, TargetType
  <2> QED
    BY <1>8, <2>1 DEF up_write, WalkType
<1>9. CASE SetUp
  <2>1. LocksType'
    BY <1>9 DEF SetUp, LocksType
  <2>2. WalkType'
    BY <1>9 DEF SetUp, WalkType, TargetType
  <2> QED
    BY <1>9, <2>1, <2>2 DEF SetUp
<1>10. CASE walk_page_range
  BY <1>10, WalkTypes
<1>11. CASE CopyPgd
  <2>1. i' \in Nat
    BY <1>11, Sizes DEF CopyPgd, ArgsType
  <2> QED
    BY <1>11, <2>1 DEF CopyPgd, WalkType
<1>12. CASE ReadEntry
  BY <1>12 DEF ReadEntry, WalkType
<1> QED
  BY <1>1, <1>2, <1>3, <1>4, <1>5, <1>6, <1>7, <1>8, <1>9, <1>10, <1>11, <1>12
     DEF Main, Call

-----------------------------------------------------------------------------

\* What the call does changes nothing of the target but the count of a
\* semaphore.
LEMMA CallLeavesTarget ==
    Main \/ Call => UNCHANGED <<tpc, mm, old_mm, table, gone, pfnmap, freed>>
BY DEF Main, main, Call, find_get_pid, get_pid_task, LoadSem, down_write, ListAreas,
       LoadSemAgain, up_write, SetUp, walk_page_range, CopyPgd, ReadEntry, targetVars

LEMMA TargetLeavesCall == Target => UNCHANGED callerVars
BY DEF Target, __pte_alloc, munmap, Leave, LeaveDown, LeaveSwitch, mmput, release_task

LEMMA TargetStep == TypeOK /\ TargetInv /\ Target => TargetInv'
<1> SUFFICES ASSUME TypeOK, TargetInv, Target PROVE TargetInv'
  OBVIOUS
<1>0. /\ mm \in Mms \cup {NoMm} /\ old_mm \in Mms \cup {NoMm} /\ gone \subseteq Mms
      /\ Mms \subseteq Nat \ {NoMm}
  BY MmsAreNumbers DEF TypeOK, TargetType
<1> USE DEF TargetInv, Switching
<1>1. ASSUME NEW r \in Regions, NEW f \in Frames, __pte_alloc(r, f) PROVE TargetInv'
  BY <1>1 DEF __pte_alloc
<1>2. ASSUME NEW r \in Regions, munmap(r) PROVE TargetInv'
  BY <1>2 DEF munmap
<1>3. ASSUME NEW why \in {"exec", "exit"}, Leave(why) PROVE TargetInv'
  BY <1>3 DEF Leave
<1>4. CASE LeaveDown
  BY <1>4 DEF LeaveDown
<1>5. CASE LeaveSwitch
  <2>1. mm \in Mms /\ old_mm = mm /\ old_mm' = old_mm /\ gone' = gone
    BY <1>0, <1>5 DEF LeaveSwitch
  <2>2. tpc' \in {"exec put", "exit put"}
    BY <1>5 DEF LeaveSwitch
  <2>3. mm' # NoMm => mm' = mm + 1
    BY <1>5 DEF LeaveSwitch
  <2>4. mm' # NoMm => old_mm' < mm' /\ \A m \in gone' : m < mm'
    <3>1. mm \in Nat /\ gone \subseteq Nat /\ mm # NoMm
      BY <1>0, <2>1
    <3>2. \A m \in gone : m < mm
      BY <3>1
    <3> HIDE DEF TargetInv
    <3> QED
      BY <2>1, <2>3, <3>1, <3>2
  <2> QED
    BY <1>0, <2>1, <2>2, <2>4
<1>6. CASE mmput
  <2>1. /\ mm' = mm /\ gone' = gone \cup {old_mm}
        /\ tpc' \in {"run", "zombie"}
    BY <1>6 DEF mmput
  <2>2. mm # NoMm => old_mm < mm
    BY <1>6 DEF mmput
  <2> QED
    BY <2>1, <2>2
<1>7. CASE release_task
  BY <1>7 DEF release_task
<1> QED
  BY <1>1, <1>2, <1>3, <1>4, <1>5, <1>6, <1>7 DEF Target

\* The target may lose its mm while the call holds on to one, and it never gets
\* one when it has none.
LEMMA NoMmForGood == TypeOK /\ TargetInv /\ Target /\ mm = NoMm => mm' = NoMm
BY DEF Target, __pte_alloc, munmap, Leave, LeaveDown, LeaveSwitch, mmput,
       release_task, TargetInv, Switching

LEMMA CallStep == TypeOK /\ CallInv /\ (Main \/ Call) => CallInv'
<1> SUFFICES ASSUME TypeOK, CallInv, Main \/ Call PROVE CallInv'
  OBVIOUS
<1>0. pass \in {1, 2}
  BY DEF TypeOK, LocksType
<1> USE DEF CallInv, Holding, Goto, locks, targetVars
<1>1. CASE Main
  BY <1>1, <1>0 DEF Main, main
<1>2. CASE find_get_pid
  BY <1>2 DEF find_get_pid
<1>3. CASE get_pid_task
  BY <1>3 DEF get_pid_task
<1>4. CASE LoadSem
  BY <1>4 DEF LoadSem
<1>5. CASE down_write
  BY <1>0, <1>5 DEF down_write
<1>6. CASE ListAreas
  BY <1>6 DEF ListAreas
<1>7. CASE LoadSemAgain
  BY <1>7 DEF LoadSemAgain
<1>8. CASE up_write
  BY <1>8 DEF up_write
<1>9. CASE SetUp
  BY <1>9 DEF SetUp
<1>10. CASE walk_page_range
  <2>1. pc' \in {"walk", "unload", "oops"} /\ pc = "walk"
    BY <1>10 DEF walk_page_range, for_pmd_entry
  <2> QED
    BY <1>10, <2>1 DEF walk_page_range
<1>11. CASE CopyPgd
  BY <1>11 DEF CopyPgd
<1>12. CASE ReadEntry
  BY <1>12 DEF ReadEntry
<1> QED
  BY <1>1, <1>2, <1>3, <1>4, <1>5, <1>6, <1>7, <1>8, <1>9, <1>10, <1>11, <1>12
     DEF Call

-----------------------------------------------------------------------------

\* The count is what it should be after a step of the target: exec_mmap() and
\* exit_mm() cannot get the semaphore while the call holds it.
LEMMA TargetLocks == TypeOK /\ TargetInv /\ LockInv /\ Target => LockInv'
<1> SUFFICES ASSUME TypeOK, TargetInv, LockInv, Target, right', pc' # "oops"
             PROVE  LockInv'
  BY DEF LockInv
<1>0. UNCHANGED <<pc, locked, unlocked, right>>
  BY TargetLeavesCall DEF callerVars, locks
<1>t. /\ mm \in Mms \cup {NoMm} /\ activity \in [Mms -> Int]
      /\ Mms \subseteq Nat \ {NoMm}
  BY MmsAreNumbers DEF TypeOK, TargetType
<1>s. ASSUME UNCHANGED <<mm, activity>>, Switching' <=> Switching PROVE LockInv'
  BY <1>0, <1>s DEF LockInv, Holding
<1>1. ASSUME NEW r \in Regions, NEW f \in Frames, __pte_alloc(r, f) PROVE LockInv'
  BY <1>1, <1>s DEF __pte_alloc, Switching
<1>2. ASSUME NEW r \in Regions, munmap(r) PROVE LockInv'
  BY <1>2, <1>s DEF munmap, Switching
<1>3. ASSUME NEW why \in {"exec", "exit"}, Leave(why) PROVE LockInv'
  BY <1>3, <1>s DEF Leave, Switching
<1>4. CASE LeaveDown
  <2>1. /\ mm \in Mms /\ mm' = mm /\ ~Switching /\ Switching' /\ activity[mm] >= 0
        /\ activity' = [activity EXCEPT ![mm] = activity[mm] + 1]
    BY <1>4, <1>t DEF LeaveDown, TargetInv, Switching
  <2>2. ~Holding
    BY <1>0, <1>t, <2>1 DEF LockInv
  <2>3. activity[mm] = 0 /\ \A m \in Mms : m > mm => activity[m] = 0
    BY <1>0, <1>t, <2>1, <2>2 DEF LockInv
  <2>4. activity'[mm] = 1 /\ \A m \in Mms : m > mm => activity'[m] = 0
    BY <1>t, <2>1, <2>3
  <2> QED
    BY <1>0, <2>1, <2>2, <2>4 DEF LockInv, Holding
<1>5. CASE LeaveSwitch
  <2>1. /\ mm \in Mms /\ Switching /\ ~Switching'
        /\ mm' = NoMm \/ mm' = mm + 1
        /\ activity' = [activity EXCEPT ![mm] = activity[mm] - 1]
    BY <1>5, <1>t DEF LeaveSwitch, TargetInv, Switching
  <2>2. ~Holding
    BY <1>0, <2>1 DEF LockInv
  <2>3. \A m \in Mms : m > mm => activity[m] = 0
    BY <1>0, <1>t, <2>1 DEF LockInv
  <2>4. \A m \in Mms : m > mm => activity'[m] = 0
    BY <1>t, <2>1, <2>3
  <2>5. mm' # NoMm => mm' \in Mms /\ mm' > mm
    <3>1. mm' \in Mms \cup {NoMm}
      BY TargetTypes DEF TypeOK, TargetType
    <3> QED
      BY <3>1, <2>1, <1>t
  <2>6. mm' # NoMm => /\ activity'[mm'] = 0
                      /\ \A m \in Mms : m > mm' => activity'[m] = 0
    <3>1. SUFFICES ASSUME mm' # NoMm
                   PROVE  /\ activity'[mm'] = 0
                          /\ \A m \in Mms : m > mm' => activity'[m] = 0
      OBVIOUS
    <3>2. mm' \in Mms /\ mm' > mm /\ mm \in Nat /\ mm' \in Nat
      BY <1>t, <2>1, <2>5, <3>1
    <3>3. \A m \in Mms : m > mm' => m > mm
      BY <1>t, <3>2
    <3> QED
      BY <2>4, <3>2, <3>3
  <2> QED
    BY <1>0, <2>1, <2>2, <2>6 DEF LockInv, Holding
<1>6. CASE mmput
  BY <1>6, <1>s DEF mmput, Switching
<1>7. CASE release_task
  BY <1>7, <1>s DEF release_task, Switching
<1> QED
  BY <1>1, <1>2, <1>3, <1>4, <1>5, <1>6, <1>7 DEF Target

\* The count is what it should be after a step of the call: the semaphore it
\* releases is the one it has.
LEMMA CallLocks == IInv /\ (Main \/ Call) => LockInv'
<1> SUFFICES ASSUME TypeOK, TargetInv, CallInv, LockInv, Main \/ Call,
                    right', pc' # "oops"
             PROVE  LockInv'
  BY DEF LockInv, IInv
<1>0. UNCHANGED <<tpc, mm, gone>> /\ (Switching' <=> Switching)
  BY CallLeavesTarget DEF Switching
<1>t. /\ mm \in Mms \cup {NoMm} /\ activity \in [Mms -> Int]
      /\ Mms \subseteq Nat \ {NoMm} /\ locked \in Mms \cup {NoMm}
      /\ unlocked \in Mms \cup {NoMm}
  BY MmsAreNumbers DEF TypeOK, TargetType, LocksType
<1>s. ASSUME UNCHANGED <<activity, locked, unlocked, right>>, Holding' <=> Holding,
             pc # "oops", pc' # "up"
      PROVE  LockInv'
  BY <1>0, <1>s DEF LockInv
<1>n. ASSUME UNCHANGED <<activity, right>>, ~Holding, ~Holding', pc # "oops"
      PROVE  LockInv'
  BY <1>0, <1>n DEF LockInv
<1> USE DEF Goto, targetVars, locks
<1>1. CASE Main
  BY <1>1, <1>n DEF Main, main, Holding
<1>2. CASE find_get_pid
  BY <1>2, <1>n DEF find_get_pid, Holding
<1>3. CASE get_pid_task
  BY <1>3, <1>n DEF get_pid_task, Holding
<1>4. CASE LoadSem
  BY <1>4, <1>n DEF LoadSem, Holding
<1>5. CASE down_write
  <2>1. /\ locked' = locked /\ pc = "down"
        /\ locked \in gone \/ activity[locked] = 0
        /\ activity' = [activity EXCEPT ![locked] = -1]
        /\ right /\ mm = locked /\ Holding' /\ pc' # "up"
    BY <1>5 DEF down_write, Holding
  <2>2. mm \in Mms /\ ~Holding
    BY <2>1, <1>t DEF CallInv, Holding
  <2>3. mm \notin gone
    <3>1. mm \in Nat /\ \A m \in gone : m < mm
      BY <2>2, <1>t DEF TargetInv
    <3>2. ~(mm < mm)
      BY <3>1
    <3> QED
      BY <3>1, <3>2
  <2>4. ~Switching
    BY <1>t, <2>1, <2>2, <2>3 DEF LockInv
  <2>5. \A m \in Mms : m > mm => activity[m] = 0
    BY <1>t, <2>1, <2>2 DEF LockInv
  <2>6. activity'[mm] = -1 /\ \A m \in Mms : m > mm => activity'[m] = 0
    BY <1>t, <2>1, <2>2, <2>5
  <2> QED
    BY <1>0, <2>1, <2>4, <2>6 DEF LockInv
<1>6. CASE ListAreas
  BY <1>6, <1>s DEF ListAreas, Holding
<1>7. CASE LoadSemAgain
  <2>1. /\ UNCHANGED <<activity, locked, right>> /\ unlocked' = mm
        /\ Holding /\ Holding' /\ pc # "oops"
    BY <1>7 DEF LoadSemAgain, Holding
  <2> QED
    BY <1>0, <2>1 DEF LockInv
<1>8. CASE up_write
  <2>1. /\ UNCHANGED <<locked, unlocked, right>> /\ pc = "up" /\ Holding /\ ~Holding'
        /\ activity' = [activity EXCEPT ![unlocked] = 0]
    BY <1>8 DEF up_write, Holding
  <2>2. unlocked = mm /\ mm \in Mms /\ ~Switching
    BY <2>1, <1>t DEF LockInv, CallInv
  <2>3. \A m \in Mms : m > mm => activity[m] = 0
    BY <1>t, <2>1, <2>2 DEF LockInv
  <2>4. activity'[mm] = 0 /\ \A m \in Mms : m > mm => activity'[m] = 0
    BY <1>t, <2>1, <2>2, <2>3
  <2> QED
    BY <1>0, <2>1, <2>2, <2>4 DEF LockInv
<1>9. CASE SetUp
  BY <1>9, <1>n DEF SetUp, Holding
<1>10. CASE walk_page_range
  <2>1. pc' \in {"walk", "unload", "oops"} /\ pc = "walk"
    BY <1>10 DEF walk_page_range, for_pmd_entry
  <2> QED
    BY <1>10, <2>1, <1>s DEF walk_page_range, Holding
<1>11. CASE CopyPgd
  BY <1>11, <1>n DEF CopyPgd, Holding
<1>12. CASE ReadEntry
  BY <1>12, <1>n DEF ReadEntry, Holding
<1> QED
  BY <1>1, <1>2, <1>3, <1>4, <1>5, <1>6, <1>7, <1>8, <1>9, <1>10, <1>11, <1>12
     DEF Call

-----------------------------------------------------------------------------

LEMMA InvInit == Init => IInv
<1> SUFFICES ASSUME Init PROVE IInv
  OBVIOUS
<1>1. TypeOK
  BY TypeInit
<1>2. TargetInv /\ CallInv
  BY DEF Init, TargetInv, CallInv, Switching, Holding
<1>3. LockInv
  BY Sizes DEF Init, LockInv, Switching, Holding, Mms
<1> QED
  BY <1>1, <1>2, <1>3 DEF IInv

LEMMA InvNext == IInv /\ [Next]_vars => IInv'
<1> SUFFICES ASSUME IInv, [Next]_vars PROVE IInv'
  OBVIOUS
<1>1. CASE Target
  <2>1. TypeOK' /\ TargetInv' /\ LockInv'
    BY <1>1, TargetTypes, TargetStep, TargetLocks DEF IInv
  <2>2. CallInv'
    BY <1>1, TargetLeavesCall, NoMmForGood
       DEF IInv, CallInv, callerVars, locks, Holding
  <2> QED
    BY <2>1, <2>2 DEF IInv
<1>2. CASE Main \/ Call
  <2>1. TypeOK' /\ CallInv' /\ LockInv'
    BY <1>2, CallTypes, CallStep, CallLocks DEF IInv
  <2>2. TargetInv'
    BY <1>2, CallLeavesTarget DEF IInv, TargetInv, Switching
  <2> QED
    BY <2>1, <2>2 DEF IInv
<1>3. CASE UNCHANGED vars
  <2>1. TypeOK'
    <3>1. UNCHANGED callerVars /\ UNCHANGED <<targetVars, freed>>
      BY <1>3 DEF vars, callerVars, targetVars, args, locks, record
    <3> QED
      BY <3>1, CallStays, TargetStays DEF IInv, TypeOK
  <2>2. TargetInv'
    BY <1>3 DEF vars, IInv, TargetInv, Switching
  <2>3. CallInv'
    BY <1>3 DEF vars, IInv, CallInv, Holding
  <2>4. LockInv'
    BY <1>3 DEF vars, IInv, LockInv, Holding, Switching
  <2> QED
    BY <2>1, <2>2, <2>3, <2>4 DEF IInv
<1> QED
  BY <1>1, <1>2, <1>3 DEF Next, Rest

\* The variables of the call, of the programs and of the target keep their
\* types, for every size of pages and tables.
THEOREM TypeCorrect == Spec => []TypeOK
<1>1. IInv => TypeOK
  BY DEF IInv
<1> QED
  BY InvInit, InvNext, <1>1, PTL DEF Spec

\* expose_page_table() releases the semaphore it has taken, provided each mm was
\* the target's at the moment its semaphore was granted: down_write() by the
\* call excludes the switch of mm by exec_mmap() and exit_mm() until up_write().
THEOREM ReleasesWhatItTook == Spec => []SemReleasedIsTaken
<1>1. IInv => SemReleasedIsTaken
  BY DEF IInv, LockInv, SemReleasedIsTaken, Holding
<1> QED
  BY InvInit, InvNext, <1>1, PTL DEF Spec

-----------------------------------------------------------------------------

\* The page of an address is one of those that the directory's tables have.
LEMMA PageOfAddress ==
    ASSUME NEW a \in 0..TopAddr - 1
    PROVE  a \div PAGE_SIZE \in Pages
<1> DEFINE n == PTRS_PER_PGD * PTRS_PER_PTE
<1>1. n \in Nat
  BY Sizes
<1>2. PTRS_PER_PGD * (PAGE_SIZE * PTRS_PER_PTE) = n * PAGE_SIZE
  BY Sizes
<1>3. a \in Nat /\ a < n * PAGE_SIZE
  BY <1>2, Sizes DEF TopAddr, PGDIR_SIZE
<1>4. a \div PAGE_SIZE \in Nat /\ a \div PAGE_SIZE < n
  BY <1>1, <1>3, Sizes, QuotientBound
<1> QED
  BY <1>1, <1>4 DEF Pages

\* And its table is that of an entry of the directory.
LEMMA TableOfPage ==
    ASSUME NEW p \in Pages
    PROVE  p \div PTRS_PER_PTE \in Regions
<1>1. p \in Nat /\ p < PTRS_PER_PGD * PTRS_PER_PTE
  BY Sizes DEF Pages
<1> QED
  BY <1>1, Sizes, QuotientBound DEF Regions

LEMMA OnePage == /\ 1 \in 1..PTRS_PER_PGD
                 /\ PageOf(page_table_addr) = 1
                 /\ PageOf(page_table_addr + EACH_PTE_SIZE) = 1
BY Sizes DEF PageOf, page_table_addr, EACH_PTE_SIZE

\* A table the target frees while it is mapped is one of those freed, and a new
\* one is put where none is: the entries stay the target's.
LEMMA TargetTables == IInv /\ EInv /\ Target => EInv'
<1> SUFFICES ASSUME TypeOK, TargetInv, AreaInv, TableInv, ReadInv, Target PROVE EInv'
  BY DEF IInv, EInv
<1>0. UNCHANGED <<pc, pass, locked, right, walk_mm, pgd_base, pte_base, mapped, i>>
  BY TargetLeavesCall DEF callerVars, locks, record
<1>1. AreaInv' /\ ReadInv'
  BY <1>0 DEF AreaInv, ReadInv
<1>t. /\ table \in [Mms -> [Regions -> Frames \cup {NoFrame}]]
      /\ mm \in Mms \cup {NoMm} /\ old_mm \in Mms \cup {NoMm}
      /\ walk_mm \in Mms \cup {NoMm}
      /\ mapped \in [1..PTRS_PER_PGD -> Frames \cup {NoFrame}]
  BY DEF TypeOK, TargetType, WalkType, RecordType
<1>2. TableInv'
  <2> SUFFICES ASSUME GoodWalk, NEW r \in Regions, pgd_base[r] # NULL
               PROVE  mapped[1] \in freed' \/ mapped[1] = table'[walk_mm][r]
    BY <1>0 DEF TableInv, GoodWalk
  <2>1. mapped[1] # NoFrame /\ (mapped[1] \in freed \/ mapped[1] = table[walk_mm][r])
    BY DEF AreaInv, TableInv
  <2>2. mapped[1] \in Mapped
    BY <2>1, <1>t, OnePage DEF Mapped
  <2>3. freed \subseteq freed'
    BY DEF Target, __pte_alloc, munmap, Leave, LeaveDown, LeaveSwitch, mmput,
           release_task
  <2>4. CASE mapped[1] \in freed
    BY <2>3, <2>4
  <2>5. CASE mapped[1] = table[walk_mm][r] /\ table' = table
    BY <2>5
  <2>6. ASSUME NEW q \in Regions, NEW f \in Frames, __pte_alloc(q, f),
               mapped[1] = table[walk_mm][r]
        PROVE  mapped[1] = table'[walk_mm][r]
    <3>1. table[mm][q] = NoFrame /\ table' = [table EXCEPT ![mm][q] = f]
      BY <2>6 DEF __pte_alloc
    <3>2. ~(walk_mm = mm /\ r = q)
      BY <2>1, <2>6, <3>1
    <3> QED
      BY <1>t, <2>6, <3>1, <3>2
  <2>7. ASSUME NEW q \in Regions, munmap(q), mapped[1] = table[walk_mm][r]
        PROVE  mapped[1] \in freed' \/ mapped[1] = table'[walk_mm][r]
    <3>1. /\ table' = [table EXCEPT ![mm][q] = NoFrame]
          /\ freed' = freed \cup ({table[mm][q]} \cap Mapped)
      BY <2>7 DEF munmap
    <3>2. CASE walk_mm = mm /\ r = q
      BY <2>2, <2>7, <3>1, <3>2
    <3>3. CASE ~(walk_mm = mm /\ r = q)
      BY <1>t, <2>7, <3>1, <3>3
    <3> QED
      BY <3>2, <3>3
  <2>8. ASSUME mmput, mapped[1] = table[walk_mm][r]
        PROVE  mapped[1] \in freed' \/ mapped[1] = table'[walk_mm][r]
    <3>1. /\ table' = [table EXCEPT ![old_mm] = NoTables]
          /\ freed' = freed \cup ({table[old_mm][q] : q \in Regions} \cap Mapped)
      BY <2>8 DEF mmput
    <3>2. CASE walk_mm = old_mm
      BY <2>2, <2>8, <3>1, <3>2
    <3>3. CASE walk_mm # old_mm
      BY <1>t, <2>8, <3>1, <3>3
    <3> QED
      BY <3>2, <3>3
  <2>9. \/ table' = table \/ mmput
        \/ \E q \in Regions : munmap(q) \/ \E f \in Frames : __pte_alloc(q, f)
    BY DEF Target, Leave, LeaveDown, LeaveSwitch, release_task
  <2> QED
    BY <2>1, <2>4, <2>5, <2>6, <2>7, <2>8, <2>9
<1> QED
  BY <1>1, <1>2 DEF EInv

\* A round of the walk maps the target's own table, when the mm it walks is the
\* one that is locked.
LEMMA WalkTables == IInv /\ EInv /\ walk_page_range => EInv'
<1> SUFFICES ASSUME TypeOK, TargetInv, CallInv, LockInv, AreaInv, TableInv, ReadInv,
                    walk_page_range
             PROVE  EInv'
  BY DEF IInv, EInv
<1>0. /\ pc = "walk" /\ pass = 2 /\ pc' \in {"walk", "unload", "oops"}
      /\ UNCHANGED <<pass, locked, right, walk_mm, table, freed, i>>
  BY DEF walk_page_range, for_pmd_entry, Goto, CallInv, locks, targetVars
<1>t. /\ mapped \in [1..PTRS_PER_PGD -> Frames \cup {NoFrame}]
      /\ pgd_base \in [Regions -> Nat] /\ Region(addr) \in Regions
      /\ NoFrame \notin Frames
  BY ExposeOK, RegionOfAddress DEF TypeOK, WalkType, RecordType, NoFrame
<1>1. ReadInv'
  BY <1>0 DEF ReadInv
<1>2. ASSUME UNCHANGED <<mapped, pgd_base, pte_base>> PROVE EInv'
  <2>1. AreaInv'
    BY <1>0, <1>2 DEF AreaInv
  <2>2. TableInv'
    BY <1>0, <1>2 DEF TableInv, GoodWalk
  <2> QED
    BY <1>1, <2>1, <2>2 DEF EInv
<1>3. ASSUME NEW f \in Frames, ~(UNCHANGED <<mapped, pgd_base, pte_base>>),
             for_pmd_entry(Region(addr), f),
             walk_mm \notin gone => f = table[walk_mm][Region(addr)]
      PROVE  EInv'
  <2>1. PageOf(pte_base) = 1
    BY OnePage DEF AreaInv
  <2>2. /\ mapped[1] = NoFrame
        /\ mapped' = [mapped EXCEPT ![1] = f]
        /\ pgd_base' = [pgd_base EXCEPT ![Region(addr)] = pte_base]
        /\ pte_base' = pte_base + EACH_PTE_SIZE
    BY <1>3, <2>1 DEF for_pmd_entry
  <2>3. mapped'[1] = f /\ f # NoFrame
    BY <1>t, <2>2, OnePage
  <2>4. pte_base = page_table_addr /\ \A r \in Regions : pgd_base[r] = NULL
    BY <2>2 DEF AreaInv
  <2>5. /\ pgd_base'[Region(addr)] = page_table_addr
        /\ \A r \in Regions : r # Region(addr) => pgd_base'[r] = NULL
    BY <1>t, <2>2, <2>4
  <2>6. AreaInv'
    BY <1>0, <2>2, <2>3, <2>4, <2>5 DEF AreaInv
  <2>7. TableInv'
    <3> SUFFICES ASSUME GoodWalk, NEW r \in Regions, pgd_base'[r] # NULL
                 PROVE  mapped'[1] = table[walk_mm][r]
      BY <1>0 DEF TableInv, GoodWalk
    <3>1. r = Region(addr)
      BY <2>5
    <3>2. walk_mm = mm /\ mm # NoMm
      BY <1>0 DEF GoodWalk, LockInv, CallInv, Holding
    <3>3. mm \in Nat /\ \A m \in gone : m < mm
      BY <3>2, MmsAreNumbers DEF TargetInv, TypeOK, TargetType
    <3>4. ~(mm < mm)
      BY <3>3
    <3>5. walk_mm \notin gone
      BY <3>2, <3>3, <3>4
    <3> QED
      BY <1>3, <2>3, <3>1, <3>5
  <2> QED
    BY <1>1, <2>6, <2>7 DEF EInv
<1>4. ASSUME NEW f, for_pmd_entry(Region(addr), f), Region(addr) \in Sections
      PROVE  UNCHANGED <<mapped, pgd_base, pte_base>>
  BY <1>4 DEF for_pmd_entry
<1>5. table[walk_mm][Region(addr)] \in Frames \cup {NoFrame}
  <2>1. walk_mm \in Mms
    BY <1>0 DEF CallInv, TypeOK, WalkType
  <2> QED
    BY <1>t, <2>1 DEF TypeOK, TargetType
<1>6. CASE ~(UNCHANGED <<mapped, pgd_base, pte_base>>)
  <2>1. PICK f \in IF walk_mm \in gone THEN Frames \cup {NoFrame}
                                       ELSE {table[walk_mm][Region(addr)]} :
               /\ ~(f = NoFrame /\ Region(addr) \notin Sections)
               /\ for_pmd_entry(Region(addr), f)
    BY <1>6 DEF walk_page_range, record
  <2>2. f # NoFrame
    BY <1>4, <1>6, <2>1
  <2>3. f \in Frames /\ (walk_mm \notin gone => f = table[walk_mm][Region(addr)])
    BY <1>5, <2>1, <2>2
  <2> QED
    BY <1>3, <1>6, <2>1, <2>3
<1> QED
  BY <1>2, <1>6

LEMMA CallTables == IInv /\ EInv /\ (Main \/ Call) => EInv'
<1> SUFFICES ASSUME IInv, EInv, Main \/ Call PROVE EInv'
  OBVIOUS
<1>s. ASSUME UNCHANGED record, UNCHANGED <<table, freed>>, ReadInv',
             \/ UNCHANGED <<pass, walk_mm, locked, right>> /\ pc \notin {"load", "down"}
             \/ \A r \in Regions : pgd_base[r] = NULL,
             pass' = 1 \/ pc' \in {"load", "down"} =>
                \A r \in Regions : pgd_base[r] = NULL,
             pass' = 1 => pc' \notin {"copy", "read"}
      PROVE  EInv'
  <2>1. AreaInv'
    BY <1>s DEF EInv, AreaInv, record
  <2>2. TableInv'
    BY <1>s DEF EInv, TableInv, GoodWalk, record
  <2> QED
    BY <1>s, <2>1, <2>2 DEF EInv
<1>e. /\ pass = 1 \/ pc \in {"load", "down"} => \A r \in Regions : pgd_base[r] = NULL
      /\ pass = 1 => pc \notin {"copy", "read"}
      /\ pass \in {1, 2}
  BY DEF EInv, AreaInv, IInv, TypeOK, LocksType
<1>f. pc \in {"main", "call", "task", "setup"} => pass = 1
  BY DEF IInv, CallInv
<1>a. begin_vaddr \div PAGE_SIZE \in Pages /\ end_vaddr \div PAGE_SIZE \in Pages
  BY PageOfAddress DEF IInv, TypeOK, ArgsType
<1> USE DEF Goto, targetVars, locks
<1>1. CASE Main
  BY <1>1, <1>e, <1>f, <1>s DEF Main, main, ReadInv
<1>2. CASE find_get_pid
  BY <1>2, <1>e, <1>f, <1>s DEF find_get_pid, ReadInv
<1>3. CASE get_pid_task
  BY <1>3, <1>e, <1>f, <1>s DEF get_pid_task, ReadInv
<1>4. CASE LoadSem
  BY <1>4, <1>e, <1>s DEF LoadSem, ReadInv
<1>5. CASE down_write
  BY <1>5, <1>e, <1>s DEF down_write, ReadInv
<1>6. CASE ListAreas
  BY <1>6, <1>e, <1>s DEF ListAreas, ReadInv
<1>7. CASE LoadSemAgain
  BY <1>7, <1>e, <1>s DEF LoadSemAgain, ReadInv, EInv, TableInv, GoodWalk
<1>8. CASE up_write
  BY <1>8, <1>e, <1>s DEF up_write, ReadInv
<1>9. CASE SetUp
  BY <1>9, <1>e, <1>f, <1>s DEF SetUp, ReadInv
<1>10. CASE walk_page_range
  BY <1>10, WalkTables
<1>11. CASE CopyPgd
  BY <1>11, <1>a, <1>e, <1>s DEF CopyPgd, ReadInv
<1>12. CASE ReadEntry
  <2>1. ReadInv'
    <3>1. i \in Pages /\ LastPage \in Pages
      BY <1>12, <1>a DEF ReadEntry, EInv, ReadInv, LastPage
    <3>2. i' = i \/ (i' = i + 1 /\ i < LastPage)
      BY <1>12 DEF ReadEntry
    <3>3. i' \in Pages
      BY <3>1, <3>2, Sizes DEF Pages
    <3> QED
      BY <3>3 DEF ReadInv
  <2> QED
    BY <1>12, <2>1, <1>e, <1>s DEF ReadEntry
<1> QED
  BY <1>1, <1>2, <1>3, <1>4, <1>5, <1>6, <1>7, <1>8, <1>9, <1>10, <1>11, <1>12
     DEF Call

LEMMA TablesInit == Init => EInv
<1> SUFFICES ASSUME Init PROVE EInv
  OBVIOUS
<1>1. AreaInv
  BY DEF Init, AreaInv
<1>2. TableInv /\ ReadInv
  BY DEF Init, TableInv, ReadInv
<1> QED
  BY <1>1, <1>2 DEF EInv

LEMMA TablesNext == IInv /\ EInv /\ [Next]_vars => EInv'
<1> SUFFICES ASSUME IInv, EInv, [Next]_vars PROVE EInv'
  OBVIOUS
<1>1. CASE Target
  BY <1>1, TargetTables
<1>2. CASE Main \/ Call
  BY <1>2, CallTables
<1>3. CASE UNCHANGED vars
  BY <1>3 DEF vars, EInv, AreaInv, TableInv, ReadInv, GoodWalk
<1> QED
  BY <1>1, <1>2, <1>3 DEF Next, Rest

\* What VATranslate and vm_inspector read for a page is the target's own entry,
\* for every layout and every sequence of faults, unmappings, execve() and exit(),
\* as long as the mm walked is the one locked and the table was not freed since.
THEOREM ReadsTheTargetsEntries == Spec => []EntryReadIsTheTargets
<1>1. IInv /\ EInv => EntryReadIsTheTargets
  <2> SUFFICES ASSUME IInv, EInv, pc = "read", GoodWalk, Entry # NULL
               PROVE  LET f == mapped[PageOf(Entry)]
                      IN  f \notin freed => /\ f = table[walk_mm][i \div PTRS_PER_PTE]
                                            /\ Entry % 2 = 0
    BY DEF EntryReadIsTheTargets
  <2>1. i \div PTRS_PER_PTE \in Regions
    BY TableOfPage DEF EInv, ReadInv
  <2>2. Entry = page_table_addr
    BY <2>1 DEF EInv, AreaInv, Entry
  <2>3. PageOf(Entry) = 1 /\ Entry % 2 = 0
    BY <2>2, OnePage DEF page_table_addr
  <2>4. mapped[1] \in freed \/ mapped[1] = table[walk_mm][i \div PTRS_PER_PTE]
    BY <2>1 DEF EInv, TableInv, Entry
  <2> QED
    BY <2>3, <2>4
<1> QED
  BY InvInit, InvNext, TablesInit, TablesNext, <1>1, PTL DEF Spec

=============================================================================
