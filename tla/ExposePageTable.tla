-------------------------- MODULE ExposePageTable --------------------------
(***************************************************************************)
(* The system call expose_page_table() of Project 2, which maps the page   *)
(* tables of a target process into the caller and builds a page directory  *)
(* for them, the programs VATranslate and vm_inspector that call it and    *)
(* read the entries, and the target, which meanwhile faults, unmaps,       *)
(* executes a program or exits.                                            *)
(*                                                                         *)
(* The kernel is preemptible on one processor.  The target has one thread, *)
(* shares its mm with nobody and is not the caller.  The semaphore of an   *)
(* mm is its count: -1 with a writer, n with n readers; queueing is left   *)
(* to fairness.  An mm whose last user is gone is freed memory: what is    *)
(* read there may be anything.                                             *)
(***************************************************************************)
EXTENDS Integers, FiniteSets, HexArg

CONSTANTS
    PAGE_SIZE, PTRS_PER_PTE, PTRS_PER_PGD,
    Sections,   \* the entries of a directory that map the kernel
    Frames,     \* the page frames for page tables
    LastMm,     \* bound: the target has mm 1 .. LastMm, one after the other
    Addrs,      \* the addresses the programs are asked about
    PfnMaps     \* what the target may have mapped with VM_PFNMAP, as
                \* <<vm_start, vm_end>>

NoMm    == 0
NoFrame == 0
NULL    == 0

PGDIR_SIZE == PAGE_SIZE * PTRS_PER_PTE
Regions    == 0..PTRS_PER_PGD - 1
TopAddr    == PTRS_PER_PGD * PGDIR_SIZE
Mms        == 1..LastMm

ASSUME ExposeOK ==
    /\ {PAGE_SIZE, PTRS_PER_PTE, PTRS_PER_PGD, LastMm} \subseteq Nat \ {0}
    /\ Sections \subseteq Regions
    /\ Frames \subseteq Nat \ {0}
    /\ Addrs \subseteq 0..TopAddr - 1
    /\ \A v \in PfnMaps : v \in Nat \X Nat /\ v[1] < v[2] /\ v[2] < TopAddr

\* Where the caller's area for page tables begins.  Addresses of the area are
\* counted in halves of a page.
page_table_addr == 2
EACH_PTE_SIZE   == 1
PageOf(half)    == half \div 2

VARIABLES
    (* the target *)
    tpc,        \* what it is doing
    mm,         \* its task_struct's mm
    old_mm,     \* the mm it leaves
    activity,   \* the count of each mm's mmap_sem
    table,      \* the frame of the page table of each entry of a directory
    gone,       \* the mm that are freed
    pfnmap,     \* what it has mapped with VM_PFNMAP
    (* the program and its call *)
    pc, prog,
    begin_vaddr, end_vaddr,
    area,       \* mmap() gave it an area
    pass,       \* which of the two times it takes the semaphore
    locked,     \* the mm whose semaphore it loaded, and takes
    unlocked,   \* the mm whose semaphore it releases
    walk_mm, addr,
    pgd_base, pte_base,
    mapped,     \* the frame mapped at each page of the area
    err,        \* the walk was given up
    i,          \* the page whose entry the program reads
    (* what happened *)
    mm0,        \* the target's mm when the program began
    right,      \* each mm it locked was the target's when it got the lock
    freed       \* page tables freed since they were mapped

targetVars == <<tpc, mm, old_mm, activity, table, gone, pfnmap>>
args       == <<prog, begin_vaddr, end_vaddr, area, mm0>>
locks      == <<pass, locked, unlocked, right>>
record     == <<pgd_base, pte_base, mapped, err>>
vars       == <<tpc, mm, old_mm, activity, table, gone, pfnmap, pc, prog,
                begin_vaddr, end_vaddr, area, pass, locked, unlocked, walk_mm, addr,
                pgd_base, pte_base, mapped, err, i, mm0, right, freed>>

callerVars == <<pc, args, locks, walk_mm, addr, record, i>>

NoTables == [r \in Regions |-> NoFrame]
InUse    == {table[m][r] : m \in Mms, r \in Regions}
Mapped   == {mapped[p] : p \in DOMAIN mapped} \ {NoFrame}

-----------------------------------------------------------------------------
(* The target.                                                             *)

\* A page fault allocates a page table, under the semaphore.
__pte_alloc(r, f) ==
    /\ tpc = "run" /\ mm # NoMm /\ activity[mm] >= 0
    /\ r \notin Sections /\ table[mm][r] = NoFrame
    /\ f \in Frames \ InUse
    /\ table' = [table EXCEPT ![mm][r] = f]
    /\ UNCHANGED <<tpc, mm, old_mm, activity, gone, pfnmap, callerVars, freed>>

\* munmap() of all that one page table maps frees the table.
munmap(r) ==
    /\ tpc = "run" /\ mm # NoMm /\ activity[mm] = 0
    /\ table[mm][r] # NoFrame
    /\ table' = [table EXCEPT ![mm][r] = NoFrame]
    /\ freed' = freed \cup ({table[mm][r]} \cap Mapped)
    /\ UNCHANGED <<tpc, mm, old_mm, activity, gone, pfnmap, callerVars>>

\* execve() or exit(): exec_mmap() and exit_mm() take the semaphore for reading,
\* give the task its new mm or none, and release the semaphore.
Leave(why) ==
    /\ tpc = "run" /\ mm # NoMm
    /\ why = "exec" => mm < LastMm
    /\ tpc' = why /\ old_mm' = mm
    /\ UNCHANGED <<mm, activity, table, gone, pfnmap, callerVars, freed>>

\* Mutant: mm is changed without the semaphore.
LeaveUnlocked ==
    /\ tpc \in {"exec", "exit"}
    /\ tpc' = IF tpc = "exec" THEN "exec switch" ELSE "exit switch"
    /\ activity' = [activity EXCEPT ![old_mm] = @ + 1]
    /\ UNCHANGED <<mm, old_mm, table, gone, pfnmap, callerVars, freed>>

LeaveDown ==
    /\ tpc \in {"exec", "exit"}
    /\ activity[old_mm] >= 0
    /\ tpc' = IF tpc = "exec" THEN "exec switch" ELSE "exit switch"
    /\ activity' = [activity EXCEPT ![old_mm] = @ + 1]
    /\ UNCHANGED <<mm, old_mm, table, gone, pfnmap, callerVars, freed>>

\* tsk->mm = mm, up_read() of the old one
LeaveSwitch ==
    /\ tpc \in {"exec switch", "exit switch"}
    /\ mm' = IF tpc = "exec switch" THEN mm + 1 ELSE NoMm
    /\ tpc' = IF tpc = "exec switch" THEN "exec put" ELSE "exit put"
    /\ activity' = [activity EXCEPT ![old_mm] = @ - 1]
    /\ UNCHANGED <<old_mm, table, gone, pfnmap, callerVars, freed>>

\* mmput() by the last user: exit_mmap() frees the page tables, without the
\* semaphore, and the mm itself is freed.
mmput ==
    /\ tpc \in {"exec put", "exit put"}
    /\ tpc' = IF tpc = "exec put" THEN "run" ELSE "zombie"
    /\ gone' = gone \cup {old_mm}
    /\ table' = [table EXCEPT ![old_mm] = NoTables]
    /\ freed' = freed \cup ({table[old_mm][r] : r \in Regions} \cap Mapped)
    /\ pfnmap' = {}
    /\ UNCHANGED <<mm, old_mm, activity, callerVars>>

\* The parent waits for it: the pid has no task any more.
release_task ==
    /\ tpc = "zombie"
    /\ tpc' = "reaped"
    /\ UNCHANGED <<mm, old_mm, activity, table, gone, pfnmap, callerVars, freed>>

Target == \/ \E r \in Regions : munmap(r) \/ \E f \in Frames : __pte_alloc(r, f)
          \/ \E why \in {"exec", "exit"} : Leave(why)
          \/ LeaveDown \/ LeaveSwitch \/ mmput \/ release_task

-----------------------------------------------------------------------------
(* The call.                                                               *)

Goto(l) == pc' = l

\* Mutant: the end of the last byte's range does not wrap around.
main_wide(p, b, e, a) ==
    /\ pc = "main"
    /\ prog' = p /\ begin_vaddr' = b /\ area' = a
    /\ end_vaddr' = IF p = "VATranslate" THEN b + 1 ELSE e
    /\ mm0' = mm
    /\ Goto("call")
    /\ UNCHANGED <<targetVars, locks, walk_mm, addr, record, i, freed>>

\* main(): VATranslate asks for one byte, vm_inspector for a range.  mmap() may
\* fail, and what it returns then passes the test for NULL.
main(p, b, e, a) ==
    /\ pc = "main"
    /\ prog' = p /\ begin_vaddr' = b /\ area' = a
    /\ end_vaddr' = IF p = "VATranslate" THEN (b + 1) % TopAddr ELSE e
    /\ mm0' = mm
    /\ Goto("call")
    /\ UNCHANGED <<targetVars, locks, walk_mm, addr, record, i, freed>>

\* The sanity check, and find_get_pid(): the pid of a task that was reaped is
\* still there when it is that of a process group or session.
find_get_pid ==
    /\ pc = "call"
    /\ \/ (begin_vaddr >= end_vaddr \/ tpc = "reaped") /\ Goto("done")
       \/ begin_vaddr < end_vaddr /\ Goto("task")
    /\ UNCHANGED <<targetVars, args, locks, walk_mm, addr, record, i, freed>>

\* get_pid_task() finds no task when it was reaped, and its comm is read.
get_pid_task ==
    /\ pc = "task"
    /\ Goto(IF tpc = "reaped" THEN "oops" ELSE "load")
    /\ UNCHANGED <<targetVars, args, locks, walk_mm, addr, record, i, freed>>

\* down_write(&target_process->mm->mmap_sem): load mm ...
LoadSem ==
    /\ pc = "load"
    /\ locked' = mm
    /\ Goto(IF mm = NoMm THEN "oops" ELSE "down")
    /\ UNCHANGED <<targetVars, args, pass, unlocked, right, walk_mm, addr,
                   record, i, freed>>

\* ... and take its semaphore.  That of an mm that is freed may look free, or
\* the call is lost.
down_write ==
    /\ pc = "down"
    /\ \/ /\ locked \in gone \/ activity[locked] = 0
          /\ activity' = [activity EXCEPT ![locked] = -1]
          /\ right' = (right /\ mm = locked)
          /\ addr' = begin_vaddr
          /\ Goto(IF pass = 1 THEN "list" ELSE "walk")
       \/ /\ locked \in gone
          /\ Goto("oops")
          /\ UNCHANGED <<activity, right, addr>>
    /\ UNCHANGED <<tpc, mm, old_mm, table, gone, pfnmap, args, pass, locked, unlocked,
                   walk_mm, record, i, freed>>

\* The list of areas is read through the mm of the moment, which may have none
\* or be changing when it is not the one that is locked.
ListAreas ==
    /\ pc = "list"
    /\ \/ mm # NoMm /\ Goto("unload")
       \/ mm # locked /\ Goto("oops")
    /\ UNCHANGED <<targetVars, args, locks, walk_mm, addr, record, i, freed>>

\* up_write(&target_process->mm->mmap_sem): load mm ...
LoadSemAgain ==
    /\ pc = "unload"
    /\ unlocked' = mm
    /\ Goto(IF mm = NoMm THEN "oops" ELSE "up")
    /\ UNCHANGED <<targetVars, args, pass, locked, right, walk_mm, addr,
                   record, i, freed>>

\* Mutant: the semaphore is not released after the walk.
up_write_once ==
    /\ pc = "up"
    /\ activity' = [activity EXCEPT ![unlocked] = IF pass = 1 THEN 0 ELSE @]
    /\ Goto(IF pass = 1 THEN "setup" ELSE "copy")
    /\ UNCHANGED <<tpc, mm, old_mm, table, gone, pfnmap, args, locks, walk_mm,
                   addr, record, i, freed>>

\* ... and release its semaphore, whoever has it.
up_write ==
    /\ pc = "up"
    /\ activity' = [activity EXCEPT ![unlocked] = 0]
    /\ Goto(IF pass = 1 THEN "setup" ELSE "copy")
    /\ UNCHANGED <<tpc, mm, old_mm, table, gone, pfnmap, args, locks, walk_mm, addr,
                   record, i, freed>>

\* kmalloc() of the directory, which may fail, and the walk's parameters.
SetUp ==
    /\ pc = "setup"
    /\ \/ /\ Goto("load") /\ pass' = 2
          /\ walk_mm' = mm
       \/ Goto("done") /\ UNCHANGED <<pass, walk_mm>>
    /\ UNCHANGED <<targetVars, args, locked, unlocked, right, addr, record, i,
                   freed>>

-----------------------------------------------------------------------------
(* The walk.                                                               *)

Region(a) == a \div PGDIR_SIZE

\* Mutants: a step of a whole region from anywhere, and of a page.
pgd_addr_end_far(a, e)  == IF a + PGDIR_SIZE < e THEN a + PGDIR_SIZE ELSE e
pgd_addr_end_near(a, e) == IF a + PAGE_SIZE < e THEN a + PAGE_SIZE ELSE e

pgd_addr_end(a, e) ==
    LET boundary == (Region(a) + 1) * PGDIR_SIZE
    IN  IF boundary < e THEN boundary ELSE e

\* The VM_PFNMAP areas of the mm that is walked that hold a.
PfnMapAt(a) == {v \in pfnmap : walk_mm = 1 /\ v[1] <= a /\ a < v[2]}

\* for_pmd_entry(): no area to map the table in, a section, or no memory end
\* the walk; mapping a page where there is one already is a BUG().
for_pmd_entry(r, f) ==
    \/ /\ r \in Sections \/ ~area \/ mapped[PageOf(pte_base)] = NoFrame
       /\ Goto("unload") /\ err' = TRUE
       /\ UNCHANGED <<mapped, pgd_base, pte_base>>
    \/ /\ r \notin Sections /\ area
       /\ mapped[PageOf(pte_base)] # NoFrame
       /\ Goto("oops") /\ UNCHANGED <<err, mapped, pgd_base, pte_base>>
    \/ /\ r \notin Sections /\ area
       /\ mapped[PageOf(pte_base)] = NoFrame
       /\ mapped' = [mapped EXCEPT ![PageOf(pte_base)] = f]
       /\ pgd_base' = [pgd_base EXCEPT ![r] = pte_base]
       /\ pte_base' = pte_base + EACH_PTE_SIZE
       /\ Goto("walk") /\ UNCHANGED err

\* Mutant: the loop goes on with the same address when there is no page table.
walk_page_range_stuck ==
    /\ pc = "walk"
    /\ UNCHANGED <<targetVars, args, locks, walk_mm, i, freed>>
    /\ IF addr = end_vaddr
       THEN Goto("unload") /\ UNCHANGED <<addr, record>>
       ELSE \/ \E v \in PfnMapAt(addr) :
                  addr' = v[2] /\ UNCHANGED <<pc, record>>
            \/ /\ PfnMapAt(addr) = {}
               /\ LET f == table[walk_mm][Region(addr)]
                  IN  IF f = NoFrame /\ Region(addr) \notin Sections
                      THEN UNCHANGED <<pc, addr, record>>
                      ELSE /\ addr' = pgd_addr_end(addr, end_vaddr)
                           /\ for_pmd_entry(Region(addr), f)

\* One round of the loop of walk_page_range().
walk_page_range ==
    /\ pc = "walk"
    /\ UNCHANGED <<targetVars, args, locks, walk_mm, i, freed>>
    /\ IF addr = end_vaddr
       THEN Goto("unload") /\ UNCHANGED <<addr, record>>
       ELSE \/ \E v \in PfnMapAt(addr) :
                  addr' = v[2] /\ UNCHANGED <<pc, record>>
            \/ /\ PfnMapAt(addr) = {}
               /\ addr' = pgd_addr_end(addr, end_vaddr)
               /\ \E f \in IF walk_mm \in gone THEN Frames \cup {NoFrame}
                                               ELSE {table[walk_mm][Region(addr)]} :
                     IF f = NoFrame /\ Region(addr) \notin Sections
                     THEN UNCHANGED <<pc, record>>
                     ELSE for_pmd_entry(Region(addr), f)
            \/ walk_mm \in gone /\ Goto("oops") /\ UNCHANGED <<addr, record>>

\* copy_to_user() of the directory.
CopyPgd ==
    /\ pc = "copy"
    /\ i' = begin_vaddr \div PAGE_SIZE
    /\ \/ Goto("read")
       \/ Goto("done")
    /\ UNCHANGED <<targetVars, args, locks, walk_mm, addr, record, freed>>

-----------------------------------------------------------------------------
(* The programs.                                                           *)

\* Mutant: the directory is indexed with the page after.
EntryAfter == pgd_base[((i + 1) \div PTRS_PER_PTE) % PTRS_PER_PGD]

\* The page table at which the directory sends the program for page i.
Entry == pgd_base[i \div PTRS_PER_PTE]

\* Mutant: one page more.
LastPageNext == (IF prog = "VATranslate" THEN begin_vaddr ELSE end_vaddr) \div PAGE_SIZE + 1

\* The last page a program looks up.
LastPage == IF prog = "VATranslate" THEN begin_vaddr \div PAGE_SIZE
                                    ELSE end_vaddr \div PAGE_SIZE

\* Neither program tests the directory's entry before it reads through it.
ReadEntry ==
    /\ pc = "read"
    /\ \/ Entry = NULL /\ Goto("segv") /\ UNCHANGED i
       \/ Entry # NULL /\ i < LastPage /\ i' = i + 1 /\ UNCHANGED pc
       \/ Entry # NULL /\ i = LastPage /\ Goto("done") /\ UNCHANGED i
    /\ UNCHANGED <<targetVars, args, locks, walk_mm, addr, record, freed>>

Call == \/ find_get_pid \/ get_pid_task \/ LoadSem \/ down_write \/ ListAreas
        \/ LoadSemAgain \/ up_write \/ SetUp \/ walk_page_range \/ CopyPgd
        \/ ReadEntry

Ended == pc \in {"done", "oops", "segv"}

\* A program runs once.
Rest == Ended /\ UNCHANGED vars

\* The target is a process, or a kernel thread, which has no mm.
Init ==
    /\ tpc = "run" /\ mm \in {1, NoMm} /\ old_mm = NoMm
    /\ activity = [m \in Mms |-> 0]
    /\ table = [m \in Mms |-> NoTables]
    /\ gone = {}
    /\ pfnmap \in {{}} \cup {{v} : v \in PfnMaps}
    /\ pc = "main" /\ prog = "VATranslate" /\ begin_vaddr = 0 /\ end_vaddr = 0
    /\ area = TRUE /\ pass = 1 /\ locked = NoMm /\ unlocked = NoMm
    /\ walk_mm = NoMm /\ addr = 0
    /\ pgd_base = [r \in Regions |-> NULL] /\ pte_base = page_table_addr
    /\ mapped = [p \in 1..PTRS_PER_PGD |-> NoFrame]
    /\ err = FALSE /\ i = 0 /\ mm0 = mm /\ right = TRUE /\ freed = {}

Main == \E p \in {"VATranslate", "vm_inspector"}, b, e \in Addrs, a \in BOOLEAN :
           main(p, b, e, a)

Next == Target \/ Main \/ Call \/ Rest

Spec == Init /\ [][Next]_vars

\* Tasks in the kernel are scheduled again.
Fairness == WF_vars(Call) /\ WF_vars(LeaveDown \/ LeaveSwitch \/ mmput)

LiveSpec == Spec /\ Fairness

-----------------------------------------------------------------------------

TargetType ==
    /\ tpc \in {"run", "exec", "exit", "exec switch", "exit switch",
                "exec put", "exit put", "zombie", "reaped"}
    /\ mm \in Mms \cup {NoMm} /\ old_mm \in Mms \cup {NoMm}
    /\ activity \in [Mms -> Int]
    /\ table \in [Mms -> [Regions -> Frames \cup {NoFrame}]]
    /\ gone \subseteq Mms /\ pfnmap \subseteq PfnMaps /\ freed \subseteq Frames

ArgsType ==
    /\ prog \in {"VATranslate", "vm_inspector"}
    /\ begin_vaddr \in 0..TopAddr - 1 /\ end_vaddr \in 0..TopAddr - 1
    /\ area \in BOOLEAN /\ mm0 \in Mms \cup {NoMm}

LocksType ==
    /\ pass \in {1, 2} /\ right \in BOOLEAN
    /\ locked \in Mms \cup {NoMm} /\ unlocked \in Mms \cup {NoMm}

RecordType ==
    /\ pgd_base \in [Regions -> Nat] /\ pte_base \in Nat
    /\ mapped \in [1..PTRS_PER_PGD -> Frames \cup {NoFrame}]
    /\ err \in BOOLEAN

WalkType ==
    /\ pc \in {"main", "call", "task", "load", "down", "list", "unload", "up",
               "setup", "walk", "copy", "read", "done", "oops", "segv"}
    /\ walk_mm \in Mms \cup {NoMm} /\ addr \in 0..TopAddr - 1 /\ i \in Nat

TypeOK == TargetType /\ ArgsType /\ LocksType /\ RecordType /\ WalkType

\* The semaphore of an mm is released by the call only if the call has taken it
\* (lines 124 to 128 and 150 to 152 read target_process->mm four times), as long
\* as each mm was still the target's when its semaphore was granted.
SemReleasedIsTaken == pc = "up" /\ right => unlocked = locked

\* The walk has the mm that is locked, and nobody has interfered.
GoodWalk == right /\ walk_mm = locked

\* The regions the walk is to visit: those with an address in the range that
\* is not in a VM_PFNMAP area, and the one in which such an area ends, when the
\* walk meets the area and its end is past the end of the range.
InRange(r) == \E a \in begin_vaddr..end_vaddr - 1 :
                 Region(a) = r /\ PfnMapAt(a) = {}
Overshot(r) == \E a \in begin_vaddr..end_vaddr - 1 :
                 /\ a = begin_vaddr \/ a % PGDIR_SIZE = 0
                 /\ \E v \in PfnMapAt(a) : v[2] > end_vaddr /\ Region(v[2]) = r

\* After a walk that was not given up, the directory has the page tables of the
\* range and no others (but see Overshot), and the entries of a table that the
\* program reads are the ones for Linux, in the first half of its page.
ExposesTheRange ==
    pc = "unload" /\ pass = 2 /\ GoodWalk /\ ~err =>
       \A r \in Regions :
          IF table[locked][r] # NoFrame /\ (InRange(r) \/ Overshot(r))
          THEN /\ pgd_base[r] # NULL /\ pgd_base[r] % 2 = 0
               /\ mapped[PageOf(pgd_base[r])] = table[locked][r]
          ELSE pgd_base[r] = NULL

\* After such a walk a program finds a table for every page it is going to look
\* up that has one in the target, with one exception: the walk ends before
\* end_vaddr and vm_inspector's loop includes it, so that nothing is there for
\* an end_vaddr with which a new table begins.
ProgramFindsItsTables ==
    pc = "unload" /\ pass = 2 /\ GoodWalk /\ ~err /\ pfnmap = {} =>
       \A p \in (begin_vaddr \div PAGE_SIZE)..LastPage :
          LET r == p \div PTRS_PER_PTE
          IN  table[locked][r] # NoFrame =>
                 pgd_base[r] # NULL \/ r * PGDIR_SIZE = end_vaddr

\* The entry a program reads is the target's own for the page, unless the target
\* has freed the table since: what is mapped is the table and not a copy.
EntryReadIsTheTargets ==
    pc = "read" /\ GoodWalk /\ Entry # NULL =>
       LET f == mapped[PageOf(Entry)]
       IN  f \notin freed => /\ f = table[walk_mm][i \div PTRS_PER_PTE]
                             /\ Entry % 2 = 0

\* A target that keeps its mm is no reason to lose the call, with one exception:
\* a second page table in the range (or past it, see Overshot), for which there
\* is no page left.  The target's semaphore is then never released.
OopsHasAReason ==
    pc = "oops" /\ mm = mm0 /\ mm # NoMm =>
       /\ activity[mm] = -1
       /\ \E r, s \in Regions : /\ pgd_base[r] # NULL /\ pgd_base[s] = NULL
                                /\ table[mm][s] # NoFrame
                                /\ InRange(s) \/ Overshot(s)

\* Comment on strtolu(): "convert a hex string up to 8 bytes to unsigned long".
\* A program that calls has converted its arguments to what they stand for,
\* on both sides of LONG_MAX and in capitals and small letters.
ConvertsHex == pc = "call" => AllConverted

\* A call ends, well or not.
CallEnds == pc = "call" ~> Ended

\* A target that wants to leave its mm can, unless a call was lost.
TargetGoesOn == tpc \in {"exec", "exit"} ~>
                (tpc \notin {"exec", "exit"} \/ pc = "oops")

\* Assertion in remap_pte_range(): "BUG_ON(!pte_none(*pte))".  No page table is
\* mapped where the program has something mapped already.
RemapsEmptyPtes ==
    /\ pc = "walk" /\ GoodWalk /\ area
    /\ addr # end_vaddr /\ PfnMapAt(addr) = {}
    /\ table[walk_mm][Region(addr)] # NoFrame
    => mapped[PageOf(pte_base)] = NoFrame

-----------------------------------------------------------------------------
(* The inductive invariant behind SemReleasedIsTaken.                      *)

Switching == tpc \in {"exec switch", "exit switch"}
Holding   == pc \in {"list", "walk", "unload", "up"}

\* The mm that are freed are those the target had before, and a target that
\* leaves its mm has one.
TargetInv ==
    /\ tpc \in {"exec", "exit"} \/ Switching => mm # NoMm /\ old_mm = mm
    /\ tpc \in {"exec", "exec switch"} => mm < LastMm
    /\ tpc \in {"exec put", "exit put"} => /\ old_mm # NoMm
                                           /\ mm # NoMm => old_mm < mm
    /\ mm # NoMm => \A m \in gone : m < mm

\* The mm the call works on are there when it uses them.
CallInv ==
    /\ pc = "down" \/ Holding => locked # NoMm
    /\ pc = "up" => unlocked # NoMm
    /\ pass = 2 /\ pc = "load" /\ walk_mm = NoMm => mm = NoMm
    /\ pass = 2 /\ pc \in {"down", "walk"} => walk_mm # NoMm
    /\ pc = "walk" => pass = 2
    /\ pc \in {"main", "call", "task", "list", "setup"} => pass = 1

\* As long as nothing went wrong, the count of the target's semaphore is what it
\* should be, and so is that of an mm the target has not come to yet.
LockInv ==
    right /\ pc # "oops" =>
       /\ Holding => /\ mm = locked /\ activity[mm] = -1 /\ ~Switching
                     /\ pc = "up" => unlocked = mm
       /\ ~Holding /\ mm # NoMm => activity[mm] = IF Switching THEN 1 ELSE 0
       /\ mm # NoMm => \A m \in Mms : m > mm => activity[m] = 0

IInv == TypeOK /\ TargetInv /\ CallInv /\ LockInv

-----------------------------------------------------------------------------
(* And the one behind EntryReadIsTheTargets.                               *)

Pages == 0..PTRS_PER_PGD * PTRS_PER_PTE - 1

\* One page of the area is used; it has a table as soon as the directory has an
\* entry, and the table is the target's or is freed.
AreaInv ==
    /\ mapped[1] = NoFrame => pte_base = page_table_addr
    /\ pte_base \in {page_table_addr, page_table_addr + EACH_PTE_SIZE}
    /\ \A r \in Regions : pgd_base[r] # NULL =>
          pgd_base[r] = page_table_addr /\ mapped[1] # NoFrame
    /\ pass = 1 \/ pc \in {"load", "down"} => \A r \in Regions : pgd_base[r] = NULL
    /\ pass = 1 => pc \notin {"copy", "read"}

TableInv ==
    GoodWalk => \A r \in Regions : pgd_base[r] # NULL =>
       mapped[1] \in freed \/ mapped[1] = table[walk_mm][r]

ReadInv == pc = "read" => i \in Pages

EInv == AreaInv /\ TableInv /\ ReadInv

-----------------------------------------------------------------------------
(* The one behind OopsHasAReason.                                          *)

\* The target never gets an mm back that it has left, and as long as it has the
\* one it had when the program began, the call has no other.
KeepInv ==
    /\ tpc \in {"exit put", "zombie", "reaped"} => mm = NoMm
    /\ mm # NoMm => mm0 # NoMm /\ mm0 <= mm
    /\ pc = "main" => right
    /\ mm = mm0 /\ mm # NoMm =>
          /\ right
          /\ pc = "down" \/ Holding => locked = mm
          /\ pass = 2 => walk_mm = mm

\* A region that has its table mapped is behind the walk.
BehindInv ==
    /\ mapped[1] # NoFrame => \E r \in Regions : pgd_base[r] # NULL
    /\ pc = "walk" => \A r \in Regions : pgd_base[r] # NULL =>
                         (r + 1) * PGDIR_SIZE <= addr \/ addr = end_vaddr

KInv == KeepInv /\ BehindInv /\ OopsHasAReason

-----------------------------------------------------------------------------
(* And the one behind ExposesTheRange and ProgramFindsItsTables.           *)

\* What the walk is given: a range that is not empty, no page tables where the
\* kernel is, and at most one VM_PFNMAP area.
RangeInv ==
    /\ pc \notin {"main", "call", "done", "oops", "segv"} => begin_vaddr < end_vaddr
    /\ \A m \in Mms, r \in Sections : table[m][r] = NoFrame
    /\ \A v, w \in pfnmap : v = w

\* The region is one the walk has looked up on its way to n.
Visited(r, n) == \E a \in begin_vaddr..n - 1 : Region(a) = r /\ PfnMapAt(a) = {}

HasTable(r) == table[walk_mm][r] # NoFrame

\* Where a round of the walk may begin, but for the end of an area.
Start(a) == a = begin_vaddr \/ a % PGDIR_SIZE = 0

\* On its way the walk has mapped what it has visited, and has left behind the
\* areas it has met; ...
OnTheWay ==
    /\ Start(addr) \/ \E v \in pfnmap : walk_mm = 1 /\ addr = v[2]
    /\ \A a \in begin_vaddr..addr - 1 :
          Start(a) => \A v \in PfnMapAt(a) : v[2] <= addr
    /\ \A r \in Regions : pgd_base[r] # NULL <=> HasTable(r) /\ Visited(r, addr)

\* ... past its end, it is where an area ends; ...
PastTheEnd ==
    /\ \E a \in begin_vaddr..end_vaddr - 1 :
          Start(a) /\ \E v \in PfnMapAt(a) : v[2] = addr
    /\ \A r \in Regions : pgd_base[r] # NULL <=> HasTable(r) /\ InRange(r)

\* ... and at its end it has mapped what it should.
AtTheEnd ==
    \A r \in Regions : pgd_base[r] # NULL <=>
                        HasTable(r) /\ (InRange(r) \/ Overshot(r))

\* The tables mapped are the target's while it cannot free them.
OwnTables == \A r \in Regions : pgd_base[r] # NULL => mapped[1] = table[walk_mm][r]

Walking ==
    /\ OwnTables /\ begin_vaddr <= addr
    /\ addr < end_vaddr => OnTheWay
    /\ addr > end_vaddr => PastTheEnd
    /\ addr = end_vaddr => AtTheEnd

WalkInv ==
    /\ pc = "walk" /\ GoodWalk => Walking
    /\ pc = "unload" /\ pass = 2 /\ GoodWalk /\ ~err => OwnTables /\ AtTheEnd

WInv == RangeInv /\ WalkInv

=============================================================================
