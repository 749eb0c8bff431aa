# A verification project for Android-Kernel-Hacking

The repository holds two operating-systems projects for Android: programs and
kernel modules of their own, and a goldfish kernel (Linux 3.4) in which the
second project changes the page replacement algorithm.  This directory models
that code in TLA+, checks the models with TLC on small instances, and proves
the central properties with TLAPS for all sizes.

Paths below are relative to the root of the repository; `K/` stands for
`Project 2/kernel/goldfish/`.

## 1. Inventory

| part | source | state | operations | interacts with |
|---|---|---|---|---|
| Burger Buddies | `Project 1/BBC/jni/BurgerBuddies.c` | rack, ring of idle cashiers, counters, 6 mutexes, 4 semaphores and one per cashier | cook, cashier, customer, manager, main, signal handler | threads among themselves |
| Page replacement | `K/mm/vmscan.c`, `K/mm/swap.c`, `K/include/linux/mm_types.h` | LRU lists, PageLRU, PageActive, the counter `PG_referenced`, reclaim mode | mark_page_accessed, deactivate, shrink_active_list, shrink_inactive_list, release_pages | kswapd, direct reclaimers and tasks, over the page flags |
| Process tree | `Project 1/ptreemodule/ptreemodule.c`, `Project 1/ptree/jni/ptree.c` | the buffer of `prinfo`, the stack and tabs of display() | convert, dfs, ptree, display | reads the kernel's tasks, which fork, clone, execute, exit |
| System call hooks | the init and exit functions of `ptreemodule.c` and `Project 2/pagetable/pagetable.c` | slots 233 and 378 of the system call table, the saved calls | insmod, rmmod, a program's call | the modules and the programs, over the table |
| Page table exposure | `Project 2/pagetable/pagetable.c`, `Project 2/VATranslate`, `Project 2/vm_inspector` | the target's `mm` and its `mmap_sem`, fake page directory, remapped page tables | get_pagetable_layout, expose_page_table, for_pmd_entry; translation and listing in the programs | the address space of another process |
| ptreecall | `Project 1/ptreecall` | none | fork, execute ptree, wait | ptree |
| Memory tools | `Project 2/memory_monitor`, `Project 2/occupy_mem` | none | print /proc/meminfo; allocate and touch memory | put the page replacement under pressure |
| The rest of the kernel | `K/` | - | - | everything |

What is hard in each of them, and what makes it correct:

* **Burger Buddies.**  Threads look at a condition under a mutex, unlock, and
  then wait on a semaphore, so a wake-up can be lost or come too early; the
  condition is used again after re-locking; a ring buffer with one spare slot
  is shared; the manager kills threads wherever they are, mutexes held; main
  frees shared data after joining only the manager.  Correct: no wake-up is
  lost, nobody takes a burger off an empty rack, every customer is served once
  and by a cashier that was ready, the shop closes after the last customer and
  does close.
* **Page replacement.**  The counter that replaces the referenced bit is
  loaded, incremented, stored and reset without a lock, by kswapd, direct
  reclaimers and tasks at once; it wraps; flags are tested before the lock is
  taken; a page may lose its last user while a scan holds it; lumpy reclaim
  goes over a list twice.  Correct: flags agree with lists, no page is freed
  under somebody, `VM_BUG_ON` never fires, unused pages grow old, and the
  comments on the functions that were changed still hold (they do not).
* **Process tree.**  The tree changes in every way tasks can change it; the
  walk reads past the last sibling; display() reconstructs the depth from
  pids, partly false ones, and pops its stack without looking at its bottom.
  Correct: every process is listed once, tabs give the depth, siblings are
  true, the stack is never empty.
* **System call hooks.**  Two modules replace the same slot; nothing is
  locked; what an exit function restores may be gone, and a module may be
  removed while a call is inside it.  Correct: the table never points into a
  module that was removed, and a call never runs one.
* **Page table exposure.**  The target may exit or execute a program between
  two uses of its `mm`; tables of 4 KB are placed 2 KB apart; errors of the
  walk are ignored; boundaries are inclusive in one place and exclusive in the
  other.  Correct: the semaphore released is the one taken, the tables of the
  range are exposed and no others, what a program reads is the target's, and a
  call does not hang the target.

`PROJECT.json` lists every hazard at its line with the properties that cover it.

## 2. Plan

The plan was, in this order: Burger Buddies with its abstract shop (1), page
ageing (2), the process tree (3), the system call hooks with the calls through
them (4), the page table exposure (5), the proofs of the safety properties of all
of these (6), and what the counter of page ageing achieves, with the lost updates
that break it (7).  All of it is done.

## 3. The modules

| module | what it is | extends |
|---|---|---|
| `BurgerBuddies` | the threads of the program, one action per call that blocks or is seen by others | - |
| `BurgerShop` | what the shop promises: no threads, no semaphores | - |
| `MCBurger` | the symmetry for TLC | `BurgerBuddies` |
| `BurgerProofs` | types and the rack | `BurgerBuddies` |
| `BurgerQueueProofs` | the ring of cashiers, the orders, closing | `BurgerProofs` |
| `BurgerShopProofs` | the program implements the shop | `BurgerQueueProofs` |
| `PageAging` | the LRU lists and the counter | - |
| `PageLooks` | the same with a memory of the scans a page has ahead of it | `PageAging` |
| `PageKept` | the same with a memory of the looks that kept a page active | `PageAging` |
| `PageLookTwice` | the same with a history variable, to state a comment of vmscan.c | `PageAging` |
| `MCPages` | the module TLC runs | `PageLooks` |
| `PageProofs` | theorems about the lists and the counter | `PageLooks`, `PageKept` |
| `ProcessTree` | tasks, the walk, display() | - |
| `PtreeProofs` | theorems about the lists, the walk and display() | `ProcessTree` |
| `SyscallTable` | slots, saved calls, init and exit functions | - |
| `SyscallCalls` | programs that call through the table while modules come and go | `SyscallTable` |
| `MCSyscallTable` | the two modules of the repository, their slots and the three programs | `SyscallCalls` |
| `SyscallProofs` | theorems about the table and the calls | `SyscallCalls` |
| `HexArg` | how the programs read an address | - |
| `ExposePageTable` | expose_page_table(), the walk, the programs and their target | `HexArg` |
| `MCExpose` | the VM_PFNMAP areas for TLC | `ExposePageTable` |
| `ExposeProofs` | theorems about the call and its semaphores | `ExposePageTable` |
| `ExposeWalkProofs` | theorems about the walk, what it exposes, and the programs' arguments | `ExposeProofs` |

Definitions whose comment begins with "Mutant" are faulty variants of the
definition that follows them.  No specification uses them; they show that a
property can fail (section 5).

### BurgerBuddies

`pc[t]` is the call at which thread t is; `owner` and `sem` are the mutexes and
semaphores; `ring` is `sleepingQueue` with `head` and `tail`, kept as the array
it is, with its `tail = -1` at the start.  A step is a call to libpthread with
the straight-line code after it, which only touches data under the mutex held.
`thread_exit_handler` can take a signalled thread away at any point, with the
mutexes it holds.  `MaxRack` is the only bound: cooks never stop, so no cook
starts a burger while the rack has that many.

`ImplementsShop` maps the program to `BurgerShop`: the line of cashiers is the
ring read from `head`, a customer orders when it dequeues, a cashier takes when
it decrements the rack, serves when it counts.

### PageAging

`list[p]` is the list the link `page->lru` is on: one of the zone's, one of a
scan's private lists (`l_hold`, `page_list`, ...) of reclaimer `by[p]`, a
pagevec, or none.  The kernel's configuration has one processor with preemption,
so a section under `zone->lru_lock` is one step and everything else is split,
`++page->PG_referenced` into its load and its store.  `WordSize` is how many
values an unsigned long has; the counter wraps at it.  `young[p]` is how many
page tables have used p since the last look, of at most `MaxPtes`.

mark_page_accessed() is three steps: the test without a lock (`MarkTest`), which
leaves its result in `activating[t]`, the test again and the activation under
`zone->lru_lock` (`activate_page`), and the reset (`MarkReset`).  A page that is
added to a pagevec may fill it, which empties it onto the list at once
(`lru_cache_add`); the pagevecs hold pages that are not modelled too, so when
this happens is a free choice.  shrink_list() begins a scan of an active list only
if `inactive_list_is_low()` says so, with the numbers of active and inactive pages
of the kind, and what it says may be stale when the scan isolates its pages;
`file[r]` is the kind.  shrink_active_list() puts `l_active` and `l_inactive` back
on the lists of these names, shrink_inactive_list() each page on the list its
flag says.  The call of shrink_active_list() that rebalances the
anonymous lists (`K/mm/vmscan.c:2183`) makes the same test.

Lists are sets, of which a scan isolates any part: the order within a
list is left out, and with it which page goes first.  Also left out: mlock and
the unevictable list, compound pages, priorities and zones, the details of
writing out and of swap (PageReclaim is each of its outcomes).  Whether a scan
is lumpy is a free choice for every scan.

Two modules add history variables, which the steps of `PageAging` do not depend on.
In `PageLooks`, `due[p]` is how many scans have yet to leave p older before it may
be deactivated for its age: two from the moment a task resets its counter or takes
it into use, and one less after each scan that stores a higher counter and leaves it
so.  The counter does not always tell this, and `Due` says when it is let off: when
the reset comes between the load and the last store of a reclaimer that has the page
(the store brings the old age back), and when the page was old when it was taken,
as nothing sets `PG_referenced` then.  Either ends with the next reset that meets
no scan.  So `DeactivatedAfterTwoLooks` does not say that a page in use is never
deactivated early: the code does that, in these two cases, and the property says
that it does in no other.  The scans are remembered for the pages in `Watched`, the
file page in the run, any in the proof.  In `PageKept`, `kept[p]` is how often in a row shrink_active_list() has put
p back on the active list for its age.

### ProcessTree

A task is its pid.  `children[p]` is the list in the order of its links.  Each
of fork, clone, the three stages of execve, exit and wait is one action, as each
is one section under `tasklist_lock` or one assignment.  A call of dfs() is one
action: it stores its task, and `todo` is the rest of the list of every call that
is not over, the innermost first.  ptree() holds that lock from the start to the
end of its walk, so tasks stand still meanwhile.  They do so while display() runs
too, since it reads its own copy only; display() is one action per iteration of
its loops.  `AncestorsOf(p)` is what p leads to from parent to parent: the least
set of tasks with p that has the parent of each of its members, without p.

`ListHeadPid` is the important detail.  `list_entry(from->sibling.next, ...)`
of a last child takes the head of the parent's list for the `sibling` link of a
task.  `children` lies eight bytes before `sibling` in `task_struct`, so the pid
that is read lies eight bytes before the parent's pid: on 32-bit ARM the word
with the bits `did_exec` (1), `in_execve` (2) and higher ones.  The higher ones
are left out: they make values of 4 and more, pids of kernel threads whose
entries follow kthreadd's, while `in_execve` alone makes 2, kthreadd's own.

The kernel source is that of Project 2; Project 1 ran on the same version.
Left out: ptrace (`parent` is `real_parent`), CLONE_PARENT, child subreapers,
execve() of a process with several threads, a buffer that overflows (2048
entries, and 256 in display(): `PidsOK` states it) and failing calls.

The comments on `struct prinfo` call `first_child_pid` the "youngest child" and
`next_sibling_pid` the "older sibling" (`ptreemodule.c:16-17`); since fork
appends to the list, the first is the oldest child and the second the next
younger sibling.  The properties are stated in terms of the list.

### SyscallTable

`table[s]` says whose function a slot has, `oldcall[m][s]` whose function m saved.
Each access of an init or exit function to the table is one action, since
`init_module` and `delete_module` call these functions without `module_mutex`
(`K/kernel/module.c:3051`, `K/kernel/module.c:831`).  `under` and `nested` are
history variables: which modules were in when a module came, and whether modules
came and went like brackets so far.

`SyscallCalls` adds the programs.  The kernel branches to whatever the slot has
(`K/arch/arm/kernel/entry-common.S:452`) and takes no reference to the module;
`cut` has the programs whose module was removed while they were in it, `lost`
those that then ran freed memory, or went there at once.  As slot 233 is that of
two modules, ptree may reach get_pagetable_layout() and VATranslate ptree(): the
model follows the call there, the wrong arguments are left out.

### ExposePageTable

The target's variables are `mm`, the count of each `mmap_sem` (`activity`), the
frame of the page table behind each directory entry (`table`), and the mm that
are freed (`gone`).  The m of `mm` are numbered in the order in which the target
has them: `exec_mmap()` goes from one to the next, `exit_mm()` to none.  Both
take the semaphore for reading while they replace `mm`; then `mmput()` frees the
tables, without the semaphore.  A target that is a kernel thread has no mm from
the start.  The pid of a target that was reaped may still be found, as that of a
process group or session; it has no task then.

`pc` follows the call.  The four uses of `target_process->mm->mmap_sem` in lines
124 to 152 are four loads of `mm` each with an operation on the semaphore loaded
(`LoadSem`, `down_write`, `LoadSemAgain`, `up_write`, twice; `pass` says which
time), and line 146 is a fifth load, before the semaphore is taken again.  A
load that gives none is an oops: the calling task dies in the kernel and keeps
what it has locked.  An mm in `gone` is memory somebody else may use: its semaphore
may look free, its directory may have any frame, or the access may fault.

A round of the loop of `walk_page_range()` is one action, with its callback
`for_pmd_entry()`.  `Sections` are the entries that map the kernel, bad to
`pmd_bad()`.  Addresses of the caller's area are counted in halves of a page,
because that is what `EACH_PTE_SIZE` is.  `walk_page_range()` skips a VM_PFNMAP
area to its end even when that is past the end of the range; `addr != end` is
then still true, and one round more visits the region where the area ends
(`Overshot`).  The walk's VM_BUG_ON at `K/mm/pagewalk.c:184`, that the mm is
locked, fails when the target executes a program between lines 146 and 150; the
configuration does not compile it in, so the model has the walk go on.

The programs: `main` is either of them, with the end of VATranslate's range
wrapping around at the top of the address space; mmap() may fail, and
`MAP_FAILED` passes the test for NULL.  `ReadEntry` is one page of the loop of
vm_inspector, or the one look-up of VATranslate; a directory entry of 0 is a
segmentation fault.  `HexArg` has the conversion of the argument, in which
`strtol()` saturates and `strtolu()` works around it, for words of `HexDigits`
hex digits; its `ULONG_TOP`, 1 << 31, is the value of the string "80000000".

Left out: what a page table entry says.  VATranslate prints an address also for
an entry that is not present, a swap entry included; it says "Invalid physical
address!" only for an entry of 0 in the upper 20 bits, and then prints one
nevertheless.  Also left out: a target with several threads, a target that shares its
mm (vfork), and a program that exposes itself.

## 4. The runs

| run | instance | result |
|---|---|---|
| `burger_safety` | 2 cooks, 2 cashiers, 3 customers, rack of 1, at most 3 burgers, symmetric | all hold |
| `burger_liveness` | 1 cook, 2 cashiers, 2 customers, rack of 1 | holds |
| `burger_rack_full` | 1 cook, 1 cashier, 2 customers, rack of 2 | `RackNeverOverfull` violated |
| `pages_safety` | a file page and an anonymous page, kswapd and a direct reclaimer, a task, words of 3 values | all hold (3 million states) |
| `pages_liveness` | an executable and another file page, kswapd, a task, words of 4 values | both hold (480 thousand states) |
| `pages_look_twice` | a file page, kswapd, a task | `SecondReferenceActivates` violated |
| `ptree` | swapper, init, kthreadd and four more tasks | all hold (3.9 million states) |
| `ptree_threads` | three more tasks | `ListsEveryProcess` violated |
| `syscall_table` | ptreemodule (233) and pagetable (233, 378), three programs | all hold (462 thousand states) |
| `syscall_restore` | the same | `OldCallsRestored` violated |
| `expose` | three directory entries, the last a section, tables of two pages of two bytes, two frames, one execve, no or one VM_PFNMAP area | all hold (837 thousand states) |
| `expose_remap` | the same | `RemapsEmptyPtes` violated |

Why these bounds are enough for the cases to happen: two cooks and two cashiers
are the fewest for which CK and CA have to keep somebody out, and with a rack of
1 both "full" and "empty" come up at every burger; three customers and two
cashiers make the ring (three slots) wrap, and a customer wait for a cashier.
Two reclaimers and a task give every pair of the unlocked accesses to the
counter, and three values let it reach the threshold of 2 and wrap; the lists
are independent but for the sweep of a scan over several pages, which two pages
show, and for their balance, on which shrink_list() decides: for that the run of
the liveness has two pages of one kind, of which one can be inactive while the
other is active.  Four tasks beyond the boot's are enough for a grandchild below a
sibling, threads with children, an orphan adopted by init after kthreadd's, and
a helper process below the last kernel thread.  Two regions of user memory with
two pages each have every position of a range to a boundary: inside a region,
across it, ending with it, ending at the first byte of the next and at the last
address of all; two frames are the fewest for a second table and for a table
that is freed and used again.  One execve gives the mm that was left and the new
one, and every further one repeats this.  Two hex digits have a first one that
is lowered and a last one that is not.

### What the violated properties say

Each is a statement of the repository that the code does not keep; `PROJECT.json`
quotes the lines.

* `RackNeverOverfull` (README of BBC: "The cook will wait if the rack is full.").
  A cashier that takes a burger off a full rack posts `rackFull` though no cook
  waits.  The post stays, and lets a later cook put a burger on a full rack; while
  the rack is above `racksize` the test `rack == racksize` makes no cook wait.
* `SecondReferenceActivates` (comment in page_check_references()).  The increment
  and the decrement cancel out, so a mapped file page that was spared once is
  spared again at the next reference, and for ever.
* `ListsEveryProcess` (README of ptreemodule: "copies all entries").  The children
  of a thread that is not the first of its process are on that thread's list,
  which dfs() never visits.
* `OldCallsRestored` (comment in the exit functions: "restore the old system
  call").  ptreemodule in, pagetable in, ptreemodule out, pagetable out.
* `RemapsEmptyPtes` (assertion in remap_pte_range(), `K/mm/memory.c:2207`).  The
  tables of a range are mapped 2048 bytes apart as pages of 4096: a range with two
  tables runs into the BUG_ON, and the target's semaphore stays taken for ever.

The passing run of each component has what does hold instead:
`ListsLeadersChildren`, `TabsTellTheDepthUnambiguous` and
`SiblingsFixedOffTheStack` have a premise that names the exception and nothing
else; `NestedModulesRestore` and `PrivateSlotsRestored` say when slots are safe.
The exception of the third is one more promise not kept.  The comment in
convert() says of a false sibling that it "will be fixed while printing"
(`ptreemodule.c:31`): display() fixes it when it pops an entry, and the ancestors
of the last entry are never popped.  A helper program that a kernel worker
started, below the last kernel thread, shows it.  The premise of the second,
`HeadsReadAsNobody`, is wide: it fails as soon as any task at all
is in its first execve().  It is needed: while the last child of init, or the last of its
last child, and so on, is in its first execve() and has a child, that child's
false sibling is 2; kthreadd is the next entry, and is printed beside it.

Likewise, in `expose`: `SemReleasedIsTaken` has the premise `right`, that each mm
was still the target's when its semaphore was granted.  Without it the call may
wait for the semaphore of one mm, get it after the target executed a program,
and release that of the next, which a third task may have.  `OopsHasAReason`
names the only ways to lose a call: a target that changed or lost its mm, or
never had one, and a second page table in the range.  `ExposesTheRange` and
`ProgramFindsItsTables` name the two edges, the end of a VM_PFNMAP area and an
end address with which a table begins.  `EntryReadIsTheTargets` says "unless freed": the call
maps the live tables without a reference, where README.md speaks of a copy.
`TargetGoesOn` ends with "unless a call was lost".  The code does run into these
cases; the properties do not exclude them, they say what has to happen first, and
that nothing else goes wrong.  The same is true of a call that is inside a module
when it is removed (`cut`, in `LostCallHasAReason`), and of main() that releases
what signalled threads may still use (`ReleasedAfterDismissal`).

Two divergences are plain in the code and have no run.  The comment on
mark_page_accessed() (`K/mm/swap.c:358-359`) has the step "inactive,referenced"
between two accesses, while line 364 activates an inactive page at the first.
The comment in shrink_active_list() (`K/mm/vmscan.c:1788`) says that
"page_referenced() will always return 0"; it counts the young page table entries
as before (`K/mm/rmap.c:887-921`), so a page used as code stays active and does not
grow older (`UsedAsCode`).

### Fairness

* `burger_liveness`: weak fairness for every thread, which a scheduler that runs
  every runnable thread gives.  Strong fairness for one step only: a cashier's
  locking of `checkRack`.  Cooks take this mutex for ever, so weak fairness does
  not give it to a cashier; but a cook sleeps for a second after each burger
  outside the mutex, and the cashier is woken meanwhile.  No fairness for
  the signal handler.
* `pages_liveness`: the property is about a system short of memory
  (`MemoryPressure`).  A reclaimer goes on with the scan it is in (weak); kswapd
  calls shrink_list() again and again for every list, so for each kind of page it
  either begins a scan of the active list again and again, or finds again and
  again that the inactive list is not low.  As scans take pages from the tail of
  the list and return them to the head, they come to every page that stays on it
  (strong fairness in place of the order of the list).  Pages whose last reference
  is gone are released (weak).  Tasks may stop anywhere, with a page they mark.
  `inactive_file_is_low()` protects the working set "by disabling active file page
  aging" (`K/mm/vmscan.c:1903-1904`), and without swap anonymous pages are not
  deactivated at all (`K/mm/vmscan.c:1869`): an idle page then stays active for
  ever, and `IdlePagesAge` excuses it with `NotLow`.  The run has kswapd only; a
  direct reclaimer that is in the middle of a scan has the fairness above too.
* `expose`: weak fairness for the steps of the call and its program, and for those
  of a target inside execve() or exit(): the scheduler runs every runnable task
  again.  A semaphore that is free is granted in the order of its queue, and
  this target is the only other task in it, so weak fairness is enough for
  `CallEnds`.  The target need not fault, unmap or leave.

Deadlock is checked in every run that is expected to pass.

## 5. Mutants

Every property of a passing run has a faulty variant of the code that breaks
it: a rack decremented without a check, a thread left on a list, an index that
moves on too far, a scan that keeps lumpy mode, and so on.  `PROJECT.json` pairs
them.

## 6. What is proved

All theorems hold for every value of the constants that the assumption of the
module allows (`ParametersOK`, `PagesOK`, `PidsOK`, `HooksOK` and `CallsOK`,
`ExposeOK` and `HexDigitsOK`), and rest on nothing else.

**Burger Buddies, the rack** (`BurgerProofs`): `TypeCorrect`, `RackProtocol`,
`RackStaysNatural`, `RackWakeups`.  `RackNotNegative` is not inductive: a cashier
decrements on the strength of a check made before it let go of the rack.
`RackInv` says why that is sound: `RackMutexes`, a thread in a section holds its
mutex, so there is one cashier in CA; `BurgerRequests`, the request of that
cashier is open exactly until it is answered, and the burger that answered it
stays until it is taken, since no other cashier is in CA; `FullRackWaits`, a cook
that waits found the rack full, and a burger taken since has left a post.  A
dismissed thread keeps its mutex, so dismissal disturbs none of it.  The proof
has one lemma per thread function and one step per action.

**Burger Buddies, the ring** (`BurgerQueueProofs`): `QueueProtocol`,
`QueueWakeups`, `RingIsExact`, `CashierAlwaysReady`, `OrdersBalance`,
`ClosesOnlyWhenServed`, `ReleasesLast`.  The inductive invariant is `QueueInv`.
Whoever is at the ring holds `queueMutex` and the customer that orders holds CM,
so `CashierRequests` can account for the one request for a cashier: it is open
until the first cashier that joins answers it, and a cashier that answered it
stays on the ring until that customer has it.  `RingOfTheIdle` says that the slots
from `head` to `tail` hold each idle cashier exactly once, and besides these only
cashiers dismissed while idle; `ChosenSleep`, that the one chosen is woken once;
the arithmetic modulo cashiers + 1 is in lemmas on what enqueue() and dequeue()
do to these slots, and since the ring has one slot more than there are cashiers,
full and empty differ.  `OrdersAddUp` is itself a conjunct: customers that have
ordered and cashiers with an order are sets, whose cardinalities and
`customersServed` balance.  Whoever brings the counter to the number of customers
leaves no order open, which is what `ClosingOrder` and the release rest on.

**Burger Buddies, refinement** (`BurgerShopProofs`): `ProgramIsTheShop`, that
`Spec` implies `ImplementsShop`.  Initial states map to initial states, and under
`TypeOK`, `QueueInv` and `RackInv` every step maps to a step of `BurgerShop` or to
none.  The line of the shop is the ring read from `head`: dequeue() takes its
first element and enqueue() appends one, which is proved for rings that wrap.
The invariants are needed where the shop has a guard that the program does not
test: a customer takes a cashier only off a line that has one, a cashier takes a
burger only off a rack that has one, and the shop closes only when all are served.

**Page ageing, the lists** (`PageProofs`): `PageTypes`, `PagesKeptInOrder`,
`FlagsAgree`, `NoBugOnActive`, `NoEarlyRelease`, for any order of the unlocked
test and the locked one.  The inductive invariant `PageInv` adds to
the property on the flags whose list a page is on and in which phase its
reclaimer is (`ScansHoldTheirPages`, `ScansKnowTheirPage`), what PageActive is
while a page is off the LRU (`FlagsInScans`), and that a page on its way to the
free list has no user (`LastReference`).  The last conjunct of `FlagsInScans`
is the reason that the second pass of lumpy reclaim is safe: a page activated
in the first pass has reset the reclaim mode, so there is no second pass.

**Page ageing, the counter** (`PageProofs`): `CountersTellTheLooks`,
`AgedByTwoLooks`, `NoThirdTime`, which bound the age of a page from both sides.
`PageInv` gives the fact both rest on: a page whose counter a reclaimer has loaded
is in that reclaimer's hands alone (`OneCounts`), so of all that runs meanwhile only
a reset can come between.  `CounterSteps` sorts the actions by what they do to the
counter: nothing, a reset, a load, a store, a store that will be undone, the undoing.
`LooksInv` says that a page with scans ahead of it is younger than the threshold by as
many (`CounterTells`), and that its reclaimer has loaded the counter it has, or has
stored one more that it will set back (`LoadsAreFresh`); whichever value the compiler
lets the decrement start from, it then ends where it began.  `AgedByTwoLooks` is an
action property: it follows for the one step that deactivates a page for its age.
`KeptInv` follows the counter of a page that is kept: it is 0 or 1 after the first
look, where 0 is a counter that wrapped, 1 after the second, and so at the threshold in
the third.  For every size of the word a wrap costs one look and no more.
`IdlePagesAge` says besides that the looks take place, which needs the fairness.

**Process tree** (`PtreeProofs`): `TreeStaysLinked`, `PtreeTypes`,
`EveryProcessListed`, `StackHoldsTheSibling`, `TabsAreTheDepth`,
`SiblingsAreMended`, for trees of any shape.  `PidsOK` keeps the pids that are given
away to what display() has room for, since the model's arrays have no end; no proof
uses that bound, only that pids are numbers from 8 on.  What dfs() computes is not
proved by induction over the tree; the walk is a sequence of steps, and
`PtreeInv` says what holds between two of them.

* `TreeInv` is the kernel's part: pids are new, a group keeps its leader, and
  `ListsAreTheParents`.  The hard step is exit_notify(), which concatenates two
  lists; they have nobody in common since nobody has two parents.
* `ElderInv`: the leader of the parent's group is older (has the smaller pid) than
  the child.  The parent itself need not be, as a younger thread may adopt.  This
  is what makes the lists a tree, and the walk complete: the oldest process that
  is missing has a parent that is listed, whose children are all listed.
* `DfsInv`: what is stored followed by what is to do (`Line`) is in depth-first
  order (`DepthFirst`): everybody's parent and all children of those stored are
  there, a first child or else the next sibling comes next (`ChildrenListed`,
  `SiblingNext`), and siblings nest like brackets (`SiblingsNest`).  The lemma
  `VisitKeepsTheOrder` shows that replacing a task by itself and its list of
  children keeps this order.
* `EntriesInv`: an entry keeps its sibling until that is displayed, whatever line
  28 of ptree.c clears before.
* `StackInv`: the stack rises, and has every entry whose sibling is yet to come.
  With `SiblingsNest` it follows that the entries above the older sibling have
  none to come, so that the loop that pops ends there at the latest.  This needs no
  assumption on what a list head reads as: a false sibling can only end it early.
* `DepthInv` holds as long as no list head reads as kthreadd's pid
  (`HeadsReadAsNobody`): then it does not end early, the stack has nobody whose
  sibling is displayed, and its height is the number of ancestors of its top.

**System call hooks** (`SyscallProofs`): `TableTypes`, `PrivateSlots`,
`NestedModules`, for any number of modules and slots.  `PrivateInv` follows the
index of the init or exit function through the slots of a module: those behind it
are the module's, those ahead the kernel's.  `NestedInv` says that the modules
form a stack of which only the top is in an init or exit function, that the table
has the last holder of each slot, and that what a module saved is the last holder
among the modules under it.  `CallsKept` and `LostCalls` add the programs:
`OwnersReplace` says that only modules that replace a slot are ever found or
saved there, so a slot that points to a module that is gone contradicts
`PrivateInv` unless it is shared, and `NestedInv` unless modules did not nest;
and once they did not, `nested` stays false.

**Page table exposure** (`ExposeProofs`, `ExposeWalkProofs`): `TypeCorrect`,
`ReleasesWhatItTook`, `ReadsTheTargetsEntries`, `LostForOneReason`, `WalkExposesTheRange`,
`ProgramsFindTheirTables`, `ArgumentsConverted`, for any size of the directory and of the tables, any
frames, addresses and areas, and any number of programs the target executes.
`SemReleasedIsTaken` is about one label of the call; `IInv` says what holds at
the others.  `TargetInv`: the mm that are freed come before the target's.
`CallInv`: a semaphore is only touched through an mm that is not NULL.  `LockInv`:
as long as each semaphore was granted in time, the call at `Holding` has the
target's own semaphore with count -1, so exec_mmap() and exit_mm() wait before
they replace `mm`, and the later loads give the same mm; everywhere else the
count is that of the target's own readers, and zero for the mm to come, which is
why the next semaphore is free.  `EntryReadIsTheTargets` needs `EInv`: the first
page of the area is the only one ever mapped (`AreaInv`, another view of the
defect above), and its table is the one the directory's entry stands for, or
is in `freed` (`TableInv`); munmap() and mmput() are the two steps that free it.
`KInv` is the invariant behind `OopsHasAReason`: a target that still has the mm it
began with has had no other, so every load of the call gave that one (`KeepInv`),
and a region whose table is mapped is behind the walk (`BehindInv`), so that the
table that runs into the BUG_ON is a second one; that it is one of the range, or
the one to which an area past its end leads, needs `WInv`.  `WInv` follows the walk: up to
`addr` it has filled the entries of the regions it visited that have a table, and
no others, and has left behind the areas it has met (`OnTheWay`); past the end of
the range it is where an area ends (`PastTheEnd`); at its end it has filled what it
should (`AtTheEnd`).  While the call holds the semaphore of the target's own mm,
the target cannot change the tables under it (`OwnTables`).  The lemmas on `\div`
relate regions and addresses: those of a round, of the end of an area and of the
last page of a program.

`ArgumentsConverted` is about a recursive definition, the value of a string of hex
digits.  The prover cannot use the induction theorems of the library; each claim is
shown by its least counterexample instead (`LeastNumber`, from the well-foundedness
of the naturals): there is a function that satisfies the recursive equation up to
every length (`ValuesExist`), so `PrefixValue` does; digit by digit, a string whose
first digit is below 8 stays below the top string (`BelowTop`), a shorter one too
(`ShorterIsBelow`), and lowering the first digit by 8 takes exactly the top string off
(`LoweredBy`).  So strtol() never saturates on what strtolu() gives it.

Only model-checked: liveness (`ShopCloses`, `IdlePagesAge`, `CallEnds`,
`TargetGoesOn`), which is beyond the prover.  Every other property that a run
expected to pass checks is a theorem.

## 7. What is not modelled

ptreecall and the memory tools, which only call and print; the vendored kernel
beyond the functions named above.  Failing allocations and copies are part of
`ExposePageTable` and left out elsewhere.  So are the leaks, each of which one
call shows: ptree() does not free its buffer when copying fails
(`ptreemodule.c:70`), and expose_page_table() never drops its references to pid
and task, nor frees the directory when copying fails (`pagetable.c:157-161`).
