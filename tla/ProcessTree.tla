---------------------------- MODULE ProcessTree ----------------------------
(***************************************************************************)
(* The process tree of Project 1: the system call ptree() of the module    *)
(* ptreemodule, which copies the kernel's tree of tasks to a buffer in     *)
(* depth-first order, and the program ptree, which prints the buffer with  *)
(* tabs.                                                                   *)
(*                                                                         *)
(* Tasks are created, execute programs and exit under tasklist_lock, which *)
(* ptree() holds while it walks the tree: nothing changes meanwhile.       *)
(* display() works on a copy, so what the tasks do while it runs is left   *)
(* out.  A task is its pid.  Nobody is traced, and only init adopts        *)
(* orphans.                                                                *)
(***************************************************************************)
EXTENDS Naturals, FiniteSets, SequencesExt

CONSTANTS FirstPid,  \* the first pid after those of the boot's own threads
          MaxPid     \* bound: the last pid that is given away

\* The pids below FirstPid belong to init, kthreadd and the kernel's threads.
\* The arrays of display() have room for MAXPROCESSNUMBER = 256 entries.
ASSUME PidsOK ==
    MaxPid \in Nat /\ FirstPid \in 8..MaxPid /\ MaxPid - FirstPid + 4 \leq 256

swapper  == 0
init     == 1
kthreadd == 2
Pids     == {swapper, init, kthreadd} \cup FirstPid..MaxPid

VARIABLES
    tasks,         \* the tasks that exist
    zombies,       \* the ones that have exited and are not reaped yet
    real_parent, group_leader,
    children,      \* the list of each task's children, the head of it first
    did_exec, in_execve,
    last_pid,
    pc,            \* where the program ptree is
    todo,          \* what the calls of dfs() still have to go over, the rest of
                   \* the list of the innermost call first
    buf,           \* its copy of the tree
    i, stack, tabcnt

kernelVars == <<tasks, zombies, real_parent, group_leader, children, did_exec,
                in_execve, last_pid>>
userVars   == <<pc, todo, buf, i, stack, tabcnt>>
vars       == <<tasks, zombies, real_parent, group_leader, children, did_exec,
                in_execve, last_pid, pc, todo, buf, i, stack, tabcnt>>

Threads(p)  == {t \in tasks : group_leader[t] = group_leader[p]}
Processes   == {p \in tasks : group_leader[p] = p}
Kthreads    == {swapper, kthreadd} \cup
               {p \in tasks : real_parent[p] = kthreadd}

\* Where a task is linked in a list of children.
LinkOf(p, list) == CHOOSE n \in DOMAIN list : list[n] = p

-----------------------------------------------------------------------------
(* The kernel's tasks.                                                     *)

\* A task that runs while ptree is not at work.
Runs(p) == pc = "main" /\ p \in tasks \ (zombies \cup in_execve \cup {swapper})

\* fork(): the child is the last of its parent's children, and the parent is
\* the thread that called fork().
fork(p) ==
    LET n == last_pid + 1 IN
    /\ Runs(p) /\ n \leq MaxPid
    /\ last_pid' = n
    /\ tasks' = tasks \cup {n}
    /\ real_parent' = [real_parent EXCEPT ![n] = p]
    /\ group_leader' = [group_leader EXCEPT ![n] = n]
    /\ children' = [children EXCEPT ![p] = Append(@, n)]
    /\ UNCHANGED <<zombies, did_exec, in_execve, userVars>>

\* clone(CLONE_THREAD): a thread is nobody's child.
clone_thread(p) ==
    LET n == last_pid + 1 IN
    /\ Runs(p) /\ n \leq MaxPid /\ p \notin Kthreads \cup {init}
    /\ last_pid' = n
    /\ tasks' = tasks \cup {n}
    /\ real_parent' = [real_parent EXCEPT ![n] = real_parent[p]]
    /\ group_leader' = [group_leader EXCEPT ![n] = group_leader[p]]
    /\ UNCHANGED <<zombies, children, did_exec, in_execve, userVars>>

\* execve() of a process with one thread: it sets in_execve, loads the program
\* or fails to, and clears in_execve.
ExecStart(p) ==
    /\ Runs(p) /\ p \notin Kthreads /\ Threads(p) = {p}
    /\ in_execve' = in_execve \cup {p}
    /\ UNCHANGED <<tasks, zombies, real_parent, group_leader, children,
                   did_exec, last_pid, userVars>>

search_binary_handler(p) ==
    /\ pc = "main" /\ p \in in_execve
    /\ did_exec' = did_exec \cup {p}
    /\ UNCHANGED <<tasks, zombies, real_parent, group_leader, children,
                   in_execve, last_pid, userVars>>

ExecEnd(p) ==
    /\ pc = "main" /\ p \in in_execve
    /\ in_execve' = in_execve \ {p}
    /\ UNCHANGED <<tasks, zombies, real_parent, group_leader, children,
                   did_exec, last_pid, userVars>>

\* find_new_reaper(): another thread that runs, or init.
Reapers(p) ==
    LET others == Threads(p) \ (zombies \cup {p})
    IN  IF others = {} THEN {init} ELSE others

\* Mutant: the children are given a new parent, but not moved to its list.
exit_notify_orphans(p) ==
    /\ Runs(p) /\ p \notin {init, kthreadd}
    /\ \E reaper \in Reapers(p) :
          real_parent' = [t \in Pids |->
             IF t \in tasks /\ real_parent[t] = p THEN reaper ELSE real_parent[t]]
    /\ children' = [children EXCEPT ![p] = <<>>]
    /\ IF group_leader[p] = p
       THEN zombies' = zombies \cup {p} /\ UNCHANGED <<tasks, did_exec>>
       ELSE tasks' = tasks \ {p} /\ did_exec' = did_exec \ {p} /\ UNCHANGED zombies
    /\ UNCHANGED <<group_leader, in_execve, last_pid, userVars>>

\* exit(): forget_original_parent() appends the children to the reaper's; a
\* thread is released at once, a process waits to be reaped.
exit_notify(p) ==
    /\ Runs(p) /\ p \notin {init, kthreadd}
    /\ \E reaper \in Reapers(p) :
          /\ real_parent' = [t \in Pids |->
                IF t \in tasks /\ real_parent[t] = p THEN reaper ELSE real_parent[t]]
          /\ children' = [children EXCEPT ![reaper] = @ \o children[p],
                                          ![p] = <<>>]
    /\ IF group_leader[p] = p
       THEN zombies' = zombies \cup {p} /\ UNCHANGED <<tasks, did_exec>>
       ELSE tasks' = tasks \ {p} /\ did_exec' = did_exec \ {p} /\ UNCHANGED zombies
    /\ UNCHANGED <<group_leader, in_execve, last_pid, userVars>>

\* Mutant: the task stays linked in its parent's list.
release_task_linked(p) ==
    /\ pc = "main" /\ p \in zombies /\ Threads(p) = {p}
    /\ tasks' = tasks \ {p}
    /\ zombies' = zombies \ {p}
    /\ did_exec' = did_exec \ {p}
    /\ UNCHANGED <<children, real_parent, group_leader, in_execve, last_pid,
                   userVars>>

\* wait() for a process all of whose threads have exited.
release_task(p) ==
    /\ pc = "main" /\ p \in zombies /\ Threads(p) = {p}
    /\ tasks' = tasks \ {p}
    /\ zombies' = zombies \ {p}
    /\ did_exec' = did_exec \ {p}
    /\ children' = [children EXCEPT ![real_parent[p]] = RemoveAt(@, LinkOf(p, @))]
    /\ UNCHANGED <<real_parent, group_leader, in_execve, last_pid, userVars>>

-----------------------------------------------------------------------------
(* The system call.                                                        *)

\* The head of p's list of children, taken for the link of a task: eight
\* bytes before p's pid are its flags did_exec (1), in_execve (2), ...  The
\* next flags up have the values of pids of kernel threads.
ListHeadPid(p) ==
    (IF p \in did_exec THEN 1 ELSE 0) + (IF p \in in_execve THEN 2 ELSE 0)

\* The link after p's own in its parent's list.
NextSiblingPid(p) ==
    LET siblings == children[real_parent[p]]
        k        == LinkOf(p, siblings)
    IN  IF k < Len(siblings) THEN siblings[k + 1] ELSE ListHeadPid(real_parent[p])

convert(p) ==
    [parent_pid       |-> real_parent[p],
     pid              |-> p,
     first_child_pid  |-> IF children[p] = <<>> THEN 0 ELSE Head(children[p]),
     next_sibling_pid |-> IF p = swapper THEN 0 ELSE NextSiblingPid(p)]

\* The system call takes the lock and calls dfs(&init_task).
ptree ==
    /\ pc = "main"
    /\ todo' = <<swapper>>
    /\ pc' = "dfs"
    /\ UNCHANGED <<kernelVars, buf, i, stack, tabcnt>>

\* Mutant: the call of a child forgets the rest of the list.
dfs_forgetful ==
    /\ pc = "dfs"
    /\ LET task == Head(todo)
       IN  /\ buf' = Append(buf, convert(task))
           /\ todo' = IF children[task] = <<>> THEN Tail(todo) ELSE children[task]
    /\ pc' = IF todo' = <<>> THEN "display" ELSE "dfs"
    /\ UNCHANGED <<kernelVars, i, stack, tabcnt>>

\* One call of dfs(): it stores its task and goes over the children, a call for
\* each, before the call it was made from goes on.
dfs ==
    /\ pc = "dfs"
    /\ LET task == Head(todo)
       IN  /\ buf' = Append(buf, convert(task))
           /\ todo' = children[task] \o Tail(todo)
    /\ pc' = IF todo' = <<>> THEN "display" ELSE "dfs"
    /\ UNCHANGED <<kernelVars, i, stack, tabcnt>>

-----------------------------------------------------------------------------
(* display(): entries are counted from 1, and stack[Len(stack)] is the top. *)

Top == buf[stack[Len(stack)]]

\* Mutant: an entry with children is not treated specially.
PreprocessBlind ==
    IF \/ i = Len(buf)
       \/ buf[i].next_sibling_pid # buf[i + 1].pid
    THEN [buf EXCEPT ![i].next_sibling_pid = 0]
    ELSE buf

\* An entry followed by neither its sibling nor its child has no sibling.
Preprocess ==
    IF \/ i = Len(buf)
       \/ /\ buf[i].next_sibling_pid # buf[i + 1].pid
          /\ buf[i].first_child_pid # buf[i + 1].pid
    THEN [buf EXCEPT ![i].next_sibling_pid = 0]
    ELSE buf

\* Entry i is on top of the stack s, and its depth is known.
Place(s) ==
    /\ stack' = s
    /\ tabcnt' = Append(tabcnt, Len(s) - 1)
    /\ i' = i + 1
    /\ pc' = "display"

DisplayEntry ==
    /\ pc = "display" /\ i \leq Len(buf)
    /\ buf' = Preprocess
    /\ IF stack = <<>> \/ buf[i].pid = Top.first_child_pid
       THEN Place(Append(stack, i))
       ELSE pc' = "pop" /\ UNCHANGED <<i, stack, tabcnt>>
    /\ UNCHANGED <<kernelVars, todo>>

\* Mutant: the entries popped keep what they have for a sibling.
DisplayPopKeeps ==
    /\ pc = "pop"
    /\ buf[i].pid # Top.next_sibling_pid
    /\ stack' = Front(stack)
    /\ UNCHANGED <<kernelVars, todo, buf, pc, i, tabcnt>>

\* The entry on top is not the older sibling: it is popped, and has no sibling.
DisplayPop ==
    /\ pc = "pop"
    /\ buf[i].pid # Top.next_sibling_pid
    /\ buf' = [buf EXCEPT ![stack[Len(stack)]].next_sibling_pid = 0]
    /\ stack' = Front(stack)
    /\ UNCHANGED <<kernelVars, todo, pc, i, tabcnt>>

\* Mutant: the sibling is put on top of its older sibling.
DisplaySiblingPushed ==
    /\ pc = "pop"
    /\ buf[i].pid = Top.next_sibling_pid
    /\ Place(Append(stack, i))
    /\ UNCHANGED <<kernelVars, todo, buf>>

DisplaySibling ==
    /\ pc = "pop"
    /\ buf[i].pid = Top.next_sibling_pid
    /\ Place(Append(Front(stack), i))
    /\ UNCHANGED <<kernelVars, todo, buf>>

DisplayPrint ==
    /\ pc = "display" /\ i > Len(buf)
    /\ pc' = "printed"
    /\ UNCHANGED <<kernelVars, todo, buf, i, stack, tabcnt>>

\* The program returns; it may be started again.
main ==
    /\ pc = "printed"
    /\ pc' = "main"
    /\ buf' = <<>> /\ i' = 1 /\ stack' = <<>> /\ tabcnt' = <<>>
    /\ UNCHANGED <<kernelVars, todo>>

display == DisplayEntry \/ DisplayPop \/ DisplaySibling \/ DisplayPrint

-----------------------------------------------------------------------------

Init ==
    /\ tasks = {swapper, init, kthreadd}
    /\ zombies = {} /\ did_exec = {init} /\ in_execve = {}
    /\ real_parent = [p \in Pids |-> swapper]
    /\ group_leader = [p \in Pids |-> p]
    /\ children = [p \in Pids |-> IF p = swapper THEN <<init, kthreadd>> ELSE <<>>]
    /\ last_pid = FirstPid - 1
    /\ pc = "main" /\ todo = <<>> /\ buf = <<>> /\ i = 1 /\ stack = <<>> /\ tabcnt = <<>>

TaskStep(p) ==
    \/ fork(p) \/ clone_thread(p) \/ exit_notify(p) \/ release_task(p)
    \/ ExecStart(p) \/ search_binary_handler(p) \/ ExecEnd(p)

Next == ptree \/ dfs \/ display \/ main \/ \E p \in Pids : TaskStep(p)

Spec == Init /\ [][Next]_vars

-----------------------------------------------------------------------------

Entry == [parent_pid: Pids, pid: Pids, first_child_pid: Pids,
          next_sibling_pid: Pids \cup 0..3]

TypeOK ==
    /\ tasks \subseteq Pids
    /\ zombies \cup did_exec \cup in_execve \subseteq tasks
    /\ real_parent \in [Pids -> Pids] /\ group_leader \in [Pids -> Pids]
    /\ children \in [Pids -> Seq(tasks)]
    /\ last_pid \in (FirstPid - 1)..MaxPid
    /\ pc \in {"main", "dfs", "display", "pop", "printed"}
    /\ todo \in Seq(tasks)
    /\ buf \in Seq(Entry)
    /\ i \in 1..(Len(buf) + 1)
    /\ stack \in Seq(1..Len(buf)) /\ tabcnt \in Seq(0..Len(buf))

\* What the walk relies on: whoever forks, clones, exits and is adopted in which
\* order, the lists that dfs() follows have every process but the first once, in
\* the list of the task that convert() reports as its parent, and that parent has
\* neither exited nor been released.
ListsAreTheParents ==
    /\ \A p \in Pids : /\ IsInjective(children[p])
                       /\ Range(children[p]) =
                            {c \in Processes \ {swapper} : real_parent[c] = p}
    /\ \A t \in tasks : real_parent[t] \in tasks \ zombies

\* Every child of every process was forked by, or given to, a group leader.
LeadersFork ==
    \A p \in Processes : group_leader[real_parent[p]] = real_parent[p]

\* No head of a list reads as the pid of a process.  (That it reads as init's
\* does no harm: init is the first to be listed.)
HeadsReadAsNobody == \A p \in tasks : ListHeadPid(p) # kthreadd

\* The ancestors of p: what p leads to, from parent to parent.
AncestorsOf(p) ==
    {q \in tasks \ {p} :
        \A up \in SUBSET tasks :
           p \in up /\ (\A t \in up : real_parent[t] \in up) => q \in up}

Siblings(p) == children[real_parent[p]]

\* README of ptreemodule: "The system call copies all entries of the process
\* tree data".  Whatever is forked, adopted and reaped before, ptree() stores
\* every process once.
ListsEveryProcess ==
    pc \notin {"main", "dfs"} =>
       /\ {buf[n].pid : n \in DOMAIN buf} = Processes
       /\ Len(buf) = Cardinality(Processes)

\* ListsEveryProcess, if no thread but the first of its process has children.
ListsLeadersChildren == LeadersFork => ListsEveryProcess

\* display() never pops the last entry of its stack, and so never reads
\* stack[-1].
StackNeverEmpty == pc = "pop" => stack # <<>>

\* README of ptree: "prints the whole process tree in DFS order using tabs to
\* indent children with respect to their parents".
TabsTellTheDepth ==
    pc = "printed" =>
       \A n \in DOMAIN buf : tabcnt[n] = Cardinality(AncestorsOf(buf[n].pid))

\* TabsTellTheDepth, if no head of a list is taken for a process that is listed.
TabsTellTheDepthUnambiguous == HeadsReadAsNobody => TabsTellTheDepth

\* The sibling that display() prints for an entry is the next in its parent's list, or 0.
SiblingIsTrue(n) ==
    LET p == buf[n].pid
        s == buf[n].next_sibling_pid
    IN  \/ s = 0 /\ (p = swapper \/ Last(Siblings(p)) = p)
        \/ \E k \in 1..(Len(Siblings(p)) - 1) :
              Siblings(p)[k] = p /\ Siblings(p)[k + 1] = s

\* Comment in ptreemodule.c: "the next_sibling_pid might points to the root
\* parent of the current process, which will be fixed while printing".  It is,
\* in every entry but those that are left on display()'s stack in the end: the
\* last entry's ancestors.
SiblingsFixedOffTheStack ==
    pc = "printed" /\ HeadsReadAsNobody =>
       \A n \in DOMAIN buf : (\A k \in DOMAIN stack : stack[k] # n)
                                => SiblingIsTrue(n)

-----------------------------------------------------------------------------
(* The inductive invariant behind ListsAreTheParents.                      *)

KernelType ==
    /\ tasks \subseteq Pids /\ zombies \subseteq tasks
    /\ in_execve \subseteq tasks \ zombies
    /\ real_parent \in [Pids -> Pids] /\ group_leader \in [Pids -> Pids]
    /\ children \in [Pids -> Seq(Pids)]
    /\ last_pid \in (FirstPid - 1)..MaxPid

\* Pids are given away once, threads keep their leader until the last of them is
\* gone, and init and swapper stay.
GroupInv ==
    /\ \A t \in tasks : t <= last_pid
    /\ \A t \in tasks : /\ group_leader[t] \in tasks
                        /\ group_leader[group_leader[t]] = group_leader[t]
    /\ \A z \in zombies : group_leader[z] = z
    /\ {swapper, init} \subseteq tasks \ zombies
    /\ group_leader[swapper] = swapper

TreeInv == KernelType /\ GroupInv /\ ListsAreTheParents

-----------------------------------------------------------------------------
(* The inductive invariant behind the rest: what the kernel promises about *)
(* ages, what dfs() has stored and has still to go over, and what is on    *)
(* display()'s stack.                                                      *)

\* The process of a parent is older than its child, though the thread that is
\* the parent may be younger.  swapper has no child but the first two tasks.
ElderInv ==
    /\ kthreadd \in tasks \ zombies /\ did_exec \subseteq tasks
    /\ group_leader[init] = init /\ real_parent[swapper] = swapper
    /\ \A t \in tasks : group_leader[t] = swapper => t = swapper
    /\ children[swapper] = <<init, kthreadd>>
    /\ \A c \in Processes \ {swapper} : group_leader[real_parent[c]] < c

\* What is stored, and what is to be stored.
Listed == [n \in DOMAIN buf |-> buf[n].pid]
Line   == Listed \o todo

\* q comes right after p in one of the lists.
Follows(kids, p, q) ==
    \E f \in Pids : \E k \in 1..(Len(kids[f]) - 1) :
       kids[f][k] = p /\ kids[f][k + 1] = q

\* Everybody but swapper is a child of one of the n that are stored, ...
ParentsListed(kids, line, n) ==
    \A l \in 2..Len(line) : \E k \in 1..n : k < l /\ line[l] \in Range(kids[line[k]])

\* ... whose children are all there, and whose first child comes next.
ChildrenListed(kids, line, n) ==
    \A k \in 1..n : /\ Range(kids[line[k]]) \subseteq Range(line)
                    /\ kids[line[k]] # <<>> =>
                          k < Len(line) /\ line[k + 1] = Head(kids[line[k]])

\* A sibling comes next, unless the children come first.
SiblingNext(kids, line, n) ==
    \A k \in 1..Len(line), q \in Pids :
       (k > n \/ kids[line[k]] = <<>>) /\ Follows(kids, line[k], q)
          => k < Len(line) /\ line[k + 1] = q

SiblingsInOrder(kids, line) ==
    \A k, l \in 1..Len(line) : Follows(kids, line[k], line[l]) => k < l

\* Between two siblings, nobody's sibling comes after them.
SiblingsNest(kids, line) ==
    \A o, m, k, l \in 1..Len(line) :
       o < m /\ m < k /\ k < l
          => ~(Follows(kids, line[o], line[k]) /\ Follows(kids, line[m], line[l]))

\* The order in which dfs() stores the first n of line and will store the rest.
DepthFirst(kids, line, n) ==
    /\ line \in Seq(Pids) /\ IsInjective(line) /\ n \in 0..Len(line)
    /\ line # <<>> /\ line[1] = swapper
    /\ ParentsListed(kids, line, n) /\ ChildrenListed(kids, line, n)
    /\ SiblingNext(kids, line, n)
    /\ SiblingsInOrder(kids, line) /\ SiblingsNest(kids, line)

DfsInv ==
    /\ pc \in {"main", "dfs", "display", "pop", "printed"}
    /\ todo \in Seq(Pids) /\ buf \in Seq(Entry)
    /\ pc = "dfs" <=> todo # <<>>
    /\ IF pc = "main" THEN buf = <<>> ELSE DepthFirst(children, Line, Len(buf))
    /\ pc \in {"main", "dfs"} => i = 1 /\ stack = <<>> /\ tabcnt = <<>>

\* An entry has the sibling that follows it, or none does.
TrueSibling(n) ==
    \/ Follows(children, buf[n].pid, buf[n].next_sibling_pid)
    \/ /\ buf[n].next_sibling_pid \in {0, ListHeadPid(real_parent[buf[n].pid])}
       /\ \A q \in Pids : ~Follows(children, buf[n].pid, q)

\* Every entry has its first child, and its sibling until that is displayed.
EntriesInv ==
    /\ \A n \in DOMAIN buf :
          buf[n].first_child_pid = IF children[buf[n].pid] = <<>> THEN 0
                                   ELSE Head(children[buf[n].pid])
    /\ \A n \in DOMAIN buf, q \in Pids :
          Follows(children, buf[n].pid, q)
             => buf[n].next_sibling_pid = q \/ \E l \in 1..(i - 1) : buf[l].pid = q
    /\ HeadsReadAsNobody => \A n \in DOMAIN buf : TrueSibling(n)

\* The entries on the stack s, in the order in which entries come before b.
Rising(s, b) ==
    /\ s \in Seq(1..(b - 1))
    /\ \A k, l \in 1..Len(s) : k < l => s[k] < s[l]
    /\ \A k \in 1..Len(s) : k <= s[k]

\* The stack has every entry whose sibling is not displayed yet.
StackInv ==
    /\ i \in 1..(Len(buf) + 1) /\ Rising(stack, i)
    /\ tabcnt \in Seq(0..Len(buf)) /\ Len(tabcnt) = i - 1
    /\ pc # "pop" /\ i > 1 => stack # <<>> /\ stack[Len(stack)] = i - 1
    /\ pc = "pop" => /\ i <= Len(buf)
                     /\ \E k \in DOMAIN stack :
                           Follows(children, buf[stack[k]].pid, buf[i].pid)
    /\ pc = "printed" => i = Len(buf) + 1
    /\ pc # "dfs" => \A m \in 1..(i - 1), l \in i..Len(buf) :
                        Follows(children, buf[m].pid, buf[l].pid) => m \in Range(stack)

\* ... and, if no head of a list is taken for a process, no other.  Its height is
\* the depth of the entry on top.
DepthInv ==
    /\ \A m \in Range(stack), l \in 1..(i - 1) : ~Follows(children, buf[m].pid, buf[l].pid)
    /\ \A m \in 1..(i - 1) :
          \/ m \in Range(stack) \/ buf[m].next_sibling_pid = 0
          \/ Follows(children, buf[m].pid, buf[m].next_sibling_pid)
    /\ \A k \in DOMAIN stack : Cardinality(AncestorsOf(buf[stack[k]].pid)) = k - 1
    /\ \A n \in 1..(i - 1) : tabcnt[n] = Cardinality(AncestorsOf(buf[n].pid))

PtreeInv == /\ TreeInv /\ ElderInv
            /\ DfsInv /\ EntriesInv /\ StackInv
            /\ HeadsReadAsNobody => DepthInv

=============================================================================
