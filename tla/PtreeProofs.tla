---------------------------- MODULE PtreeProofs ----------------------------
(***************************************************************************)
(* For any number of tasks: the lists that ptree() walks are the tree of   *)
(* the processes that exist, dfs() stores them in the order of a depth-    *)
(* first walk, and from that order display() finds the depths and mends    *)
(* the siblings with a stack that never runs empty.                        *)
(***************************************************************************)
EXTENDS ProcessTree, FiniteSetTheorems, TLAPS

-----------------------------------------------------------------------------
(* Lists without repetitions.                                              *)

\* The child that fork() appends.
LEMMA AppendKeeps ==
    ASSUME NEW S, NEW s \in Seq(S), NEW x \in S, IsInjective(s), x \notin Range(s)
    PROVE  /\ Append(s, x) \in Seq(S) /\ IsInjective(Append(s, x))
           /\ Range(Append(s, x)) = Range(s) \cup {x}
<1> DEFINE t == Append(s, x)
<1>1. /\ t \in Seq(S) /\ Len(s) \in Nat /\ DOMAIN s = 1..Len(s)
      /\ DOMAIN t = 1..(Len(s) + 1) /\ t[Len(s) + 1] = x
      /\ \A k \in 1..Len(s) : t[k] = s[k]
  OBVIOUS
<1> HIDE DEF t
<1>2. \A k \in 1..Len(s) : t[k] # x
  BY <1>1 DEF Range
<1>3. IsInjective(t)
  BY <1>1, <1>2 DEF IsInjective
<1>4. Range(t) = Range(s) \cup {x}
  BY <1>1 DEF Range
<1> QED
  BY <1>1, <1>3, <1>4 DEF t

LEMMA ConcatFacts ==
    ASSUME NEW S, NEW s \in Seq(S), NEW u \in Seq(S)
    PROVE  /\ s \o u \in Seq(S) /\ Len(s \o u) = Len(s) + Len(u)
           /\ \A k \in 1..Len(s) : (s \o u)[k] = s[k]
           /\ \A k \in (Len(s) + 1)..(Len(s) + Len(u)) : (s \o u)[k] = u[k - Len(s)]
OBVIOUS

\* The children that a reaper adopts.
LEMMA ConcatKeeps ==
    ASSUME NEW S, NEW s \in Seq(S), NEW u \in Seq(S), IsInjective(s), IsInjective(u),
           Range(s) \cap Range(u) = {}
    PROVE  /\ s \o u \in Seq(S) /\ IsInjective(s \o u)
           /\ Range(s \o u) = Range(s) \cup Range(u)
<1> DEFINE t == s \o u
           m == Len(s)
           n == Len(u)
<1>1. /\ t \in Seq(S) /\ m \in Nat /\ n \in Nat
      /\ DOMAIN s = 1..m /\ DOMAIN u = 1..n /\ DOMAIN t = 1..(m + n)
      /\ \A k \in 1..m : t[k] = s[k]
      /\ \A k \in (m + 1)..(m + n) : t[k] = u[k - m]
  OBVIOUS
<1> HIDE DEF t, m, n
<1>2. /\ \A k \in 1..m : t[k] \in Range(s)
      /\ \A k \in (m + 1)..(m + n) : k - m \in 1..n /\ t[k] \in Range(u)
  <2>1. \A k \in (m + 1)..(m + n) : k - m \in 1..n
    BY <1>1
  <2>2. \A k \in 1..n : u[k] \in Range(u)
    BY <1>1 DEF Range
  <2>3. \A k \in 1..m : t[k] \in Range(s)
    BY <1>1 DEF Range
  <2> QED
    BY <1>1, <2>1, <2>2, <2>3
<1>3. IsInjective(t)
  <2> SUFFICES ASSUME NEW a \in 1..(m + n), NEW b \in 1..(m + n), t[a] = t[b] PROVE a = b
    BY <1>1 DEF IsInjective
  <2>1. CASE a \in 1..m /\ b \in 1..m
    BY <1>1, <2>1 DEF IsInjective
  <2>2. CASE a \in (m + 1)..(m + n) /\ b \in (m + 1)..(m + n)
    <3>1. u[a - m] = u[b - m] /\ a - m \in 1..n /\ b - m \in 1..n
      BY <1>1, <1>2, <2>2
    <3>2. a - m = b - m
      BY <1>1, <3>1 DEF IsInjective
    <3> QED
      BY <1>1, <3>2
  <2>3. ~(a \in 1..m /\ b \in (m + 1)..(m + n)) /\ ~(b \in 1..m /\ a \in (m + 1)..(m + n))
    BY <1>2
  <2> QED
    BY <1>1, <2>1, <2>2, <2>3
<1>4. Range(t) = Range(s) \cup Range(u)
  <2>1. \A k \in 1..n : k + m \in (m + 1)..(m + n) /\ t[k + m] = u[k]
    BY <1>1
  <2>2. Range(s) \subseteq Range(t)
    BY <1>1 DEF Range
  <2>3. Range(u) \subseteq Range(t)
    BY <1>1, <2>1 DEF Range
  <2>4. Range(t) \subseteq Range(s) \cup Range(u)
    <3> SUFFICES ASSUME NEW k \in 1..(m + n) PROVE t[k] \in Range(s) \cup Range(u)
      BY <1>1 DEF Range
    <3> QED
      BY <1>1, <1>2
  <2> QED
    BY <2>2, <2>3, <2>4
<1> QED
  BY <1>1, <1>3, <1>4 DEF t

\* The child that is unlinked when it is released.
LEMMA RemoveKeeps ==
    ASSUME NEW S, NEW s \in Seq(S), IsInjective(s), NEW x \in Range(s)
    PROVE  LET t == RemoveAt(s, LinkOf(x, s))
           IN  t \in Seq(S) /\ IsInjective(t) /\ Range(t) = Range(s) \ {x}
<1> DEFINE k == LinkOf(x, s)
           n == Len(s)
           t == RemoveAt(s, k)
<1>1. n \in Nat /\ DOMAIN s = 1..n
  OBVIOUS
<1>2. k \in 1..n /\ s[k] = x
  BY <1>1 DEF Range, LinkOf
<1> DEFINE a == SubSeq(s, 1, k - 1)
           b == SubSeq(s, k + 1, n)
<1> HIDE DEF k, n
<1>3. /\ a \in Seq(S) /\ Len(a) = k - 1 /\ DOMAIN a = 1..(k - 1)
      /\ \A j \in 1..(k - 1) : a[j] = s[j]
  BY <1>1, <1>2 DEF n
<1>4. /\ b \in Seq(S) /\ Len(b) = n - k /\ DOMAIN b = 1..(n - k)
      /\ \A j \in 1..(n - k) : b[j] = s[k + j]
  <2>1. k + 1 \in Nat /\ k \in Nat /\ n - k \in Nat /\ k + 1 <= n + 1
    BY <1>1, <1>2
  <2>2. \A j \in (k + 1)..n : j \in DOMAIN s
    BY <1>1, <2>1
  <2>3. b \in Seq(S)
    BY <1>1, <2>1, <2>2
  <2>4. Len(b) = n - k
    BY <1>1, <2>1
  <2>5. \A j \in 1..(n - k) : b[j] = s[(k + 1) + j - 1] /\ (k + 1) + j - 1 = k + j
    BY <1>1, <2>1
  <2>6. DOMAIN b = 1..(n - k)
    BY <2>3, <2>4
  <2> QED
    BY <2>3, <2>4, <2>5, <2>6
<1>5. t = a \o b
  BY DEF RemoveAt, n
<1> HIDE DEF a, b, t
<1>6. IsInjective(a) /\ IsInjective(b)
  <2>1. ASSUME NEW p \in 1..(k - 1), NEW q \in 1..(k - 1), s[p] = s[q] PROVE p = q
    BY <1>1, <1>2, <2>1 DEF IsInjective
  <2>2. ASSUME NEW p \in 1..(n - k), NEW q \in 1..(n - k), s[k + p] = s[k + q] PROVE p = q
    <3>1. k + p \in 1..n /\ k + q \in 1..n
      BY <1>1, <1>2
    <3>2. k + p = k + q
      BY <1>1, <2>2, <3>1 DEF IsInjective
    <3> QED
      BY <1>1, <1>2, <3>2
  <2> QED
    BY <1>3, <1>4, <2>1, <2>2 DEF IsInjective
<1>7. \A j \in 1..n : j # k => s[j] # x
  BY <1>1, <1>2 DEF IsInjective
<1>8. Range(a) = {s[j] : j \in 1..(k - 1)} /\ Range(b) = {s[j] : j \in (k + 1)..n}
  <2>1. \A j \in (k + 1)..n : j - k \in 1..(n - k) /\ b[j - k] = s[j]
    BY <1>1, <1>2, <1>4
  <2>2. \A j \in 1..(n - k) : k + j \in (k + 1)..n
    BY <1>1, <1>2
  <2>3. Range(a) = {s[j] : j \in 1..(k - 1)}
    BY <1>3 DEF Range
  <2>4. Range(b) = {s[j] : j \in (k + 1)..n}
    BY <1>4, <2>1, <2>2 DEF Range
  <2> QED
    BY <2>3, <2>4
<1>9. Range(a) \cap Range(b) = {}
  <2> SUFFICES ASSUME NEW i0 \in 1..(k - 1), NEW j0 \in (k + 1)..n, s[i0] = s[j0] PROVE FALSE
    BY <1>8
  <2>1. i0 \in 1..n /\ j0 \in 1..n /\ i0 # j0
    BY <1>1, <1>2
  <2> QED
    BY <1>1, <2>1 DEF IsInjective
<1>10. t \in Seq(S) /\ IsInjective(t) /\ Range(t) = Range(a) \cup Range(b)
  BY <1>3, <1>4, <1>5, <1>6, <1>9, ConcatKeeps
<1>11. Range(a) \cup Range(b) = Range(s) \ {x}
  <2>1. Range(s) = {s[j] : j \in 1..n}
    BY <1>1 DEF Range
  <2>2. \A j \in 1..n : j \in 1..(k - 1) \/ j = k \/ j \in (k + 1)..n
    BY <1>1, <1>2
  <2>3. /\ \A j \in 1..(k - 1) : j \in 1..n /\ j # k
        /\ \A j \in (k + 1)..n : j \in 1..n /\ j # k
    BY <1>1, <1>2
  <2>4. \A y : y \in Range(s) \ {x} => y \in Range(a) \cup Range(b)
    BY <1>2, <1>8, <2>1, <2>2
  <2>5. \A y : y \in Range(a) \cup Range(b) => y \in Range(s) \ {x}
    BY <1>7, <1>8, <2>1, <2>3
  <2> QED
    BY <2>4, <2>5
<1> QED
  BY <1>10, <1>11 DEF t, k

-----------------------------------------------------------------------------
(* The tasks.                                                              *)

LEMMA PidFacts ==
    /\ MaxPid \in Nat /\ FirstPid \in Nat /\ 8 <= FirstPid /\ FirstPid <= MaxPid
    /\ Pids \subseteq Nat /\ {swapper, init, kthreadd} \subseteq Pids
    /\ swapper = 0 /\ init = 1 /\ kthreadd = 2
<1>1. MaxPid \in Nat /\ FirstPid \in Nat /\ 8 <= FirstPid /\ FirstPid <= MaxPid
  BY PidsOK
<1>2. swapper = 0 /\ init = 1 /\ kthreadd = 2
  BY DEF swapper, init, kthreadd
<1>3. FirstPid..MaxPid \subseteq Nat
  BY <1>1
<1> QED
  BY <1>1, <1>2, <1>3 DEF Pids

\* The pid given away next is nobody's.
LEMMA NewPid ==
    ASSUME TreeInv, last_pid + 1 \leq MaxPid
    PROVE  /\ last_pid + 1 \in Pids \ tasks /\ last_pid + 1 \notin {swapper, init, kthreadd}
           /\ last_pid + 1 \in (FirstPid - 1)..MaxPid
           /\ \A t \in tasks : t <= last_pid + 1
<1>1. last_pid \in Nat /\ FirstPid - 1 <= last_pid /\ last_pid <= MaxPid
  BY PidFacts DEF TreeInv, KernelType
<1>2. \A t \in tasks : t \in Nat /\ t <= last_pid
  BY PidFacts DEF TreeInv, KernelType, GroupInv
<1>3. last_pid + 1 \in FirstPid..MaxPid
  BY <1>1, PidFacts
<1>4. last_pid + 1 \notin tasks
  BY <1>1, <1>2
<1>5. \A t \in tasks : t <= last_pid + 1
  BY <1>1, <1>2
<1>6. last_pid + 1 \notin {swapper, init, kthreadd}
  BY <1>1, PidFacts
<1>7. last_pid + 1 \in (FirstPid - 1)..MaxPid
  BY <1>3, PidFacts
<1> QED
  BY <1>3, <1>4, <1>5, <1>6, <1>7 DEF Pids

\* The lists of a task and of another have nothing in common.
LEMMA ListsApart ==
    ASSUME TreeInv, NEW p \in Pids, NEW q \in Pids, p # q
    PROVE  Range(children[p]) \cap Range(children[q]) = {}
BY DEF TreeInv, ListsAreTheParents

LEMMA ForkKeeps == ASSUME TreeInv, NEW p \in Pids, fork(p) PROVE TreeInv'
<1> DEFINE n == last_pid + 1
<1>1. /\ p \in tasks \ (zombies \cup in_execve \cup {swapper}) /\ n \leq MaxPid
      /\ last_pid' = n /\ tasks' = tasks \cup {n}
      /\ real_parent' = [real_parent EXCEPT ![n] = p]
      /\ group_leader' = [group_leader EXCEPT ![n] = n]
      /\ children' = [children EXCEPT ![p] = Append(children[p], n)]
      /\ zombies' = zombies /\ in_execve' = in_execve
  BY DEF fork, Runs
<1>2. /\ n \in Pids \ tasks /\ n \notin {swapper, init, kthreadd}
      /\ n \in (FirstPid - 1)..MaxPid /\ \A t \in tasks : t <= n
      /\ n <= n
  <2>1. n \in Nat
    BY <1>1, NewPid, PidFacts
  <2>2. n <= n
    BY <2>1
  <2> QED
    BY <1>1, <2>2, NewPid
<1>t. KernelType /\ GroupInv /\ ListsAreTheParents
  BY DEF TreeInv
<1> HIDE DEF n
<1>3. /\ Append(children[p], n) \in Seq(Pids) /\ IsInjective(Append(children[p], n))
      /\ Range(Append(children[p], n)) = Range(children[p]) \cup {n}
  <2>1. n \notin Range(children[p])
    BY <1>2, <1>t DEF ListsAreTheParents, Processes
  <2>2. children[p] \in Seq(Pids) /\ IsInjective(children[p]) /\ n \in Pids
    BY <1>2, <1>t DEF KernelType, ListsAreTheParents
  <2> QED
    BY <2>1, <2>2, AppendKeeps
<1>4. KernelType'
  BY <1>1, <1>2, <1>3, <1>t DEF KernelType
<1>5. GroupInv'
  <2>1. \A t \in tasks' : t <= last_pid'
    BY <1>1, <1>2
  <2>2. /\ \A t \in tasks : group_leader'[t] = group_leader[t] /\ group_leader[t] \in tasks
        /\ group_leader'[n] = n
    BY <1>1, <1>2, <1>t DEF KernelType, GroupInv
  <2>3. \A t \in tasks' : /\ group_leader'[t] \in tasks'
                          /\ group_leader'[group_leader'[t]] = group_leader'[t]
    BY <1>1, <2>2, <1>t DEF GroupInv
  <2> QED
    BY <1>1, <2>1, <2>2, <2>3, <1>t DEF GroupInv, KernelType
<1>6. Processes' = Processes \cup {n} /\ n \notin Processes
  <2>1. \A t \in tasks : group_leader'[t] = group_leader[t]
    BY <1>1, <1>2, <1>t DEF KernelType
  <2>2. group_leader'[n] = n
    BY <1>1, <1>2, <1>t DEF KernelType
  <2> QED
    BY <1>1, <1>2, <2>1, <2>2 DEF Processes
<1>7. /\ \A t \in tasks : real_parent'[t] = real_parent[t]
      /\ real_parent'[n] = p
  BY <1>1, <1>2, <1>t DEF KernelType
<1>8. ASSUME NEW q \in Pids
      PROVE  /\ IsInjective(children'[q])
             /\ Range(children'[q]) =
                  {c \in Processes' \ {swapper} : real_parent'[c] = q}
  <2>0. IsInjective(children[q]) /\ Range(children[q]) =
                  {c \in Processes \ {swapper} : real_parent[c] = q}
    BY <1>t DEF ListsAreTheParents
  <2>1. {c \in Processes' \ {swapper} : real_parent'[c] = q} =
           {c \in Processes \ {swapper} : real_parent[c] = q} \cup
           (IF q = p THEN {n} ELSE {})
    BY <1>2, <1>6, <1>7 DEF Processes
  <2>2. CASE q = p
    <3>1. children'[q] = Append(children[p], n)
      BY <1>1, <1>t, <2>2 DEF KernelType
    <3> QED
      BY <1>3, <2>0, <2>1, <2>2, <3>1
  <2>3. CASE q # p
    <3>1. children'[q] = children[q]
      BY <1>1, <1>t, <2>3 DEF KernelType
    <3> QED
      BY <2>0, <2>1, <2>3, <3>1
  <2> QED
    BY <2>2, <2>3
<1>9. \A t \in tasks' : real_parent'[t] \in tasks' \ zombies'
  <2>1. \A t \in tasks : real_parent[t] \in tasks \ zombies
    BY <1>t DEF ListsAreTheParents
  <2> QED
    BY <1>1, <1>7, <2>1
<1>10. ListsAreTheParents'
  BY <1>8, <1>9 DEF ListsAreTheParents
<1> QED
  BY <1>4, <1>5, <1>10 DEF TreeInv

LEMMA CloneKeeps == ASSUME TreeInv, NEW p \in Pids, clone_thread(p) PROVE TreeInv'
<1> DEFINE n == last_pid + 1
<1>1. /\ p \in tasks \ (zombies \cup in_execve \cup {swapper}) /\ n \leq MaxPid
      /\ last_pid' = n /\ tasks' = tasks \cup {n}
      /\ real_parent' = [real_parent EXCEPT ![n] = real_parent[p]]
      /\ group_leader' = [group_leader EXCEPT ![n] = group_leader[p]]
      /\ children' = children
      /\ zombies' = zombies /\ in_execve' = in_execve
  BY DEF clone_thread, Runs
<1>2. /\ n \in Pids \ tasks /\ n \notin {swapper, init, kthreadd}
      /\ n \in (FirstPid - 1)..MaxPid /\ \A t \in tasks : t <= n
      /\ n <= n
  <2>1. n \in Nat
    BY <1>1, NewPid, PidFacts
  <2>2. n <= n
    BY <2>1
  <2> QED
    BY <1>1, <2>2, NewPid
<1>t. KernelType /\ GroupInv /\ ListsAreTheParents
  BY DEF TreeInv
<1> HIDE DEF n
<1>3. KernelType'
  BY <1>1, <1>2, <1>t DEF KernelType
<1>4. /\ \A t \in tasks : group_leader'[t] = group_leader[t] /\ group_leader[t] \in tasks
      /\ group_leader'[n] = group_leader[p]
      /\ \A t \in tasks : real_parent'[t] = real_parent[t]
      /\ real_parent'[n] = real_parent[p]
  BY <1>1, <1>2, <1>t DEF KernelType, GroupInv
<1>5. GroupInv'
  <2>1. \A t \in tasks' : t <= last_pid'
    BY <1>1, <1>2
  <2>2. \A t \in tasks' : /\ group_leader'[t] \in tasks'
                          /\ group_leader'[group_leader'[t]] = group_leader'[t]
    BY <1>1, <1>4, <1>t DEF GroupInv
  <2> QED
    BY <1>1, <1>4, <2>1, <2>2, <1>t DEF GroupInv, KernelType
<1>6. Processes' = Processes
  <2>1. group_leader[p] # n
    BY <1>1, <1>2, <1>4
  <2> QED
    BY <1>1, <1>2, <1>4, <2>1 DEF Processes
<1>7. \A q \in Pids : {c \in Processes' \ {swapper} : real_parent'[c] = q} =
                      {c \in Processes \ {swapper} : real_parent[c] = q}
  BY <1>4, <1>6 DEF Processes
<1>8. \A t \in tasks' : real_parent'[t] \in tasks' \ zombies'
  <2>1. \A t \in tasks : real_parent[t] \in tasks \ zombies
    BY <1>t DEF ListsAreTheParents
  <2> QED
    BY <1>1, <1>4, <2>1
<1>9. ListsAreTheParents'
  BY <1>1, <1>7, <1>8, <1>t DEF ListsAreTheParents
<1> QED
  BY <1>3, <1>5, <1>9 DEF TreeInv

\* Who adopts is alive, and is not the one that exits.
LEMMA ReaperIsAlive ==
    ASSUME TreeInv, NEW p \in Pids, p \notin {init, kthreadd}, NEW q \in Reapers(p)
    PROVE  q \in tasks \ zombies /\ q # p
<1>1. Threads(p) \subseteq tasks
  BY DEF Threads
<1>2. init \in tasks \ zombies
  BY DEF TreeInv, GroupInv
<1> QED
  BY <1>1, <1>2 DEF Reapers

LEMMA ExitKeeps == ASSUME TreeInv, NEW p \in Pids, exit_notify(p) PROVE TreeInv'
<1>1. /\ p \in tasks \ (zombies \cup in_execve \cup {swapper}) /\ p \notin {init, kthreadd}
      /\ group_leader' = group_leader /\ in_execve' = in_execve /\ last_pid' = last_pid
  BY DEF exit_notify, Runs
<1>2. PICK reaper \in Reapers(p) :
             /\ real_parent' = [t \in Pids |->
                   IF t \in tasks /\ real_parent[t] = p THEN reaper ELSE real_parent[t]]
             /\ children' = [children EXCEPT ![reaper] = children[reaper] \o children[p],
                                             ![p] = <<>>]
  BY DEF exit_notify
<1>3. \/ /\ group_leader[p] = p
         /\ zombies' = zombies \cup {p} /\ tasks' = tasks
      \/ /\ group_leader[p] # p
         /\ tasks' = tasks \ {p} /\ zombies' = zombies
  BY DEF exit_notify
<1>t. KernelType /\ GroupInv /\ ListsAreTheParents
  BY DEF TreeInv
<1>4. reaper \in tasks \ zombies /\ reaper # p /\ reaper \in Pids
  BY <1>1, <1>t, ReaperIsAlive DEF KernelType
<1>5. tasks' \ zombies' = (tasks \ zombies) \ {p} /\ tasks' \subseteq tasks
  BY <1>1, <1>3
<1>6. LET list == children[reaper] \o children[p]
      IN  /\ list \in Seq(Pids) /\ IsInjective(list)
          /\ Range(list) = Range(children[reaper]) \cup Range(children[p])
  <2>1. /\ children[reaper] \in Seq(Pids) /\ IsInjective(children[reaper])
        /\ children[p] \in Seq(Pids) /\ IsInjective(children[p])
    BY <1>4, <1>t DEF KernelType, ListsAreTheParents
  <2>2. Range(children[reaper]) \cap Range(children[p]) = {}
    BY <1>4, ListsApart
  <2> QED
    BY <2>1, <2>2, ConcatKeeps
<1>7. /\ children'[reaper] = children[reaper] \o children[p]
      /\ children'[p] = <<>>
      /\ \A q \in Pids : q # p /\ q # reaper => children'[q] = children[q]
  BY <1>2, <1>4, <1>t DEF KernelType
<1>8. KernelType'
  <2>1. children' \in [Pids -> Seq(Pids)]
    <3>1. \A q \in Pids : children'[q] \in Seq(Pids)
      <4>1. <<>> \in Seq(Pids)
        OBVIOUS
      <4> QED
        BY <1>6, <1>7, <4>1, <1>t DEF KernelType
    <3>2. children' = [q \in Pids |-> children'[q]]
      BY <1>2, <1>t DEF KernelType
    <3> QED
      BY <3>1, <3>2
  <2>2. real_parent' \in [Pids -> Pids]
    BY <1>2, <1>4, <1>t DEF KernelType
  <2>3. /\ tasks' \subseteq Pids /\ zombies' \subseteq tasks'
        /\ in_execve' \subseteq tasks' \ zombies'
    <3>1. p \notin zombies /\ p \notin in_execve
      BY <1>1
    <3> QED
      BY <1>1, <1>3, <3>1, <1>t DEF KernelType
  <2> QED
    BY <1>1, <2>1, <2>2, <2>3, <1>t DEF KernelType
<1>9. GroupInv'
  <2>1. \A t \in tasks' : t <= last_pid'
    BY <1>1, <1>5, <1>t DEF GroupInv
  <2>2. \A t \in tasks' : /\ group_leader'[t] \in tasks'
                          /\ group_leader'[group_leader'[t]] = group_leader'[t]
    <3> SUFFICES ASSUME NEW t \in tasks' PROVE group_leader[t] \in tasks'
      BY <1>1, <1>5, <1>t DEF GroupInv
    <3>1. group_leader[t] \in tasks /\ group_leader[group_leader[t]] = group_leader[t]
      BY <1>5, <1>t DEF GroupInv
    <3> QED
      BY <1>3, <3>1
  <2>3. \A z \in zombies' : group_leader'[z] = z
    BY <1>1, <1>3, <1>t DEF GroupInv
  <2>4. {swapper, init} \subseteq tasks' \ zombies'
    BY <1>1, <1>5, <1>t DEF GroupInv
  <2> QED
    BY <1>1, <2>1, <2>2, <2>3, <2>4, <1>t DEF GroupInv
<1>10. Processes' = Processes
  BY <1>1, <1>3 DEF Processes
<1>11. \A t \in tasks : real_parent'[t] = IF real_parent[t] = p THEN reaper
                                                               ELSE real_parent[t]
  BY <1>2, <1>t DEF KernelType
<1>12. ASSUME NEW q \in Pids
       PROVE  /\ IsInjective(children'[q])
              /\ Range(children'[q]) =
                   {c \in Processes' \ {swapper} : real_parent'[c] = q}
  <2> DEFINE kids(x) == {c \in Processes \ {swapper} : real_parent[c] = x}
  <2>0. \A x \in Pids : IsInjective(children[x]) /\ Range(children[x]) = kids(x)
    BY <1>t DEF ListsAreTheParents
  <2>1. {c \in Processes' \ {swapper} : real_parent'[c] = q} =
           CASE q = reaper -> kids(reaper) \cup kids(p)
             [] q = p      -> {}
             [] OTHER      -> kids(q)
    <3>1. \A c \in Processes : real_parent'[c] = IF real_parent[c] = p THEN reaper
                                                                      ELSE real_parent[c]
      BY <1>11 DEF Processes
    <3>2. CASE q = reaper
      BY <1>4, <1>10, <3>1, <3>2
    <3>3. CASE q = p
      BY <1>4, <1>10, <3>1, <3>3
    <3>4. CASE q # p /\ q # reaper
      BY <1>10, <3>1, <3>4
    <3> QED
      BY <3>2, <3>3, <3>4
  <2>2. CASE q = reaper
    BY <1>4, <1>6, <1>7, <2>0, <2>1, <2>2
  <2>3. CASE q = p
    <3>1. children'[q] = <<>> /\ {c \in Processes' \ {swapper} : real_parent'[c] = q} = {}
      BY <1>4, <1>7, <2>1, <2>3
    <3> QED
      BY <3>1 DEF IsInjective, Range
  <2>4. CASE q # p /\ q # reaper
    BY <1>7, <2>0, <2>1, <2>4
  <2> QED
    BY <2>2, <2>3, <2>4
<1>13. \A t \in tasks' : real_parent'[t] \in tasks' \ zombies'
  <2>1. \A t \in tasks : real_parent[t] \in tasks \ zombies
    BY <1>t DEF ListsAreTheParents
  <2> QED
    BY <1>4, <1>5, <1>11, <2>1
<1>14. ListsAreTheParents'
  BY <1>12, <1>13 DEF ListsAreTheParents
<1> QED
  BY <1>8, <1>9, <1>14 DEF TreeInv

LEMMA ReleaseKeeps == ASSUME TreeInv, NEW p \in Pids, release_task(p) PROVE TreeInv'
<1> DEFINE f == real_parent[p]
           list == RemoveAt(children[f], LinkOf(p, children[f]))
<1>1. /\ p \in zombies /\ Threads(p) = {p}
      /\ tasks' = tasks \ {p} /\ zombies' = zombies \ {p}
      /\ children' = [children EXCEPT ![f] = list]
      /\ UNCHANGED <<real_parent, group_leader, in_execve, last_pid>>
  BY DEF release_task
<1>0. p \notin in_execve
  BY <1>1 DEF TreeInv, KernelType
<1>t. KernelType /\ GroupInv /\ ListsAreTheParents
  BY DEF TreeInv
<1>2. p \in tasks /\ group_leader[p] = p /\ p \notin {swapper, init} /\ f \in Pids
  BY <1>1, <1>t DEF KernelType, GroupInv
<1> HIDE DEF f, list
<1>3. list \in Seq(Pids) /\ IsInjective(list) /\ Range(list) = Range(children[f]) \ {p}
  <2>1. p \in Range(children[f])
    BY <1>2, <1>t DEF ListsAreTheParents, Processes, f
  <2>2. children[f] \in Seq(Pids) /\ IsInjective(children[f])
    BY <1>2, <1>t DEF KernelType, ListsAreTheParents
  <2> QED
    BY <2>1, <2>2, RemoveKeeps DEF list
<1>4. KernelType'
  BY <1>0, <1>1, <1>3, <1>t DEF KernelType
<1>5. GroupInv'
  <2>1. ASSUME NEW t \in tasks' PROVE group_leader[t] \in tasks'
    <3>1. t \in tasks /\ t # p /\ group_leader[t] \in tasks
      BY <1>1, <1>t DEF GroupInv
    <3>2. group_leader[t] # p
      BY <1>1, <1>2, <3>1 DEF Threads
    <3> QED
      BY <1>1, <3>1, <3>2
  <2> QED
    BY <1>1, <1>2, <2>1, <1>t DEF GroupInv
<1>6. Processes' = Processes \ {p}
  BY <1>1 DEF Processes
<1>7. ASSUME NEW q \in Pids
      PROVE  /\ IsInjective(children'[q])
             /\ Range(children'[q]) =
                  {c \in Processes' \ {swapper} : real_parent'[c] = q}
  <2>0. /\ IsInjective(children[q])
        /\ Range(children[q]) = {c \in Processes \ {swapper} : real_parent[c] = q}
    BY <1>t DEF ListsAreTheParents
  <2>1. {c \in Processes' \ {swapper} : real_parent'[c] = q} = Range(children[q]) \ {p}
    BY <1>1, <1>6, <2>0
  <2>2. CASE q = f
    <3>1. children'[q] = list
      BY <1>1, <1>t, <2>2 DEF KernelType
    <3> QED
      BY <1>3, <2>1, <2>2, <3>1
  <2>3. CASE q # f
    <3>1. children'[q] = children[q]
      BY <1>1, <1>t, <2>3 DEF KernelType
    <3>2. p \notin Range(children[q])
      BY <2>0, <2>3 DEF f
    <3> QED
      BY <2>0, <2>1, <3>1, <3>2
  <2> QED
    BY <2>2, <2>3
<1>8. \A t \in tasks' : real_parent'[t] \in tasks' \ zombies'
  <2>1. \A t \in tasks : real_parent[t] \in tasks \ zombies
    BY <1>t DEF ListsAreTheParents
  <2> QED
    BY <1>1, <2>1
<1>9. ListsAreTheParents'
  BY <1>7, <1>8 DEF ListsAreTheParents
<1> QED
  BY <1>4, <1>5, <1>9 DEF TreeInv

\* A step that leaves the tree alone.
LEMMA TreeStays ==
    ASSUME TreeInv, in_execve' \subseteq tasks \ zombies,
           UNCHANGED <<tasks, zombies, real_parent, group_leader, children, last_pid>>
    PROVE  TreeInv'
<1>1. KernelType'
  BY DEF TreeInv, KernelType
<1>2. GroupInv'
  BY DEF TreeInv, GroupInv
<1>3. ListsAreTheParents'
  BY DEF TreeInv, ListsAreTheParents, Processes
<1> QED
  BY <1>1, <1>2, <1>3 DEF TreeInv

LEMMA TreeInit == Init => TreeInv
<1> SUFFICES ASSUME Init PROVE TreeInv
  OBVIOUS
<1> USE PidFacts
<1>1. KernelType
  <2>1. children \in [Pids -> Seq(Pids)]
    BY DEF Init
  <2>2. last_pid \in (FirstPid - 1)..MaxPid
    BY DEF Init
  <2> QED
    BY <2>1, <2>2 DEF Init, KernelType
<1>2. GroupInv
  <2>1. \A t \in tasks : t <= last_pid
    BY DEF Init
  <2> QED
    BY <2>1 DEF Init, GroupInv
<1>3. ListsAreTheParents
  <2>1. Processes = {swapper, init, kthreadd}
    BY DEF Init, Processes
  <2>2. ASSUME NEW p \in Pids
        PROVE  /\ IsInjective(children[p])
               /\ Range(children[p]) = {c \in Processes \ {swapper} : real_parent[c] = p}
    <3>1. CASE p = swapper
      <4>1. children[p] = <<init, kthreadd>>
        BY <3>1 DEF Init
      <4>2. DOMAIN children[p] = {1, 2} /\ children[p][1] = init /\ children[p][2] = kthreadd
        BY <4>1
      <4>3. IsInjective(children[p])
        BY <4>2 DEF IsInjective
      <4>4. Range(children[p]) = {init, kthreadd}
        BY <4>2 DEF Range
      <4>5. {c \in Processes \ {swapper} : real_parent[c] = p} = {init, kthreadd}
        BY <2>1, <3>1 DEF Init
      <4> QED
        BY <4>3, <4>4, <4>5
    <3>2. CASE p # swapper
      <4>1. children[p] = <<>>
        BY <3>2 DEF Init
      <4>2. {c \in Processes \ {swapper} : real_parent[c] = p} = {}
        BY <2>1, <3>2 DEF Init
      <4> QED
        BY <4>1, <4>2 DEF IsInjective, Range
    <3> QED
      BY <3>1, <3>2
  <2>3. \A t \in tasks : real_parent[t] \in tasks \ zombies
    BY DEF Init
  <2> QED
    BY <2>2, <2>3 DEF ListsAreTheParents
<1> QED
  BY <1>1, <1>2, <1>3 DEF TreeInv

LEMMA TreeNext == TreeInv /\ [Next]_vars => TreeInv'
<1> SUFFICES ASSUME TreeInv, [Next]_vars PROVE TreeInv'
  OBVIOUS
<1>t. in_execve \subseteq tasks \ zombies
  BY DEF TreeInv, KernelType
<1>1. CASE UNCHANGED kernelVars
  BY <1>1, <1>t, TreeStays DEF kernelVars
<1>2. ASSUME NEW p \in Pids, TaskStep(p) PROVE TreeInv'
  <2>1. CASE ExecStart(p) \/ search_binary_handler(p) \/ ExecEnd(p)
    <3>1. /\ in_execve' \subseteq tasks \ zombies
          /\ UNCHANGED <<tasks, zombies, real_parent, group_leader, children, last_pid>>
      BY <1>t, <2>1 DEF ExecStart, search_binary_handler, ExecEnd, Runs
    <3> QED
      BY <3>1, TreeStays
  <2> QED
    BY <1>2, <2>1, ForkKeeps, CloneKeeps, ExitKeeps, ReleaseKeeps DEF TaskStep
<1>3. UNCHANGED vars \/ ptree \/ dfs \/ display \/ main => UNCHANGED kernelVars
  BY DEF vars, kernelVars, ptree, dfs, display, DisplayEntry, DisplayPop, DisplaySibling,
         DisplayPrint, main
<1> QED
  BY <1>1, <1>2, <1>3 DEF Next

\* For any number of tasks and any order of fork(), clone(), execve(), exit() and
\* wait(), the lists of children that dfs() follows are those of the parents that
\* convert() reports: every process but the first is on exactly one list, once,
\* and its parent is alive.
THEOREM TreeStaysLinked == Spec => []ListsAreTheParents
<1>1. TreeInv => ListsAreTheParents
  BY DEF TreeInv
<1> QED
  BY TreeInit, TreeNext, <1>1, PTL DEF Spec

-----------------------------------------------------------------------------
(* Ages.                                                                   *)

\* Whose child a task is tells whose list it is in.
LEMMA ListOf ==
    ASSUME TreeInv, ElderInv
    PROVE  /\ real_parent[init] = swapper /\ real_parent[kthreadd] = swapper
           /\ \A c \in Processes \ {swapper} : real_parent[c] = swapper => c \in {init, kthreadd}
<1>1. Range(children[swapper]) = {init, kthreadd}
  <2>1. children[swapper] = <<init, kthreadd>>
    BY DEF ElderInv
  <2>2. DOMAIN children[swapper] = {1, 2} /\ children[swapper][1] = init
           /\ children[swapper][2] = kthreadd
    BY <2>1
  <2> QED
    BY <2>2 DEF Range
<1>2. Range(children[swapper]) = {c \in Processes \ {swapper} : real_parent[c] = swapper}
  BY PidFacts DEF TreeInv, ListsAreTheParents
<1> QED
  BY <1>1, <1>2

LEMMA ForkAges == ASSUME TreeInv, ElderInv, NEW p \in Pids, fork(p) PROVE ElderInv'
<1> DEFINE n == last_pid + 1
<1>1. /\ p \in tasks \ {swapper} /\ n \leq MaxPid
      /\ tasks' = tasks \cup {n}
      /\ real_parent' = [real_parent EXCEPT ![n] = p]
      /\ group_leader' = [group_leader EXCEPT ![n] = n]
      /\ children' = [children EXCEPT ![p] = Append(children[p], n)]
      /\ zombies' = zombies /\ did_exec' = did_exec
  BY DEF fork, Runs
<1>2. n \in Pids \ tasks /\ n \notin {swapper, init, kthreadd}
  BY <1>1, NewPid
<1>3. group_leader[p] < n
  <2>1. group_leader[p] \in tasks /\ group_leader[p] <= last_pid
    BY <1>1 DEF TreeInv, GroupInv
  <2>2. group_leader[p] \in Nat
    BY <2>1, PidFacts DEF TreeInv, KernelType
  <2>3. last_pid \in Nat
    BY PidFacts DEF TreeInv, KernelType
  <2> QED
    BY <2>1, <2>2, <2>3
<1>t. KernelType /\ GroupInv /\ ListsAreTheParents /\ ElderInv
  BY DEF TreeInv
<1> HIDE DEF n
<1>4. /\ \A t \in tasks : group_leader'[t] = group_leader[t] /\ real_parent'[t] = real_parent[t]
      /\ group_leader'[n] = n /\ real_parent'[n] = p
  BY <1>1, <1>2, <1>t DEF KernelType
<1>5. children'[swapper] = children[swapper]
  BY <1>1, <1>t, PidFacts DEF KernelType
<1>6. ASSUME NEW c \in Processes' \ {swapper}
      PROVE  group_leader'[real_parent'[c]] < c
  <2>1. CASE c = n
    BY <1>1, <1>3, <1>4, <2>1
  <2>2. CASE c # n
    <3>1. c \in Processes \ {swapper}
      BY <1>1, <1>4, <2>2 DEF Processes
    <3>2. real_parent[c] \in tasks /\ c \in tasks
      BY <3>1, <1>t DEF ListsAreTheParents, Processes
    <3>3. group_leader[real_parent[c]] < c
      BY <3>1, <1>t DEF ElderInv
    <3> QED
      BY <1>4, <3>2, <3>3
  <2> QED
    BY <2>1, <2>2
<1>7. {swapper, init, kthreadd} \subseteq tasks
  BY <1>t DEF GroupInv, ElderInv
<1> QED
  BY <1>1, <1>2, <1>4, <1>5, <1>6, <1>7, <1>t DEF ElderInv

LEMMA CloneAges == ASSUME TreeInv, ElderInv, NEW p \in Pids, clone_thread(p) PROVE ElderInv'
<1> DEFINE n == last_pid + 1
<1>1. /\ p \in tasks \ {swapper} /\ n \leq MaxPid
      /\ tasks' = tasks \cup {n}
      /\ real_parent' = [real_parent EXCEPT ![n] = real_parent[p]]
      /\ group_leader' = [group_leader EXCEPT ![n] = group_leader[p]]
      /\ children' = children /\ zombies' = zombies /\ did_exec' = did_exec
  BY DEF clone_thread, Runs
<1>2. n \in Pids \ tasks /\ n \notin {swapper, init, kthreadd}
  BY <1>1, NewPid
<1>t. KernelType /\ GroupInv /\ ListsAreTheParents /\ ElderInv
  BY DEF TreeInv
<1> HIDE DEF n
<1>3. /\ \A t \in tasks : group_leader'[t] = group_leader[t] /\ real_parent'[t] = real_parent[t]
      /\ group_leader'[n] = group_leader[p] /\ group_leader[p] \in tasks
      /\ group_leader[p] # swapper
  BY <1>1, <1>2, <1>t DEF KernelType, GroupInv, ElderInv
<1>4. ASSUME NEW c \in Processes' \ {swapper}
      PROVE  group_leader'[real_parent'[c]] < c
  <2>1. c \in Processes \ {swapper}
    BY <1>1, <1>2, <1>3 DEF Processes
  <2>2. real_parent[c] \in tasks /\ c \in tasks
    BY <2>1, <1>t DEF ListsAreTheParents, Processes
  <2>3. group_leader[real_parent[c]] < c
    BY <2>1, <1>t DEF ElderInv
  <2> QED
    BY <1>3, <2>2, <2>3
<1>5. {swapper, init, kthreadd} \subseteq tasks
  BY <1>t DEF GroupInv, ElderInv
<1> QED
  BY <1>1, <1>2, <1>3, <1>4, <1>5, <1>t DEF ElderInv

\* Who adopts is of the same process, or is init.
LEMMA ExitAges == ASSUME TreeInv, ElderInv, NEW p \in Pids, exit_notify(p) PROVE ElderInv'
<1>1. /\ p \in tasks \ {swapper} /\ p \notin {init, kthreadd}
      /\ group_leader' = group_leader
  BY DEF exit_notify, Runs
<1>2. PICK reaper \in Reapers(p) :
             /\ real_parent' = [t \in Pids |->
                   IF t \in tasks /\ real_parent[t] = p THEN reaper ELSE real_parent[t]]
             /\ children' = [children EXCEPT ![reaper] = children[reaper] \o children[p],
                                             ![p] = <<>>]
  BY DEF exit_notify
<1>3. \/ zombies' = zombies \cup {p} /\ tasks' = tasks /\ did_exec' = did_exec
      \/ /\ tasks' = tasks \ {p} /\ zombies' = zombies /\ did_exec' = did_exec \ {p}
         /\ group_leader[p] # p
  BY DEF exit_notify
<1>t. KernelType /\ GroupInv /\ ListsAreTheParents /\ ElderInv
  BY DEF TreeInv
<1>4. reaper = init \/ group_leader[reaper] = group_leader[p]
  BY <1>2 DEF Reapers, Threads
<1>5. reaper # swapper
  <2>1. group_leader[p] # swapper /\ group_leader[swapper] = swapper
    BY <1>1, <1>t DEF GroupInv, ElderInv
  <2> QED
    BY <1>4, <2>1, PidFacts
<1>6. children'[swapper] = children[swapper]
  BY <1>1, <1>2, <1>5, <1>t, PidFacts DEF KernelType
<1>7. real_parent'[swapper] = swapper
  BY <1>1, <1>2, <1>t, PidFacts DEF ElderInv
<1>8. ASSUME NEW c \in Processes' \ {swapper}
      PROVE  group_leader'[real_parent'[c]] < c
  <2>1. c \in Processes \ {swapper} /\ c \in tasks /\ c \in Pids
    BY <1>1, <1>3, <1>t DEF Processes, KernelType
  <2>2. group_leader[real_parent[c]] < c
    BY <2>1, <1>t DEF ElderInv
  <2>3. CASE real_parent[c] # p
    BY <1>1, <1>2, <2>1, <2>2, <2>3
  <2>4. CASE real_parent[c] = p
    <3>1. real_parent'[c] = reaper
      BY <1>2, <2>1, <2>4
    <3>2. CASE reaper = init
      <4>1. c # init
        BY <1>1, <2>4, ListOf
      <4>2. c \in Nat /\ c # 0 /\ c # 1 /\ group_leader[init] = 1
        BY <2>1, <4>1, <1>t, PidFacts DEF ElderInv
      <4>3. 1 < c
        BY <4>2
      <4> QED
        BY <1>1, <3>1, <3>2, <4>2, <4>3
    <3> QED
      BY <1>1, <1>4, <2>2, <2>4, <3>1, <3>2
  <2> QED
    BY <2>3, <2>4
<1>9. kthreadd \in tasks' \ zombies' /\ did_exec' \subseteq tasks' /\ tasks' \subseteq tasks
  BY <1>1, <1>3, <1>t DEF ElderInv
<1> QED
  BY <1>1, <1>6, <1>7, <1>8, <1>9, <1>t DEF ElderInv

LEMMA ReleaseAges == ASSUME TreeInv, ElderInv, NEW p \in Pids, release_task(p) PROVE ElderInv'
<1> DEFINE f == real_parent[p]
           list == RemoveAt(children[f], LinkOf(p, children[f]))
<1>1. /\ p \in zombies /\ tasks' = tasks \ {p} /\ zombies' = zombies \ {p}
      /\ children' = [children EXCEPT ![f] = list]
      /\ did_exec' = did_exec \ {p}
      /\ UNCHANGED <<real_parent, group_leader>>
  BY DEF release_task
<1> HIDE DEF list
<1>t. KernelType /\ GroupInv /\ ListsAreTheParents /\ ElderInv
  BY DEF TreeInv
<1>2. p \in Processes \ {swapper} /\ p \notin {init, kthreadd}
  BY <1>1, <1>t DEF KernelType, GroupInv, ElderInv, Processes
<1>3. f # swapper
  BY <1>2, ListOf
<1>4. children'[swapper] = children[swapper]
  BY <1>1, <1>3, <1>t, PidFacts DEF KernelType
<1>5. Processes' \subseteq Processes
  BY <1>1 DEF Processes
<1> QED
  BY <1>1, <1>2, <1>4, <1>5, <1>t DEF ElderInv

LEMMA AgesStay ==
    ASSUME ElderInv, did_exec' \subseteq tasks,
           UNCHANGED <<tasks, zombies, real_parent, group_leader, children>>
    PROVE  ElderInv'
BY DEF ElderInv, Processes

LEMMA ElderInit == Init => ElderInv
<1> SUFFICES ASSUME Init PROVE ElderInv
  OBVIOUS
<1> USE PidFacts
<1>1. \A c \in Processes \ {swapper} : real_parent[c] = 0 /\ group_leader[0] = 0 /\ c \in {1, 2}
  BY DEF Init, Processes
<1>2. \A c \in Processes \ {swapper} : group_leader[real_parent[c]] < c
  BY <1>1
<1> QED
  BY <1>2 DEF Init, ElderInv

LEMMA ElderNext == TreeInv /\ ElderInv /\ [Next]_vars => ElderInv'
<1> SUFFICES ASSUME TreeInv, ElderInv, [Next]_vars PROVE ElderInv'
  OBVIOUS
<1>t. did_exec \subseteq tasks /\ in_execve \subseteq tasks
  BY DEF TreeInv, KernelType, ElderInv
<1>1. CASE UNCHANGED kernelVars
  BY <1>1, <1>t, AgesStay DEF kernelVars
<1>2. ASSUME NEW p \in Pids, TaskStep(p) PROVE ElderInv'
  <2>1. CASE ExecStart(p) \/ search_binary_handler(p) \/ ExecEnd(p)
    <3>1. /\ did_exec' \subseteq tasks
          /\ UNCHANGED <<tasks, zombies, real_parent, group_leader, children>>
      BY <1>t, <2>1 DEF ExecStart, search_binary_handler, ExecEnd
    <3> QED
      BY <3>1, AgesStay
  <2> QED
    BY <1>2, <2>1, ForkAges, CloneAges, ExitAges, ReleaseAges DEF TaskStep
<1>3. UNCHANGED vars \/ ptree \/ dfs \/ display \/ main => UNCHANGED kernelVars
  BY DEF vars, kernelVars, ptree, dfs, display, DisplayEntry, DisplayPop, DisplaySibling,
         DisplayPrint, main
<1> QED
  BY <1>1, <1>2, <1>3 DEF Next

-----------------------------------------------------------------------------
(* The order of dfs().                                                     *)

\* Lists of children, as ListsAreTheParents has them: nobody is on two lists or
\* twice on one, and swapper is on none.
Apart(kids) ==
    /\ kids \in [Pids -> Seq(Pids)]
    /\ \A f \in Pids : IsInjective(kids[f]) /\ swapper \notin Range(kids[f])
    /\ \A f, g \in Pids : f # g => Range(kids[f]) \cap Range(kids[g]) = {}

LEMMA OnAList ==
    ASSUME NEW kids, Apart(kids), NEW f \in Pids
    PROVE  /\ kids[f] \in Seq(Pids) /\ Len(kids[f]) \in Nat
           /\ \A j \in 1..Len(kids[f]) : kids[f][j] \in Range(kids[f])
           /\ \A x \in Range(kids[f]) : \E j \in 1..Len(kids[f]) : x = kids[f][j]
           /\ Range(kids[f]) \subseteq Pids
<1>1. kids[f] \in Seq(Pids)
  BY DEF Apart
<1>2. Len(kids[f]) \in Nat /\ DOMAIN kids[f] = 1..Len(kids[f])
      /\ \A j \in 1..Len(kids[f]) : kids[f][j] \in Pids
  BY <1>1
<1> QED
  BY <1>1, <1>2 DEF Range

LEMMA OnOnePlace ==
    ASSUME NEW kids, Apart(kids), NEW f \in Pids, NEW j \in 1..Len(kids[f]),
           NEW g \in Pids, NEW k \in 1..Len(kids[g]), kids[g][k] = kids[f][j]
    PROVE  g = f /\ k = j
<1>1. kids[g][k] \in Range(kids[g]) /\ kids[f][j] \in Range(kids[f])
  BY OnAList
<1>2. g = f
  BY <1>1 DEF Apart
<1>3. DOMAIN kids[f] = 1..Len(kids[f])
  BY OnAList
<1>4. IsInjective(kids[f])
  BY DEF Apart
<1> QED
  BY <1>2, <1>3, <1>4 DEF IsInjective

\* Who follows the jth of a list, and whom the jth follows.
LEMMA FollowsTheJth ==
    ASSUME NEW kids, Apart(kids), NEW f \in Pids, NEW j \in 1..Len(kids[f])
    PROVE  \A q : Follows(kids, kids[f][j], q) => j < Len(kids[f]) /\ q = kids[f][j + 1]
<1> SUFFICES ASSUME NEW q, Follows(kids, kids[f][j], q)
             PROVE  j < Len(kids[f]) /\ q = kids[f][j + 1]
  OBVIOUS
<1>1. PICK g \in Pids : \E k \in 1..(Len(kids[g]) - 1) :
           kids[g][k] = kids[f][j] /\ kids[g][k + 1] = q
  BY DEF Follows
<1>2. PICK k \in 1..(Len(kids[g]) - 1) : kids[g][k] = kids[f][j] /\ kids[g][k + 1] = q
  BY <1>1
<1>3. k \in 1..Len(kids[g]) /\ k < Len(kids[g])
  BY OnAList
<1>4. g = f /\ k = j
  BY <1>2, <1>3, OnOnePlace
<1> QED
  BY <1>2, <1>3, <1>4

LEMMA JthFollows ==
    ASSUME NEW kids, Apart(kids), NEW f \in Pids, NEW j \in 1..Len(kids[f])
    PROVE  \A q : Follows(kids, q, kids[f][j]) => 1 < j /\ q = kids[f][j - 1]
<1> SUFFICES ASSUME NEW q, Follows(kids, q, kids[f][j])
             PROVE  1 < j /\ q = kids[f][j - 1]
  OBVIOUS
<1>1. PICK g \in Pids : \E k \in 1..(Len(kids[g]) - 1) :
           kids[g][k] = q /\ kids[g][k + 1] = kids[f][j]
  BY DEF Follows
<1>2. PICK k \in 1..(Len(kids[g]) - 1) : kids[g][k] = q /\ kids[g][k + 1] = kids[f][j]
  BY <1>1
<1>3. k + 1 \in 1..Len(kids[g]) /\ k + 1 > 1 /\ (k + 1) - 1 = k
  BY OnAList
<1>4. g = f /\ k + 1 = j
  BY <1>2, <1>3, OnOnePlace
<1> QED
  BY <1>2, <1>3, <1>4

LEMMA FollowsFacts ==
    ASSUME NEW kids, Apart(kids), NEW p, NEW q, Follows(kids, p, q)
    PROVE  /\ p \in Pids \ {swapper} /\ q \in Pids \ {swapper} /\ p # q
           /\ \A r : Follows(kids, p, r) => r = q
           /\ \A r : Follows(kids, r, q) => r = p
           /\ \A f \in Pids : p \in Range(kids[f]) <=> q \in Range(kids[f])
<1>0. PICK g \in Pids : \E k \in 1..(Len(kids[g]) - 1) : kids[g][k] = p /\ kids[g][k + 1] = q
  BY DEF Follows
<1>1. PICK k \in 1..(Len(kids[g]) - 1) : kids[g][k] = p /\ kids[g][k + 1] = q
  BY <1>0
<1>2. Len(kids[g]) \in Nat
  BY OnAList
<1>3. k \in 1..Len(kids[g]) /\ k + 1 \in 1..Len(kids[g]) /\ (k + 1) - 1 = k
  BY <1>2
<1>4. p \in Range(kids[g]) /\ q \in Range(kids[g]) /\ Range(kids[g]) \subseteq Pids
  BY <1>1, <1>3, OnAList
<1>5. p # swapper /\ q # swapper
  BY <1>4 DEF Apart
<1>6. ASSUME NEW r, Follows(kids, p, r) PROVE r = q
  <2>1. \A x : Follows(kids, kids[g][k], x) => x = kids[g][k + 1]
    BY <1>3, FollowsTheJth
  <2> QED
    BY <1>1, <1>6, <2>1
<1>7. ASSUME NEW r, Follows(kids, r, q) PROVE r = p
  <2> DEFINE j == k + 1
  <2>1. j \in 1..Len(kids[g]) /\ j - 1 = k /\ q = kids[g][j]
    BY <1>1, <1>3
  <2> HIDE DEF j
  <2>2. r = kids[g][j - 1]
    BY <1>7, <2>1, JthFollows
  <2> QED
    BY <1>1, <2>1, <2>2
<1>8. \A f \in Pids : p \in Range(kids[f]) <=> q \in Range(kids[f])
  BY <1>4 DEF Apart
<1>9. p # q
  <2>1. IsInjective(kids[g]) /\ DOMAIN kids[g] = 1..Len(kids[g])
    BY OnAList DEF Apart
  <2>2. k # k + 1
    BY <1>3
  <2> QED
    BY <1>1, <1>3, <2>1, <2>2 DEF IsInjective
<1> QED
  BY <1>4, <1>5, <1>6, <1>7, <1>8, <1>9

\* The children of the task that is stored next are new.
LEMMA ChildrenAreNew ==
    ASSUME NEW kids, Apart(kids), NEW line, NEW n, DepthFirst(kids, line, n), n < Len(line)
    PROVE  Range(kids[line[n + 1]]) \cap Range(line) = {}
<1>1. /\ line \in Seq(Pids) /\ IsInjective(line) /\ n \in 0..Len(line)
      /\ line[1] = swapper /\ ParentsListed(kids, line, n)
  BY DEF DepthFirst
<1>2. /\ Len(line) \in Nat /\ DOMAIN line = 1..Len(line)
      /\ \A k \in 1..Len(line) : line[k] \in Pids
  BY <1>1
<1>3. n + 1 \in 1..Len(line)
  BY <1>1, <1>2
<1> SUFFICES ASSUME NEW l \in 1..Len(line), line[l] \in Range(kids[line[n + 1]]) PROVE FALSE
  BY <1>2 DEF Range
<1>4. l # 1
  BY <1>1, <1>2, <1>3 DEF Apart
<1>5. l \in 2..Len(line)
  BY <1>2, <1>4
<1>6. PICK k \in 1..n : line[l] \in Range(kids[line[k]])
  BY <1>1, <1>5 DEF ParentsListed
<1>7. k \in 1..Len(line) /\ k # n + 1
  BY <1>1, <1>2
<1>8. line[k] # line[n + 1]
  BY <1>1, <1>2, <1>3, <1>7 DEF IsInjective
<1> QED
  BY <1>2, <1>3, <1>6, <1>7, <1>8 DEF Apart

\* One call of dfs(): the children c are put in right after the task itself.
PutIn(line, n, c, new) ==
    /\ new \in Seq(Pids) /\ Len(new) = Len(line) + Len(c)
    /\ \A k \in 1..(n + 1) : new[k] = line[k]
    /\ \A j \in 1..Len(c) : new[n + 1 + j] = c[j]
    /\ \A k \in (n + 2)..Len(line) : new[k + Len(c)] = line[k]

LEMMA VisitKeepsTheOrder ==
    ASSUME NEW kids, Apart(kids), NEW line, NEW n, DepthFirst(kids, line, n), n < Len(line),
           NEW new, PutIn(line, n, kids[line[n + 1]], new)
    PROVE  DepthFirst(kids, new, n + 1)
<1> DEFINE c == kids[line[n + 1]]
           N == Len(line)
           m == Len(c)
           At(k) == IF k <= n + 1 THEN k ELSE k + m
           f == line[n + 1]
<1>1. /\ line \in Seq(Pids) /\ IsInjective(line) /\ n \in 0..N
      /\ line[1] = swapper /\ ParentsListed(kids, line, n) /\ ChildrenListed(kids, line, n)
      /\ SiblingNext(kids, line, n) /\ SiblingsInOrder(kids, line) /\ SiblingsNest(kids, line)
  BY DEF DepthFirst
<1>2. /\ N \in Nat /\ DOMAIN line = 1..N /\ \A k \in 1..N : line[k] \in Pids
      /\ n \in Nat /\ n < N /\ n + 1 \in 1..N /\ f \in Pids
  BY <1>1
<1>3. /\ m \in Nat /\ c \in Seq(Pids) /\ DOMAIN c = 1..m /\ IsInjective(c)
      /\ \A x \in Range(c) : \E j \in 1..m : x = c[j]
      /\ \A j \in 1..m : c[j] \in Range(c) /\ c[j] \in Pids
  <2>1. c = kids[f]
    OBVIOUS
  <2> HIDE DEF f, c
  <2>2. IsInjective(kids[f])
    BY <1>2 DEF Apart
  <2>3. /\ c \in Seq(Pids) /\ m \in Nat /\ Range(c) \subseteq Pids
        /\ \A x \in Range(c) : \E j \in 1..m : x = c[j]
        /\ \A j \in 1..m : c[j] \in Range(c)
    <3>1. f \in Pids
      BY <1>2
    <3>2. /\ kids[f] \in Seq(Pids) /\ Len(kids[f]) \in Nat
          /\ \A j \in 1..Len(kids[f]) : kids[f][j] \in Range(kids[f])
          /\ \A x \in Range(kids[f]) : \E j \in 1..Len(kids[f]) : x = kids[f][j]
          /\ Range(kids[f]) \subseteq Pids
      BY ONLY Apart(kids), <3>1, OnAList
    <3>3. m = Len(kids[f])
      BY <2>1
    <3> HIDE DEF m
    <3> QED
      BY ONLY <2>1, <3>2, <3>3
  <2>4. DOMAIN c = 1..m
    BY <2>3
  <2> QED
    BY <2>1, <2>2, <2>3, <2>4
<1>4. Range(c) \cap Range(line) = {} /\ \A k \in 1..N : line[k] \in Range(line)
  <2>1. Range(kids[line[n + 1]]) \cap Range(line) = {}
    BY ChildrenAreNew
  <2> QED
    BY <1>2, <2>1 DEF Range
<1>5. /\ new \in Seq(Pids) /\ Len(new) = N + m /\ DOMAIN new = 1..(N + m)
      /\ \A k \in 1..(n + 1) : new[k] = line[k]
      /\ \A j \in 1..m : new[n + 1 + j] = c[j]
      /\ \A k \in (n + 2)..N : new[k + m] = line[k]
  BY DEF PutIn
<1> HIDE DEF N, m, f, c
<1>6. /\ \A a \in 1..N : At(a) \in 1..(N + m) /\ new[At(a)] = line[a]
      /\ \A a, b \in 1..N : At(a) < At(b) => a < b
      /\ \A a, b \in 1..N : a < b => At(a) < At(b)
  <2>1. \A a \in 1..N : a <= n + 1 => a \in 1..(n + 1) /\ a \in 1..(N + m)
    BY <1>2, <1>3
  <2>2. \A a \in 1..N : ~(a <= n + 1) => a \in (n + 2)..N /\ a + m \in 1..(N + m)
    BY <1>2, <1>3
  <2>3. \A a, b \in 1..N : At(a) < At(b) => a < b
    BY <1>2, <1>3
  <2>4. \A a, b \in 1..N : a < b => At(a) < At(b)
    BY <1>2, <1>3
  <2> QED
    BY <1>5, <2>1, <2>2, <2>3, <2>4
<1>7. \A k \in 1..(N + m) : \/ \E a \in 1..N : k = At(a)
                            \/ \E j \in 1..m : k = n + 1 + j
  <2> SUFFICES ASSUME NEW k \in 1..(N + m)
               PROVE  (\E a \in 1..N : k = At(a)) \/ (\E j \in 1..m : k = n + 1 + j)
    OBVIOUS
  <2>1. CASE k <= n + 1
    <3>1. k \in 1..N /\ k = At(k)
      BY <1>2, <1>3, <2>1
    <3> QED
      BY <3>1
  <2>2. CASE n + 1 < k /\ k <= n + 1 + m
    <3>1. k - (n + 1) \in 1..m /\ k = n + 1 + (k - (n + 1))
      BY <1>2, <1>3, <2>2
    <3> QED
      BY <3>1
  <2>3. CASE n + 1 + m < k
    <3>1. k - m \in 1..N /\ ~(k - m <= n + 1) /\ k = (k - m) + m
      BY <1>2, <1>3, <2>3
    <3> QED
      BY <3>1
  <2> QED
    BY <1>2, <1>3, <2>1, <2>2, <2>3
<1>8. \A j \in 1..m : n + 1 + j \in 1..(N + m) /\ new[n + 1 + j] \in Range(c)
  <2> SUFFICES ASSUME NEW j \in 1..m
               PROVE  n + 1 + j \in 1..(N + m) /\ new[n + 1 + j] \in Range(c)
    OBVIOUS
  <2>1. n + 1 + j \in 1..(N + m)
    BY <1>2, <1>3
  <2>2. new[n + 1 + j] = c[j]
    BY <1>5
  <2>3. c[j] \in Range(c)
    BY <1>3
  <2> QED
    BY <2>1, <2>2, <2>3
<1>9. \A a \in 1..N : new[At(a)] \in Range(line) /\ new[At(a)] \notin Range(c)
  BY <1>4, <1>6
<1> HIDE DEF At
<1>10. Range(new) = Range(line) \cup Range(c)
  <2>1. Range(line) \subseteq Range(new)
    BY <1>2, <1>5, <1>6 DEF Range
  <2>2. Range(c) \subseteq Range(new)
    <3> SUFFICES ASSUME NEW j \in 1..m PROVE c[j] \in Range(new)
      BY <1>3
    <3> QED
      BY <1>5, <1>8 DEF Range
  <2>3. \A k \in 1..(N + m) : new[k] \in Range(line) \cup Range(c)
    BY <1>7, <1>8, <1>9
  <2>4. Range(new) \subseteq Range(line) \cup Range(c)
    <3>1. \A x \in Range(new) : \E k \in 1..(N + m) : x = new[k]
      BY <1>5 DEF Range
    <3> QED
      BY <2>3, <3>1
  <2> QED
    BY <2>1, <2>2, <2>4
<1>11. IsInjective(new)
  <2> SUFFICES ASSUME NEW x \in 1..(N + m), NEW y \in 1..(N + m), new[x] = new[y] PROVE x = y
    BY <1>5 DEF IsInjective
  <2>1. ASSUME NEW a \in 1..N, NEW b \in 1..N, x = At(a), y = At(b) PROVE x = y
    <3>1. line[a] = line[b]
      BY <1>6, <2>1
    <3>2. a = b
      BY <1>1, <1>2, <3>1 DEF IsInjective
    <3> QED
      BY <2>1, <3>2
  <2>2. ASSUME NEW j \in 1..m, NEW k \in 1..m, x = n + 1 + j, y = n + 1 + k PROVE x = y
    <3>1. c[j] = c[k]
      BY <1>5, <2>2
    <3>2. j = k
      BY <1>3, <3>1 DEF IsInjective
    <3> QED
      BY <2>2, <3>2
  <2> QED
    BY <1>7, <1>8, <1>9, <2>1, <2>2
<1>12. ASSUME NEW x \in 1..(N + m), NEW y \in 1..(N + m), Follows(kids, new[x], new[y])
       PROVE  \/ \E a, b \in 1..N : /\ x = At(a) /\ y = At(b)
                                     /\ Follows(kids, line[a], line[b])
              \/ y = x + 1
  <2>1. new[x] \in Range(c) <=> new[y] \in Range(c)
    BY <1>2, <1>12, FollowsFacts DEF f, c
  <2>2. CASE new[x] \in Range(c)
    <3>1. PICK j \in 1..m : x = n + 1 + j
      BY <1>7, <1>9, <2>2
    <3>2. new[x] = kids[f][j] /\ m = Len(kids[f])
      BY <1>5, <3>1 DEF f, m, c
    <3>3. j < m /\ new[y] = c[j + 1]
      <4>1. c = kids[f]
        BY DEF f, c
      <4>2. Follows(kids, kids[f][j], new[y]) /\ j \in 1..Len(kids[f])
        BY <1>12, <3>2
      <4>3. j < Len(kids[f]) /\ new[y] = kids[f][j + 1]
        <5>0. f \in Pids /\ j \in 1..Len(kids[f])
          BY <1>2, <4>2
        <5>1. \A q : Follows(kids, kids[f][j], q) => j < Len(kids[f]) /\ q = kids[f][j + 1]
          BY ONLY Apart(kids), <5>0, FollowsTheJth
        <5> QED
          BY <4>2, <5>1
      <4> QED
        BY <3>2, <4>1, <4>3
    <3>4. j + 1 \in 1..m
      BY <1>3, <3>3
    <3>5. n + 1 + (j + 1) \in 1..(N + m) /\ new[n + 1 + (j + 1)] = new[y]
      BY <1>5, <1>8, <3>3, <3>4
    <3>6. y = n + 1 + (j + 1)
      BY <1>5, <1>11, <3>5 DEF IsInjective
    <3> QED
      BY <1>2, <1>3, <3>1, <3>6
  <2>3. CASE new[x] \notin Range(c)
    BY <1>6, <1>7, <1>8, <1>12, <2>1, <2>3
  <2> QED
    BY <2>2, <2>3
<1>13. SiblingsInOrder(kids, new)
  <2> SUFFICES ASSUME NEW x \in 1..(N + m), NEW y \in 1..(N + m), Follows(kids, new[x], new[y])
               PROVE  x < y
    BY <1>5 DEF SiblingsInOrder
  <2>1. CASE y = x + 1
    BY <1>2, <1>3, <2>1
  <2>2. ASSUME NEW a \in 1..N, NEW b \in 1..N, x = At(a), y = At(b), Follows(kids, line[a], line[b])
        PROVE  x < y
    <3>1. a < b
      BY <1>1, <2>2 DEF SiblingsInOrder, N
    <3> QED
      BY <1>6, <2>2, <3>1
  <2> QED
    BY <1>12, <2>1, <2>2
<1>14. SiblingsNest(kids, new)
  <2> SUFFICES ASSUME NEW o \in 1..(N + m), NEW x \in 1..(N + m), NEW y \in 1..(N + m),
                      NEW z \in 1..(N + m), o < x, x < y, y < z,
                      Follows(kids, new[o], new[y]), Follows(kids, new[x], new[z])
               PROVE  FALSE
    BY <1>5 DEF SiblingsNest
  <2>1. y # o + 1 /\ z # x + 1
    BY <1>2, <1>3
  <2>2. PICK a \in 1..N, b \in 1..N : o = At(a) /\ y = At(b) /\ Follows(kids, line[a], line[b])
    BY <1>12, <2>1
  <2>3. PICK d \in 1..N, e \in 1..N : x = At(d) /\ z = At(e) /\ Follows(kids, line[d], line[e])
    BY <1>12, <2>1
  <2>4. a < d /\ d < b /\ b < e
    BY <1>6, <2>2, <2>3
  <2> QED
    BY <1>1, <2>2, <2>3, <2>4 DEF SiblingsNest, N
<1>15. ParentsListed(kids, new, n + 1)
  <2> SUFFICES ASSUME NEW l \in 2..(N + m)
               PROVE  \E k \in 1..(n + 1) : k < l /\ new[l] \in Range(kids[new[k]])
    BY <1>5 DEF ParentsListed
  <2>0. l \in 1..(N + m) /\ 1 < l
    BY <1>2, <1>3
  <2>1. ASSUME NEW j \in 1..m, l = n + 1 + j
        PROVE  \E k \in 1..(n + 1) : k < l /\ new[l] \in Range(kids[new[k]])
    <3>1. n + 1 \in 1..(n + 1) /\ n + 1 < l
      BY <1>2, <1>3, <2>1
    <3>2. new[l] \in Range(kids[new[n + 1]])
      BY <1>5, <1>8, <2>1, <3>1 DEF f, c
    <3> QED
      BY <3>1, <3>2
  <2>2. ASSUME NEW a \in 1..N, l = At(a)
        PROVE  \E k \in 1..(n + 1) : k < l /\ new[l] \in Range(kids[new[k]])
    <3>1. a \in 2..N /\ a <= At(a)
      BY <1>2, <1>3, <2>0, <2>2 DEF At
    <3>2. PICK k \in 1..n : k < a /\ line[a] \in Range(kids[line[k]])
      BY <1>1, <3>1 DEF ParentsListed, N
    <3>3. k \in 1..(n + 1) /\ k < l
      BY <1>2, <1>3, <2>2, <3>1, <3>2
    <3> QED
      BY <1>5, <1>6, <2>2, <3>2, <3>3
  <2> QED
    BY <1>7, <2>0, <2>1, <2>2
<1>16. ChildrenListed(kids, new, n + 1)
  <2> SUFFICES ASSUME NEW k \in 1..(n + 1)
               PROVE  /\ Range(kids[new[k]]) \subseteq Range(new)
                      /\ kids[new[k]] # <<>> =>
                            k < N + m /\ new[k + 1] = Head(kids[new[k]])
    BY <1>5 DEF ChildrenListed
  <2>1. CASE k = n + 1
    <3>1. kids[new[k]] = c
      BY <1>5, <2>1 DEF f, c
    <3>2. ASSUME c # <<>> PROVE k < N + m /\ new[k + 1] = Head(c)
      <4>1. 1 \in 1..m /\ Head(c) = c[1]
        BY <1>3, <3>2 DEF m
      <4>2. k + 1 = n + 1 + 1 /\ k < N + m
        BY <1>2, <1>3, <2>1, <4>1
      <4> QED
        BY <1>5, <4>1, <4>2
    <3> QED
      BY <1>10, <3>1, <3>2
  <2>2. CASE k # n + 1
    <3>1. k \in 1..n /\ k + 1 \in 1..(n + 1) /\ (k < N => k < N + m)
      BY <1>2, <1>3, <2>2
    <3>2. /\ Range(kids[line[k]]) \subseteq Range(line)
          /\ kids[line[k]] # <<>> => k < N /\ line[k + 1] = Head(kids[line[k]])
      BY <1>1, <3>1 DEF ChildrenListed, N
    <3> QED
      BY <1>5, <1>10, <3>1, <3>2
  <2> QED
    BY <2>1, <2>2
<1>17. SiblingNext(kids, new, n + 1)
  <2> SUFFICES ASSUME NEW k \in 1..(N + m), NEW q \in Pids,
                      k > n + 1 \/ kids[new[k]] = <<>>, Follows(kids, new[k], q)
               PROVE  k < N + m /\ new[k + 1] = q
    BY <1>5 DEF SiblingNext
  <2>1. ASSUME NEW j \in 1..m, k = n + 1 + j PROVE k < N + m /\ new[k + 1] = q
    <3>1. new[k] = kids[f][j] /\ m = Len(kids[f])
      BY <1>5, <2>1 DEF f, m, c
    <3>2. j < m /\ q = c[j + 1]
      <4>1. c = kids[f]
        BY DEF f, c
      <4>2. Follows(kids, kids[f][j], q) /\ j \in 1..Len(kids[f])
        BY <3>1
      <4>3. j < Len(kids[f]) /\ q = kids[f][j + 1]
        <5>0. f \in Pids /\ j \in 1..Len(kids[f])
          BY <1>2, <4>2
        <5>1. \A x : Follows(kids, kids[f][j], x) => j < Len(kids[f]) /\ x = kids[f][j + 1]
          BY ONLY Apart(kids), <5>0, FollowsTheJth
        <5> QED
          BY <4>2, <5>1
      <4> QED
        BY <3>1, <4>1, <4>3
    <3>3. j + 1 \in 1..m /\ k + 1 = n + 1 + (j + 1) /\ k < N + m
      BY <1>2, <1>3, <2>1, <3>2
    <3> QED
      BY <1>5, <3>2, <3>3
  <2>2. ASSUME NEW a \in 1..N, k = At(a) PROVE k < N + m /\ new[k + 1] = q
    <3>1. new[k] = line[a]
      BY <1>6, <2>2
    <3>2. a > n \/ kids[line[a]] = <<>>
      BY <1>2, <1>3, <2>2, <3>1 DEF At
    <3>3. a < N /\ line[a + 1] = q
      BY <1>1, <3>1, <3>2 DEF SiblingNext, N
    <3>4. CASE a <= n
      <4>1. k = a /\ a + 1 \in 1..(n + 1) /\ a < N + m
        BY <1>2, <1>3, <2>2, <3>4 DEF At
      <4> QED
        BY <1>5, <3>3, <4>1
    <3>5. CASE a = n + 1
      <4>1. k = n + 1 /\ new[k] = f
        BY <1>2, <2>2, <3>1, <3>5 DEF At, f, c
      <4>2. c = <<>>
        BY <1>2, <4>1 DEF f, c
      <4>3. m = 0
        BY <4>2 DEF m
      <4>4. a + 1 \in (n + 2)..N /\ (a + 1) + m = k + 1 /\ k < N + m
        BY <1>2, <3>3, <3>5, <4>1, <4>3
      <4> QED
        BY <1>5, <3>3, <4>4
    <3>6. CASE a > n + 1
      <4>1. k = a + m /\ a + 1 \in (n + 2)..N /\ (a + 1) + m = k + 1 /\ k < N + m
        BY <1>2, <1>3, <2>2, <3>3, <3>6 DEF At
      <4> QED
        BY <1>5, <3>3, <4>1
    <3> QED
      BY <1>2, <3>4, <3>5, <3>6
  <2> QED
    BY <1>7, <2>1, <2>2
<1>18. new # <<>> /\ new[1] = swapper /\ n + 1 \in 0..Len(new)
  <2>1. 1 \in 1..(n + 1) /\ n + 1 \in 0..(N + m) /\ N + m > 0
    BY <1>2, <1>3
  <2> QED
    BY <1>1, <1>5, <2>1
<1> QED
  BY <1>5, <1>11, <1>13, <1>14, <1>15, <1>16, <1>17, <1>18 DEF DepthFirst

\* Before the first call only swapper is to be stored.
LEMMA RootIsAnOrder ==
    ASSUME NEW kids, Apart(kids), NEW line \in Seq(Pids), Len(line) = 1, line[1] = swapper
    PROVE  DepthFirst(kids, line, 0)
<1>1. \A k \in 1..1 : k = 1
  OBVIOUS
<1>2. \A q : ~Follows(kids, swapper, q)
  BY FollowsFacts
<1>3. IsInjective(line) /\ 0 \in 0..Len(line) /\ line # <<>>
  BY <1>1 DEF IsInjective
<1>4. ParentsListed(kids, line, 0) /\ ChildrenListed(kids, line, 0)
  <2>1. 2..Len(line) = {} /\ 1..0 = {}
    OBVIOUS
  <2> QED
    BY <2>1 DEF ParentsListed, ChildrenListed
<1>5. SiblingNext(kids, line, 0)
  BY <1>1, <1>2 DEF SiblingNext
<1>6. SiblingsInOrder(kids, line)
  BY <1>1, <1>2 DEF SiblingsInOrder
<1>7. SiblingsNest(kids, line)
  BY <1>1, <1>2 DEF SiblingsNest
<1> QED
  BY <1>3, <1>4, <1>5, <1>6, <1>7 DEF DepthFirst

\* Whoever is there is the first child of the one before, or has an older sibling
\* before it.
LEMMA ChildOrSibling ==
    ASSUME NEW kids, Apart(kids), NEW line, NEW n, DepthFirst(kids, line, n),
           NEW l \in 2..Len(line)
    PROVE  \/ kids[line[l - 1]] # <<>> /\ line[l] = Head(kids[line[l - 1]])
           \/ \E k \in 1..(l - 1) : Follows(kids, line[k], line[l])
<1>1. /\ line \in Seq(Pids) /\ IsInjective(line) /\ n \in 0..Len(line)
      /\ ParentsListed(kids, line, n) /\ ChildrenListed(kids, line, n)
      /\ SiblingsInOrder(kids, line)
  BY DEF DepthFirst
<1>2. /\ Len(line) \in Nat /\ DOMAIN line = 1..Len(line)
      /\ \A k \in 1..Len(line) : line[k] \in Pids
  BY <1>1
<1>3. PICK k \in 1..n : k < l /\ line[l] \in Range(kids[line[k]])
  BY <1>1 DEF ParentsListed
<1>4. k \in 1..Len(line) /\ l \in 1..Len(line)
  BY <1>1, <1>2
<1> DEFINE f == line[k]
<1>5. f \in Pids
  BY <1>2, <1>4
<1>6. Range(kids[f]) \subseteq Range(line)
      /\ (kids[f] # <<>> => k < Len(line) /\ line[k + 1] = Head(kids[f]))
  BY <1>1 DEF ChildrenListed
<1>7. line[l] \in Range(kids[f])
  BY <1>3
<1> HIDE DEF f
<1>8. PICK j \in 1..Len(kids[f]) : line[l] = kids[f][j]
  <2>1. \A x \in Range(kids[f]) : \E j \in 1..Len(kids[f]) : x = kids[f][j]
    BY <1>5, OnAList
  <2> QED
    BY <1>7, <2>1
<1>9. kids[f] \in Seq(Pids) /\ Len(kids[f]) \in Nat
  BY <1>5, OnAList
<1>10. CASE j = 1
  <2>1. kids[f] # <<>> /\ Head(kids[f]) = kids[f][1]
    BY <1>9, <1>10
  <2>2. line[k + 1] = line[l] /\ k + 1 \in 1..Len(line)
    BY <1>2, <1>4, <1>6, <1>8, <1>10, <2>1
  <2>3. k + 1 = l
    BY <1>1, <1>2, <1>4, <2>2 DEF IsInjective
  <2>4. l - 1 = k
    BY <1>4, <2>3
  <2> QED
    BY <1>8, <1>10, <2>1, <2>4 DEF f
<1>11. CASE j # 1
  <2>1. j - 1 \in 1..(Len(kids[f]) - 1) /\ (j - 1) + 1 = j /\ j - 1 \in 1..Len(kids[f])
    BY <1>9, <1>11
  <2>2. Follows(kids, kids[f][j - 1], line[l])
    BY <1>5, <1>8, <2>1 DEF Follows
  <2>3. kids[f][j - 1] \in Range(line)
    BY <1>5, <1>6, <2>1, OnAList
  <2>4. PICK m \in 1..Len(line) : line[m] = kids[f][j - 1]
    BY <1>2, <2>3 DEF Range
  <2>5. Follows(kids, line[m], line[l])
    BY <2>2, <2>4
  <2>6. m < l
    BY <1>1, <1>4, <2>5 DEF SiblingsInOrder
  <2>7. m \in 1..(l - 1)
    BY <1>2, <1>4, <2>6
  <2> QED
    BY <2>5, <2>7
<1> QED
  BY <1>10, <1>11

\* A younger sibling of one that is there is there, and comes later.
LEMMA SiblingListed ==
    ASSUME NEW kids, Apart(kids), NEW line, NEW n, DepthFirst(kids, line, n),
           NEW l \in 1..Len(line), NEW q, Follows(kids, line[l], q)
    PROVE  \E k \in 1..Len(line) : l < k /\ line[k] = q
<1>1. /\ line \in Seq(Pids) /\ n \in 0..Len(line) /\ line[1] = swapper
      /\ ParentsListed(kids, line, n) /\ ChildrenListed(kids, line, n)
      /\ SiblingsInOrder(kids, line)
  BY DEF DepthFirst
<1>2. /\ Len(line) \in Nat /\ DOMAIN line = 1..Len(line)
      /\ \A k \in 1..Len(line) : line[k] \in Pids
  BY <1>1
<1>3. /\ line[l] # swapper
      /\ \A f \in Pids : line[l] \in Range(kids[f]) => q \in Range(kids[f])
  BY FollowsFacts
<1>4. l \in 2..Len(line)
  <2>1. l # 1
    BY <1>1, <1>3
  <2> QED
    BY <1>2, <2>1
<1>5. PICK k \in 1..n : line[l] \in Range(kids[line[k]])
  BY <1>1, <1>4 DEF ParentsListed
<1>6. k \in 1..Len(line)
  BY <1>1, <1>2
<1>7. q \in Range(kids[line[k]])
  BY <1>2, <1>3, <1>5, <1>6
<1>8. q \in Range(line)
  BY <1>1, <1>7 DEF ChildrenListed
<1>9. PICK m \in 1..Len(line) : line[m] = q
  BY <1>2, <1>8 DEF Range
<1>10. l < m
  BY <1>1, <1>9 DEF SiblingsInOrder
<1> QED
  BY <1>9, <1>10

-----------------------------------------------------------------------------
(* The stack of display().                                                 *)

LEMMA EmptyRises == Rising(<<>>, 1)
BY DEF Rising

LEMMA RisingFacts ==
    ASSUME NEW b \in Nat, NEW s, Rising(s, b)
    PROVE  /\ Len(s) \in Nat /\ DOMAIN s = 1..Len(s)
           /\ \A k \in 1..Len(s) : s[k] \in 1..(b - 1) /\ s[k] \in Range(s)
           /\ \A x \in Range(s) : \E k \in 1..Len(s) : x = s[k]
           /\ Len(s) <= b - 1 \/ Len(s) = 0
<1>1. s \in Seq(1..(b - 1))
  BY DEF Rising
<1>2. Len(s) \in Nat /\ DOMAIN s = 1..Len(s) /\ \A k \in 1..Len(s) : s[k] \in 1..(b - 1)
  BY <1>1
<1>3. Len(s) # 0 => Len(s) <= b - 1
  <2>1. SUFFICES ASSUME Len(s) # 0 PROVE Len(s) <= b - 1
    OBVIOUS
  <2>2. Len(s) \in 1..Len(s)
    BY <1>2, <2>1
  <2>3. Len(s) <= s[Len(s)] /\ s[Len(s)] \in 1..(b - 1)
    BY <1>2, <2>2 DEF Rising
  <2> QED
    BY <1>2, <2>3
<1> QED
  BY <1>2, <1>3 DEF Range

LEMMA PushRises ==
    ASSUME NEW b \in Nat, b > 0, NEW s, Rising(s, b)
    PROVE  LET t == Append(s, b)
           IN  /\ Rising(t, b + 1) /\ Len(t) = Len(s) + 1 /\ t[Len(s) + 1] = b
               /\ \A k \in 1..Len(s) : t[k] = s[k]
               /\ Range(t) = Range(s) \cup {b}
<1> DEFINE t == Append(s, b)
           n == Len(s)
<1>1. /\ n \in Nat /\ DOMAIN s = 1..n /\ \A k \in 1..n : s[k] \in 1..(b - 1)
      /\ n <= b - 1 \/ n = 0
  BY RisingFacts
<1>2. s \in Seq(1..((b + 1) - 1))
  <2>1. s \in Seq(1..(b - 1)) /\ \A k \in 1..(b - 1) : k \in 1..((b + 1) - 1)
    BY DEF Rising
  <2> QED
    BY <1>1, <2>1
<1>3. b \in 1..((b + 1) - 1)
  OBVIOUS
<1>4. /\ t \in Seq(1..((b + 1) - 1)) /\ Len(t) = n + 1 /\ DOMAIN t = 1..(n + 1)
      /\ t[n + 1] = b /\ \A k \in 1..n : t[k] = s[k]
  BY <1>2, <1>3
<1> HIDE DEF t, n
<1>5. \A k \in 1..(n + 1) : k = n + 1 \/ k \in 1..n
  BY <1>1
<1>6. ASSUME NEW k \in 1..(n + 1), NEW l \in 1..(n + 1), k < l PROVE t[k] < t[l]
  <2>1. k \in 1..n
    BY <1>1, <1>6
  <2>2. CASE l = n + 1
    BY <1>1, <1>4, <2>1, <2>2
  <2>3. CASE l \in 1..n
    BY <1>4, <1>6, <2>1, <2>3 DEF Rising, n
  <2> QED
    BY <1>5, <2>2, <2>3
<1>7. ASSUME NEW k \in 1..(n + 1) PROVE k <= t[k]
  <2>1. CASE k = n + 1
    <3>1. n + 1 <= b
      BY <1>1
    <3> QED
      BY <1>4, <2>1, <3>1
  <2>2. CASE k \in 1..n
    BY <1>4, <2>2 DEF Rising, n
  <2> QED
    BY <1>5, <2>1, <2>2
<1>8. Range(t) = Range(s) \cup {b}
  <2>1. n + 1 \in 1..(n + 1) /\ \A k \in 1..n : k \in 1..(n + 1)
    BY <1>1
  <2>2. \A x \in Range(t) : x \in Range(s) \cup {b}
    BY <1>1, <1>4, <1>5 DEF Range
  <2>3. \A x \in Range(s) : x \in Range(t)
    BY <1>1, <1>4, <2>1 DEF Range
  <2>4. b \in Range(t)
    BY <1>4, <2>1 DEF Range
  <2> QED
    BY <2>2, <2>3, <2>4
<1> QED
  BY <1>4, <1>6, <1>7, <1>8 DEF Rising, t, n

LEMMA PopRises ==
    ASSUME NEW b \in Nat, NEW s, Rising(s, b), s # <<>>
    PROVE  LET t == Front(s)
           IN  /\ Rising(t, b) /\ Len(t) = Len(s) - 1 /\ Len(s) \in 1..Len(s)
               /\ \A k \in 1..Len(t) : t[k] = s[k]
               /\ Range(t) = Range(s) \ {s[Len(s)]}
               /\ s[Len(s)] \in Range(s)
               /\ \A x \in Range(t) : x < s[Len(s)]
<1> DEFINE t == Front(s)
           n == Len(s)
<1>1. /\ n \in Nat /\ DOMAIN s = 1..n /\ \A k \in 1..n : s[k] \in 1..(b - 1) /\ s[k] \in Range(s)
      /\ \A x \in Range(s) : \E k \in 1..n : x = s[k]
  BY RisingFacts
<1>2. s \in Seq(1..(b - 1)) /\ n \in 1..n
  BY <1>1 DEF Rising
<1>3. /\ t \in Seq(1..(b - 1)) /\ Len(t) = n - 1 /\ DOMAIN t = 1..(n - 1)
      /\ \A k \in 1..(n - 1) : t[k] = s[k]
  <2>1. t = SubSeq(s, 1, n - 1)
    BY DEF Front
  <2>2. n - 1 \in 0..n /\ \A k \in 1..(n - 1) : k \in DOMAIN s
    BY <1>1, <1>2
  <2> HIDE DEF t, n
  <2> QED
    BY <1>2, <2>1, <2>2
<1> HIDE DEF t, n
<1>4. \A k \in 1..(n - 1) : k \in 1..n /\ k < n
  BY <1>2
<1>5. \A k, l \in 1..n : k < l => s[k] < s[l]
  BY DEF Rising, n
<1>6. \A k \in 1..n : k <= s[k]
  BY DEF Rising, n
<1>7. Rising(t, b)
  <2>1. ASSUME NEW k \in 1..(n - 1) PROVE k <= t[k]
    BY <1>3, <1>4, <1>6
  <2>2. ASSUME NEW k \in 1..(n - 1), NEW l \in 1..(n - 1), k < l PROVE t[k] < t[l]
    BY <1>3, <1>4, <1>5, <2>2
  <2> QED
    BY <1>3, <2>1, <2>2 DEF Rising
<1>8. \A x \in Range(t) : \E k \in 1..(n - 1) : x = s[k]
  BY <1>3 DEF Range
<1>9. \A x \in Range(t) : x < s[n] /\ x \in Range(s) /\ x # s[n]
  <2> SUFFICES ASSUME NEW k \in 1..(n - 1) PROVE s[k] < s[n] /\ s[k] \in Range(s) /\ s[k] # s[n]
    BY <1>8
  <2>1. s[k] < s[n] /\ s[k] \in Range(s) /\ s[k] \in Nat /\ s[n] \in Nat
    BY <1>1, <1>2, <1>4, <1>5
  <2> QED
    BY <2>1
<1>10. \A x \in Range(s) : x # s[n] => x \in Range(t)
  <2> SUFFICES ASSUME NEW k \in 1..n, s[k] # s[n] PROVE s[k] \in Range(t)
    BY <1>1
  <2>1. k \in 1..(n - 1)
    BY <1>1, <1>2
  <2> QED
    BY <1>3, <2>1 DEF Range
<1> QED
  BY <1>1, <1>2, <1>3, <1>7, <1>9, <1>10 DEF t, n

-----------------------------------------------------------------------------
(* The steps of ptree() and of display().                                  *)

LEMMA KidsApart == ASSUME TreeInv PROVE Apart(children)
<1>1. children \in [Pids -> Seq(Pids)]
  BY DEF TreeInv, KernelType
<1>2. \A f \in Pids : IsInjective(children[f]) /\ swapper \notin Range(children[f])
  BY DEF TreeInv, ListsAreTheParents
<1>3. \A f, g \in Pids : f # g => Range(children[f]) \cap Range(children[g]) = {}
  BY ListsApart
<1> QED
  BY <1>1, <1>2, <1>3 DEF Apart

\* The line is what the buffer has, followed by what is to be stored.
InLine ==
    /\ Len(buf) \in Nat /\ Len(todo) \in Nat /\ DOMAIN buf = 1..Len(buf)
    /\ Listed \in Seq(Pids) /\ Len(Listed) = Len(buf) /\ Line \in Seq(Pids)
    /\ Len(Line) = Len(buf) + Len(todo)
    /\ \A k \in 1..Len(buf) : Listed[k] = buf[k].pid /\ Line[k] = buf[k].pid
    /\ \A k \in 1..Len(todo) : Line[Len(buf) + k] = todo[k]
    /\ todo = <<>> => Line = Listed

LEMMA LineFacts == buf \in Seq(Entry) /\ todo \in Seq(Pids) => InLine
<1> SUFFICES ASSUME buf \in Seq(Entry), todo \in Seq(Pids) PROVE InLine
  OBVIOUS
<1>1. /\ Len(buf) \in Nat /\ Len(todo) \in Nat /\ DOMAIN buf = 1..Len(buf)
      /\ \A k \in 1..Len(buf) : buf[k] \in Entry
  OBVIOUS
<1>2. \A k \in 1..Len(buf) : buf[k].pid \in Pids
  BY <1>1 DEF Entry
<1>3. Listed \in Seq(Pids) /\ Len(Listed) = Len(buf)
  BY <1>1, <1>2 DEF Listed
<1>4. \A k \in 1..Len(buf) : Listed[k] = buf[k].pid
  BY <1>1 DEF Listed
<1>5. /\ Line \in Seq(Pids) /\ Len(Line) = Len(buf) + Len(todo)
      /\ \A k \in 1..Len(buf) : Line[k] = Listed[k]
  BY <1>1, <1>3 DEF Line
<1>6. \A k \in 1..Len(todo) : Line[Len(buf) + k] = todo[k]
  <2> SUFFICES ASSUME NEW k \in 1..Len(todo) PROVE Line[Len(buf) + k] = todo[k]
    OBVIOUS
  <2>1. /\ Len(buf) + k \in 1..(Len(buf) + Len(todo)) /\ ~(Len(buf) + k <= Len(buf))
        /\ (Len(buf) + k) - Len(buf) = k
    BY <1>1
  <2> QED
    BY <1>1, <1>3, <2>1 DEF Line
<1>7. todo = <<>> => Line = Listed
  BY <1>3 DEF Line
<1> QED
  BY <1>1, <1>3, <1>4, <1>5, <1>6, <1>7 DEF InLine

LEMMA LineFactsNext == (buf \in Seq(Entry) /\ todo \in Seq(Pids))' => InLine'
BY LineFacts, PTL

\* What display() finds in the buffer.
LEMMA DisplayOrder ==
    ASSUME TreeInv, DfsInv, pc \in {"display", "pop", "printed"}
    PROVE  /\ Apart(children) /\ Len(buf) \in Nat /\ Len(buf) > 0 /\ DOMAIN buf = 1..Len(buf)
           /\ buf[1].pid = swapper /\ \A m \in 1..Len(buf) : buf[m].pid \in Pids
           /\ \A m, l \in 1..Len(buf) : buf[m].pid = buf[l].pid => m = l
           /\ \A m, l \in 1..Len(buf) : Follows(children, buf[m].pid, buf[l].pid) => m < l
           /\ \A o, m, k, l \in 1..Len(buf) :
                 o < m /\ m < k /\ k < l
                    => ~(/\ Follows(children, buf[o].pid, buf[k].pid)
                         /\ Follows(children, buf[m].pid, buf[l].pid))
           /\ \A m \in 1..Len(buf), q \in Pids : Follows(children, buf[m].pid, q)
                 => \E l \in 1..Len(buf) : m < l /\ buf[l].pid = q
           /\ \A m \in 1..Len(buf) : children[buf[m].pid] # <<>>
                 => m < Len(buf) /\ buf[m + 1].pid = Head(children[buf[m].pid])
           /\ \A m \in 1..Len(buf), q \in Pids :
                 children[buf[m].pid] = <<>> /\ Follows(children, buf[m].pid, q)
                    => m < Len(buf) /\ buf[m + 1].pid = q
           /\ \A l \in 2..Len(buf) :
                 \/ /\ children[buf[l - 1].pid] # <<>>
                    /\ buf[l].pid = Head(children[buf[l - 1].pid])
                 \/ \E k \in 1..(l - 1) : Follows(children, buf[k].pid, buf[l].pid)
<1> DEFINE line == Listed
           N == Len(buf)
<1>1. Apart(children)
  BY KidsApart
<1>2. /\ N \in Nat /\ DOMAIN buf = 1..N /\ line \in Seq(Pids) /\ Len(line) = N
      /\ \A k \in 1..N : line[k] = buf[k].pid
  BY LineFacts DEF DfsInv, InLine
<1>3. DepthFirst(children, line, N)
  BY LineFacts DEF DfsInv, InLine
<1>4. /\ IsInjective(line) /\ line # <<>> /\ line[1] = swapper
      /\ ChildrenListed(children, line, N) /\ SiblingNext(children, line, N)
      /\ SiblingsInOrder(children, line) /\ SiblingsNest(children, line)
  BY <1>3 DEF DepthFirst
<1> HIDE DEF line, N
<1>5. DOMAIN line = 1..N /\ N > 0 /\ \A k \in 1..N : line[k] \in Pids
  BY <1>2, <1>4
<1>6. buf[1].pid = swapper
  <2>1. 1 \in 1..N
    BY <1>2, <1>5
  <2> QED
    BY <1>2, <1>4, <2>1
<1>7. \A m, l \in 1..N : buf[m].pid = buf[l].pid => m = l
  BY <1>2, <1>4, <1>5 DEF IsInjective
<1>8. \A m, l \in 1..N : Follows(children, buf[m].pid, buf[l].pid) => m < l
  BY <1>2, <1>4 DEF SiblingsInOrder
<1>9. \A o, m, k, l \in 1..N :
         o < m /\ m < k /\ k < l
            => ~(/\ Follows(children, buf[o].pid, buf[k].pid)
                 /\ Follows(children, buf[m].pid, buf[l].pid))
  BY <1>2, <1>4 DEF SiblingsNest
<1>10. \A m \in 1..N, q \in Pids : Follows(children, buf[m].pid, q)
          => \E l \in 1..N : m < l /\ buf[l].pid = q
  <2> SUFFICES ASSUME NEW m \in 1..N, NEW q \in Pids, Follows(children, line[m], q)
               PROVE  \E l \in 1..N : m < l /\ line[l] = q
    BY <1>2
  <2> QED
    BY <1>1, <1>2, <1>3, SiblingListed
<1>11. \A m \in 1..N : children[buf[m].pid] # <<>>
          => m < N /\ buf[m + 1].pid = Head(children[buf[m].pid])
  <2> SUFFICES ASSUME NEW m \in 1..N, children[line[m]] # <<>>
               PROVE  m < N /\ buf[m + 1].pid = Head(children[line[m]])
    BY <1>2
  <2>1. m < N /\ line[m + 1] = Head(children[line[m]])
    BY <1>2, <1>4 DEF ChildrenListed
  <2>2. m + 1 \in 1..N
    BY <1>2, <2>1
  <2> QED
    BY <1>2, <2>1, <2>2
<1>12. \A m \in 1..N, q \in Pids :
          children[buf[m].pid] = <<>> /\ Follows(children, buf[m].pid, q)
             => m < N /\ buf[m + 1].pid = q
  <2> SUFFICES ASSUME NEW m \in 1..N, NEW q \in Pids, children[line[m]] = <<>>,
                      Follows(children, line[m], q)
               PROVE  m < N /\ buf[m + 1].pid = q
    BY <1>2
  <2>1. m < N /\ line[m + 1] = q
    BY <1>2, <1>4 DEF SiblingNext
  <2>2. m + 1 \in 1..N
    BY <1>2, <2>1
  <2> QED
    BY <1>2, <2>1, <2>2
<1>13. ASSUME NEW l \in 2..N
       PROVE  \/ /\ children[buf[l - 1].pid] # <<>>
                 /\ buf[l].pid = Head(children[buf[l - 1].pid])
              \/ \E k \in 1..(l - 1) : Follows(children, buf[k].pid, buf[l].pid)
  <2>1. l \in 1..N /\ l - 1 \in 1..N /\ \A k \in 1..(l - 1) : k \in 1..N
    BY <1>2
  <2>2. \/ children[line[l - 1]] # <<>> /\ line[l] = Head(children[line[l - 1]])
        \/ \E k \in 1..(l - 1) : Follows(children, line[k], line[l])
    BY <1>1, <1>2, <1>3, ChildOrSibling
  <2> QED
    BY <1>2, <2>1, <2>2
<1> QED
  BY <1>1, <1>2, <1>5, <1>6, <1>7, <1>8, <1>9, <1>10, <1>11, <1>12, <1>13 DEF N

\* While ptree is not at work there is nothing to be kept.
Idle == /\ pc = "main" /\ todo = <<>> /\ buf = <<>>
        /\ i = 1 /\ stack = <<>> /\ tabcnt = <<>>

LEMMA IdleKeeps == Idle => DfsInv /\ EntriesInv /\ StackInv /\ DepthInv
<1> SUFFICES ASSUME Idle PROVE DfsInv /\ EntriesInv /\ StackInv /\ DepthInv
  OBVIOUS
<1>1. /\ pc = "main" /\ todo = <<>> /\ buf = <<>> /\ i = 1 /\ stack = <<>> /\ tabcnt = <<>>
  BY DEF Idle
<1>2. /\ Len(buf) = 0 /\ DOMAIN buf = {} /\ buf \in Seq(Entry) /\ todo \in Seq(Pids)
      /\ DOMAIN stack = {} /\ Rising(stack, i) /\ Range(stack) = {}
      /\ tabcnt \in Seq(0..Len(buf)) /\ Len(tabcnt) = 0 /\ 1..(i - 1) = {} /\ i - 1 = 0
      /\ i \in 1..(Len(buf) + 1) /\ ~(i > 1)
  BY <1>1, EmptyRises DEF Range
<1>3. DfsInv
  BY <1>1, <1>2 DEF DfsInv
<1>4. EntriesInv
  BY <1>2 DEF EntriesInv
<1>5. StackInv
  BY <1>1, <1>2 DEF StackInv
<1>6. DepthInv
  BY <1>2 DEF DepthInv
<1> QED
  BY <1>3, <1>4, <1>5, <1>6

LEMMA IdleKept == Idle' => DfsInv' /\ EntriesInv' /\ StackInv' /\ DepthInv'
BY IdleKeeps, PTL

LEMMA WhenIdle == ASSUME DfsInv, pc = "main" PROVE Idle
BY DEF DfsInv, Idle

\* Whoever is stored or is to be stored is a process, and its parent is stored
\* before it.
LEMMA OnlyProcesses ==
    ASSUME TreeInv, NEW line, NEW n, DepthFirst(children, line, n)
    PROVE  /\ \A l \in 1..Len(line) : line[l] \in Processes
           /\ \A l \in 2..Len(line) : \E k \in 1..n : k < l /\ real_parent[line[l]] = line[k]
<1>1. /\ line \in Seq(Pids) /\ n \in 0..Len(line) /\ line[1] = swapper
      /\ ParentsListed(children, line, n)
  BY DEF DepthFirst
<1>2. /\ Len(line) \in Nat /\ \A k \in 1..Len(line) : line[k] \in Pids
  BY <1>1
<1>3. ASSUME NEW l \in 2..Len(line)
      PROVE  line[l] \in Processes /\ \E k \in 1..n : k < l /\ real_parent[line[l]] = line[k]
  <2>1. PICK k \in 1..n : k < l /\ line[l] \in Range(children[line[k]])
    BY <1>1 DEF ParentsListed
  <2>2. line[k] \in Pids
    <3>1. k \in 1..Len(line)
      BY <1>1, <1>2
    <3> QED
      BY <1>2, <3>1
  <2>3. line[l] \in Processes /\ real_parent[line[l]] = line[k]
    BY <2>1, <2>2 DEF TreeInv, ListsAreTheParents
  <2> QED
    BY <2>1, <2>3
<1>4. swapper \in Processes
  BY DEF TreeInv, GroupInv, Processes
<1>5. \A l \in 1..Len(line) : l = 1 \/ l \in 2..Len(line)
  BY <1>2
<1> QED
  BY <1>1, <1>3, <1>4, <1>5

LEMMA HeadsRead == \A p : ListHeadPid(p) \in 0..3
BY DEF ListHeadPid

\* What convert() stores of a process.
LEMMA ConvertIsTrue ==
    ASSUME TreeInv, NEW p \in Processes
    PROVE  LET e == convert(p)
           IN  /\ e \in Entry /\ e.pid = p
               /\ e.first_child_pid = IF children[p] = <<>> THEN 0 ELSE Head(children[p])
               /\ \A q : Follows(children, p, q) => e.next_sibling_pid = q
               /\ \/ Follows(children, p, e.next_sibling_pid)
                  \/ /\ e.next_sibling_pid \in {0, ListHeadPid(real_parent[p])}
                     /\ \A q \in Pids : ~Follows(children, p, q)
<1> DEFINE e == convert(p)
           f == real_parent[p]
           s == children[f]
           k == LinkOf(p, s)
<1>t. KernelType /\ GroupInv /\ ListsAreTheParents /\ Apart(children)
  BY KidsApart DEF TreeInv
<1>1. p \in tasks /\ p \in Pids /\ f \in Pids
  BY <1>t DEF Processes, KernelType
<1>2. /\ e.parent_pid = f /\ e.pid = p
      /\ e.first_child_pid = IF children[p] = <<>> THEN 0 ELSE Head(children[p])
      /\ e.next_sibling_pid = IF p = swapper THEN 0 ELSE NextSiblingPid(p)
      /\ e = [parent_pid |-> e.parent_pid, pid |-> e.pid, first_child_pid |-> e.first_child_pid,
              next_sibling_pid |-> e.next_sibling_pid]
  BY DEF convert
<1> HIDE DEF e, f
<1>3. e.first_child_pid \in Pids
  <2>1. children[p] \in Seq(Pids)
    BY <1>1, <1>t DEF KernelType
  <2>2. children[p] # <<>> => Head(children[p]) \in Pids
    BY <2>1
  <2>3. 0 \in Pids
    BY PidFacts
  <2> QED
    BY <1>2, <2>2, <2>3
<1>4. CASE p = swapper
  <2>1. e.next_sibling_pid = 0
    BY <1>2, <1>4
  <2>2. \A q : ~Follows(children, p, q)
    BY <1>4, <1>t, FollowsFacts
  <2>3. 0 \in Pids
    BY PidFacts
  <2>4. e \in Entry
    BY <1>1, <1>2, <1>3, <2>1, <2>3 DEF Entry
  <2> QED
    BY <1>2, <2>1, <2>2, <2>4 DEF e, f
<1>5. CASE p # swapper
  <2>1. p \in Range(s)
    BY <1>1, <1>5, <1>t DEF ListsAreTheParents, f
  <2>2. s \in Seq(Pids) /\ Len(s) \in Nat
    BY <1>1, <1>t, OnAList
  <2>3. k \in 1..Len(s) /\ s[k] = p
    <3>1. DOMAIN s = 1..Len(s)
      BY <2>2
    <3> QED
      BY <2>1, <3>1 DEF Range, LinkOf
  <2>4. e.next_sibling_pid = IF k < Len(s) THEN s[k + 1] ELSE ListHeadPid(f)
    BY <1>2, <1>5 DEF NextSiblingPid, f
  <2> HIDE DEF s, k
  <2>5. \A q : Follows(children, p, q) => k < Len(s) /\ q = s[k + 1]
    <3>1. k \in 1..Len(children[f]) /\ children[f][k] = p
      BY <2>3 DEF s
    <3>2. \A q : Follows(children, children[f][k], q)
                    => k < Len(children[f]) /\ q = children[f][k + 1]
      BY ONLY <1>1, <1>t, <3>1, FollowsTheJth
    <3> QED
      BY <3>1, <3>2 DEF s
  <2>6. CASE k < Len(s)
    <3>1. k \in 1..(Len(s) - 1) /\ k + 1 \in 1..Len(s)
      BY <2>2, <2>3, <2>6
    <3>2. Follows(children, p, s[k + 1])
      BY <1>1, <2>3, <3>1 DEF Follows, s
    <3>3. s[k + 1] \in Pids
      BY <2>2, <3>1
    <3>4. e \in Entry
      BY <1>1, <1>2, <1>3, <2>4, <2>6, <3>3 DEF Entry
    <3> QED
      BY <1>2, <2>4, <2>5, <2>6, <3>2, <3>4 DEF e, f
  <2>7. CASE ~(k < Len(s))
    <3>1. e.next_sibling_pid = ListHeadPid(f) /\ \A q : ~Follows(children, p, q)
      BY <2>4, <2>5, <2>7
    <3>2. e \in Entry
      BY <1>1, <1>2, <1>3, <3>1, HeadsRead DEF Entry
    <3> QED
      BY <1>2, <3>1, <3>2 DEF e, f
  <2> QED
    BY <2>6, <2>7
<1> QED
  BY <1>4, <1>5

LEMMA PtreeKeeps ==
    ASSUME TreeInv, DfsInv, ptree
    PROVE  DfsInv' /\ EntriesInv' /\ StackInv' /\ DepthInv'
<1>1. /\ pc' = "dfs" /\ todo' = <<swapper>> /\ buf' = <<>> /\ i' = 1 /\ stack' = <<>>
      /\ tabcnt' = <<>> /\ children' = children
  BY WhenIdle DEF ptree, Idle, kernelVars
<1>2. /\ Len(buf') = 0 /\ DOMAIN buf' = {} /\ buf' \in Seq(Entry)
      /\ DOMAIN stack' = {} /\ Rising(stack', i') /\ Range(stack') = {}
      /\ tabcnt' \in Seq(0..Len(buf')) /\ Len(tabcnt') = 0 /\ 1..(i' - 1) = {} /\ i' - 1 = 0
      /\ i' \in 1..(Len(buf') + 1) /\ ~(i' > 1)
  BY <1>1, EmptyRises DEF Range
<1>3. todo' \in Seq(Pids) /\ todo' # <<>> /\ Len(todo') = 1 /\ todo'[1] = swapper
  BY <1>1, PidFacts
<1>4. DepthFirst(children', Line', Len(buf'))
  <2>1. /\ Line' \in Seq(Pids) /\ Len(Line') = Len(buf') + Len(todo')
        /\ \A k \in 1..Len(todo') : Line'[Len(buf') + k] = todo'[k]
    BY <1>2, <1>3, LineFactsNext DEF InLine
  <2>2. Len(Line') = 1 /\ Line'[1] = swapper
    BY <1>2, <1>3, <2>1
  <2>3. Apart(children')
    BY <1>1, KidsApart
  <2> QED
    BY <1>2, <2>1, <2>2, <2>3, RootIsAnOrder
<1>5. DfsInv'
  BY <1>1, <1>2, <1>3, <1>4 DEF DfsInv
<1>6. EntriesInv'
  BY <1>2 DEF EntriesInv
<1>7. StackInv'
  BY <1>1, <1>2 DEF StackInv
<1>8. DepthInv'
  BY <1>2 DEF DepthInv
<1> QED
  BY <1>5, <1>6, <1>7, <1>8

\* The heads of the lists do not change while ptree is at work.
LEMMA HeadsStay ==
    ASSUME UNCHANGED kernelVars
    PROVE  /\ HeadsReadAsNobody' => HeadsReadAsNobody
           /\ \A p : ListHeadPid(p)' = ListHeadPid(p)
           /\ \A p : AncestorsOf(p)' = AncestorsOf(p)
<1>1. UNCHANGED <<tasks, real_parent, did_exec, in_execve>>
  BY DEF kernelVars
<1>2. ASSUME NEW p PROVE ListHeadPid(p)' = ListHeadPid(p)
  BY <1>1 DEF ListHeadPid
<1>3. ASSUME NEW p PROVE AncestorsOf(p)' = AncestorsOf(p)
  BY <1>1 DEF AncestorsOf
<1>4. HeadsReadAsNobody' => HeadsReadAsNobody
  BY <1>1 DEF HeadsReadAsNobody, ListHeadPid
<1> QED
  BY <1>2, <1>3, <1>4

LEMMA DfsKeeps ==
    ASSUME TreeInv, DfsInv, EntriesInv, dfs
    PROVE  DfsInv' /\ EntriesInv' /\ StackInv' /\ DepthInv'
<1> DEFINE n == Len(buf)
           task == Head(todo)
           c == children[task]
<1>1. /\ pc = "dfs" /\ todo # <<>> /\ todo \in Seq(Pids) /\ buf \in Seq(Entry)
      /\ DepthFirst(children, Line, n)
      /\ i = 1 /\ stack = <<>> /\ tabcnt = <<>>
  BY DEF dfs, DfsInv
<1>2. /\ buf' = Append(buf, convert(task)) /\ todo' = c \o Tail(todo)
      /\ pc' = IF todo' = <<>> THEN "display" ELSE "dfs"
      /\ UNCHANGED kernelVars /\ i' = 1 /\ stack' = <<>> /\ tabcnt' = <<>>
      /\ children' = children /\ real_parent' = real_parent
  BY <1>1 DEF dfs, kernelVars
<1>3. InLine /\ Len(todo) \in Nat /\ Len(todo) >= 1 /\ task = todo[1] /\ n \in Nat
  BY <1>1, LineFacts DEF InLine
<1>4. n < Len(Line) /\ Line[n + 1] = task /\ n + 1 \in 1..Len(Line)
  <2>1. 1 \in 1..Len(todo)
    BY <1>3
  <2> QED
    BY <1>3, <2>1 DEF InLine
<1>5. task \in Processes /\ task \in Pids /\ Apart(children)
  <2>1. task \in Processes
    BY <1>1, <1>4, OnlyProcesses
  <2> QED
    BY <2>1, KidsApart DEF TreeInv, KernelType, Processes
<1> HIDE DEF n, task
<1>6. LET e == convert(task)
      IN  /\ e \in Entry /\ e.pid = task
          /\ e.first_child_pid = IF children[task] = <<>> THEN 0 ELSE Head(children[task])
          /\ \A q : Follows(children, task, q) => e.next_sibling_pid = q
          /\ \/ Follows(children, task, e.next_sibling_pid)
             \/ /\ e.next_sibling_pid \in {0, ListHeadPid(real_parent[task])}
                /\ \A q \in Pids : ~Follows(children, task, q)
  BY <1>5, ConvertIsTrue
<1> DEFINE e == convert(task)
<1> HIDE DEF e
<1>7. /\ buf' \in Seq(Entry) /\ Len(buf') = n + 1 /\ DOMAIN buf' = 1..(n + 1)
      /\ \A k \in 1..n : buf'[k] = buf[k]
      /\ buf'[n + 1] = e
  BY <1>1, <1>2, <1>6 DEF n, e
<1>8. c \in Seq(Pids) /\ Len(c) \in Nat
  BY <1>5, OnAList
<1> HIDE DEF c
<1>9. /\ todo' \in Seq(Pids) /\ Len(todo') = Len(c) + (Len(todo) - 1)
      /\ \A k \in 1..Len(c) : todo'[k] = c[k]
      /\ \A k \in 2..Len(todo) : todo'[Len(c) + (k - 1)] = todo[k]
  <2> DEFINE t == Tail(todo)
  <2>1. /\ t \in Seq(Pids) /\ Len(t) = Len(todo) - 1
        /\ \A k \in 1..Len(t) : t[k] = todo[k + 1]
    BY <1>1, <1>3
  <2> HIDE DEF t
  <2>2. todo' = c \o t
    BY <1>2 DEF t, c
  <2>3. /\ todo' \in Seq(Pids) /\ Len(todo') = Len(c) + Len(t)
        /\ \A k \in 1..Len(c) : todo'[k] = c[k]
        /\ \A k \in (Len(c) + 1)..(Len(c) + Len(t)) : todo'[k] = t[k - Len(c)]
    BY <1>8, <2>1, <2>2, ConcatFacts
  <2>4. ASSUME NEW k \in 2..Len(todo) PROVE todo'[Len(c) + (k - 1)] = todo[k]
    <3>1. /\ Len(c) + (k - 1) \in (Len(c) + 1)..(Len(c) + Len(t))
          /\ (Len(c) + (k - 1)) - Len(c) = k - 1 /\ k - 1 \in 1..Len(t) /\ (k - 1) + 1 = k
      BY <1>3, <1>8, <2>1
    <3> QED
      BY <2>1, <2>3, <3>1
  <2> QED
    BY <2>1, <2>3, <2>4
<1>10. InLine'
  BY <1>7, <1>9, LineFactsNext
<1>11. /\ Line' \in Seq(Pids) /\ Len(Line') = Len(Line) + Len(c)
       /\ \A k \in 1..(n + 1) : Line'[k] = Line[k]
       /\ \A j \in 1..Len(c) : Line'[n + 1 + j] = c[j]
       /\ \A k \in (n + 2)..Len(Line) : Line'[k + Len(c)] = Line[k]
  <2>1. /\ Line' \in Seq(Pids) /\ Len(Line') = (n + 1) + Len(todo')
        /\ \A k \in 1..(n + 1) : Line'[k] = buf'[k].pid
        /\ \A k \in 1..Len(todo') : Line'[(n + 1) + k] = todo'[k]
    BY <1>7, <1>10 DEF InLine
  <2>2. /\ Len(Line) = n + Len(todo) /\ \A k \in 1..n : Line[k] = buf[k].pid
        /\ \A k \in 1..Len(todo) : Line[n + k] = todo[k]
    BY <1>3 DEF InLine, n
  <2>3. Len(Line') = Len(Line) + Len(c)
    BY <1>3, <1>8, <1>9, <2>1, <2>2
  <2>4. ASSUME NEW k \in 1..(n + 1) PROVE Line'[k] = Line[k]
    <3>1. CASE k = n + 1
      BY <1>4, <1>6, <1>7, <2>1, <3>1 DEF e
    <3>2. CASE k # n + 1
      <4>1. k \in 1..n
        BY <1>3, <3>2
      <4> QED
        BY <1>7, <2>1, <2>2, <4>1
    <3> QED
      BY <3>1, <3>2
  <2>5. ASSUME NEW j \in 1..Len(c) PROVE Line'[n + 1 + j] = c[j]
    <3>1. j \in 1..Len(todo')
      BY <1>3, <1>8, <1>9
    <3> QED
      BY <1>9, <2>1, <3>1
  <2>6. ASSUME NEW k \in (n + 2)..Len(Line) PROVE Line'[k + Len(c)] = Line[k]
    <3>1. k - n \in 2..Len(todo) /\ k - n \in 1..Len(todo) /\ n + (k - n) = k
          /\ Len(c) + ((k - n) - 1) \in 1..Len(todo')
          /\ (n + 1) + (Len(c) + ((k - n) - 1)) = k + Len(c)
      BY <1>3, <1>8, <1>9, <2>2
    <3>2. Line[k] = todo[k - n]
      BY <2>2, <3>1
    <3>3. todo'[Len(c) + ((k - n) - 1)] = todo[k - n]
      BY <1>9, <3>1
    <3>4. Line'[(n + 1) + (Len(c) + ((k - n) - 1))] = todo'[Len(c) + ((k - n) - 1)]
      BY <2>1, <3>1
    <3> QED
      BY <3>1, <3>2, <3>3, <3>4
  <2> QED
    BY <2>1, <2>3, <2>4, <2>5, <2>6
<1>12. DepthFirst(children', Line', Len(buf'))
  <2>1. c = children[Line[n + 1]]
    BY <1>4 DEF c
  <2>2. Apart(children) /\ DepthFirst(children, Line, n) /\ n < Len(Line)
    BY <1>1, <1>4, <1>5
  <2>3. PutIn(Line, n, children[Line[n + 1]], Line')
    BY <1>11, <2>1 DEF PutIn
  <2>4. DepthFirst(children, Line', n + 1)
    BY ONLY <2>2, <2>3, VisitKeepsTheOrder
  <2> QED
    BY <1>2, <1>7, <2>4
<1>13. DfsInv'
  BY <1>2, <1>7, <1>9, <1>12 DEF DfsInv
<1>14. EntriesInv'
  <2>0. \A k \in 1..(n + 1) : k = n + 1 \/ k \in 1..n
    BY <1>3
  <2>1. DOMAIN buf = 1..n
    BY <1>3 DEF InLine, n
  <2>2. ASSUME NEW k \in 1..(n + 1)
        PROVE  buf'[k].first_child_pid = IF children[buf'[k].pid] = <<>> THEN 0
                                         ELSE Head(children[buf'[k].pid])
    <3>1. CASE k = n + 1
      BY <1>6, <1>7, <3>1 DEF e
    <3>2. CASE k \in 1..n
      BY <1>7, <2>1, <3>2 DEF EntriesInv
    <3> QED
      BY <2>0, <3>1, <3>2
  <2>3. ASSUME NEW k \in 1..(n + 1), NEW q \in Pids, Follows(children, buf'[k].pid, q)
        PROVE  buf'[k].next_sibling_pid = q
    <3>1. CASE k = n + 1
      BY <1>6, <1>7, <2>3, <3>1 DEF e
    <3>2. CASE k \in 1..n
      <4>1. 1..(i - 1) = {}
        BY <1>1
      <4> QED
        BY <1>7, <2>1, <2>3, <3>2, <4>1 DEF EntriesInv
    <3> QED
      BY <2>0, <3>1, <3>2
  <2>4. ASSUME HeadsReadAsNobody', NEW k \in 1..(n + 1) PROVE TrueSibling(k)'
    <3> DEFINE p == buf'[k].pid
               x == buf'[k].next_sibling_pid
    <3> SUFFICES \/ Follows(children, p, x)
                 \/ x \in {0, ListHeadPid(real_parent[p])} /\ \A q \in Pids : ~Follows(children, p, q)
      BY <1>2, HeadsStay DEF TrueSibling
    <3>1. CASE k = n + 1
      BY <1>6, <1>7, <3>1 DEF e
    <3>2. CASE k \in 1..n
      <4>1. TrueSibling(k)
        BY <1>2, <2>1, <2>4, <3>2, HeadsStay DEF EntriesInv
      <4> QED
        BY <1>7, <3>2, <4>1 DEF TrueSibling
    <3> QED
      BY <2>0, <3>1, <3>2
  <2> QED
    BY <1>2, <1>7, <2>2, <2>3, <2>4 DEF EntriesInv
<1>15. /\ DOMAIN stack' = {} /\ Rising(stack', i') /\ Range(stack') = {}
       /\ tabcnt' \in Seq(0..Len(buf')) /\ Len(tabcnt') = 0 /\ 1..(i' - 1) = {} /\ i' - 1 = 0
       /\ i' \in 1..(Len(buf') + 1) /\ ~(i' > 1)
  BY <1>2, <1>3, <1>7, EmptyRises DEF Range
<1>16. StackInv'
  BY <1>2, <1>15 DEF StackInv
<1>17. DepthInv'
  BY <1>15 DEF DepthInv
<1> QED
  BY <1>13, <1>14, <1>16, <1>17

\* An entry that loses its sibling.
LEMMA ClearFacts ==
    ASSUME NEW b \in Seq(Entry), NEW m \in 1..Len(b), NEW c,
           c = [b EXCEPT ![m].next_sibling_pid = 0]
    PROVE  /\ c \in Seq(Entry) /\ Len(c) = Len(b)
           /\ \A k \in 1..Len(b) : /\ c[k].pid = b[k].pid
                                   /\ c[k].first_child_pid = b[k].first_child_pid
                                   /\ k # m => c[k] = b[k]
           /\ c[m].next_sibling_pid = 0
<1>1. /\ Len(b) \in Nat /\ DOMAIN b = 1..Len(b) /\ b[m] \in Entry
      /\ \A k \in 1..Len(b) : b[k] \in Entry
  OBVIOUS
<1> DEFINE e == [b[m] EXCEPT !.next_sibling_pid = 0]
<1>2. /\ e \in Entry /\ e.pid = b[m].pid /\ e.first_child_pid = b[m].first_child_pid
      /\ e.next_sibling_pid = 0
  BY <1>1 DEF Entry
<1>3. c = [b EXCEPT ![m] = e]
  OBVIOUS
<1> HIDE DEF e
<1>4. c \in Seq(Entry) /\ Len(c) = Len(b) /\ c[m] = e
      /\ \A k \in 1..Len(b) : k # m => c[k] = b[k]
  BY <1>1, <1>2, <1>3
<1> QED
  BY <1>2, <1>4

\* display() does not change the order of the entries.
LEMMA DisplayStays ==
    ASSUME DfsInv, pc \in {"display", "pop", "printed"}, pc' \in {"display", "pop", "printed"},
           buf' \in Seq(Entry), Len(buf') = Len(buf),
           \A k \in 1..Len(buf) : buf'[k].pid = buf[k].pid,
           todo' = todo, children' = children
    PROVE  DfsInv'
<1>1. /\ todo = <<>> /\ todo \in Seq(Pids) /\ buf \in Seq(Entry)
      /\ DepthFirst(children, Line, Len(buf))
  BY DEF DfsInv
<1>2. InLine
  BY <1>1, LineFacts
<1>3. InLine'
  BY <1>1, LineFactsNext
<1>4. Listed' = Listed
  <2>1. /\ Listed \in Seq(Pids) /\ Len(Listed) = Len(buf)
        /\ \A k \in 1..Len(buf) : Listed[k] = buf[k].pid
    BY <1>2 DEF InLine
  <2>2. /\ Listed' \in Seq(Pids) /\ Len(Listed') = Len(buf)
        /\ \A k \in 1..Len(buf) : Listed'[k] = buf[k].pid
    BY <1>3 DEF InLine
  <2> QED
    BY <2>1, <2>2
<1>5. Line' = Line
  BY <1>1, <1>2, <1>3, <1>4 DEF InLine
<1> QED
  BY <1>1, <1>5 DEF DfsInv

LEMMA EntriesStay ==
    ASSUME EntriesInv, UNCHANGED kernelVars, buf' = buf, i \in Nat, i' = i \/ i' = i + 1
    PROVE  EntriesInv'
<1>1. UNCHANGED <<children, real_parent>>
  BY DEF kernelVars
<1>2. \A l \in 1..(i - 1) : l \in 1..(i' - 1)
  OBVIOUS
<1>3. \A n \in DOMAIN buf : TrueSibling(n) => TrueSibling(n)'
  BY <1>1, HeadsStay DEF TrueSibling
<1>4. HeadsReadAsNobody' => \A n \in DOMAIN buf' : TrueSibling(n)'
  BY <1>3, HeadsStay DEF EntriesInv
<1>5. \A n \in DOMAIN buf', q \in Pids :
         Follows(children', buf'[n].pid, q)
            => buf'[n].next_sibling_pid = q \/ \E l \in 1..(i' - 1) : buf'[l].pid = q
  BY <1>1, <1>2 DEF EntriesInv
<1> QED
  BY <1>1, <1>4, <1>5 DEF EntriesInv

\* An entry may lose its sibling if it has none, or if that is displayed.
LEMMA EntriesCleared ==
    ASSUME EntriesInv, UNCHANGED kernelVars, buf \in Seq(Entry), NEW m \in 1..Len(buf),
           buf' = [buf EXCEPT ![m].next_sibling_pid = 0],
           i \in 1..(Len(buf) + 1), i' = i \/ i' = i + 1,
           \A q \in Pids : Follows(children, buf[m].pid, q)
                             => \E l \in 1..(i - 1) : buf[l].pid = q,
           HeadsReadAsNobody => \A q \in Pids : ~Follows(children, buf[m].pid, q)
    PROVE  EntriesInv'
<1>1. UNCHANGED <<children, real_parent>>
  BY DEF kernelVars
<1>2. /\ buf' \in Seq(Entry) /\ Len(buf') = Len(buf)
      /\ \A k \in 1..Len(buf) : /\ buf'[k].pid = buf[k].pid
                                /\ buf'[k].first_child_pid = buf[k].first_child_pid
                                /\ k # m => buf'[k] = buf[k]
      /\ buf'[m].next_sibling_pid = 0
  BY ClearFacts
<1>3. DOMAIN buf = 1..Len(buf) /\ DOMAIN buf' = 1..Len(buf) /\ Len(buf) \in Nat
  BY <1>2
<1>4. \A l \in 1..(i - 1) : l \in 1..(i' - 1) /\ l \in 1..Len(buf)
  BY <1>3
<1>5. \A n \in 1..Len(buf) :
         buf'[n].first_child_pid = IF children[buf'[n].pid] = <<>> THEN 0
                                   ELSE Head(children[buf'[n].pid])
  BY <1>2, <1>3 DEF EntriesInv
<1>6. ASSUME NEW n \in 1..Len(buf), NEW q \in Pids, Follows(children, buf'[n].pid, q)
      PROVE  buf'[n].next_sibling_pid = q \/ \E l \in 1..(i' - 1) : buf'[l].pid = q
  <2>1. Follows(children, buf[n].pid, q)
    BY <1>2, <1>6
  <2>2. CASE n = m
    <3>1. PICK l \in 1..(i - 1) : buf[l].pid = q
      BY <2>1, <2>2
    <3> QED
      BY <1>2, <1>4, <3>1
  <2>3. CASE n # m
    <3>1. buf[n].next_sibling_pid = q \/ \E l \in 1..(i - 1) : buf[l].pid = q
      BY <1>3, <2>1 DEF EntriesInv
    <3> QED
      BY <1>2, <1>4, <2>3, <3>1
  <2> QED
    BY <2>2, <2>3
<1>7. ASSUME HeadsReadAsNobody', NEW n \in 1..Len(buf) PROVE TrueSibling(n)'
  <2>1. HeadsReadAsNobody /\ TrueSibling(n)
    BY <1>3, <1>7, HeadsStay DEF EntriesInv
  <2>2. CASE n = m
    BY <1>1, <1>2, <2>1, <2>2 DEF TrueSibling
  <2>3. CASE n # m
    BY <1>1, <1>2, <2>1, <2>3, HeadsStay DEF TrueSibling
  <2> QED
    BY <2>2, <2>3
<1> QED
  BY <1>1, <1>3, <1>5, <1>6, <1>7 DEF EntriesInv

\* Only an entry without a sibling loses it when it is its turn.
LEMMA PreprocessIsRight ==
    ASSUME TreeInv, DfsInv, EntriesInv, StackInv, pc = "display", i <= Len(buf)
    PROVE  \/ Preprocess = buf
           \/ /\ Preprocess = [buf EXCEPT ![i].next_sibling_pid = 0]
              /\ \A q \in Pids : ~Follows(children, buf[i].pid, q)
<1> DEFINE N == Len(buf)
<1>1. /\ Apart(children) /\ N \in Nat /\ DOMAIN buf = 1..N
      /\ \A m \in 1..N : buf[m].pid \in Pids
      /\ \A m, l \in 1..N : buf[m].pid = buf[l].pid => m = l
      /\ \A m \in 1..N, q \in Pids : Follows(children, buf[m].pid, q)
            => \E l \in 1..N : m < l /\ buf[l].pid = q
      /\ \A m \in 1..N : children[buf[m].pid] # <<>>
            => m < N /\ buf[m + 1].pid = Head(children[buf[m].pid])
      /\ \A m \in 1..N, q \in Pids :
            children[buf[m].pid] = <<>> /\ Follows(children, buf[m].pid, q)
               => m < N /\ buf[m + 1].pid = q
  BY DisplayOrder
<1>2. i \in 1..N
  BY <1>1 DEF StackInv
<1> HIDE DEF N
<1> SUFFICES ASSUME \/ i = N
                    \/ /\ buf[i].next_sibling_pid # buf[i + 1].pid
                       /\ buf[i].first_child_pid # buf[i + 1].pid,
                    NEW q \in Pids, Follows(children, buf[i].pid, q)
             PROVE  FALSE
  BY DEF Preprocess, N
<1>3. PICK l \in 1..N : i < l /\ buf[l].pid = q
  BY <1>1, <1>2
<1>4. i # N /\ i + 1 \in 1..N
  BY <1>1, <1>2, <1>3
<1>5. children[buf[i].pid] = <<>>
  <2>1. SUFFICES ASSUME children[buf[i].pid] # <<>> PROVE FALSE
    OBVIOUS
  <2>2. buf[i + 1].pid = Head(children[buf[i].pid])
    BY <1>1, <1>2, <2>1
  <2>3. buf[i].first_child_pid = Head(children[buf[i].pid])
    BY <1>1, <1>2, <2>1 DEF EntriesInv
  <2> QED
    BY <1>4, <2>2, <2>3
<1>6. buf[i + 1].pid = q
  BY <1>1, <1>2, <1>5
<1>7. buf[i].next_sibling_pid = q \/ \E k \in 1..(i - 1) : buf[k].pid = q
  BY <1>1, <1>2 DEF EntriesInv
<1>8. ASSUME NEW k \in 1..(i - 1) PROVE buf[k].pid # q
  <2>1. k \in 1..N /\ k # i + 1
    BY <1>1, <1>2
  <2> QED
    BY <1>1, <1>4, <1>6, <2>1
<1> QED
  BY <1>4, <1>6, <1>7, <1>8

-----------------------------------------------------------------------------
(* Depths.                                                                 *)

LEMMA TasksAreFinite == ASSUME TreeInv PROVE IsFiniteSet(tasks)
<1>1. IsFiniteSet(0..2) /\ IsFiniteSet(FirstPid..MaxPid)
  <2>1. 0 \in Int /\ 2 \in Int /\ FirstPid \in Int /\ MaxPid \in Int
    BY PidFacts
  <2> QED
    BY <2>1, FS_Interval
<1>2. Pids = 0..2 \cup FirstPid..MaxPid
  BY PidFacts DEF Pids
<1>3. IsFiniteSet(Pids)
  BY <1>1, <1>2, FS_Union
<1> QED
  BY <1>3, FS_Subset DEF TreeInv, KernelType

LEMMA RootHasNoAncestors == ASSUME TreeInv, ElderInv PROVE AncestorsOf(swapper) = {}
<1> DEFINE up == {swapper}
<1>1. up \in SUBSET tasks /\ swapper \in up /\ \A t \in up : real_parent[t] \in up
  BY DEF TreeInv, GroupInv, ElderInv
<1> QED
  BY <1>1 DEF AncestorsOf

\* The ancestors of a child are its parent and those of its parent.
LEMMA AncestorsOfChild ==
    ASSUME TreeInv, ElderInv, NEW S \in SUBSET Processes,
           \A x \in S \ {swapper} : real_parent[x] \in S,
           NEW c \in S \ {swapper}
    PROVE  LET f == real_parent[c]
           IN  AncestorsOf(c) = AncestorsOf(f) \cup {f} /\ f \notin AncestorsOf(f)
<1> DEFINE f == real_parent[c]
           Closed(up) == \A t \in up : real_parent[t] \in up
<1>1. /\ c \in tasks /\ f \in S /\ f \in tasks /\ S \subseteq tasks
      /\ \A x \in S \ {swapper} : real_parent[x] < x
  <2>1. \A x \in S : x \in tasks /\ group_leader[x] = x
    BY DEF Processes
  <2> QED
    BY <2>1 DEF ElderInv
<1>2. \A x \in tasks : x \in Nat
  BY PidFacts DEF TreeInv, KernelType
<1>3. f < c /\ f # c
  BY <1>1, <1>2
<1>4. /\ real_parent[swapper] = swapper /\ swapper = 0
  BY PidFacts DEF ElderInv
<1>5. \A p, q : q \in AncestorsOf(p) <=>
         /\ q \in tasks /\ q # p
         /\ \A up \in SUBSET tasks : p \in up /\ Closed(up) => q \in up
  BY DEF AncestorsOf
<1>6. \A x \in S \ {swapper} : real_parent[x] \in S
  OBVIOUS
<1> HIDE DEF f
<1>7. c \notin AncestorsOf(f)
  <2> DEFINE up == {x \in S : x <= f}
  <2>1. up \in SUBSET tasks /\ f \in up /\ c \notin up
    BY <1>1, <1>2, <1>3
  <2>2. ASSUME NEW t \in up PROVE real_parent[t] \in up
    <3>1. CASE t = swapper
      BY <1>4, <3>1
    <3>2. CASE t # swapper
      <4>1. real_parent[t] \in S /\ real_parent[t] < t /\ t <= f /\ t \in tasks
        BY <1>1, <1>6, <3>2
      <4>2. real_parent[t] <= f
        BY <1>1, <1>2, <4>1
      <4> QED
        BY <4>1, <4>2
    <3> QED
      BY <3>1, <3>2
  <2> HIDE DEF up
  <2> QED
    BY <1>5, <2>1, <2>2
<1>8. ASSUME NEW q \in AncestorsOf(f) \cup {f} PROVE q \in AncestorsOf(c)
  <2>1. q \in tasks /\ q # c
    BY <1>1, <1>3, <1>5, <1>7
  <2>2. ASSUME NEW up \in SUBSET tasks, c \in up, Closed(up) PROVE q \in up
    <3>1. f \in up
      BY <2>2 DEF f
    <3> QED
      BY <1>5, <1>8, <2>2, <3>1
  <2> QED
    BY <1>5, <2>1, <2>2
<1>9. ASSUME NEW q \in AncestorsOf(c), q # f PROVE q \in AncestorsOf(f)
  <2>1. q \in tasks /\ q # c
    BY <1>5
  <2>2. ASSUME NEW up \in SUBSET tasks, f \in up, Closed(up) PROVE q \in up
    <3> DEFINE more == up \cup {c}
    <3>1. more \in SUBSET tasks /\ c \in more /\ Closed(more)
      BY <1>1, <2>2 DEF f
    <3>2. q \in more
      BY <1>5, <3>1
    <3> QED
      BY <2>1, <3>2
  <2> QED
    BY <1>5, <1>9, <2>1, <2>2
<1>10. f \notin AncestorsOf(f)
  BY <1>5
<1> QED
  BY <1>8, <1>9, <1>10 DEF f

\* The depth of an entry is one more than its parent's.
LEMMA ChildIsDeeper ==
    ASSUME TreeInv, ElderInv, DfsInv, pc \in {"display", "pop", "printed"},
           NEW l \in 2..Len(buf)
    PROVE  LET f == real_parent[buf[l].pid]
           IN  /\ Cardinality(AncestorsOf(f)) \in Nat
               /\ Cardinality(AncestorsOf(buf[l].pid)) = Cardinality(AncestorsOf(f)) + 1
<1> DEFINE line == Listed
           S == {line[k] : k \in 1..Len(line)}
           c == line[l]
<1>1. /\ Len(line) \in Nat /\ Len(line) = Len(buf) /\ \A k \in 1..Len(buf) : line[k] = buf[k].pid
      /\ DepthFirst(children, line, Len(buf))
  BY LineFacts DEF DfsInv, InLine
<1>2. /\ \A k \in 1..Len(line) : line[k] \in Processes
      /\ \A k \in 2..Len(line) : \E j \in 1..Len(buf) : j < k /\ real_parent[line[k]] = line[j]
  BY <1>1, OnlyProcesses
<1>3. line[1] = swapper /\ IsInjective(line) /\ DOMAIN line = 1..Len(line)
  BY <1>1 DEF DepthFirst
<1> HIDE DEF line
<1>4. l \in 1..Len(line) /\ 1 \in 1..Len(line) /\ l # 1
  BY <1>1
<1>5. c # swapper /\ c \in S /\ c = buf[l].pid
  BY <1>1, <1>3, <1>4 DEF IsInjective
<1>6. S \in SUBSET Processes
  BY <1>2
<1>7. ASSUME NEW x \in S \ {swapper} PROVE real_parent[x] \in S
  <2>1. PICK k \in 1..Len(line) : x = line[k]
    OBVIOUS
  <2>2. k \in 2..Len(line)
    BY <1>1, <1>3, <2>1
  <2> QED
    BY <1>1, <1>2, <2>1, <2>2
<1> HIDE DEF S, c
<1> DEFINE f == real_parent[c]
<1>8. AncestorsOf(c) = AncestorsOf(f) \cup {f} /\ f \notin AncestorsOf(f)
  BY <1>5, <1>6, <1>7, AncestorsOfChild
<1>9. AncestorsOf(f) \subseteq tasks
  BY DEF AncestorsOf
<1> HIDE DEF f
<1>10. IsFiniteSet(AncestorsOf(f))
  BY <1>9, TasksAreFinite, FS_Subset
<1>11. Cardinality(AncestorsOf(f)) \in Nat
  BY <1>10, FS_CardinalityType
<1>12. Cardinality(AncestorsOf(f) \cup {f}) = Cardinality(AncestorsOf(f)) + 1
  BY <1>8, <1>10, FS_AddElement
<1> QED
  BY <1>5, <1>8, <1>11, <1>12 DEF f

-----------------------------------------------------------------------------
(* The steps of display().                                                 *)

\* What DepthInv says after a step that leaves the kernel and the order alone.
LEMMA DepthNext ==
    ASSUME UNCHANGED kernelVars, NEW N \in Nat, \A k \in 1..N : buf'[k].pid = buf[k].pid,
           i' - 1 \in 0..N, DOMAIN stack' = 1..Len(stack'),
           \A k \in 1..Len(stack') : stack'[k] \in 1..N,
           \A m \in Range(stack'), l \in 1..(i' - 1) : ~Follows(children, buf[m].pid, buf[l].pid),
           \A m \in 1..(i' - 1) :
              \/ m \in Range(stack') \/ buf'[m].next_sibling_pid = 0
              \/ Follows(children, buf[m].pid, buf'[m].next_sibling_pid),
           \A k \in 1..Len(stack') : Cardinality(AncestorsOf(buf[stack'[k]].pid)) = k - 1,
           \A n \in 1..(i' - 1) : tabcnt'[n] = Cardinality(AncestorsOf(buf[n].pid))
    PROVE  DepthInv'
<1>1. children' = children
  BY DEF kernelVars
<1>2. /\ \A l \in 1..(i' - 1) : l \in 1..N
      /\ \A m \in Range(stack') : m \in 1..N
  <2>1. \A l \in 1..(i' - 1) : l \in 1..N
    OBVIOUS
  <2>2. \A m \in Range(stack') : m \in 1..N
    BY DEF Range
  <2> QED
    BY <2>1, <2>2
<1>3. \A m \in Range(stack'), l \in 1..(i' - 1) :
         ~Follows(children', buf'[m].pid, buf'[l].pid)
  BY <1>1, <1>2
<1>4. \A m \in 1..(i' - 1) :
         \/ m \in Range(stack') \/ buf'[m].next_sibling_pid = 0
         \/ Follows(children', buf'[m].pid, buf'[m].next_sibling_pid)
  BY <1>1, <1>2
<1>5. \A p : AncestorsOf(p)' = AncestorsOf(p)
  BY HeadsStay
<1>6. ASSUME NEW k \in DOMAIN stack'
      PROVE  Cardinality(AncestorsOf(buf[stack[k]].pid)') = k - 1
  <2>1. buf'[stack'[k]].pid = buf[stack'[k]].pid
    BY <1>2
  <2> QED
    BY <1>5, <2>1
<1>7. ASSUME NEW n \in 1..(i' - 1) PROVE tabcnt'[n] = Cardinality(AncestorsOf(buf[n].pid)')
  BY <1>2, <1>5
<1> QED
  BY <1>3, <1>4, <1>6, <1>7 DEF DepthInv

LEMMA DisplayEntryKeeps ==
    ASSUME PtreeInv, DisplayEntry
    PROVE  DfsInv' /\ EntriesInv' /\ StackInv' /\ (HeadsReadAsNobody' => DepthInv')
<1> DEFINE N == Len(buf)
<1>1. /\ pc = "display" /\ i <= N /\ buf' = Preprocess /\ UNCHANGED kernelVars /\ todo' = todo
      /\ children' = children
  BY DEF DisplayEntry, kernelVars
<1>2. /\ TreeInv /\ ElderInv /\ DfsInv /\ EntriesInv /\ StackInv
      /\ HeadsReadAsNobody' => DepthInv
  BY <1>1, HeadsStay DEF PtreeInv
<1>3. /\ Apart(children) /\ N \in Nat /\ N > 0 /\ DOMAIN buf = 1..N
      /\ buf[1].pid = swapper /\ \A m \in 1..N : buf[m].pid \in Pids
      /\ \A m, l \in 1..N : buf[m].pid = buf[l].pid => m = l
      /\ \A m, l \in 1..N : Follows(children, buf[m].pid, buf[l].pid) => m < l
      /\ \A l \in 2..N :
            \/ children[buf[l - 1].pid] # <<>> /\ buf[l].pid = Head(children[buf[l - 1].pid])
            \/ \E k \in 1..(l - 1) : Follows(children, buf[k].pid, buf[l].pid)
  BY <1>1, <1>2, DisplayOrder
<1>4. buf \in Seq(Entry)
  BY <1>2 DEF DfsInv
<1>5. /\ i \in 1..N /\ Rising(stack, i) /\ tabcnt \in Seq(0..N) /\ Len(tabcnt) = i - 1
      /\ i > 1 => stack # <<>> /\ stack[Len(stack)] = i - 1
      /\ \A m \in 1..(i - 1), l \in i..N :
            Follows(children, buf[m].pid, buf[l].pid) => m \in Range(stack)
  BY <1>1, <1>2, <1>3 DEF StackInv
<1> HIDE DEF N
<1>6. \/ buf' = buf
      \/ /\ buf' = [buf EXCEPT ![i].next_sibling_pid = 0]
         /\ \A q \in Pids : ~Follows(children, buf[i].pid, q)
  BY <1>1, <1>2, PreprocessIsRight DEF N
<1>7. /\ buf' \in Seq(Entry) /\ Len(buf') = N
      /\ \A k \in 1..N : buf'[k].pid = buf[k].pid /\ (k # i => buf'[k] = buf[k])
  BY <1>4, <1>5, <1>6, ClearFacts DEF N
<1>8. pc' \in {"display", "pop", "printed"} /\ (i' = i \/ i' = i + 1)
  BY DEF DisplayEntry, Place
<1>9. DfsInv'
  BY <1>1, <1>2, <1>7, <1>8, DisplayStays DEF N
<1>10. EntriesInv'
  <2>1. CASE buf' = buf
    <3>1. i \in Nat
      BY <1>3, <1>5
    <3> QED
      BY <1>1, <1>2, <1>8, <2>1, <3>1, EntriesStay
  <2>2. CASE buf' # buf
    <3>1. i \in 1..(Len(buf) + 1) /\ i \in 1..Len(buf)
      BY <1>3, <1>5 DEF N
    <3> QED
      BY <1>1, <1>2, <1>4, <1>6, <1>8, <2>2, <3>1, EntriesCleared
  <2> QED
    BY <2>1, <2>2
<1>11. /\ Len(stack) \in Nat /\ DOMAIN stack = 1..Len(stack) /\ i \in Nat /\ i > 0
       /\ \A k \in 1..Len(stack) : /\ stack[k] \in 1..(i - 1) /\ stack[k] \in 1..N
                                    /\ stack[k] \in Range(stack)
       /\ \A x \in Range(stack) : \E k \in 1..Len(stack) : x = stack[k]
       /\ Len(stack) <= i - 1 \/ Len(stack) = 0
  <2>1. i \in Nat /\ i > 0 /\ \A k \in 1..(i - 1) : k \in 1..N
    BY <1>3, <1>5
  <2>2. /\ Len(stack) \in Nat /\ DOMAIN stack = 1..Len(stack)
        /\ \A k \in 1..Len(stack) : stack[k] \in 1..(i - 1) /\ stack[k] \in Range(stack)
        /\ \A x \in Range(stack) : \E k \in 1..Len(stack) : x = stack[k]
        /\ Len(stack) <= i - 1 \/ Len(stack) = 0
    BY <1>5, <2>1, RisingFacts
  <2> QED
    BY <2>1, <2>2
<1>12. stack # <<>> => i \in 2..N /\ Top = buf[i - 1] /\ i - 1 \in 1..N
  <2> SUFFICES ASSUME stack # <<>> PROVE i \in 2..N /\ Top = buf[i - 1] /\ i - 1 \in 1..N
    OBVIOUS
  <2>1. Len(stack) \in 1..Len(stack)
    <3>1. stack \in Seq(1..(i - 1))
      BY <1>5 DEF Rising
    <3> QED
      BY <3>1
  <2>2. stack[Len(stack)] \in 1..(i - 1)
    BY <1>11, <2>1
  <2>3. i > 1
    BY <1>11, <2>2
  <2>4. stack[Len(stack)] = i - 1
    BY <1>5, <2>3
  <2> QED
    BY <1>3, <1>5, <2>3, <2>4 DEF Top
<1>13. \A m \in 1..N : buf[m].first_child_pid = IF children[buf[m].pid] = <<>> THEN 0
                                                ELSE Head(children[buf[m].pid])
  BY <1>2, <1>3 DEF EntriesInv
<1>14. CASE stack = <<>> \/ buf[i].pid = Top.first_child_pid
  <2> DEFINE t == Append(stack, i)
             n == Len(stack)
  <2>1. /\ stack' = t /\ tabcnt' = Append(tabcnt, Len(t) - 1) /\ i' = i + 1
        /\ pc' = "display"
    BY <1>14 DEF DisplayEntry, Place
  <2>2. /\ Rising(t, i + 1) /\ Len(t) = n + 1 /\ t[n + 1] = i
        /\ \A k \in 1..n : t[k] = stack[k]
        /\ Range(t) = Range(stack) \cup {i}
    BY <1>5, <1>11, PushRises
  <2> HIDE DEF t, n
  <2>3. stack = <<>> => i = 1
    BY <1>5, <1>11
  <2>4. i # 1 => /\ stack # <<>> /\ i \in 2..N /\ i - 1 \in 1..N
                 /\ children[buf[i - 1].pid] # <<>>
                 /\ buf[i].pid = Head(children[buf[i - 1].pid])
    <3> SUFFICES ASSUME i # 1
                 PROVE  /\ stack # <<>> /\ i \in 2..N /\ i - 1 \in 1..N
                        /\ children[buf[i - 1].pid] # <<>>
                        /\ buf[i].pid = Head(children[buf[i - 1].pid])
      OBVIOUS
    <3>1. stack # <<>> /\ i \in 2..N /\ i - 1 \in 1..N /\ buf[i].pid = buf[i - 1].first_child_pid
      BY <1>12, <1>14, <2>3
    <3>2. buf[i].pid # 0
      <4>1. 1 \in 1..N /\ i \in 1..N
        BY <1>3, <1>5
      <4>2. buf[i].pid # buf[1].pid
        BY <1>3, <4>1
      <4> QED
        BY <1>3, <4>2, PidFacts
    <3> QED
      BY <1>13, <3>1, <3>2
  <2>5. i # 1 => real_parent[buf[i].pid] = buf[i - 1].pid /\ \A q : ~Follows(children, q, buf[i].pid)
    <3> SUFFICES ASSUME i # 1
                 PROVE  /\ real_parent[buf[i].pid] = buf[i - 1].pid
                        /\ \A q : ~Follows(children, q, buf[i].pid)
      OBVIOUS
    <3> DEFINE f == buf[i - 1].pid
    <3>1. f \in Pids /\ children[f] # <<>> /\ buf[i].pid = Head(children[f])
      BY <1>3, <2>4
    <3> HIDE DEF f
    <3>2. children[f] \in Seq(Pids)
      BY <1>3, <3>1, OnAList
    <3>3. 1 \in 1..Len(children[f]) /\ buf[i].pid = children[f][1]
      BY <3>1, <3>2
    <3>4. buf[i].pid \in Range(children[f])
      BY <1>3, <3>1, <3>3, OnAList
    <3>5. real_parent[buf[i].pid] = f
      BY <1>2, <3>1, <3>4 DEF TreeInv, ListsAreTheParents
    <3>6. \A q : Follows(children, q, children[f][1]) => 1 < 1
      BY <1>3, <3>1, <3>3, JthFollows
    <3> QED
      BY <3>3, <3>5, <3>6 DEF f
  <2>6. \A m \in 1..N : ~Follows(children, buf[m].pid, buf[i].pid)
    <3>1. CASE i = 1
      BY <1>3, <3>1, FollowsFacts
    <3>2. CASE i # 1
      BY <2>5, <3>2
    <3> QED
      BY <3>1, <3>2
  <2>7. n + 1 <= N /\ n \in Nat
    BY <1>3, <1>5, <1>11 DEF n
  <2>8. tabcnt' \in Seq(0..N) /\ Len(tabcnt') = i /\ tabcnt'[i] = n
        /\ \A k \in 1..(i - 1) : tabcnt'[k] = tabcnt[k]
    <3>1. Len(t) - 1 = n /\ n \in 0..N
      BY <1>3, <2>2, <2>7
    <3>2. tabcnt' = Append(tabcnt, n)
      BY <2>1, <3>1
    <3> QED
      BY <1>5, <1>11, <3>1, <3>2
  <2>9. i' - 1 = i /\ \A m \in 1..i : m = i \/ m \in 1..(i - 1)
    BY <1>11, <2>1
  <2>10. StackInv'
    <3>1. i' \in 1..(Len(buf') + 1) /\ i' > 1 /\ stack' # <<>> /\ stack'[Len(stack')] = i' - 1
      <4>1. i + 1 \in 1..(N + 1) /\ i + 1 > 1
        BY <1>3, <1>5
      <4>2. Len(stack') = n + 1 /\ n + 1 # 0
        BY <2>1, <2>2, <2>7
      <4> QED
        BY <1>7, <2>1, <2>2, <2>9, <4>1, <4>2
    <3>2. ASSUME NEW m \in 1..i, NEW l \in (i + 1)..N, Follows(children, buf[m].pid, buf[l].pid)
          PROVE  m \in Range(stack')
      <4>1. l \in i..N
        BY <1>3, <1>11
      <4> QED
        BY <1>5, <2>1, <2>2, <2>9, <3>2, <4>1
    <3>3. ASSUME NEW m \in 1..i, NEW l \in (i + 1)..N, Follows(children, buf'[m].pid, buf'[l].pid)
          PROVE  m \in Range(stack')
      <4>1. m \in 1..N /\ l \in 1..N
        BY <1>3, <1>5
      <4> QED
        BY <1>7, <3>2, <3>3, <4>1
    <3>4. Rising(stack', i') /\ tabcnt' \in Seq(0..Len(buf')) /\ Len(tabcnt') = i' - 1
      BY <1>7, <2>1, <2>2, <2>8, <2>9
    <3>5. \A m \in 1..(i' - 1), l \in i'..Len(buf') :
             Follows(children', buf'[m].pid, buf'[l].pid) => m \in Range(stack')
      BY <1>1, <1>7, <2>1, <2>9, <3>3
    <3> QED
      BY <2>1, <3>1, <3>4, <3>5 DEF StackInv
  <2>11. ASSUME HeadsReadAsNobody' PROVE DepthInv'
    <3>1. DepthInv
      BY <1>2, <2>11
    <3>2. ASSUME NEW m \in Range(stack'), NEW l \in 1..i
          PROVE  ~Follows(children, buf[m].pid, buf[l].pid)
      <4>1. l \in 1..N /\ m \in 1..N
        BY <1>3, <1>5, <1>11, <2>1, <2>2
      <4>2. CASE l = i
        BY <2>6, <4>1, <4>2
      <4>3. CASE l \in 1..(i - 1) /\ m \in Range(stack)
        BY <3>1, <4>3 DEF DepthInv
      <4>4. CASE l \in 1..(i - 1) /\ m = i
        <5>1. ~(i < l)
          BY <1>11, <4>4
        <5> QED
          BY <1>3, <4>1, <4>4, <5>1
      <4> QED
        BY <2>1, <2>2, <2>9, <4>2, <4>3, <4>4
    <3>3. ASSUME NEW m \in 1..i
          PROVE  \/ m \in Range(stack') \/ buf'[m].next_sibling_pid = 0
                 \/ Follows(children, buf[m].pid, buf'[m].next_sibling_pid)
      <4>1. CASE m = i
        BY <2>1, <2>2, <4>1
      <4>2. CASE m \in 1..(i - 1)
        <5>1. m \in 1..N /\ m # i
          BY <1>3, <1>5, <4>2
        <5> QED
          BY <1>7, <2>1, <2>2, <3>1, <4>2, <5>1 DEF DepthInv
      <4> QED
        BY <2>9, <4>1, <4>2
    <3>4. Cardinality(AncestorsOf(buf[i].pid)) = n
      <4>1. CASE i = 1
        <5>1. n = 0
          BY <1>11, <4>1 DEF n
        <5>2. AncestorsOf(buf[i].pid) = {}
          BY <1>2, <1>3, <4>1, RootHasNoAncestors
        <5> QED
          BY <5>1, <5>2, FS_EmptySet
      <4>2. CASE i # 1
        <5>1. n \in 1..Len(stack) /\ stack[n] = i - 1
          <6>1. stack # <<>> /\ i > 1
            BY <1>11, <2>4, <4>2
          <6>2. stack \in Seq(1..(i - 1))
            BY <1>5 DEF Rising
          <6> QED
            BY <1>5, <6>1, <6>2 DEF n
        <5>2. Cardinality(AncestorsOf(buf[i - 1].pid)) = n - 1
          BY <1>11, <3>1, <5>1 DEF DepthInv
        <5>3. i \in 2..Len(buf)
          BY <2>4, <4>2 DEF N
        <5>4. /\ Cardinality(AncestorsOf(real_parent[buf[i].pid])) \in Nat
              /\ Cardinality(AncestorsOf(buf[i].pid))
                   = Cardinality(AncestorsOf(real_parent[buf[i].pid])) + 1
          BY <1>1, <1>2, <5>3, ChildIsDeeper
        <5>5. real_parent[buf[i].pid] = buf[i - 1].pid
          BY <2>5, <4>2
        <5> QED
          BY <2>7, <5>2, <5>4, <5>5
      <4> QED
        BY <4>1, <4>2
    <3>5. ASSUME NEW k \in 1..Len(stack') PROVE Cardinality(AncestorsOf(buf[stack'[k]].pid)) = k - 1
      <4>1. CASE k = n + 1
        <5>1. k - 1 = n
          BY <2>7, <4>1
        <5> QED
          BY <2>1, <2>2, <3>4, <4>1, <5>1
      <4>2. CASE k # n + 1
        <5>1. k \in 1..n
          BY <2>1, <2>2, <2>7, <4>2
        <5>2. k \in DOMAIN stack
          BY <1>11, <5>1 DEF n
        <5> QED
          BY <2>1, <2>2, <3>1, <5>1, <5>2 DEF DepthInv
      <4> QED
        BY <4>1, <4>2
    <3>6. ASSUME NEW k \in 1..i PROVE tabcnt'[k] = Cardinality(AncestorsOf(buf[k].pid))
      <4>1. CASE k = i
        BY <2>8, <3>4, <4>1
      <4>2. CASE k \in 1..(i - 1)
        BY <2>8, <3>1, <4>2 DEF DepthInv
      <4> QED
        BY <2>9, <4>1, <4>2
    <3>7. ASSUME NEW k \in 1..Len(stack') PROVE stack'[k] \in 1..N
      <4>1. CASE k = n + 1
        BY <1>5, <2>1, <2>2, <4>1
      <4>2. CASE k # n + 1
        <5>1. k \in 1..n
          BY <2>1, <2>2, <2>7, <4>2
        <5> QED
          BY <1>11, <2>1, <2>2, <5>1 DEF n
      <4> QED
        BY <4>1, <4>2
    <3>8. DOMAIN stack' = 1..Len(stack')
      <4>1. stack' \in Seq(1..((i + 1) - 1))
        BY <2>1, <2>2 DEF Rising
      <4> QED
        BY <4>1
    <3>9. i' - 1 \in 0..N
      BY <1>3, <1>5, <2>9
    <3> QED
      BY <1>1, <1>3, <1>7, <2>9, <3>2, <3>3, <3>5, <3>6, <3>7, <3>8, <3>9, DepthNext
  <2> QED
    BY <1>9, <1>10, <2>10, <2>11
<1>15. CASE stack # <<>> /\ buf[i].pid # Top.first_child_pid
  <2>1. pc' = "pop" /\ UNCHANGED <<i, stack, tabcnt>>
    BY <1>15 DEF DisplayEntry
  <2>2. i \in 2..N /\ Top = buf[i - 1] /\ i - 1 \in 1..N
    BY <1>12, <1>15
  <2>3. PICK m \in 1..(i - 1) : Follows(children, buf[m].pid, buf[i].pid)
    BY <1>3, <1>13, <1>15, <2>2
  <2>4. m \in Range(stack)
    <3>1. i \in i..N
      BY <1>3, <2>2
    <3> QED
      BY <1>5, <2>3, <3>1
  <2>5. \E k \in 1..Len(stack) : Follows(children, buf'[stack[k]].pid, buf'[i].pid)
    <3>1. PICK k \in 1..Len(stack) : m = stack[k]
      BY <1>11, <2>4
    <3>2. stack[k] \in 1..N
      BY <1>11
    <3> QED
      BY <1>5, <1>7, <2>3, <3>1, <3>2
  <2>6. \A k \in 1..(i - 1) : k \in 1..N /\ k # i
    BY <1>3, <1>5
  <2>7. \A l \in i..N : l \in 1..N
    BY <1>3, <1>5
  <2>8. StackInv'
    <3>1. \A k \in 1..(i' - 1), l \in i'..Len(buf') :
             Follows(children', buf'[k].pid, buf'[l].pid) => k \in Range(stack')
      BY <1>1, <1>5, <1>7, <2>1, <2>6, <2>7
    <3>2. i' \in 1..(Len(buf') + 1) /\ i' <= Len(buf')
      BY <1>3, <1>5, <1>7, <2>1
    <3>3. \E k \in DOMAIN stack' : Follows(children', buf'[stack'[k]].pid, buf'[i'].pid)
      BY <1>1, <1>11, <2>1, <2>5
    <3> QED
      BY <1>5, <1>7, <2>1, <3>1, <3>2, <3>3 DEF StackInv
  <2>9. ASSUME HeadsReadAsNobody' PROVE DepthInv'
    <3>1. DepthInv
      BY <1>2, <2>9
    <3>2. i' - 1 \in 0..N
      BY <1>3, <1>5, <2>1
    <3>3. \A k \in 1..(i' - 1) :
             \/ k \in Range(stack') \/ buf'[k].next_sibling_pid = 0
             \/ Follows(children, buf[k].pid, buf'[k].next_sibling_pid)
      BY <1>7, <2>1, <2>6, <3>1 DEF DepthInv
    <3>4. /\ \A k \in Range(stack'), l \in 1..(i' - 1) : ~Follows(children, buf[k].pid, buf[l].pid)
          /\ \A k \in 1..Len(stack') : Cardinality(AncestorsOf(buf[stack'[k]].pid)) = k - 1
          /\ \A k \in 1..(i' - 1) : tabcnt'[k] = Cardinality(AncestorsOf(buf[k].pid))
      BY <1>11, <2>1, <3>1 DEF DepthInv
    <3>5. DOMAIN stack' = 1..Len(stack') /\ \A k \in 1..Len(stack') : stack'[k] \in 1..N
      BY <1>11, <2>1
    <3> QED
      BY <1>1, <1>3, <1>7, <3>2, <3>3, <3>4, <3>5, DepthNext
  <2> QED
    BY <1>9, <1>10, <2>8, <2>9
<1> QED
  BY <1>14, <1>15

\* While an entry's older sibling is looked for, it is on the stack.
LEMMA WhilePopping ==
    ASSUME TreeInv, DfsInv, EntriesInv, StackInv, pc = "pop"
    PROVE  /\ stack # <<>> /\ i \in 2..Len(buf) /\ Rising(stack, i)
           /\ stack[Len(stack)] \in 1..(i - 1)
           /\ \A m \in Range(stack) : m \in 1..(i - 1)
           /\ \A k \in 1..(i - 1) : k \in 1..Len(buf)
           /\ \E o \in Range(stack) : /\ Follows(children, buf[o].pid, buf[i].pid)
                                       /\ buf[o].next_sibling_pid = buf[i].pid
<1> DEFINE N == Len(buf)
<1>1. /\ N \in Nat /\ DOMAIN buf = 1..N /\ \A m \in 1..N : buf[m].pid \in Pids
      /\ \A m, l \in 1..N : buf[m].pid = buf[l].pid => m = l
  BY DisplayOrder
<1>2. /\ i \in 1..(N + 1) /\ i <= N /\ Rising(stack, i)
      /\ \E k \in DOMAIN stack : Follows(children, buf[stack[k]].pid, buf[i].pid)
  BY DEF StackInv
<1> HIDE DEF N
<1>3. i \in 1..N /\ i \in Nat /\ \A k \in 1..(i - 1) : k \in 1..N /\ k # i
  BY <1>1, <1>2
<1>4. /\ Len(stack) \in Nat /\ DOMAIN stack = 1..Len(stack)
      /\ \A k \in 1..Len(stack) : stack[k] \in 1..(i - 1) /\ stack[k] \in Range(stack)
      /\ \A x \in Range(stack) : \E k \in 1..Len(stack) : x = stack[k]
  BY <1>2, <1>3, RisingFacts
<1>5. PICK k \in 1..Len(stack) : Follows(children, buf[stack[k]].pid, buf[i].pid)
  BY <1>2, <1>4
<1> DEFINE o == stack[k]
<1>6. o \in Range(stack) /\ o \in 1..(i - 1) /\ o \in 1..N
  BY <1>3, <1>4
<1>7. Len(stack) \in 1..Len(stack) /\ stack # <<>>
  BY <1>4
<1>8. i \in 2..N
  <2>1. 1 <= o /\ o <= i - 1 /\ o \in Nat
    BY <1>3, <1>6
  <2> HIDE DEF o
  <2> QED
    BY <1>3, <2>1
<1>9. buf[o].next_sibling_pid = buf[i].pid
  <2>1. buf[o].next_sibling_pid = buf[i].pid \/ \E l \in 1..(i - 1) : buf[l].pid = buf[i].pid
    BY <1>1, <1>3, <1>5, <1>6 DEF EntriesInv
  <2>2. \A l \in 1..(i - 1) : buf[l].pid # buf[i].pid
    BY <1>1, <1>3
  <2> QED
    BY <2>1, <2>2
<1> QED
  BY <1>2, <1>3, <1>4, <1>5, <1>6, <1>7, <1>8, <1>9 DEF N

LEMMA DisplayPopKeepsAll ==
    ASSUME PtreeInv, DisplayPop
    PROVE  DfsInv' /\ EntriesInv' /\ StackInv' /\ (HeadsReadAsNobody' => DepthInv')
<1> DEFINE N == Len(buf)
           m == stack[Len(stack)]
<1>1. /\ pc = "pop" /\ buf[i].pid # buf[m].next_sibling_pid
      /\ buf' = [buf EXCEPT ![m].next_sibling_pid = 0]
      /\ stack' = Front(stack) /\ UNCHANGED kernelVars /\ todo' = todo /\ pc' = "pop" /\ i' = i
      /\ tabcnt' = tabcnt /\ children' = children
  BY DEF DisplayPop, Top, kernelVars
<1>2. /\ TreeInv /\ ElderInv /\ DfsInv /\ EntriesInv /\ StackInv
      /\ HeadsReadAsNobody' => DepthInv
  BY <1>1, HeadsStay DEF PtreeInv
<1>3. /\ Apart(children) /\ N \in Nat /\ DOMAIN buf = 1..N
      /\ \A k \in 1..N : buf[k].pid \in Pids
      /\ \A k, l \in 1..N : buf[k].pid = buf[l].pid => k = l
      /\ \A a, b, c, d \in 1..N : a < b /\ b < c /\ c < d
            => ~(/\ Follows(children, buf[a].pid, buf[c].pid)
                 /\ Follows(children, buf[b].pid, buf[d].pid))
      /\ \A k \in 1..N, q \in Pids : Follows(children, buf[k].pid, q)
            => \E l \in 1..N : k < l /\ buf[l].pid = q
  BY <1>1, <1>2, DisplayOrder
<1>4. buf \in Seq(Entry)
  BY <1>2 DEF DfsInv
<1>5. /\ tabcnt \in Seq(0..N) /\ Len(tabcnt) = i - 1
      /\ \A k \in 1..(i - 1), l \in i..N :
            Follows(children, buf[k].pid, buf[l].pid) => k \in Range(stack)
  BY <1>1, <1>2 DEF StackInv
<1>6. /\ stack # <<>> /\ i \in 2..N /\ Rising(stack, i) /\ m \in 1..(i - 1)
      /\ \A k \in Range(stack) : k \in 1..(i - 1)
      /\ \A k \in 1..(i - 1) : k \in 1..N
      /\ \E o \in Range(stack) : /\ Follows(children, buf[o].pid, buf[i].pid)
                                  /\ buf[o].next_sibling_pid = buf[i].pid
  BY <1>1, <1>2, WhilePopping
<1> HIDE DEF N
<1> DEFINE t == Front(stack)
<1>7. /\ Rising(t, i) /\ Len(t) = Len(stack) - 1 /\ \A k \in 1..Len(t) : t[k] = stack[k]
      /\ Range(t) = Range(stack) \ {m} /\ m \in Range(stack)
      /\ \A x \in Range(t) : x < m
  <2>1. i \in Nat
    BY <1>3, <1>6
  <2> QED
    BY <1>6, <2>1, PopRises
<1> HIDE DEF t, m
<1>8. PICK o \in Range(stack) : /\ Follows(children, buf[o].pid, buf[i].pid)
                                /\ buf[o].next_sibling_pid = buf[i].pid
  BY <1>6
<1>9. o # m /\ o \in Range(t) /\ o < m /\ o \in 1..N /\ m \in 1..N /\ i \in 1..N /\ m < i
  <2>1. o # m
    BY <1>1, <1>8
  <2>2. i \in 1..N /\ m < i
    BY <1>3, <1>6
  <2> QED
    BY <1>6, <1>7, <2>1, <2>2
<1>10. ASSUME NEW q \in Pids, Follows(children, buf[m].pid, q)
       PROVE  \E l \in 1..(i - 1) : buf[l].pid = q
  <2>1. PICK l \in 1..N : m < l /\ buf[l].pid = q
    BY <1>3, <1>9, <1>10
  <2>2. CASE l < i
    <3>1. l \in 1..(i - 1)
      BY <1>3, <1>6, <2>2
    <3> QED
      BY <2>1, <3>1
  <2>3. CASE l = i
    <3>1. buf[m].next_sibling_pid = buf[i].pid \/ \E k \in 1..(i - 1) : buf[k].pid = buf[i].pid
      BY <1>2, <1>3, <1>9, <1>10, <2>1, <2>3 DEF EntriesInv
    <3>2. \A k \in 1..(i - 1) : k \in 1..N /\ k # i
      BY <1>3, <1>6
    <3>3. \A k \in 1..(i - 1) : buf[k].pid # buf[i].pid
      BY <1>3, <1>9, <3>2
    <3> QED
      BY <1>1, <3>1, <3>3
  <2>4. CASE i < l
    BY <1>3, <1>8, <1>9, <1>10, <2>1, <2>4
  <2> QED
    BY <1>3, <1>9, <2>2, <2>3, <2>4
<1>11. /\ buf' \in Seq(Entry) /\ Len(buf') = N
       /\ \A k \in 1..N : buf'[k].pid = buf[k].pid /\ (k # m => buf'[k] = buf[k])
       /\ buf'[m].next_sibling_pid = 0
  BY <1>1, <1>4, <1>9, ClearFacts DEF N
<1>12. DfsInv'
  BY <1>1, <1>2, <1>11, DisplayStays DEF N
<1>13. EntriesInv'
  <2>1. HeadsReadAsNobody => \A q \in Pids : ~Follows(children, buf[m].pid, q)
    <3> SUFFICES ASSUME HeadsReadAsNobody, NEW q \in Pids, Follows(children, buf[m].pid, q)
                 PROVE  FALSE
      OBVIOUS
    <3>1. DepthInv
      BY DEF PtreeInv
    <3>2. PICK l \in 1..(i - 1) : buf[l].pid = q
      BY <1>10
    <3>3. ~Follows(children, buf[m].pid, buf[l].pid)
      BY <1>7, <3>1 DEF DepthInv
    <3> QED
      BY <3>2, <3>3
  <2>2. i \in 1..(Len(buf) + 1) /\ m \in 1..Len(buf)
    BY <1>3, <1>9 DEF N
  <2> QED
    BY <1>1, <1>2, <1>4, <1>10, <2>1, <2>2, EntriesCleared
<1>14. /\ Len(t) \in Nat /\ DOMAIN t = 1..Len(t)
       /\ \A k \in 1..Len(t) : t[k] \in 1..(i - 1) /\ t[k] \in Range(t)
       /\ \A x \in Range(t) : \E k \in 1..Len(t) : x = t[k]
  <2>1. i \in Nat
    BY <1>3, <1>9
  <2> QED
    BY <1>7, <2>1, RisingFacts
<1>15. stack' = t
  BY <1>1 DEF t
<1>16. StackInv'
  <2>1. ASSUME NEW k \in 1..(i - 1), NEW l \in i..N, Follows(children, buf[k].pid, buf[l].pid)
        PROVE  k \in Range(t)
    <3>1. l \in 1..N /\ ~(l < i)
      BY <1>3, <1>6
    <3>2. k \in Range(stack)
      BY <1>5, <2>1
    <3>3. k # m
      <4>1. SUFFICES ASSUME k = m PROVE FALSE
        OBVIOUS
      <4>2. PICK j \in 1..(i - 1) : buf[j].pid = buf[l].pid
        BY <1>3, <1>10, <2>1, <3>1, <4>1
      <4>3. j = l
        BY <1>3, <1>6, <3>1, <4>2
      <4> QED
        BY <1>3, <1>9, <3>1, <4>3
    <3> QED
      BY <1>7, <3>2, <3>3
  <2>2. /\ \A k \in 1..(i - 1) : k \in 1..N
        /\ \A l \in i..N : l \in 1..N
    BY <1>3, <1>6
  <2>3. \A k \in 1..(i' - 1), l \in i'..Len(buf') :
           Follows(children', buf'[k].pid, buf'[l].pid) => k \in Range(stack')
    BY <1>1, <1>11, <1>15, <2>1, <2>2
  <2>4. \E k \in DOMAIN stack' : Follows(children', buf'[stack'[k]].pid, buf'[i'].pid)
    <3>1. PICK k \in 1..Len(t) : o = t[k]
      BY <1>9, <1>14
    <3> QED
      BY <1>1, <1>8, <1>9, <1>11, <1>14, <1>15, <3>1
  <2>5. i' \in 1..(Len(buf') + 1) /\ i' <= Len(buf')
    BY <1>1, <1>3, <1>9, <1>11
  <2> QED
    BY <1>1, <1>5, <1>7, <1>11, <1>15, <2>3, <2>4, <2>5 DEF StackInv
<1>17. ASSUME HeadsReadAsNobody' PROVE DepthInv'
  <2>1. DepthInv
    BY <1>2, <1>17
  <2>2. i' - 1 \in 0..N
    BY <1>1, <1>3, <1>9
  <2>3. \A k \in 1..(i' - 1) :
           \/ k \in Range(stack') \/ buf'[k].next_sibling_pid = 0
           \/ Follows(children, buf[k].pid, buf'[k].next_sibling_pid)
    BY <1>1, <1>6, <1>7, <1>11, <1>15, <2>1 DEF DepthInv
  <2>4. \A k \in Range(stack'), l \in 1..(i' - 1) : ~Follows(children, buf[k].pid, buf[l].pid)
    BY <1>1, <1>7, <1>15, <2>1 DEF DepthInv
  <2>5. \A k \in 1..Len(t) : k \in DOMAIN stack
    <3>1. stack \in Seq(1..(i - 1))
      BY <1>6 DEF Rising
    <3> QED
      BY <1>7, <1>14, <3>1
  <2>6. \A k \in 1..Len(stack') : Cardinality(AncestorsOf(buf[stack'[k]].pid)) = k - 1
    BY <1>7, <1>15, <2>1, <2>5 DEF DepthInv
  <2>7. \A k \in 1..(i' - 1) : tabcnt'[k] = Cardinality(AncestorsOf(buf[k].pid))
    BY <1>1, <2>1 DEF DepthInv
  <2>8. DOMAIN stack' = 1..Len(stack') /\ \A k \in 1..Len(stack') : stack'[k] \in 1..N
    BY <1>6, <1>14, <1>15
  <2> QED
    BY <1>1, <1>3, <1>11, <2>2, <2>3, <2>4, <2>6, <2>7, <2>8, DepthNext
<1> QED
  BY <1>12, <1>13, <1>16, <1>17

LEMMA DisplaySiblingKeeps ==
    ASSUME PtreeInv, DisplaySibling
    PROVE  DfsInv' /\ EntriesInv' /\ StackInv' /\ (HeadsReadAsNobody' => DepthInv')
<1> DEFINE N == Len(buf)
           m == stack[Len(stack)]
           r == Front(stack)
           t == Append(r, i)
<1>1. /\ pc = "pop" /\ buf[i].pid = buf[m].next_sibling_pid
      /\ buf' = buf /\ stack' = t /\ tabcnt' = Append(tabcnt, Len(t) - 1) /\ i' = i + 1
      /\ UNCHANGED kernelVars /\ todo' = todo /\ pc' = "display" /\ children' = children
  BY DEF DisplaySibling, Place, Top, kernelVars
<1>2. /\ TreeInv /\ ElderInv /\ DfsInv /\ EntriesInv /\ StackInv
      /\ HeadsReadAsNobody' => DepthInv
  BY <1>1, HeadsStay DEF PtreeInv
<1>3. /\ Apart(children) /\ N \in Nat /\ DOMAIN buf = 1..N
      /\ buf[1].pid = swapper /\ \A k \in 1..N : buf[k].pid \in Pids
      /\ \A k, l \in 1..N : buf[k].pid = buf[l].pid => k = l
      /\ \A k, l \in 1..N : Follows(children, buf[k].pid, buf[l].pid) => k < l
  BY <1>1, <1>2, DisplayOrder
<1>4. buf \in Seq(Entry)
  BY <1>2 DEF DfsInv
<1>5. /\ tabcnt \in Seq(0..N) /\ Len(tabcnt) = i - 1
      /\ \A k \in 1..(i - 1), l \in i..N :
            Follows(children, buf[k].pid, buf[l].pid) => k \in Range(stack)
  BY <1>1, <1>2 DEF StackInv
<1>6. /\ stack # <<>> /\ i \in 2..N /\ Rising(stack, i) /\ m \in 1..(i - 1)
      /\ \A k \in Range(stack) : k \in 1..(i - 1)
      /\ \A k \in 1..(i - 1) : k \in 1..N
      /\ \E o \in Range(stack) : /\ Follows(children, buf[o].pid, buf[i].pid)
                                  /\ buf[o].next_sibling_pid = buf[i].pid
  BY <1>1, <1>2, WhilePopping
<1> HIDE DEF N
<1>7. i \in Nat /\ i > 0 /\ i \in 1..N /\ \A k \in 1..i : k = i \/ k \in 1..(i - 1)
  BY <1>3, <1>6
<1>8. /\ Rising(r, i) /\ Len(r) = Len(stack) - 1 /\ \A k \in 1..Len(r) : r[k] = stack[k]
      /\ Range(r) = Range(stack) \ {m} /\ m \in Range(stack)
      /\ Len(stack) \in 1..Len(stack)
  BY <1>6, <1>7, PopRises
<1> HIDE DEF m, r
<1>9. /\ Len(r) \in Nat /\ DOMAIN r = 1..Len(r)
      /\ \A k \in 1..Len(r) : r[k] \in 1..(i - 1) /\ r[k] \in Range(r)
      /\ Len(r) <= i - 1 \/ Len(r) = 0
  BY <1>7, <1>8, RisingFacts
<1> DEFINE n == Len(r)
<1>10. /\ Rising(t, i + 1) /\ Len(t) = n + 1 /\ t[n + 1] = i
       /\ \A k \in 1..n : t[k] = r[k]
       /\ Range(t) = Range(r) \cup {i}
  BY <1>7, <1>8, PushRises
<1> HIDE DEF t, n
<1>11. /\ n \in Nat /\ n + 1 <= N /\ \A k \in 1..n : k \in DOMAIN stack /\ t[k] = stack[k]
       /\ Len(stack) = n + 1 /\ n + 1 \in DOMAIN stack /\ m = stack[n + 1]
  <2>1. DOMAIN stack = 1..Len(stack)
    <3>1. stack \in Seq(1..(i - 1))
      BY <1>6 DEF Rising
    <3> QED
      BY <3>1
  <2>2. n \in Nat /\ n + 1 <= N
    BY <1>3, <1>7, <1>9 DEF n
  <2>3. Len(stack) = n + 1
    BY <1>8, <1>9 DEF n
  <2>4. \A k \in 1..n : k \in 1..(n + 1)
    BY <2>2
  <2> QED
    BY <1>8, <1>10, <2>1, <2>2, <2>3, <2>4 DEF n, m
<1>12. DfsInv'
  BY <1>1, <1>2, <1>4, DisplayStays
<1>13. EntriesInv'
  BY <1>1, <1>2, <1>7, EntriesStay
<1>14. /\ tabcnt' \in Seq(0..N) /\ Len(tabcnt') = i /\ tabcnt'[i] = n
       /\ \A k \in 1..(i - 1) : tabcnt'[k] = tabcnt[k]
  <2>1. Len(t) - 1 = n /\ n \in 0..N
    BY <1>3, <1>10, <1>11
  <2>2. tabcnt' = Append(tabcnt, n)
    BY <1>1, <2>1
  <2> QED
    BY <1>5, <1>7, <2>1, <2>2
<1>15. i' - 1 = i
  BY <1>1, <1>7
<1>16. StackInv'
  <2>1. i' \in 1..(Len(buf') + 1) /\ i' > 1 /\ stack' # <<>> /\ stack'[Len(stack')] = i' - 1
    <3>1. i + 1 \in 1..(N + 1) /\ i + 1 > 1
      BY <1>3, <1>7
    <3>2. Len(stack') = n + 1 /\ n + 1 # 0
      BY <1>1, <1>10, <1>11
    <3> QED
      BY <1>1, <1>10, <1>15, <3>1, <3>2 DEF N
  <2>2. ASSUME NEW k \in 1..i, NEW l \in (i + 1)..N, Follows(children, buf[k].pid, buf[l].pid)
        PROVE  k \in Range(stack')
    <3>1. l \in i..N /\ l \in 1..N /\ l # i /\ ~(l <= i)
      BY <1>3, <1>7
    <3>2. CASE k = i
      BY <1>1, <1>10, <3>2
    <3>3. CASE k \in 1..(i - 1)
      <4>1. k \in Range(stack) /\ k \in 1..N
        BY <1>5, <1>6, <2>2, <3>1, <3>3
      <4>2. k # m
        <5>1. SUFFICES ASSUME k = m PROVE FALSE
          OBVIOUS
        <5>2. \/ buf[m].next_sibling_pid = buf[l].pid
              \/ \E j \in 1..(i - 1) : buf[j].pid = buf[l].pid
          BY <1>2, <1>3, <2>2, <3>1, <4>1, <5>1 DEF EntriesInv
        <5>3. buf[i].pid # buf[l].pid
          BY <1>3, <1>7, <3>1
        <5>4. ASSUME NEW j \in 1..(i - 1) PROVE buf[j].pid # buf[l].pid
          <6>1. j \in 1..N /\ j # l
            BY <1>6, <1>7, <3>1
          <6> QED
            BY <1>3, <3>1, <6>1
        <5> QED
          BY <1>1, <5>2, <5>3, <5>4
      <4> QED
        BY <1>1, <1>8, <1>10, <4>1, <4>2
    <3> QED
      BY <1>7, <3>2, <3>3
  <2>3. \A k \in 1..(i' - 1), l \in i'..Len(buf') :
           Follows(children', buf'[k].pid, buf'[l].pid) => k \in Range(stack')
    BY <1>1, <1>15, <2>2 DEF N
  <2>4. Rising(stack', i') /\ tabcnt' \in Seq(0..Len(buf')) /\ Len(tabcnt') = i' - 1
    BY <1>1, <1>10, <1>14, <1>15 DEF N
  <2> QED
    BY <1>1, <2>1, <2>3, <2>4 DEF StackInv
<1>17. ASSUME HeadsReadAsNobody' PROVE DepthInv'
  <2>1. DepthInv /\ HeadsReadAsNobody
    BY <1>1, <1>2, <1>17, HeadsStay
  <2>2. PICK o \in Range(stack) : Follows(children, buf[o].pid, buf[i].pid)
    BY <1>6
  <2>3. m \in 1..N /\ buf[m].pid \in Pids /\ buf[i].pid \in Pids
    BY <1>3, <1>6, <1>7, <1>8
  <2>4. Follows(children, buf[m].pid, buf[i].pid)
    <3>1. \/ Follows(children, buf[m].pid, buf[i].pid)
          \/ buf[i].pid \in {0, ListHeadPid(real_parent[buf[m].pid])}
      BY <1>1, <1>2, <1>3, <2>1, <2>3 DEF EntriesInv, TrueSibling
    <3>2. buf[i].pid # swapper
      BY <1>3, <2>2, FollowsFacts
    <3>3. buf[i].pid # init
      <4>1. SUFFICES ASSUME buf[i].pid = init PROVE FALSE
        OBVIOUS
      <4>2. children[swapper] = <<init, kthreadd>> /\ swapper \in Pids
        BY <1>2, PidFacts DEF ElderInv
      <4>3. 1 \in 1..Len(children[swapper]) /\ children[swapper][1] = init
        BY <4>2
      <4>4. \A q : Follows(children, q, children[swapper][1]) => 1 < 1
        BY <1>3, <4>2, <4>3, JthFollows
      <4> QED
        BY <2>2, <4>1, <4>3, <4>4
    <3>4. buf[m].pid \in tasks /\ real_parent[buf[m].pid] \in tasks
      <4>1. buf[m].pid \in Processes
        <5>1. DepthFirst(children, Line, Len(buf)) /\ InLine
          BY <1>1, <1>2, LineFacts DEF DfsInv
        <5>2. m \in 1..Len(Line) /\ Line[m] = buf[m].pid
          <6>1. Len(Line) = N + Len(todo) /\ Len(todo) \in Nat /\ \A k \in 1..N : Line[k] = buf[k].pid
            BY <5>1 DEF InLine, N
          <6> QED
            BY <1>3, <2>3, <6>1
        <5> QED
          BY <1>2, <5>1, <5>2, OnlyProcesses
      <4> QED
        BY <1>2, <4>1 DEF TreeInv, ListsAreTheParents, Processes
    <3>5. ListHeadPid(real_parent[buf[m].pid]) # kthreadd
      BY <2>1, <3>4 DEF HeadsReadAsNobody
    <3>6. ListHeadPid(real_parent[buf[m].pid]) \in 0..3
      BY HeadsRead
    <3>7. buf[i].pid # 3
      <4>1. 3 \notin FirstPid..MaxPid
        BY PidFacts
      <4> QED
        BY <2>3, <4>1, PidFacts DEF Pids
    <3>8. \A x \in 0..3 : x = 0 \/ x = 1 \/ x = 2 \/ x = 3
      OBVIOUS
    <3> QED
      BY <3>1, <3>2, <3>3, <3>5, <3>6, <3>7, <3>8, PidFacts
  <2>5. ASSUME NEW k \in Range(stack'), NEW l \in 1..i
        PROVE  ~Follows(children, buf[k].pid, buf[l].pid)
    <3>1. k = i \/ (k \in Range(stack) /\ k # m)
      <4>1. k \in Range(t)
        BY <1>1
      <4>2. k \in Range(r) \cup {i}
        BY <1>10, <4>1
      <4>3. k = i \/ k \in Range(stack) \ {m}
        BY <1>8, <4>2
      <4> QED
        BY <4>3
    <3>2. l \in 1..N /\ k \in 1..N
      BY <1>6, <1>7, <3>1
    <3>3. CASE k = i
      <4>1. ~(i < l)
        BY <1>7
      <4> QED
        BY <1>3, <3>2, <3>3, <4>1
    <3>4. CASE l = i /\ k # i
      <4>1. SUFFICES ASSUME Follows(children, buf[k].pid, buf[i].pid) PROVE FALSE
        BY <3>4
      <4>2. buf[k].pid = buf[m].pid
        BY <1>3, <2>4, <4>1, FollowsFacts
      <4> QED
        BY <1>3, <2>3, <3>1, <3>2, <3>4, <4>2
    <3>5. CASE l \in 1..(i - 1) /\ k # i
      BY <2>1, <3>1, <3>5 DEF DepthInv
    <3> QED
      BY <1>7, <3>3, <3>4, <3>5
  <2>6. ASSUME NEW k \in 1..i
        PROVE  \/ k \in Range(stack') \/ buf'[k].next_sibling_pid = 0
               \/ Follows(children, buf[k].pid, buf'[k].next_sibling_pid)
    <3>1. CASE k = i
      BY <1>1, <1>10, <3>1
    <3>2. CASE k = m
      BY <1>1, <2>4, <3>2
    <3>3. CASE k \in 1..(i - 1) /\ k # m
      BY <1>1, <1>8, <1>10, <2>1, <3>3 DEF DepthInv
    <3> QED
      BY <1>7, <3>1, <3>2, <3>3
  <2>7. Cardinality(AncestorsOf(buf[i].pid)) = n
    <3>1. Cardinality(AncestorsOf(buf[m].pid)) = n
      <4>1. (n + 1) - 1 = n
        BY <1>11
      <4> QED
        BY <1>11, <2>1, <4>1 DEF DepthInv
    <3>2. real_parent[buf[m].pid] = real_parent[buf[i].pid]
      <4>1. PICK f \in Pids : buf[i].pid \in Range(children[f])
        <5>1. PICK g \in Pids : \E k \in 1..(Len(children[g]) - 1) :
                   children[g][k] = buf[m].pid /\ children[g][k + 1] = buf[i].pid
          BY <2>4 DEF Follows
        <5>2. PICK k \in 1..(Len(children[g]) - 1) :
                   children[g][k] = buf[m].pid /\ children[g][k + 1] = buf[i].pid
          BY <5>1
        <5>3. Len(children[g]) \in Nat
          BY <1>3, OnAList
        <5>4. k + 1 \in 1..Len(children[g])
          BY <5>3
        <5>5. children[g][k + 1] \in Range(children[g])
          BY <1>3, <5>4, OnAList
        <5> QED
          BY <5>2, <5>5
      <4>2. buf[m].pid \in Range(children[f])
        BY <1>3, <2>4, <4>1, FollowsFacts
      <4> QED
        BY <1>2, <4>1, <4>2 DEF TreeInv, ListsAreTheParents
    <3>3. m \in 2..N
      <4>1. m # 1
        BY <1>3, <2>4, FollowsFacts
      <4> QED
        BY <1>3, <2>3, <4>1
    <3>4. m \in 2..Len(buf) /\ i \in 2..Len(buf)
      BY <1>6, <3>3 DEF N
    <3>5. /\ Cardinality(AncestorsOf(buf[m].pid))
               = Cardinality(AncestorsOf(real_parent[buf[m].pid])) + 1
          /\ Cardinality(AncestorsOf(buf[i].pid))
               = Cardinality(AncestorsOf(real_parent[buf[i].pid])) + 1
      BY <1>1, <1>2, <3>4, ChildIsDeeper
    <3> QED
      BY <3>1, <3>2, <3>5
  <2>8. ASSUME NEW k \in 1..Len(stack') PROVE Cardinality(AncestorsOf(buf[stack'[k]].pid)) = k - 1
    <3>1. CASE k = n + 1
      <4>1. k - 1 = n
        BY <1>11, <3>1
      <4> QED
        BY <1>1, <1>10, <2>7, <3>1, <4>1
    <3>2. CASE k # n + 1
      <4>1. k \in 1..n
        BY <1>1, <1>10, <1>11, <3>2
      <4> QED
        BY <1>1, <1>11, <2>1, <4>1 DEF DepthInv
    <3> QED
      BY <3>1, <3>2
  <2>9. ASSUME NEW k \in 1..i PROVE tabcnt'[k] = Cardinality(AncestorsOf(buf[k].pid))
    <3>1. CASE k = i
      BY <1>14, <2>7, <3>1
    <3>2. CASE k \in 1..(i - 1)
      BY <1>14, <2>1, <3>2 DEF DepthInv
    <3> QED
      BY <1>7, <3>1, <3>2
  <2>10. ASSUME NEW k \in 1..Len(stack') PROVE stack'[k] \in 1..N
    <3>1. CASE k = n + 1
      BY <1>1, <1>7, <1>10, <3>1
    <3>2. CASE k # n + 1
      <4>1. k \in 1..n
        BY <1>1, <1>10, <1>11, <3>2
      <4> QED
        BY <1>1, <1>6, <1>9, <1>10, <4>1 DEF n
    <3> QED
      BY <3>1, <3>2
  <2>11. DOMAIN stack' = 1..Len(stack')
    <3>1. stack' \in Seq(1..((i + 1) - 1))
      BY <1>1, <1>10 DEF Rising
    <3> QED
      BY <3>1
  <2>12. i' - 1 \in 0..N /\ \A k \in 1..N : buf'[k].pid = buf[k].pid
    BY <1>1, <1>3, <1>7, <1>15
  <2> QED
    BY <1>1, <1>3, <1>15, <2>5, <2>6, <2>8, <2>9, <2>10, <2>11, <2>12, DepthNext
<1> QED
  BY <1>12, <1>13, <1>16, <1>17

LEMMA DisplayPrintKeeps ==
    ASSUME PtreeInv, DisplayPrint
    PROVE  DfsInv' /\ EntriesInv' /\ StackInv' /\ (HeadsReadAsNobody' => DepthInv')
<1>1. /\ pc = "display" /\ i > Len(buf) /\ pc' = "printed" /\ UNCHANGED kernelVars
      /\ todo' = todo /\ buf' = buf /\ i' = i /\ stack' = stack /\ tabcnt' = tabcnt
      /\ children' = children
  BY DEF DisplayPrint, kernelVars
<1>2. /\ DfsInv /\ EntriesInv /\ StackInv /\ buf \in Seq(Entry) /\ Len(buf) \in Nat
      /\ i \in 1..(Len(buf) + 1)
  BY DEF PtreeInv, DfsInv, StackInv
<1>3. DfsInv'
  BY <1>1, <1>2, DisplayStays
<1>4. EntriesInv'
  BY <1>1, <1>2, EntriesStay
<1>5. StackInv'
  <2>1. i = Len(buf) + 1
    BY <1>1, <1>2
  <2> QED
    BY <1>1, <1>2, <2>1 DEF StackInv
<1>6. HeadsReadAsNobody' => DepthInv'
  <2>1. HeadsReadAsNobody' => DepthInv
    BY <1>1, HeadsStay DEF PtreeInv
  <2>2. DepthInv => DepthInv'
    BY <1>1, HeadsStay DEF DepthInv
  <2> QED
    BY <2>1, <2>2
<1> QED
  BY <1>3, <1>4, <1>5, <1>6

LEMMA PtreeStutters ==
    ASSUME PtreeInv, UNCHANGED vars
    PROVE  DfsInv' /\ EntriesInv' /\ StackInv' /\ (HeadsReadAsNobody' => DepthInv')
<1>1. /\ UNCHANGED kernelVars /\ UNCHANGED userVars /\ children' = children
      /\ pc' = pc /\ todo' = todo /\ buf' = buf /\ i' = i /\ stack' = stack /\ tabcnt' = tabcnt
  BY DEF vars, kernelVars, userVars
<1>2. /\ DfsInv /\ EntriesInv /\ StackInv /\ i \in Nat
      /\ HeadsReadAsNobody' => DepthInv
  BY <1>1, HeadsStay DEF PtreeInv, StackInv
<1>3. DfsInv'
  <2>1. Line' = Line
    BY <1>1 DEF Line, Listed
  <2> QED
    BY <1>1, <1>2, <2>1 DEF DfsInv
<1>4. EntriesInv'
  BY <1>1, <1>2, EntriesStay
<1>5. StackInv'
  BY <1>1, <1>2 DEF StackInv
<1>6. DepthInv => DepthInv'
  BY <1>1, HeadsStay DEF DepthInv
<1> QED
  BY <1>2, <1>3, <1>4, <1>5, <1>6

LEMMA PtreeInit == Init => PtreeInv
<1> SUFFICES ASSUME Init PROVE PtreeInv
  OBVIOUS
<1>1. Idle
  BY DEF Init, Idle
<1> QED
  BY <1>1, TreeInit, ElderInit, IdleKeeps DEF PtreeInv

LEMMA PtreeNext == PtreeInv /\ [Next]_vars => PtreeInv'
<1> SUFFICES ASSUME PtreeInv, [Next]_vars PROVE PtreeInv'
  OBVIOUS
<1>1. TreeInv /\ ElderInv /\ DfsInv /\ EntriesInv /\ StackInv
  BY DEF PtreeInv
<1>2. TreeInv' /\ ElderInv'
  BY <1>1, TreeNext, ElderNext
<1>3. DfsInv' /\ EntriesInv' /\ StackInv' /\ (HeadsReadAsNobody' => DepthInv')
  <2>1. CASE ptree
    BY <1>1, <2>1, PtreeKeeps
  <2>2. CASE dfs
    BY <1>1, <2>2, DfsKeeps
  <2>3. CASE display
    BY <2>3, DisplayEntryKeeps, DisplayPopKeepsAll, DisplaySiblingKeeps, DisplayPrintKeeps
       DEF display
  <2>4. CASE main
    <3>1. pc = "printed" /\ pc' = "main" /\ todo' = todo /\ buf' = <<>> /\ i' = 1
          /\ stack' = <<>> /\ tabcnt' = <<>>
      BY <2>4 DEF main
    <3>2. todo = <<>>
      BY <1>1, <3>1 DEF DfsInv
    <3>3. Idle'
      BY <3>1, <3>2 DEF Idle
    <3> QED
      BY <3>3, IdleKept
  <2>5. CASE \E p \in Pids : TaskStep(p)
    <3>1. PICK p \in Pids : TaskStep(p)
      BY <2>5
    <3>2. pc = "main" /\ UNCHANGED userVars
      BY <3>1 DEF TaskStep, fork, clone_thread, exit_notify, release_task, ExecStart,
                  search_binary_handler, ExecEnd, Runs
    <3>3. Idle'
      BY <1>1, <3>2, WhenIdle DEF Idle, userVars
    <3> QED
      BY <3>3, IdleKept
  <2>6. CASE UNCHANGED vars
    BY <2>6, PtreeStutters
  <2> QED
    BY <2>1, <2>2, <2>3, <2>4, <2>5, <2>6 DEF Next
<1> QED
  BY <1>2, <1>3 DEF PtreeInv

LEMMA PtreeHolds == Spec => []PtreeInv
  BY PtreeInit, PtreeNext, PTL DEF Spec

-----------------------------------------------------------------------------
(* What the system call and the program promise.                           *)

LEMMA StoredAreProcesses ==
    ASSUME PtreeInv, pc # "main"
    PROVE  /\ InLine /\ DepthFirst(children, Line, Len(buf))
           /\ \A k \in 1..Len(Line) : Line[k] \in Processes
<1>1. /\ TreeInv /\ InLine /\ DepthFirst(children, Line, Len(buf))
  BY LineFacts DEF PtreeInv, DfsInv
<1> QED
  BY <1>1, OnlyProcesses

\* The call that is left over while display() runs is none, every entry is of a
\* pid, and display()'s indices stay within the entries that were stored: none of
\* its arrays is read or written outside of them.
THEOREM PtreeTypes == Spec => []TypeOK
<1>1. ASSUME PtreeInv PROVE TypeOK
  <2>1. TreeInv /\ ElderInv /\ DfsInv /\ StackInv /\ KernelType
    BY <1>1 DEF PtreeInv, TreeInv
  <2>2. Apart(children)
    BY <2>1, KidsApart
  <2>3. ASSUME NEW p \in Pids PROVE children[p] \in Seq(tasks)
    <3>1. children[p] \in Seq(Pids) /\ \A k \in 1..Len(children[p]) : children[p][k] \in Range(children[p])
      BY <2>2, OnAList
    <3>2. Range(children[p]) \subseteq tasks
      BY <2>1 DEF TreeInv, ListsAreTheParents, Processes
    <3> QED
      BY <3>1, <3>2
  <2>4. children \in [Pids -> Seq(tasks)]
    BY <2>1, <2>3 DEF KernelType
  <2>5. todo \in Seq(tasks)
    <3>1. todo \in Seq(Pids)
      BY <2>1 DEF DfsInv
    <3>2. CASE pc = "main"
      <4>1. todo = <<>>
        BY <2>1, <3>2 DEF DfsInv
      <4> QED
        BY <4>1
    <3>3. CASE pc # "main"
      <4>1. /\ InLine /\ \A k \in 1..Len(Line) : Line[k] \in Processes
        BY <1>1, <3>3, StoredAreProcesses
      <4>2. ASSUME NEW k \in 1..Len(todo) PROVE todo[k] \in tasks
        <5>1. /\ Len(buf) \in Nat /\ Len(todo) \in Nat /\ Len(Line) = Len(buf) + Len(todo)
              /\ Line[Len(buf) + k] = todo[k]
          BY <4>1 DEF InLine
        <5>2. Len(buf) + k \in 1..Len(Line)
          BY <5>1
        <5> QED
          BY <4>1, <5>1, <5>2 DEF Processes
      <4> QED
        BY <3>1, <4>2
    <3> QED
      BY <3>2, <3>3
  <2>6. stack \in Seq(1..Len(buf))
    <3>1. /\ Len(buf) \in Nat /\ i \in 1..(Len(buf) + 1) /\ stack \in Seq(1..(i - 1))
      BY <2>1 DEF DfsInv, StackInv, Rising
    <3>2. \A k \in 1..(i - 1) : k \in 1..Len(buf)
      BY <3>1
    <3> QED
      BY <3>1, <3>2
  <2> QED
    BY <2>1, <2>4, <2>5, <2>6 DEF TypeOK, KernelType, ElderInv, DfsInv, StackInv
<1> QED
  BY PtreeHolds, <1>1, PTL

\* In every tree of processes the entry that display() looks for, the older
\* sibling of the next one, is on its stack: the loop that pops ends before the
\* stack is empty.
THEOREM StackHoldsTheSibling == Spec => []StackNeverEmpty
<1>1. PtreeInv => StackNeverEmpty
  BY WhilePopping DEF PtreeInv, StackNeverEmpty
<1> QED
  BY PtreeHolds, <1>1, PTL

LEMMA WhenStored ==
    ASSUME PtreeInv, pc \notin {"main", "dfs"}
    PROVE  /\ TreeInv /\ ElderInv /\ Apart(children)
           /\ Len(buf) \in Nat /\ DOMAIN buf = 1..Len(buf) /\ buf[1].pid = swapper /\ Len(buf) > 0
           /\ \A m, l \in 1..Len(buf) : buf[m].pid = buf[l].pid => m = l
           /\ \A k \in 1..Len(buf) : buf[k].pid \in Processes
           /\ \A k \in 1..Len(buf) : \A c \in Range(children[buf[k].pid]) :
                 \E l \in 1..Len(buf) : buf[l].pid = c
<1>1. /\ TreeInv /\ ElderInv /\ DfsInv /\ todo = <<>> /\ pc \in {"display", "pop", "printed"}
  BY DEF PtreeInv, DfsInv
<1>2. /\ InLine /\ DepthFirst(children, Line, Len(buf))
      /\ \A k \in 1..Len(Line) : Line[k] \in Processes
  BY StoredAreProcesses
<1>3. /\ Apart(children) /\ Len(buf) \in Nat /\ DOMAIN buf = 1..Len(buf) /\ Len(buf) > 0
      /\ buf[1].pid = swapper
      /\ \A m, l \in 1..Len(buf) : buf[m].pid = buf[l].pid => m = l
  BY <1>1, DisplayOrder
<1>4. /\ Len(Line) = Len(buf) /\ \A k \in 1..Len(buf) : Line[k] = buf[k].pid
      /\ Line \in Seq(Pids)
  <2>1. Len(todo) = 0
    BY <1>1
  <2> QED
    BY <1>2, <2>1 DEF InLine
<1>5. ASSUME NEW k \in 1..Len(buf), NEW c \in Range(children[buf[k].pid])
      PROVE  \E l \in 1..Len(buf) : buf[l].pid = c
  <2>1. c \in Range(Line)
    BY <1>2, <1>4 DEF DepthFirst, ChildrenListed
  <2>2. DOMAIN Line = 1..Len(buf)
    BY <1>4
  <2>3. PICK l \in DOMAIN Line : Line[l] = c
    BY <2>1 DEF Range
  <2> QED
    BY <1>4, <2>2, <2>3
<1> QED
  BY <1>1, <1>2, <1>3, <1>4, <1>5

\* Where a set of pids has anybody, it has somebody who is older than the others.
LEMMA Eldest ==
    ASSUME NEW S, S \subseteq Nat, S # {}
    PROVE  \E x \in S : \A y \in S : ~(y < x)
<1>1. PICK x \in S : \A y \in S : ~(<<y, x>> \in OpToRel(<, Nat))
  BY NatLessThanWellFounded, WFMin
<1>2. \A y \in S : y < x => <<y, x>> \in OpToRel(<, Nat)
  BY DEF OpToRel
<1> QED
  BY <1>1, <1>2

\* However many tasks there are, whoever of them forked, exited, was adopted or
\* reaped before the call: if only group leaders have children, dfs() stores every
\* process that exists, zombies too, and none twice.
THEOREM EveryProcessListed == Spec => []ListsLeadersChildren
<1>1. ASSUME PtreeInv PROVE ListsLeadersChildren
  <2> SUFFICES ASSUME LeadersFork, pc \notin {"main", "dfs"}
               PROVE  /\ {buf[n].pid : n \in DOMAIN buf} = Processes
                      /\ Len(buf) = Cardinality(Processes)
    BY DEF ListsLeadersChildren, ListsEveryProcess
  <2> DEFINE N == Len(buf)
             stored == {buf[n].pid : n \in DOMAIN buf}
             missing == Processes \ stored
  <2>1. /\ TreeInv /\ ElderInv /\ N \in Nat /\ DOMAIN buf = 1..N /\ buf[1].pid = swapper /\ N > 0
        /\ \A m, l \in 1..N : buf[m].pid = buf[l].pid => m = l
        /\ \A k \in 1..N : buf[k].pid \in Processes
        /\ \A k \in 1..N : \A c \in Range(children[buf[k].pid]) :
              \E l \in 1..N : buf[l].pid = c
    BY <1>1, WhenStored
  <2>2. stored \subseteq Processes
    BY <2>1
  <2>3. missing = {}
    <3>1. SUFFICES ASSUME missing # {} PROVE FALSE
      OBVIOUS
    <3>2. missing \subseteq Nat /\ Processes \subseteq tasks
      BY <2>1, PidFacts DEF TreeInv, KernelType, Processes
    <3>3. PICK x \in missing : \A y \in missing : ~(y < x)
      BY <3>1, <3>2, Eldest
    <3>4. x \in Processes /\ x # swapper
      <4>1. 1 \in 1..N
        BY <2>1
      <4>2. swapper \in stored
        BY <2>1, <4>1
      <4> QED
        BY <4>2
    <3> DEFINE f == real_parent[x]
    <3>5. f \in tasks /\ group_leader[f] = f /\ f < x
      BY <2>1, <3>2, <3>4 DEF LeadersFork, TreeInv, ListsAreTheParents, ElderInv
    <3>6. f \in stored
      BY <3>3, <3>5 DEF Processes
    <3>7. PICK k \in 1..N : buf[k].pid = f
      BY <2>1, <3>6
    <3>8. f \in Pids
      BY <2>1, <3>5 DEF TreeInv, KernelType
    <3>9. x \in Range(children[f])
      BY <2>1, <3>4, <3>8 DEF TreeInv, ListsAreTheParents
    <3>10. x \in stored
      BY <2>1, <3>7, <3>9
    <3> QED
      BY <3>10
  <2>4. stored = Processes
    BY <2>2, <2>3
  <2> HIDE DEF N
  <2>5. ExistsBijection(1..N, Processes)
    <3> DEFINE g == [n \in 1..N |-> buf[n].pid]
    <3>1. g \in [1..N -> Processes] /\ \A n \in 1..N : g[n] = buf[n].pid
      BY <2>1
    <3>2. ASSUME NEW p \in Processes PROVE \E n \in 1..N : g[n] = p
      BY <2>1, <2>4, <3>1
    <3> HIDE DEF g
    <3>3. \A m, l \in 1..N : g[m] = g[l] => m = l
      BY <2>1, <3>1
    <3>4. g \in Bijection(1..N, Processes)
      BY <3>1, <3>2, <3>3 DEF Bijection, Injection, IsInjective, Surjection
    <3> QED
      BY <3>4 DEF ExistsBijection
  <2>6. N = Cardinality(Processes)
    BY <2>1, <2>5, FS_CountingElements
  <2> QED
    BY <2>4, <2>6 DEF N
<1> QED
  BY PtreeHolds, <1>1, PTL

\* For any tree, the height of display()'s stack when an entry is placed is the
\* number of the process's ancestors, unless a head of a list reads as a process.
THEOREM TabsAreTheDepth == Spec => []TabsTellTheDepthUnambiguous
<1>1. ASSUME PtreeInv PROVE TabsTellTheDepthUnambiguous
  <2>1. SUFFICES ASSUME HeadsReadAsNobody, pc = "printed", NEW n \in DOMAIN buf
                 PROVE  tabcnt[n] = Cardinality(AncestorsOf(buf[n].pid))
    BY DEF TabsTellTheDepthUnambiguous, TabsTellTheDepth
  <2>2. DepthInv /\ i = Len(buf) + 1
    BY <1>1, <2>1 DEF PtreeInv, StackInv
  <2>3. Len(buf) \in Nat /\ DOMAIN buf = 1..Len(buf)
    BY <1>1, <2>1, WhenStored
  <2>4. n \in 1..(i - 1)
    BY <2>2, <2>3
  <2> QED
    BY <2>2, <2>4 DEF DepthInv
<1> QED
  BY PtreeHolds, <1>1, PTL

\* For any tree, display() mends the sibling of every entry that it has popped,
\* and keeps the sibling of every entry that had a true one, unless a head of a
\* list reads as a process.
THEOREM SiblingsAreMended == Spec => []SiblingsFixedOffTheStack
<1>1. ASSUME PtreeInv PROVE SiblingsFixedOffTheStack
  <2>1. SUFFICES ASSUME pc = "printed", HeadsReadAsNobody, NEW n \in DOMAIN buf,
                        \A k \in DOMAIN stack : stack[k] # n
                 PROVE  SiblingIsTrue(n)
    BY DEF SiblingsFixedOffTheStack
  <2> DEFINE p == buf[n].pid
             s == buf[n].next_sibling_pid
             f == real_parent[p]
  <2>2. DepthInv /\ i = Len(buf) + 1 /\ TrueSibling(n)
    BY <1>1, <2>1 DEF PtreeInv, StackInv, EntriesInv
  <2>3. /\ TreeInv /\ Apart(children) /\ Len(buf) \in Nat /\ DOMAIN buf = 1..Len(buf)
        /\ \A k \in 1..Len(buf) : buf[k].pid \in Processes
    BY <1>1, <2>1, WhenStored
  <2>4. n \in 1..(i - 1) /\ n \notin Range(stack) /\ p \in Processes
    BY <2>1, <2>2, <2>3 DEF Range
  <2>5. s = 0 \/ Follows(children, p, s)
    BY <2>2, <2>4 DEF DepthInv
  <2>6. CASE Follows(children, p, s)
    <3>1. PICK g \in Pids : \E k \in 1..(Len(children[g]) - 1) :
               children[g][k] = p /\ children[g][k + 1] = s
      BY <2>6 DEF Follows
    <3>2. PICK k \in 1..(Len(children[g]) - 1) :
               children[g][k] = p /\ children[g][k + 1] = s
      BY <3>1
    <3>3. Len(children[g]) \in Nat /\ \A j \in 1..Len(children[g]) : children[g][j] \in Range(children[g])
      BY <2>3, OnAList
    <3>4. k \in 1..Len(children[g])
      BY <3>3
    <3>5. p \in Range(children[g])
      BY <3>2, <3>3, <3>4
    <3>6. f = g
      BY <2>3, <3>5 DEF TreeInv, ListsAreTheParents
    <3> QED
      BY <3>2, <3>6 DEF SiblingIsTrue, Siblings
  <2>7. CASE s = 0 /\ ~Follows(children, p, s)
    <3>1. \A q \in Pids : ~Follows(children, p, q)
      BY <2>2, <2>7 DEF TrueSibling
    <3>2. CASE p = swapper
      BY <2>7, <3>2 DEF SiblingIsTrue
    <3>3. CASE p # swapper
      <4>1. f \in Pids /\ p \in Range(children[f])
        BY <2>3, <2>4, <3>3 DEF TreeInv, KernelType, ListsAreTheParents, Processes
      <4>2. /\ Len(children[f]) \in Nat /\ Range(children[f]) \subseteq Pids
            /\ \A k \in 1..Len(children[f]) : children[f][k] \in Range(children[f])
            /\ \A x \in Range(children[f]) : \E j \in 1..Len(children[f]) : x = children[f][j]
        BY <2>3, <4>1, OnAList
      <4>3. PICK j \in 1..Len(children[f]) : p = children[f][j]
        BY <4>1, <4>2
      <4>4. j = Len(children[f])
        <5>1. SUFFICES ASSUME j # Len(children[f]) PROVE FALSE
          OBVIOUS
        <5>2. j \in 1..(Len(children[f]) - 1) /\ j + 1 \in 1..Len(children[f])
          BY <4>2, <5>1
        <5>3. Follows(children, p, children[f][j + 1]) /\ children[f][j + 1] \in Pids
          BY <4>1, <4>2, <4>3, <5>2 DEF Follows
        <5> QED
          BY <3>1, <5>3
      <4>5. Last(Siblings(p)) = p
        BY <4>3, <4>4 DEF Last, Siblings
      <4> QED
        BY <2>7, <4>5 DEF SiblingIsTrue
    <3> QED
      BY <3>2, <3>3
  <2> QED
    BY <2>5, <2>6, <2>7
<1> QED
  BY PtreeHolds, <1>1, PTL

=============================================================================
