--------------------------- MODULE SyscallProofs ---------------------------
(***************************************************************************)
(* What is true of the system call table, and of the calls through it, for *)
(* any modules, slots and programs.                                        *)
(***************************************************************************)
EXTENDS SyscallCalls, TLAPS

\* The slots of a module are slots, and it names each once.
LEMMA HookFacts ==
    ASSUME NEW m \in Modules
    PROVE  /\ Len(Hooks[m]) \in Nat /\ Len(Hooks[m]) > 0
           /\ \A k \in 1..Len(Hooks[m]) : Hooks[m][k] \in Slots
           /\ \A j, k \in 1..Len(Hooks[m]) : Hooks[m][j] = Hooks[m][k] => j = k
  BY HooksOK

LEMMA SlotFacts ==
    ASSUME TypeOK, NEW m \in Modules
    PROVE  /\ at[m] \in 1..Len(Hooks[m]) /\ Slot(m) = Hooks[m][at[m]]
           /\ Slot(m) \in Slots /\ Len(Hooks[m]) \in Nat
  BY HookFacts DEF TypeOK, Slot

LEMMA TypeInit == Init => TypeOK
  <1>1. ASSUME NEW m \in Modules PROVE 1 \in 1..Len(Hooks[m])
    BY HookFacts
  <1> QED
    BY <1>1 DEF Init, TypeOK

LEMMA TypeStep == TypeOK /\ [Next]_vars => TypeOK'
  <1> SUFFICES ASSUME TypeOK, [Next]_vars PROVE TypeOK'
    OBVIOUS
  <1>1. ASSUME NEW m \in Modules, insmod(m) PROVE TypeOK'
    <2>1. 1 \in 1..Len(Hooks[m])
      BY HookFacts
    <2> QED
      BY <1>1, <2>1 DEF TypeOK, insmod, Loaded, Alone
  <1>2. ASSUME NEW m \in Modules, InitSave(m) PROVE TypeOK'
    BY <1>2, SlotFacts DEF TypeOK, InitSave
  <1>3. ASSUME NEW m \in Modules, InitInstall(m) PROVE TypeOK'
    <2>1. at'[m] \in 1..Len(Hooks[m])
      BY <1>3, SlotFacts DEF TypeOK, InitInstall, AtEnd
    <2> QED
      BY <1>3, <2>1, SlotFacts DEF TypeOK, InitInstall
  <1>4. ASSUME NEW m \in Modules, rmmod(m) PROVE TypeOK'
    BY <1>4 DEF TypeOK, rmmod, Loaded, Alone
  <1>5. ASSUME NEW m \in Modules, ExitRestore(m) PROVE TypeOK'
    <2>1. table' \in [Slots -> Modules \cup {Kernel}]
      BY <1>5, SlotFacts DEF TypeOK, ExitRestore
    <2>2. at' \in [Modules -> Nat] /\ at'[m] \in 1..Len(Hooks[m])
      <3>1. CASE AtEnd(m)
        BY <1>5, <3>1, SlotFacts DEF TypeOK, ExitRestore
      <3>2. CASE ~AtEnd(m)
        <4>1. at' = [at EXCEPT ![m] = at[m] + 1] /\ at[m] + 1 \in 1..Len(Hooks[m])
          BY <1>5, <3>2, SlotFacts DEF TypeOK, ExitRestore, AtEnd
        <4> QED
          BY <4>1 DEF TypeOK
      <3> QED
        BY <3>1, <3>2
    <2> QED
      BY <1>5, <2>1, <2>2 DEF TypeOK, ExitRestore
  <1>6. CASE UNCHANGED vars
    BY <1>6 DEF TypeOK, vars
  <1> QED
    BY <1>1, <1>2, <1>3, <1>4, <1>5, <1>6 DEF Next

\* The type invariant, for any modules: the init and exit functions never
\* leave the array of the slots they replace, and every slot of the table and
\* every saved call is the kernel's or some module's.
THEOREM TableTypes == Spec => []TypeOK
  BY TypeInit, TypeStep, PTL DEF Spec

-----------------------------------------------------------------------------
(* Slots of one module's own.                                              *)

\* A step of m disturbs no slot another module has for itself.
LEMMA OthersSlots ==
    ASSUME TypeOK, NEW m \in Modules, NEW q \in Modules \ {m},
           NEW k \in 1..Len(Hooks[q]), Private(q, Hooks[q][k])
    PROVE  Slot(m) # Hooks[q][k]
  BY SlotFacts DEF Private, Replaces

\* Only a module's own steps change what it holds and has saved.
LEMMA OthersHold ==
    ASSUME TypeOK, NEW m \in Modules, NEW q \in Modules \ {m}, NEW k,
           insmod(m) \/ InitSave(m) \/ InitInstall(m) \/ rmmod(m) \/ ExitRestore(m)
    PROVE  /\ phase'[q] = phase[q] /\ at'[q] = at[q]
           /\ oldcall'[q] = oldcall[q] /\ under'[q] = under[q]
           /\ Held(q, k)' = Held(q, k) /\ Saved(q, k)' = Saved(q, k)
  <1>1. phase'[q] = phase[q] /\ at'[q] = at[q] /\ oldcall'[q] = oldcall[q]
        /\ under'[q] = under[q]
    <2>1. CASE insmod(m)
      BY <2>1 DEF TypeOK, insmod
    <2>2. CASE InitSave(m)
      BY <2>2 DEF TypeOK, InitSave
    <2>3. CASE InitInstall(m)
      BY <2>3 DEF TypeOK, InitInstall
    <2>4. CASE rmmod(m)
      BY <2>4 DEF TypeOK, rmmod
    <2>5. CASE ExitRestore(m)
      BY <2>5 DEF TypeOK, ExitRestore
    <2> QED
      BY <2>1, <2>2, <2>3, <2>4, <2>5
  <1> QED
    BY <1>1 DEF Held, Saved

LEMMA StartsStep == TypeOK /\ StartsAtOne /\ [Next]_vars => StartsAtOne'
  <1> SUFFICES ASSUME TypeOK, StartsAtOne, [Next]_vars PROVE StartsAtOne'
    OBVIOUS
  <1>1. ASSUME NEW m \in Modules, insmod(m) PROVE StartsAtOne'
    BY <1>1 DEF TypeOK, StartsAtOne, insmod
  <1>2. ASSUME NEW m \in Modules, InitSave(m) PROVE StartsAtOne'
    BY <1>2 DEF TypeOK, StartsAtOne, InitSave
  <1>3. ASSUME NEW m \in Modules, InitInstall(m) PROVE StartsAtOne'
    BY <1>3 DEF TypeOK, StartsAtOne, InitInstall
  <1>4. ASSUME NEW m \in Modules, rmmod(m) PROVE StartsAtOne'
    BY <1>4 DEF TypeOK, StartsAtOne, rmmod
  <1>5. ASSUME NEW m \in Modules, ExitRestore(m) PROVE StartsAtOne'
    BY <1>5 DEF TypeOK, StartsAtOne, ExitRestore
  <1>6. CASE UNCHANGED vars
    BY <1>6 DEF StartsAtOne, vars
  <1> QED
    BY <1>1, <1>2, <1>3, <1>4, <1>5, <1>6 DEF Next

LEMMA PrivateStep ==
    TypeOK /\ StartsAtOne /\ PrivateInv /\ [Next]_vars => PrivateInv'
  <1> SUFFICES ASSUME TypeOK, StartsAtOne, PrivateInv, [Next]_vars,
                      NEW q \in Modules, NEW k \in 1..Len(Hooks[q]),
                      Private(q, Hooks[q][k])
               PROVE  /\ table'[Hooks[q][k]] = IF Held(q, k)' THEN q ELSE Kernel
                      /\ Saved(q, k)' => oldcall'[q][Hooks[q][k]] = Kernel
    BY DEF PrivateInv, Private, Replaces
  <1> DEFINE s == Hooks[q][k]
  <1>0. /\ table[s] = IF Held(q, k) THEN q ELSE Kernel
        /\ Saved(q, k) => oldcall[q][s] = Kernel
        /\ s \in Slots /\ k \in Nat /\ Len(Hooks[q]) \in Nat
        /\ at[q] \in 1..Len(Hooks[q])
    BY HookFacts, SlotFacts DEF PrivateInv
  <1>a. ASSUME NEW m \in Modules \ {q},
               insmod(m) \/ InitSave(m) \/ InitInstall(m) \/ rmmod(m) \/ ExitRestore(m)
        PROVE  /\ table'[s] = IF Held(q, k)' THEN q ELSE Kernel
               /\ Saved(q, k)' => oldcall'[q][s] = Kernel
    <2>1. table'[s] = table[s]
      <3>1. Slot(m) # s
        BY OthersSlots
      <3> QED
        BY <1>a, <1>0, <3>1 DEF TypeOK, insmod, InitSave, InitInstall, rmmod, ExitRestore
    <2>2. oldcall'[q] = oldcall[q] /\ Held(q, k)' = Held(q, k)
          /\ Saved(q, k)' = Saved(q, k)
      BY <1>a, OthersHold
    <2> QED
      BY <1>0, <2>1, <2>2
  <1>b. Slot(q) = Hooks[q][at[q]] /\ (Slot(q) = s <=> k = at[q]) /\ Slot(q) \in Slots
    BY HookFacts, SlotFacts, <1>0
  <1>1. CASE insmod(q)
    BY <1>1, <1>0 DEF TypeOK, insmod, Held, Saved
  <1>2. CASE InitSave(q)
    BY <1>2, <1>0, <1>b DEF TypeOK, InitSave, Held, Saved
  <1>3. CASE InitInstall(q)
    BY <1>3, <1>0, <1>b DEF TypeOK, InitInstall, AtEnd, Held, Saved
  <1>4. CASE rmmod(q)
    BY <1>4, <1>0 DEF TypeOK, StartsAtOne, rmmod, Held, Saved
  <1>5. CASE ExitRestore(q)
    BY <1>5, <1>0, <1>b DEF TypeOK, ExitRestore, AtEnd, Held, Saved
  <1>6. CASE UNCHANGED vars
    BY <1>6, <1>0 DEF vars, Held, Saved
  <1> QED
    BY <1>a, <1>1, <1>2, <1>3, <1>4, <1>5, <1>6 DEF Next

LEMMA PrivateEnough ==
    ASSUME TypeOK, PrivateInv PROVE PrivateSlotsRestored
  <1> SUFFICES ASSUME NEW s \in Slots, NEW m \in Modules, Replaces(m, s),
                      \A o \in Modules \ {m} : ~Replaces(o, s)
               PROVE  PointsToLoaded(s) /\ (phase[m] = "out" => table[s] = Kernel)
    BY DEF PrivateSlotsRestored
  <1>1. PICK k \in 1..Len(Hooks[m]) : Hooks[m][k] = s
    BY DEF Replaces
  <1>2. table[s] = IF Held(m, k) THEN m ELSE Kernel
    BY <1>1 DEF PrivateInv, Private
  <1> QED
    BY <1>2, HooksOK DEF Held, PointsToLoaded

LEMMA PrivateInit == Init => StartsAtOne /\ PrivateInv
  <1> SUFFICES ASSUME Init PROVE StartsAtOne /\ PrivateInv
    OBVIOUS
  <1> QED
    BY HookFacts DEF Init, StartsAtOne, PrivateInv, Held, Saved

\* A slot that only one module replaces, as 378, is always restored, and never
\* points to a module that is gone, for any set of other modules.
THEOREM PrivateSlots == Spec => []PrivateSlotsRestored
  <1>1. TypeOK /\ StartsAtOne /\ PrivateInv => PrivateSlotsRestored
    BY PrivateEnough
  <1> QED
    BY <1>1, PrivateInit, TableTypes, StartsStep, PrivateStep, PTL DEF Spec

-----------------------------------------------------------------------------
(* Modules that come and go like brackets.                                 *)

Step(m) == insmod(m) \/ InitSave(m) \/ InitInstall(m) \/ rmmod(m) \/ ExitRestore(m)

\* What the others hold does not change, nor what they have under them.
LEMMA OthersHoldSlots ==
    ASSUME TypeOK, NEW m \in Modules, Step(m)
    PROVE  \A o \in Modules \ {m} :
              /\ under'[o] = under[o] /\ oldcall'[o] = oldcall[o]
              /\ phase'[o] = phase[o]
              /\ \A s \in Slots : Holds(o, s)' = Holds(o, s)
              /\ \A k \in 1..Len(Hooks[o]) : Saved(o, k)' = Saved(o, k)
  <1> SUFFICES ASSUME NEW o \in Modules \ {m}
               PROVE  /\ under'[o] = under[o] /\ oldcall'[o] = oldcall[o]
                      /\ phase'[o] = phase[o]
                      /\ \A s \in Slots : Holds(o, s)' = Holds(o, s)
                      /\ \A k \in 1..Len(Hooks[o]) : Saved(o, k)' = Saved(o, k)
    OBVIOUS
  <1>1. ASSUME NEW k
        PROVE  /\ phase'[o] = phase[o] /\ at'[o] = at[o]
               /\ oldcall'[o] = oldcall[o] /\ under'[o] = under[o]
               /\ Held(o, k)' = Held(o, k) /\ Saved(o, k)' = Saved(o, k)
    BY OthersHold DEF Step
  <1> QED
    BY <1>1 DEF Holds

\* What the steps of m make of its own slots.
LEMMA OwnSlots ==
    ASSUME TypeOK, StartsAtOne, NEW m \in Modules
    PROVE  /\ insmod(m) => \A s \in Slots : ~Holds(m, s)'
           /\ insmod(m) => \A k \in 1..Len(Hooks[m]) : ~Saved(m, k)'
           /\ InitSave(m) => \A s \in Slots : Holds(m, s)' = Holds(m, s)
           /\ InitSave(m) => ~Holds(m, Slot(m))
           /\ InitSave(m) => \A k \in 1..Len(Hooks[m]) :
                 Saved(m, k)' => Saved(m, k) \/ Hooks[m][k] = Slot(m)
           /\ InitInstall(m) => \A s \in Slots :
                 Holds(m, s)' <=> (Holds(m, s) \/ s = Slot(m))
           /\ rmmod(m) => \A s \in Slots : Holds(m, s)' = Holds(m, s)
           /\ ExitRestore(m) => \A s \in Slots :
                 Holds(m, s)' <=> (Holds(m, s) /\ s # Slot(m))
           /\ ExitRestore(m) => Saved(m, at[m])
           /\ InitInstall(m) \/ rmmod(m) \/ ExitRestore(m) =>
                 \A k \in 1..Len(Hooks[m]) : Saved(m, k)' => Saved(m, k)
  <1>0. /\ at[m] \in 1..Len(Hooks[m]) /\ Slot(m) = Hooks[m][at[m]]
        /\ Slot(m) \in Slots /\ Len(Hooks[m]) \in Nat
        /\ \A j, k \in 1..Len(Hooks[m]) : Hooks[m][j] = Hooks[m][k] => j = k
    BY SlotFacts, HookFacts
  <1>1. insmod(m) => \A k \in 1..Len(Hooks[m]) : ~Held(m, k)' /\ ~Saved(m, k)'
    BY <1>0 DEF TypeOK, insmod, Held, Saved
  <1>2. InitSave(m) => \A k \in 1..Len(Hooks[m]) :
           /\ Held(m, k)' = Held(m, k)
           /\ Held(m, k) => k # at[m]
           /\ Saved(m, k)' => Saved(m, k) \/ k = at[m]
    BY <1>0 DEF TypeOK, InitSave, Held, Saved
  <1>3. InitInstall(m) => \A k \in 1..Len(Hooks[m]) :
           /\ Held(m, k)' <=> (Held(m, k) \/ k = at[m])
           /\ Saved(m, k)' => Saved(m, k)
    <2> SUFFICES ASSUME InitInstall(m), NEW k \in 1..Len(Hooks[m])
                 PROVE  /\ Held(m, k)' <=> (Held(m, k) \/ k = at[m])
                        /\ Saved(m, k)' => Saved(m, k)
      OBVIOUS
    <2>1. /\ phase[m] = "install"
          /\ phase'[m] = IF AtEnd(m) THEN "in" ELSE "save"
          /\ at'[m] = IF AtEnd(m) THEN 1 ELSE at[m] + 1
      BY DEF TypeOK, InitInstall
    <2>2. CASE AtEnd(m)
      BY <1>0, <2>1, <2>2 DEF AtEnd, Held, Saved
    <2>3. CASE ~AtEnd(m)
      BY <1>0, <2>1, <2>3 DEF Held, Saved
    <2> QED
      BY <2>2, <2>3
  <1>4. rmmod(m) => \A k \in 1..Len(Hooks[m]) :
           Held(m, k)' = Held(m, k) /\ (Saved(m, k)' => Saved(m, k))
    BY <1>0 DEF TypeOK, StartsAtOne, rmmod, Held, Saved
  <1>5. ExitRestore(m) => \A k \in 1..Len(Hooks[m]) :
           /\ Held(m, k)' <=> (Held(m, k) /\ k # at[m])
           /\ Saved(m, k)' => Saved(m, k)
    <2> SUFFICES ASSUME ExitRestore(m), NEW k \in 1..Len(Hooks[m])
                 PROVE  /\ Held(m, k)' <=> (Held(m, k) /\ k # at[m])
                        /\ Saved(m, k)' => Saved(m, k)
      OBVIOUS
    <2>1. CASE AtEnd(m)
      <3>1. phase[m] = "exit" /\ phase'[m] = "out"
        BY <2>1 DEF TypeOK, ExitRestore
      <3> QED
        BY <1>0, <2>1, <3>1 DEF AtEnd, Held, Saved
    <2>2. CASE ~AtEnd(m)
      <3>1. phase[m] = "exit" /\ phase'[m] = "exit" /\ at'[m] = at[m] + 1
        BY <2>2 DEF TypeOK, ExitRestore
      <3> QED
        BY <1>0, <3>1 DEF Held, Saved
    <2> QED
      BY <2>1, <2>2
  <1>6. ExitRestore(m) => Saved(m, at[m])
    BY <1>0 DEF TypeOK, ExitRestore, Held, Saved
  <1>a. insmod(m) => \A s \in Slots : ~Holds(m, s)'
    BY <1>1 DEF Holds
  <1>b. /\ InitSave(m) => \A s \in Slots : Holds(m, s)' = Holds(m, s)
        /\ rmmod(m) => \A s \in Slots : Holds(m, s)' = Holds(m, s)
    BY <1>2, <1>4 DEF Holds
  <1>c. InitSave(m) => ~Holds(m, Slot(m))
    BY <1>0, <1>2 DEF Holds
  <1>d. InitInstall(m) => \A s \in Slots :
           Holds(m, s)' <=> (Holds(m, s) \/ s = Slot(m))
    BY <1>0, <1>3 DEF Holds
  <1>e. ExitRestore(m) => \A s \in Slots :
           Holds(m, s)' <=> (Holds(m, s) /\ s # Slot(m))
    BY <1>0, <1>5 DEF Holds
  <1> QED
    BY <1>0, <1>1, <1>2, <1>3, <1>4, <1>5, <1>6, <1>a, <1>b, <1>c, <1>d, <1>e

\* A module in its init or exit function is the top of the stack.
LEMMA TopFacts ==
    ASSUME TypeOK, StackOfModules, NEW m \in Loaded, phase[m] # "in"
    PROVE  /\ under[m] = Loaded \ {m}
           /\ \A o \in Loaded \ {m} : m \notin under[o]
           /\ Alone(m)
  BY DEF TypeOK, StackOfModules

LEMMA StackStep ==
    ASSUME TypeOK, StackOfModules, NEW m \in Modules, Step(m), nested, nested'
    PROVE  StackOfModules'
  <1>0. \A o \in Modules \ {m} : under'[o] = under[o] /\ phase'[o] = phase[o]
    BY OthersHoldSlots
  <1>1. CASE insmod(m)
    <2>1. m \notin Loaded /\ Loaded' = Loaded \cup {m} /\ under'[m] = Loaded
          /\ phase'[m] = "save" /\ Alone(m) /\ Loaded \subseteq Modules
      BY <1>1 DEF TypeOK, insmod, Loaded
    <2>2. \A o \in Loaded : under'[o] = under[o] /\ phase'[o] = "in"
      BY <1>0, <2>1 DEF TypeOK, Alone, Loaded
    <2>3. Alone(m)'
      BY <1>0, <2>1 DEF Alone
    <2> QED
      BY <2>1, <2>2, <2>3 DEF StackOfModules
  <1>2. CASE InitSave(m) \/ InitInstall(m)
    <2>1. m \in Loaded /\ Loaded' = Loaded /\ under' = under /\ phase[m] # "in"
      BY <1>2 DEF TypeOK, InitSave, InitInstall, Loaded
    <2> QED
      BY <1>0, <2>1, TopFacts DEF TypeOK, StackOfModules, Alone, Loaded
  <1>3. CASE rmmod(m)
    <2>1. m \in Loaded /\ Loaded' = Loaded /\ under' = under
          /\ Alone(m) /\ Loaded \subseteq under[m] \cup {m}
      BY <1>3 DEF TypeOK, rmmod, Loaded
    <2> QED
      BY <1>0, <2>1 DEF TypeOK, StackOfModules, Alone, Loaded
  <1>4. CASE ExitRestore(m)
    <2>1. m \in Loaded /\ under' = under /\ phase[m] # "in"
          /\ (Loaded' = Loaded \/ Loaded' = Loaded \ {m})
      BY <1>4 DEF TypeOK, ExitRestore, Loaded
    <2> QED
      BY <1>0, <2>1, TopFacts DEF TypeOK, StackOfModules, Alone, Loaded
  <1> QED
    BY <1>1, <1>2, <1>3, <1>4 DEF Step

\* The table's part of NestedInv.
LEMMA TableStep ==
    ASSUME TypeOK, StartsAtOne, NestedInv, NEW m \in Modules, Step(m),
           nested, nested', NEW s \in Slots
    PROVE  IsLastHolder(table[s], Loaded, s)'
  <1>0. /\ \A o \in Modules \ {m} :
              under'[o] = under[o] /\ Holds(o, s)' = Holds(o, s)
        /\ StackOfModules /\ IsLastHolder(table[s], Loaded, s)
        /\ Slot(m) \in Slots /\ Loaded \subseteq Modules /\ Kernel \notin Modules
    <2>1. \A o \in Modules \ {m} :
             under'[o] = under[o] /\ Holds(o, s)' = Holds(o, s)
      BY OthersHoldSlots
    <2>2. StackOfModules /\ IsLastHolder(table[s], Loaded, s)
      BY DEF NestedInv
    <2>3. Slot(m) \in Slots /\ Kernel \notin Modules
      BY SlotFacts, HooksOK
    <2>4. Loaded \subseteq Modules
      BY DEF Loaded
    <2> QED
      BY <2>1, <2>2, <2>3, <2>4
  <1>1. CASE insmod(m)
    <2>1. m \notin Loaded /\ Loaded' = Loaded \cup {m} /\ table' = table
      BY <1>1 DEF TypeOK, insmod, Loaded
    <2>2. ~Holds(m, s)'
      BY <1>1, OwnSlots
    <2> QED
      BY <1>0, <2>1, <2>2 DEF IsLastHolder
  <1>2. CASE InitSave(m) \/ rmmod(m)
    <2>1. Loaded' = Loaded /\ table' = table /\ under' = under
      BY <1>2 DEF TypeOK, InitSave, rmmod, Loaded
    <2>2. Holds(m, s)' = Holds(m, s)
      BY <1>2, OwnSlots
    <2> QED
      BY <1>0, <2>1, <2>2 DEF IsLastHolder
  <1>3. CASE InitInstall(m)
    <2>1. m \in Loaded /\ Loaded' = Loaded /\ under' = under /\ phase[m] # "in"
          /\ table' = [table EXCEPT ![Slot(m)] = m]
      BY <1>3 DEF TypeOK, InitInstall, Loaded
    <2>2. Holds(m, s)' <=> (Holds(m, s) \/ s = Slot(m))
      BY <1>3, OwnSlots
    <2>3. CASE s = Slot(m)
      <3>1. table'[s] = m /\ Holds(m, s)' /\ Loaded \ {m} = under[m]
        BY <2>1, <2>2, <2>3, <1>0, TopFacts DEF TypeOK
      <3> QED
        BY <2>1, <3>1 DEF IsLastHolder
    <2>4. CASE s # Slot(m)
      <3>1. table'[s] = table[s] /\ (Holds(m, s)' <=> Holds(m, s))
        BY <2>1, <2>2, <2>4 DEF TypeOK
      <3> QED
        BY <1>0, <2>1, <3>1 DEF IsLastHolder
    <2> QED
      BY <2>3, <2>4
  <1>4. CASE ExitRestore(m)
    <2>1. m \in Loaded /\ under' = under /\ phase[m] # "in"
          /\ (Loaded' = Loaded \/ Loaded' = Loaded \ {m})
          /\ table' = [table EXCEPT ![Slot(m)] = oldcall[m][Slot(m)]]
      BY <1>4 DEF TypeOK, ExitRestore, Loaded
    <2>2. Holds(m, s)' <=> (Holds(m, s) /\ s # Slot(m))
      BY <1>4, OwnSlots
    <2>3. CASE s = Slot(m)
      <3>1. table'[s] = oldcall[m][s] /\ ~Holds(m, s)' /\ under[m] = Loaded \ {m}
        BY <2>1, <2>2, <2>3, <1>0, TopFacts DEF TypeOK
      <3>2. IsLastHolder(oldcall[m][s], under[m], s)
        BY <1>4, <2>1, <2>3, OwnSlots, SlotFacts DEF NestedInv
      <3> QED
        BY <1>0, <2>1, <3>1, <3>2 DEF IsLastHolder
    <2>4. CASE s # Slot(m)
      <3>1. table'[s] = table[s] /\ (Holds(m, s)' <=> Holds(m, s))
        BY <2>1, <2>2, <2>4 DEF TypeOK
      <3>2. Loaded' # Loaded => ~Holds(m, s)'
        BY <1>4, <2>1, SlotFacts DEF TypeOK, ExitRestore, Loaded, Holds, Held
      <3> QED
        BY <1>0, <2>1, <3>1, <3>2 DEF IsLastHolder
    <2> QED
      BY <2>3, <2>4
  <1> QED
    BY <1>1, <1>2, <1>3, <1>4 DEF Step

\* The part of NestedInv on what the modules have saved.
LEMMA SavedStep ==
    ASSUME TypeOK, StartsAtOne, NestedInv, NEW m \in Modules, Step(m),
           nested, nested', NEW q \in Loaded', NEW k \in 1..Len(Hooks[q]),
           Saved(q, k)'
    PROVE  IsLastHolder(oldcall[q][Hooks[q][k]], under[q], Hooks[q][k])'
  <1> DEFINE s == Hooks[q][k]
  <1>0. /\ q \in Modules /\ s \in Slots /\ Loaded \subseteq Modules
        /\ \A o \in Modules \ {m} :
              under'[o] = under[o] /\ Holds(o, s)' = Holds(o, s)
        /\ StackOfModules /\ Kernel \notin Modules
    BY OthersHoldSlots, HookFacts, HooksOK DEF NestedInv, Loaded
  <1>1. CASE q # m
    <2>1. q \in Loaded /\ oldcall'[q] = oldcall[q] /\ under'[q] = under[q] /\ Saved(q, k)
      BY <1>0, <1>1, OthersHoldSlots DEF Loaded
    <2>2. IsLastHolder(oldcall[q][s], under[q], s) /\ under[q] \subseteq Loaded
      BY <2>1, <1>0 DEF NestedInv, StackOfModules
    <2>3. CASE rmmod(m)
      <3>1. Holds(m, s)' = Holds(m, s) /\ under' = under
        BY <2>3, <1>0, OwnSlots DEF rmmod
      <3> QED
        BY <1>0, <2>1, <2>2, <3>1 DEF IsLastHolder
    <2>4. CASE ~rmmod(m)
      <3>1. m \notin under[q]
        <4>1. CASE insmod(m)
          BY <4>1, <2>2 DEF insmod, Loaded
        <4>2. CASE ~insmod(m)
          <5>1. m \in Loaded /\ phase[m] # "in"
            BY <2>4, <4>2 DEF Step, InitSave, InitInstall, ExitRestore, Loaded
          <5> QED
            BY <5>1, <1>0, <1>1, <2>1, TopFacts
        <4> QED
          BY <4>1, <4>2
      <3> QED
        BY <1>0, <2>1, <2>2, <3>1 DEF IsLastHolder
    <2> QED
      BY <2>3, <2>4
  <1>2. CASE q = m
    <2>1. ~insmod(m) /\ m \in Loaded /\ under' = under
      <3>1. ~insmod(m)
        BY <1>2, OwnSlots
      <3> QED
        BY <3>1 DEF Step, InitSave, InitInstall, rmmod, ExitRestore, Loaded
    <2>2. \A o \in under[m] : o # m /\ o \in Modules
      BY <2>1, <1>0 DEF StackOfModules
    <2>3. CASE Saved(m, k) /\ (InitSave(m) => s # Slot(m))
      <3>1. IsLastHolder(oldcall[m][s], under[m], s)
        BY <2>1, <2>3, <1>2 DEF NestedInv
      <3>2. oldcall'[m][s] = oldcall[m][s]
        <4>1. CASE InitSave(m)
          BY <4>1, <2>3, <1>0 DEF TypeOK, InitSave
        <4>2. CASE ~InitSave(m)
          BY <4>2, <2>1, <1>0 DEF Step, InitInstall, rmmod, ExitRestore
        <4> QED
          BY <4>1, <4>2
      <3> QED
        BY <1>0, <1>2, <2>1, <2>2, <3>1, <3>2 DEF IsLastHolder
    <2>4. CASE InitSave(m) /\ s = Slot(m)
      <3>1. oldcall'[m][s] = table[s] /\ phase[m] # "in"
        BY <2>4, <1>0 DEF TypeOK, InitSave
      <3>2. IsLastHolder(table[s], Loaded, s) /\ ~Holds(m, s)
        BY <2>4, <1>0, OwnSlots DEF NestedInv
      <3>3. under[m] = Loaded \ {m}
        BY <2>1, <3>1, <1>0, TopFacts
      <3> QED
        BY <1>0, <1>2, <2>1, <2>2, <3>1, <3>2, <3>3 DEF IsLastHolder
    <2> QED
      BY <1>2, <2>1, <2>3, <2>4, OwnSlots DEF Step
  <1> QED
    BY <1>1, <1>2

LEMMA NestedStep ==
    TypeOK /\ StartsAtOne /\ NestedInv /\ [Next]_vars => NestedInv'
  <1> SUFFICES ASSUME TypeOK, StartsAtOne, NestedInv, [Next]_vars, nested'
               PROVE  /\ StackOfModules'
                      /\ \A s \in Slots : IsLastHolder(table[s], Loaded, s)'
                      /\ \A q \in Loaded' : \A k \in 1..Len(Hooks[q]) :
                            Saved(q, k)' => IsLastHolder(oldcall[q][Hooks[q][k]],
                                                         under[q], Hooks[q][k])'
    BY DEF NestedInv
  <1>1. CASE UNCHANGED vars
    <2>1. /\ table' = table /\ oldcall' = oldcall /\ phase' = phase /\ at' = at
          /\ under' = under /\ nested' = nested
      BY <1>1 DEF vars
    <2>2. Loaded' = Loaded
      BY <2>1 DEF Loaded
    <2>3. StackOfModules'
      BY <2>1, <2>2 DEF NestedInv, StackOfModules, Alone
    <2>4. ASSUME NEW q, NEW s PROVE Holds(q, s)' <=> Holds(q, s)
      BY <2>1 DEF Holds, Held
    <2>5. ASSUME NEW q, NEW k PROVE Saved(q, k)' <=> Saved(q, k)
      BY <2>1 DEF Saved, Held
    <2>6. ASSUME NEW s \in Slots PROVE IsLastHolder(table[s], Loaded, s)'
      <3>1. IsLastHolder(table[s], Loaded, s)
        BY <2>1 DEF NestedInv
      <3> QED
        BY <3>1, <2>1, <2>2, <2>4 DEF IsLastHolder
    <2>7. ASSUME NEW q \in Loaded', NEW k \in 1..Len(Hooks[q]), Saved(q, k)'
          PROVE  IsLastHolder(oldcall[q][Hooks[q][k]], under[q], Hooks[q][k])'
      <3>1. IsLastHolder(oldcall[q][Hooks[q][k]], under[q], Hooks[q][k])
        BY <2>1, <2>2, <2>5, <2>7 DEF NestedInv
      <3> QED
        BY <3>1, <2>1, <2>4 DEF IsLastHolder
    <2> QED
      BY <2>3, <2>6, <2>7
  <1>2. ASSUME NEW m \in Modules, Step(m)
        PROVE  /\ StackOfModules'
               /\ \A s \in Slots : IsLastHolder(table[s], Loaded, s)'
               /\ \A q \in Loaded' : \A k \in 1..Len(Hooks[q]) :
                     Saved(q, k)' => IsLastHolder(oldcall[q][Hooks[q][k]],
                                                  under[q], Hooks[q][k])'
    <2>1. nested
      BY <1>2 DEF Step, insmod, InitSave, InitInstall, rmmod, ExitRestore
    <2>2. StackOfModules'
      BY <1>2, <2>1, StackStep DEF NestedInv
    <2>3. ASSUME NEW s \in Slots PROVE IsLastHolder(table[s], Loaded, s)'
      BY <1>2, <2>1, TableStep
    <2>4. ASSUME NEW q \in Loaded', NEW k \in 1..Len(Hooks[q]), Saved(q, k)'
          PROVE  IsLastHolder(oldcall[q][Hooks[q][k]], under[q], Hooks[q][k])'
      BY <1>2, <2>1, <2>4, SavedStep
    <2> QED
      BY <2>2, <2>3, <2>4
  <1> QED
    BY <1>1, <1>2 DEF Next, Step

LEMMA NestedInit == Init => NestedInv
  <1> SUFFICES ASSUME Init PROVE NestedInv
    OBVIOUS
  <1>1. Loaded = {}
    BY DEF Init, Loaded
  <1> QED
    BY <1>1 DEF Init, NestedInv, StackOfModules, IsLastHolder

LEMMA NestedEnough == NestedInv => NestedModulesRestore
  <1> SUFFICES ASSUME NestedInv, nested,
                      \A m \in Modules : phase[m] \in {"out", "in"},
                      NEW s \in Slots
               PROVE  IsLast(table[s], Loaded, s)
    BY DEF NestedModulesRestore
  <1>1. \A m \in Loaded : Holds(m, s) <=> Replaces(m, s)
    BY DEF Loaded, Holds, Held, Replaces
  <1>2. IsLastHolder(table[s], Loaded, s)
    BY DEF NestedInv
  <1> QED
    BY <1>1, <1>2 DEF IsLast, IsLastHolder

\* Modules that are inserted and removed one at a time, the last one in being
\* the first one out, leave every slot to the last module that is still in, or
\* to the kernel, also the slots they share.
THEOREM NestedModules == Spec => []NestedModulesRestore
  <1>1. Init => StartsAtOne
    BY PrivateInit
  <1> QED
    BY <1>1, NestedInit, NestedEnough, TableTypes, StartsStep, NestedStep, PTL DEF Spec

-----------------------------------------------------------------------------
(* The calls.                                                              *)

LEMMA SlotOfModule ==
    ASSUME TypeOK, NEW m \in Modules
    PROVE  Replaces(m, Slot(m))
  BY SlotFacts DEF Replaces

\* Whoever is in the table, or saved, at a slot replaces it.
LEMMA OwnersStep == TypeOK /\ OwnersReplace /\ [Next]_vars => OwnersReplace'
  <1> SUFFICES ASSUME TypeOK, OwnersReplace, [Next]_vars
               PROVE  OwnersReplace'
    OBVIOUS
  <1>1. CASE UNCHANGED vars
    BY <1>1 DEF vars, OwnersReplace, Replaces
  <1>2. ASSUME NEW m \in Modules, insmod(m)
        PROVE  OwnersReplace'
    BY <1>2 DEF insmod, OwnersReplace, TypeOK, Replaces
  <1>3. ASSUME NEW m \in Modules, InitSave(m)
        PROVE  OwnersReplace'
    <2>1. Slot(m) \in Slots /\ table' = table
      BY <1>3, SlotFacts DEF InitSave
    <2>2. \A q \in Modules, s \in Slots :
             oldcall'[q][s] = oldcall[q][s] \/ oldcall'[q][s] = table[s]
      BY <1>3, <2>1 DEF InitSave, TypeOK
    <2>3. ASSUME NEW q \in Modules, NEW s \in Slots
          PROVE  oldcall'[q][s] # Kernel => Replaces(oldcall'[q][s], s)
      BY <2>2 DEF OwnersReplace
    <2>4. ASSUME NEW s \in Slots
          PROVE  table'[s] # Kernel => Replaces(table'[s], s)
      BY <2>1 DEF OwnersReplace
    <2> QED
      BY <2>3, <2>4 DEF OwnersReplace, Replaces
  <1>4. ASSUME NEW m \in Modules, InitInstall(m)
        PROVE  OwnersReplace'
    <2>1. Slot(m) \in Slots /\ Replaces(m, Slot(m))
      BY SlotFacts, SlotOfModule
    <2>2. table' = [table EXCEPT ![Slot(m)] = m] /\ oldcall' = oldcall
      BY <1>4 DEF InitInstall
    <2> QED
      BY <2>1, <2>2 DEF OwnersReplace, TypeOK, Replaces
  <1>5. ASSUME NEW m \in Modules, rmmod(m)
        PROVE  OwnersReplace'
    BY <1>5 DEF rmmod, OwnersReplace, Replaces
  <1>6. ASSUME NEW m \in Modules, ExitRestore(m)
        PROVE  OwnersReplace'
    <2>1. Slot(m) \in Slots /\ oldcall' = oldcall
      BY <1>6, SlotFacts DEF ExitRestore
    <2>2. \A s \in Slots : table'[s] = table[s] \/ table'[s] = oldcall[m][s]
      BY <1>6, <2>1 DEF ExitRestore, TypeOK
    <2>3. ASSUME NEW s \in Slots
          PROVE  table'[s] # Kernel => Replaces(table'[s], s)
      BY <2>2 DEF OwnersReplace
    <2> QED
      BY <2>1, <2>3 DEF OwnersReplace, Replaces
  <1> QED
    BY <1>1, <1>2, <1>3, <1>4, <1>5, <1>6 DEF Next

\* A slot that points into freed memory is one that two modules replace, and
\* modules have not come and gone like brackets.
LEMMA StaleSlot ==
    ASSUME TypeOK, OwnersReplace, PrivateInv, NestedInv,
           NEW s \in Slots, ~PointsToLoaded(s)
    PROVE  ~nested /\ Shared(s)
  <1> DEFINE m == table[s]
  <1>1. m \in Modules /\ phase[m] = "out" /\ m # Kernel
    BY DEF TypeOK, PointsToLoaded
  <1>2. PICK k \in 1..Len(Hooks[m]) : Hooks[m][k] = s
    BY <1>1 DEF OwnersReplace, Replaces
  <1>3. Shared(s)
    <2>1. ~Held(m, k)
      BY <1>1 DEF Held
    <2>2. ~Private(m, s)
      BY <1>1, <1>2, <2>1 DEF PrivateInv
    <2> QED
      BY <1>1, <1>2, <2>2 DEF Shared, Private, Replaces
  <1>4. ~nested
    BY <1>1, HooksOK DEF NestedInv, IsLastHolder, Loaded
  <1> QED
    BY <1>3, <1>4

\* Modules that did not nest once have not nested ever since.
LEMMA NestedFalls == [Next]_vars /\ ~nested => ~nested'
  BY DEF Next, vars, insmod, InitSave, InitInstall, rmmod, ExitRestore

LEMMA CallsTypes == CallsTypeOK /\ TypeOK /\ [CallsNext]_allVars => CallsTypeOK'
  <1> SUFFICES ASSUME CallsTypeOK, TypeOK, [CallsNext]_allVars
               PROVE  CallsTypeOK'
    OBVIOUS
  <1>1. CASE ModuleStep
    BY <1>1 DEF ModuleStep, CallsTypeOK
  <1>2. ASSUME NEW p \in Programs, Return(p)
        PROVE  CallsTypeOK'
    BY <1>2 DEF Return, CallsTypeOK
  <1>3. ASSUME NEW p \in Programs, NEW s \in Calls[p], syscall(p, s)
        PROVE  CallsTypeOK'
    <2>1. s \in Slots /\ table[s] \in Modules \cup {Kernel}
      BY CallsOK DEF TypeOK
    <2> QED
      BY <1>3, <2>1 DEF syscall, CallsTypeOK
  <1>4. CASE UNCHANGED allVars
    BY <1>4 DEF allVars, CallsTypeOK
  <1> QED
    BY <1>1, <1>2, <1>3, <1>4 DEF CallsNext

\* The calls do not touch the table.
LEMMA CallsKeepTheTable == [CallsNext]_allVars => [Next]_vars
  BY DEF CallsNext, allVars, ModuleStep, Return, syscall

LEMMA ReasonStep == CallInv /\ [CallsNext]_allVars => LostCallHasAReason'
  <1> SUFFICES ASSUME CallInv, [CallsNext]_allVars, NEW q \in lost'
               PROVE  q \in cut' \/ (~nested' /\ Shared(slot'[q]))
    BY DEF LostCallHasAReason, Shared, Replaces
  <1>0. [Next]_vars /\ (~nested => ~nested')
    BY CallsKeepTheTable, NestedFalls
  <1>1. CASE ModuleStep
    BY <1>0, <1>1 DEF ModuleStep, CallInv, LostCallHasAReason
  <1>2. ASSUME NEW p \in Programs, Return(p)
        PROVE  q \in cut' \/ (~nested' /\ Shared(slot'[q]))
    BY <1>0, <1>2 DEF Return, CallInv, LostCallHasAReason
  <1>3. ASSUME NEW p \in Programs, NEW s \in Calls[p], syscall(p, s)
        PROVE  q \in cut' \/ (~nested' /\ Shared(slot'[q]))
    <2>1. s \in Slots
      BY CallsOK
    <2>2. CASE q \in lost
      BY <1>0, <1>3, <2>2 DEF syscall, CallInv, LostCallHasAReason, CallsTypeOK
    <2>3. CASE q \notin lost
      <3>1. q = p /\ ~PointsToLoaded(s)
        BY <1>3, <2>3 DEF syscall, PointsToLoaded
      <3>2. slot'[q] = s
        BY <1>3, <3>1 DEF syscall, CallInv, CallsTypeOK
      <3> QED
        BY <1>0, <2>1, <3>1, <3>2, StaleSlot DEF CallInv, SlotInv
    <2> QED
      BY <2>2, <2>3
  <1>4. CASE UNCHANGED allVars
    BY <1>0, <1>4 DEF allVars, CallInv, LostCallHasAReason
  <1> QED
    BY <1>1, <1>2, <1>3, <1>4 DEF CallsNext

\* CallInv holds in every reachable state: whoever is in the table replaces the
\* slot, and a stale slot is one that two modules replace.
THEOREM CallsKept == CallsSpec => []CallInv
  <1>1. CallsInit => CallInv
    <2> SUFFICES ASSUME CallsInit PROVE CallInv
      OBVIOUS
    <2>1. TypeOK /\ SlotInv
      BY TypeInit, PrivateInit, NestedInit DEF CallsInit, SlotInv
    <2>2. OwnersReplace
      BY DEF CallsInit, Init, OwnersReplace
    <2>3. CallsTypeOK
      BY CallsOK DEF CallsInit, CallsTypeOK
    <2> QED
      BY <2>1, <2>2, <2>3 DEF CallsInit, CallInv, LostCallHasAReason
  <1>2. CallInv /\ [CallsNext]_allVars => CallInv'
    <2> SUFFICES ASSUME CallInv, [CallsNext]_allVars PROVE CallInv'
      OBVIOUS
    <2>1. TypeOK' /\ StartsAtOne' /\ PrivateInv' /\ NestedInv' /\ OwnersReplace'
      BY CallsKeepTheTable, TypeStep, StartsStep, PrivateStep, NestedStep, OwnersStep
         DEF CallInv, SlotInv
    <2> QED
      BY <2>1, CallsTypes, ReasonStep DEF CallInv, SlotInv
  <1> QED
    BY <1>1, <1>2, PTL DEF CallsSpec

\* A program whose call runs freed memory was in a module that was removed, or
\* came through a slot that two modules replace, as 233, after they were not
\* removed in the reverse order.  A call of 378 is lost only for the first reason.
THEOREM LostCalls == CallsSpec => []LostCallHasAReason
  <1>1. CallInv => LostCallHasAReason
    BY DEF CallInv
  <1> QED
    BY <1>1, CallsKept, PTL

=============================================================================
