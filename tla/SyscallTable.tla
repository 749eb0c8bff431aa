---------------------------- MODULE SyscallTable ----------------------------
(***************************************************************************)
(* The entries of the system call table that the kernel modules of the two *)
(* projects replace: ptreemodule has ptree() as call 233, pagetable has    *)
(* get_pagetable_layout() as call 233 too and expose_page_table() as call  *)
(* 378.  A module's init function saves the entry and overwrites it, and   *)
(* its exit function writes back what was saved.  Nothing locks the table: *)
(* insmod and rmmod of different modules interleave.                       *)
(***************************************************************************)
EXTENDS Naturals, Sequences

CONSTANTS Modules,
          Slots,
          Hooks,    \* the slots a module replaces, in the order it does
          Kernel    \* the kernel itself, whose calls the table has first

ASSUME HooksOK ==
    /\ Kernel \notin Modules
    /\ Hooks \in [Modules -> Seq(Slots) \ {<<>>}]
    /\ \A m \in Modules : \A j, k \in 1..Len(Hooks[m]) :
          Hooks[m][j] = Hooks[m][k] => j = k

VARIABLES
    table,    \* whose function each slot of the table points to
    oldcall,  \* whose function a module has saved for a slot (Kernel: none yet)
    phase,    \* where the init or exit function of a module is
    at,       \* which of its slots it is at
    under,    \* the modules that were in when a module was inserted
    nested    \* no insmod or rmmod overlapped another, and the last module
              \* in was the first to be removed

vars == <<table, oldcall, phase, at, under, nested>>

Slot(m)  == Hooks[m][at[m]]
AtEnd(m) == at[m] = Len(Hooks[m])

Loaded   == {m \in Modules : phase[m] # "out"}

\* Nobody else is in an init or exit function.
Alone(m) == \A o \in Modules \ {m} : phase[o] \in {"out", "in"}

insmod(m) ==
    /\ phase[m] = "out"
    /\ phase' = [phase EXCEPT ![m] = "save"]
    /\ at' = [at EXCEPT ![m] = 1]
    /\ under' = [under EXCEPT ![m] = Loaded]
    /\ nested' = (nested /\ Alone(m))
    /\ oldcall' = [oldcall EXCEPT ![m] = [s \in Slots |-> Kernel]]
    /\ UNCHANGED table

\* Mutant: the entry is not saved.
InitSaveNothing(m) ==
    /\ phase[m] = "save"
    /\ phase' = [phase EXCEPT ![m] = "install"]
    /\ UNCHANGED <<table, oldcall, at, under, nested>>

\* oldcall = syscall[nr]
InitSave(m) ==
    /\ phase[m] = "save"
    /\ oldcall' = [oldcall EXCEPT ![m][Slot(m)] = table[Slot(m)]]
    /\ phase' = [phase EXCEPT ![m] = "install"]
    /\ UNCHANGED <<table, at, under, nested>>

\* Mutant: the index moves on after the last slot too.
InitInstallPast(m) ==
    /\ phase[m] = "install"
    /\ table' = [table EXCEPT ![Slot(m)] = m]
    /\ phase' = [phase EXCEPT ![m] = IF AtEnd(m) THEN "in" ELSE "save"]
    /\ at' = [at EXCEPT ![m] = @ + 1]
    /\ UNCHANGED <<oldcall, under, nested>>

\* syscall[nr] = the module's own function
InitInstall(m) ==
    /\ phase[m] = "install"
    /\ table' = [table EXCEPT ![Slot(m)] = m]
    /\ phase' = [phase EXCEPT ![m] = IF AtEnd(m) THEN "in" ELSE "save"]
    /\ at' = [at EXCEPT ![m] = IF AtEnd(m) THEN 1 ELSE @ + 1]
    /\ UNCHANGED <<oldcall, under, nested>>

rmmod(m) ==
    /\ phase[m] = "in"
    /\ phase' = [phase EXCEPT ![m] = "exit"]
    /\ nested' = (nested /\ Alone(m) /\ Loaded \subseteq under[m] \cup {m})
    /\ UNCHANGED <<table, oldcall, at, under>>

\* Mutant: the exit function returns after the first entry.
ExitRestoreFirst(m) ==
    /\ phase[m] = "exit"
    /\ table' = [table EXCEPT ![Slot(m)] = oldcall[m][Slot(m)]]
    /\ phase' = [phase EXCEPT ![m] = "out"]
    /\ UNCHANGED <<oldcall, at, under, nested>>

\* syscall[nr] = oldcall.  When the exit function has returned the module's
\* memory is freed.
ExitRestore(m) ==
    /\ phase[m] = "exit"
    /\ table' = [table EXCEPT ![Slot(m)] = oldcall[m][Slot(m)]]
    /\ IF AtEnd(m)
       THEN phase' = [phase EXCEPT ![m] = "out"] /\ UNCHANGED at
       ELSE at' = [at EXCEPT ![m] = @ + 1] /\ UNCHANGED phase
    /\ UNCHANGED <<oldcall, under, nested>>

Init ==
    /\ table = [s \in Slots |-> Kernel]
    /\ oldcall = [m \in Modules |-> [s \in Slots |-> Kernel]]
    /\ phase = [m \in Modules |-> "out"]
    /\ at = [m \in Modules |-> 1]
    /\ under = [m \in Modules |-> {}]
    /\ nested = TRUE

Next == \E m \in Modules : \/ insmod(m) \/ InitSave(m) \/ InitInstall(m)
                           \/ rmmod(m) \/ ExitRestore(m)

Spec == Init /\ [][Next]_vars

-----------------------------------------------------------------------------

TypeOK ==
    /\ table \in [Slots -> Modules \cup {Kernel}]
    /\ oldcall \in [Modules -> [Slots -> Modules \cup {Kernel}]]
    /\ phase \in [Modules -> {"out", "save", "install", "in", "exit"}]
    /\ at \in [Modules -> Nat]
    /\ \A m \in Modules : at[m] \in 1..Len(Hooks[m])
    /\ under \in [Modules -> SUBSET Modules]
    /\ nested \in BOOLEAN

Replaces(m, s) == \E k \in 1..Len(Hooks[m]) : Hooks[m][k] = s

\* x is the last module in of those of M that replace s, if there is one.
IsLast(x, M, s) ==
    IF \E m \in M : Replaces(m, s)
    THEN /\ x \in M /\ Replaces(x, s)
         /\ \A o \in M \ {x} : Replaces(o, s) => o \in under[x]
    ELSE x = Kernel

\* The table points into no module that is gone, or not initialized yet.
PointsToLoaded(s) == table[s] # Kernel => phase[table[s]] # "out"

\* A slot that only one module replaces (378) never points to a module that is
\* gone and is the kernel's again once it is gone, whatever the insmods and
\* rmmods of other modules do meanwhile.
PrivateSlotsRestored ==
    \A s \in Slots, m \in Modules :
       /\ Replaces(m, s)
       /\ \A o \in Modules \ {m} : ~Replaces(o, s)
       => /\ PointsToLoaded(s)
          /\ phase[m] = "out" => table[s] = Kernel

\* As long as modules come and go like brackets, between one and the next
\* insmod or rmmod every slot, shared ones too (233), has the function of the
\* last module in that replaces it, or the kernel's.
NestedModulesRestore ==
    nested /\ (\A m \in Modules : phase[m] \in {"out", "in"}) =>
       \A s \in Slots : IsLast(table[s], Loaded, s)

\* Comment in the exit functions: "restore the old system call".  When all
\* modules are gone the table is what it was.
OldCallsRestored ==
    (\A m \in Modules : phase[m] = "out") => \A s \in Slots : table[s] = Kernel

-----------------------------------------------------------------------------
(* The inductive invariants behind the two guarantees.                     *)

\* Slot number k of module m points to it; and its old call is saved.
Held(m, k) ==
    \/ phase[m] \in {"save", "install"} /\ k < at[m]
    \/ phase[m] = "in"
    \/ phase[m] = "exit" /\ k \geq at[m]
Saved(m, k) == Held(m, k) \/ (phase[m] = "install" /\ k = at[m])

Private(m, s) == \A o \in Modules \ {m} : ~Replaces(o, s)

StartsAtOne == \A m \in Modules : phase[m] = "in" => at[m] = 1

\* A slot of one module's own goes back and forth between it and the kernel.
PrivateInv ==
    \A m \in Modules : \A k \in 1..Len(Hooks[m]) :
       Private(m, Hooks[m][k]) =>
          /\ table[Hooks[m][k]] = IF Held(m, k) THEN m ELSE Kernel
          /\ Saved(m, k) => oldcall[m][Hooks[m][k]] = Kernel

Holds(m, s) == \E k \in 1..Len(Hooks[m]) : Hooks[m][k] = s /\ Held(m, k)

\* x is the last module in of those of M that hold s, if there is one.
IsLastHolder(x, M, s) ==
    \/ /\ x \in M /\ Holds(x, s)
       /\ \A o \in M \ {x} : Holds(o, s) => o \in under[x]
    \/ x = Kernel /\ \A m \in M : ~Holds(m, s)

\* The modules form a stack; only its top is in an init or exit function.
StackOfModules ==
    /\ \A m \in Loaded : under[m] \subseteq Loaded \ {m}
    /\ \A m, o \in Loaded : m # o => (o \in under[m] \/ m \in under[o])
    /\ \A m, o \in Loaded : o \in under[m] => m \notin under[o]
    /\ \A m \in Loaded : phase[m] # "in" =>
          Alone(m) /\ Loaded \subseteq under[m] \cup {m}

\* The table has the last holder of a slot, and what a module saved is the
\* last holder among the modules under it.
NestedInv ==
    nested =>
       /\ StackOfModules
       /\ \A s \in Slots : IsLastHolder(table[s], Loaded, s)
       /\ \A m \in Loaded : \A k \in 1..Len(Hooks[m]) :
             Saved(m, k) => IsLastHolder(oldcall[m][Hooks[m][k]], under[m], Hooks[m][k])

SlotInv == StartsAtOne /\ PrivateInv /\ NestedInv

=============================================================================
