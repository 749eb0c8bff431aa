---------------------------- MODULE SyscallCalls ----------------------------
(***************************************************************************)
(* The programs of the two projects call through the table while modules   *)
(* come and go: ptree calls 233, VATranslate 233 and 378, vm_inspector 378. *)
(* A call takes no reference to the module whose function it runs.         *)
(***************************************************************************)
EXTENDS SyscallTable

CONSTANTS Programs,
          Calls,      \* the slots a program calls
          None        \* no call is under way

ASSUME CallsOK == Calls \in [Programs -> SUBSET Slots] /\ None \notin Modules \cup {Kernel}

VARIABLES
    inside,   \* whose function a program's call runs
    slot,     \* the slot of a program's last call
    cut,      \* the programs whose call runs in a module removed meanwhile
    lost      \* the programs whose call has run freed memory

callVars == <<inside, slot, cut, lost>>
allVars  == <<vars, inside, slot, cut, lost>>

\* Mutant: the call branches to another slot's function.
syscall_other(p, s) ==
    /\ inside[p] = None /\ p \notin lost
    /\ \E other \in Slots :
          /\ inside' = [inside EXCEPT ![p] = table[other]]
          /\ lost' = IF table[other] # Kernel /\ phase[table[other]] = "out"
                     THEN lost \cup {p} ELSE lost
    /\ slot' = [slot EXCEPT ![p] = s]
    /\ UNCHANGED <<vars, cut>>

\* The kernel branches to the function the table has at that moment.
syscall(p, s) ==
    /\ inside[p] = None /\ p \notin lost
    /\ inside' = [inside EXCEPT ![p] = table[s]]
    /\ slot' = [slot EXCEPT ![p] = s]
    /\ lost' = IF table[s] # Kernel /\ phase[table[s]] = "out"
               THEN lost \cup {p} ELSE lost
    /\ UNCHANGED <<vars, cut>>

\* It comes back, if its code is still there.
Return(p) ==
    /\ inside[p] # None /\ p \notin lost
    /\ inside' = [inside EXCEPT ![p] = None]
    /\ lost' = lost \cup ({p} \cap cut)
    /\ UNCHANGED <<vars, slot, cut>>

\* What the modules do, of which a call inside a module notices the end: its
\* memory is freed.
ModuleStep ==
    /\ Next
    /\ cut' = cut \cup {p \in Programs : /\ inside[p] \in Modules
                                         /\ phase[inside[p]] # "out"
                                         /\ phase'[inside[p]] = "out"}
    /\ UNCHANGED <<inside, slot, lost>>

CallsInit ==
    /\ Init
    /\ inside = [p \in Programs |-> None]
    /\ slot \in {f \in [Programs -> Slots] : \A p \in Programs : f[p] \in Calls[p]}
    /\ cut = {} /\ lost = {}

CallsNext == \/ ModuleStep
             \/ \E p \in Programs : Return(p) \/ \E s \in Calls[p] : syscall(p, s)

CallsSpec == CallsInit /\ [][CallsNext]_allVars

-----------------------------------------------------------------------------

Shared(s) == \E m, o \in Modules : m # o /\ Replaces(m, s) /\ Replaces(o, s)

\* A call runs freed memory for two reasons only: its module was removed while
\* the call was in it, which nothing prevents, or it went through a slot that
\* two modules replace (233), after modules were not removed in the reverse of
\* the order they were inserted in.
LostCallHasAReason ==
    \A p \in lost : p \in cut \/ (~nested /\ Shared(slot[p]))

-----------------------------------------------------------------------------
(* The inductive invariant behind it.                                      *)

\* The types of the calls' state.
CallsTypeOK ==
    /\ inside \in [Programs -> Modules \cup {Kernel, None}]
    /\ slot \in [Programs -> Slots]
    /\ cut \subseteq Programs /\ lost \subseteq Programs

\* Only a module that replaces a slot has its function there, or saved from there.
OwnersReplace ==
    \A s \in Slots :
       /\ table[s] # Kernel => Replaces(table[s], s)
       /\ \A m \in Modules : oldcall[m][s] # Kernel => Replaces(oldcall[m][s], s)

CallInv == /\ TypeOK /\ SlotInv /\ OwnersReplace
           /\ CallsTypeOK /\ LostCallHasAReason

=============================================================================
