--------------------------- MODULE MCSyscallTable ---------------------------
(***************************************************************************)
(* The two modules of the projects and their three programs.               *)
(***************************************************************************)
EXTENDS SyscallCalls

CONSTANTS ptreemodule, pagetable, ptree, VATranslate, vm_inspector

MCHooks == [m \in {ptreemodule, pagetable} |->
               IF m = ptreemodule THEN <<233>> ELSE <<233, 378>>]

MCCalls == [p \in {ptree, VATranslate, vm_inspector} |->
               IF p = ptree THEN {233}
               ELSE IF p = vm_inspector THEN {378} ELSE {233, 378}]

=============================================================================
