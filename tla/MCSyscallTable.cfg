SPECIFICATION CallsSpec
CONSTANTS
    ptreemodule = ptreemodule
    pagetable = pagetable
    ptree = ptree
    VATranslate = VATranslate
    vm_inspector = vm_inspector
    Modules = {ptreemodule, pagetable}
    Programs = {ptree, VATranslate, vm_inspector}
    Slots = {233, 378}
    Hooks <- MCHooks
    Calls <- MCCalls
    Kernel = Kernel
    None = None
INVARIANTS TypeOK PrivateSlotsRestored NestedModulesRestore LostCallHasAReason
