SPECIFICATION Spec
CONSTANTS
    Accounts = {alice, bob}
    Keys = {builtin, own}
    BuiltIn = builtin
    None = None
    MaxPages = 2
    MaxDepth = 2
    MaxEvents = 2
SYMMETRY AccountSymmetry
INVARIANTS TypeOK CodeFitsAccount CheckboxTellsSidebar SidebarOnce
PROPERTIES CleanLinkIsWhole
