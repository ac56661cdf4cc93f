SPECIFICATION Spec
CONSTANTS
    Workers = {}
    Setups = {helper, settings}
    Accounts = {alice, bob}
    Keys = {builtin}
    BuiltIn = builtin
    WalletFlaky = TRUE
    MaxLinks = 2
    MaxDepth = 1
    None = None
    Torn = Torn
CONSTRAINTS ReenteredAlone Uncached
SYMMETRY AccountSetupSymmetry
INVARIANTS StoreIsLink
