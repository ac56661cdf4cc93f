SPECIFICATION Spec
CONSTANTS
    Workers = {w1}
    Setups = {s1}
    Accounts = {alice, bob}
    Keys = {builtin, own}
    BuiltIn = builtin
    WalletFlaky = TRUE
    MaxLinks = 1
    MaxDepth = 2
    None = None
    Torn = Torn
CONSTRAINTS ReenteredAlone TornAlone
SYMMETRY AccountSymmetry
INVARIANTS TypeOK StoreIsLink LoadSeesLink
PROPERTIES CacheHonest
