SPECIFICATION Spec
CONSTANTS
    Workers = {w1}
    Setups = {s1}
    Accounts = {alice, bob}
    Keys = {builtin, own}
    BuiltIn = builtin
    WalletFlaky = FALSE
    MaxLinks = 1
    MaxDepth = 1
    None = None
    Torn = Torn
SYMMETRY AccountSymmetry
INVARIANTS LinkReplaces
