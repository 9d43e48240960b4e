\* Pushes, mirrors, store creation and coin splits over one wallet.
CONSTANTS
    Pushes = {"push", "edit"}
    Mirrors = {"check", "import"}
    Creators = {"create"}
    Splitters = {"split"}
    Casts <- MCCasts
    Wallets <- MCWallets
    MinUsable = 3
    CoinSize = 4
    SplitFee = 1
    LowWater = 3
    Target = 4
    MaxAttempts = 5
    MaxRetries = 8
    Diagnose = 1
    MaxFaults = 2
SPECIFICATION FairSpec
CHECK_DEADLOCK FALSE
INVARIANTS
    OneMirror
    OneStore
PROPERTIES
    SeenRootIsDead
    
    SplitGains
