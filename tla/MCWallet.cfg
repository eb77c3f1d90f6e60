\* One top-up told by webhooks and the sweep, against payments, refunds,
\* adjustments and freezes: safety and liveness.
SPECIFICATION LiveSpec
CONSTANTS
    w1 = w1
    r1 = r1
    s1 = s1
    s2 = s2
    None = None
    Wallets = {w1}
    Sessions = {s1, s2}
    References = {r1}
    WalletOf <- OneWallet
    AmountOf <- SmallTopup
    Amounts = {1}
    Cap = 1
    MaxEntries = 3
INVARIANTS
    LedgerChains
    
PROPERTIES
    ImplementsLedger
    
