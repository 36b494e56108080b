SPECIFICATION FairSpec
CONSTANTS
    p = p  q = q
    payee = payee  rival = rival
    primary = primary  override = override  agent = agent
    e1 = e1  e2 = e2
    None = None  NoPath = NoPath
    Networks <- MCNetworks
    KeysDirs = {}
    LoopbackUrls = {"loopback"}
    WalletNames = {"tesaurus"}
    Addresses <- MCAddresses
    Destinations <- MCDestinations
    MinimalNonDust <- MCDust
    VSize <- MCVSize
    MaxFeeSats = 4
    MaxFeeRate = 4
    MaxSelectedInputs = 2
    U64Max = 40
    Procs = {p, q}
    TheVault <- MCVault
    Network = "regtest"
    Requests <- MCRequests
    Deposits <- MCDeposits
    SweepFee = 3
    Recipient <- Payee
    MinRelayRate = 1
    MaxTrouble = 2
\* Once everything is recovered nothing is left to do.
CHECK_DEADLOCK FALSE
INVARIANTS TypeOK BuiltPassesValidation SelectionFindsFunds FreshSpendIsAccepted RecoveryIsOpen
PROPERTIES OnlyRacesReplace RecoveryCompletes
