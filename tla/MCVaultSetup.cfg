SPECIFICATION FairSpec
CONSTANTS
    p = p  q = q
    d1 = d1  d2 = d2  d3 = d3  d4 = d4
    Absent = Absent  Torn = Torn  None = None  NoPath = NoPath
    Networks <- MCNetworks
    KeysDirs = {d1, d2, d3, d4}
    LoopbackUrls = {"loopback"}
    WalletNames = {"tesaurus"}
    Procs = {p, q}
    Configs <- MCConfigs
    Example <- MCExample
    CoreNetwork = "regtest"
    MaxTrouble = 3
\* Once the vault is set up and the trouble is used up, nothing is left to do.
CHECK_DEADLOCK FALSE
INVARIANTS TypeOK OneRunPerDirectory NothingPrintedIsLost
 
