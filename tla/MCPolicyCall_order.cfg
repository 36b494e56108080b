SPECIFICATION Spec
CONSTANTS
    c1 = c1  c2 = c2  c3 = c3
    payee = payee  rival = rival  vault = vault
    None = None  Unsigned = Unsigned
    RequestIds = {"r1", "r2"}
    Signatures = {"s1"}
    OutPoints <- MCOutPoints
    Scripts <- MCScripts
    VaultScripts <- MCVaultScripts
    Psbts <- MCPsbts
    PinScript = vault
    PinWitness = "witness"
    Primary = "primary"  Override = "override"  Agent = "agent"
    PinGenesis = "regtest"
    CsvBlocks = 2  SafetyMargin = 1  SecondsPerBlock = 2
    PerSig = 6  PerWindow = 10  WindowBlocks = 3
    ConfirmThreshold = 5  MaxFee = 2  MaxInputs = 2  Dust = 2
    U32Max = 12  U64Max = 40
    MaxChanges = 2
    Calls <- MCCalls
INVARIANT FirstStageReports
CHECK_DEADLOCK FALSE
