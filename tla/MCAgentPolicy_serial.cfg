SPECIFICATION Spec
CONSTANTS
    c1 = c1  c2 = c2  c3 = c3
    payee = payee  rival = rival  vault = vault
    None = None  Unsigned = Unsigned
    Menu = {"pay", "large", "largeBump", "late"}
    Requests <- MCRequests
    RequestIds <- MCRequestIds
    Psbts <- MCPsbts
    Facts <- MCFacts
    Signatures = {"s1"}
    OutPoints <- MCOutPoints
    Scripts <- MCScripts
    VaultScripts <- MCVaultScripts
    PinScript = vault
    PinWitness = "witness"
    Primary = "primary"  Override = "override"  Agent = "agent"
    PinGenesis = "regtest"
    CsvBlocks = 1  SafetyMargin = 1  SecondsPerBlock = 1
    PerSig = 4  PerWindow = 4  WindowBlocks = 2
    ConfirmThreshold = 4  MaxFee = 2  MaxInputs = 2  Dust = 1
    U32Max = 20  U64Max = 40
    MaxInFlight = 1
    MaxLost = 1
    MaxTip = 3  MaxNow = 2  MaxSamples = 3
INVARIANTS TypeOK VelocityBound LargeReleaseIsConfirmed SignedWasMature
CHECK_DEADLOCK FALSE
