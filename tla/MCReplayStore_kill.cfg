SPECIFICATION Spec
CONSTANTS
    c1 = c1  c2 = c2
    vault = vault  payee = payee  rival = rival
    r1 = r1  r2 = r2  r3 = r3
    s1 = s1  s2 = s2
    Unsigned = Unsigned  Absent = Absent  Torn = Torn  NoRecord = NoRecord
    OutPoints <- MCOutPoints
    Scripts <- MCScripts
    VaultScripts <- MCVaultScripts
    Psbts <- MCPsbts
    PsbtMenu = "rules"
    RequestIds = {r1, r2, r3}
    Signatures = {s1, s2}
    Faults = {"kill"}
INVARIANTS NoConflictingRelease ReleasedIsOnDisk
PROPERTY KeepsPromise
CHECK_DEADLOCK FALSE
