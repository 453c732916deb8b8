CONSTANTS
    r1 = r1
    r2 = r2
    d1 = d1
    d2 = d2
    s1 = s1
    s2 = s2
    Runs = {r1}
    Configs = {d1, d2}
    Secrets = {s1, s2}
    Default = Default
    Absent = Absent
    Broken = Broken
    GoOn = FALSE

SYMMETRY Symmetry

SPECIFICATION Spec

INVARIANTS
    TypeOK
    BackupIsComplete
    InstalledStays
    AccessTellsCredentials

PROPERTIES
    CredentialsAreKept
    RollbackRestoresBackup
