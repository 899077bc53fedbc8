\* Every placing of three members, and archives of two members that are unusual
\* or damaged in one way each.
SPECIFICATION Spec
CONSTANTS
    Archives <- MCArchives
    Sentinel = 31
    Max64 = 63
    DriveRooted = {"C:"}
    Bidi = {"bidi"}
    Control = {"ctl", "nul"}
    Nul = {"nul"}
INVARIANTS
    TypeOK
    OverlapsAreFound
    QuietOnConforming
    CrcFindingsExact
    RefusedNamesReported
\* An audit ends.
CHECK_DEADLOCK FALSE
