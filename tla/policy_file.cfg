SPECIFICATION Spec
CONSTANTS
    Command = {p1, p2}
    Server = {"a", "a.b"}
    Tool = {"c", "b.c"}
    NoServer = ""
    Key <- MCKeys
    KeyOf <- MCKeyOf
    Digest = {"#1", "#2"}
    NoDigest = "none"
    Absent = Absent
    Broken = Broken
    Drafts <- MCDrafts
    Exposed <- MCExposed
    NoJob = NoJob
    NoReport = NoReport
    MaxRuns = 2
    MaxEdits = 1
    MaxChanges = 1
INVARIANTS
    TypeOK
    InitKeepsReviewed
    InitAgreesWithVerify
    CleanVerifyClearsWall
PROPERTIES
    BrokenFileKept
SYMMETRY Alike
CHECK_DEADLOCK FALSE
