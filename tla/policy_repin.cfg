SPECIFICATION Spec
CONSTANTS
    Command = {p1, p2}
    Server = {"a"}
    Tool = {"c", "b.c"}
    NoServer = ""
    Key <- MCKeys
    KeyOf <- MCKeyOf
    Digest = {"#1", "#2"}
    NoDigest = "none"
    Absent = Absent
    Broken = Broken
    Drafts <- OneDraft
    Exposed <- MCExposed
    NoJob = NoJob
    NoReport = NoReport
    MaxRuns = 1
    MaxEdits = 0
    MaxChanges = 1
INVARIANTS
    NeverSilentlyRepins
CHECK_DEADLOCK FALSE
