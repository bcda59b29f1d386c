SPECIFICATION Spec
CONSTANTS
    Server = {"hr"}
    NoServer = "NoServer"
    This = "hr"
    Uri = {}
    Resources = {}
    Label = {"sensitive", "untrusted", "sink"}
    NoDigest = "none"
    NoEvidence = NoEvidence
    NoMessage = NoMessage
    NoDef = NoDef
    ProbeId = ProbeId
    Offline = FALSE
    PinMismatch = "deny"
    Scope = {"s1"}
    Arg = {"ok", "bad"}
    Digest = {"#read", "#send", "#evil"}
    Def = {"read1", "read2", "send1", "evil"}
    Fingerprint <- PinFingerprint
    Tools <- PinEntries
    Rules <- DefaultRules
    Listing <- PinListings
    Tool = {"read", "send"}
    UnknownTools = "deny"
    Mode = "enforce"
    MaxMessages = 3
    Sends = {"call", "list"}
    Faults = {}
INVARIANTS
    TypeOK
    PinnedCallsCleared
    ListingsScreened
    OneAnswer
    OutputAudited
