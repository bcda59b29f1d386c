SPECIFICATION Spec
CONSTANTS
    Server = {"hr"}
    NoServer = "NoServer"
    This = "hr"
    Uri = {}
    Resources = {}
    Label = {"sensitive", "untrusted", "sink"}
    NoDigest = "none"
    NoEvidence = NoEvidence
    NoMessage = NoMessage
    NoDef = NoDef
    ProbeId = ProbeId
    Offline = FALSE
    PinMismatch = "deny"
    Scope = {"s1", "s2"}
    Arg = {"ok"}
    Digest = {}
    Def = {}
    Fingerprint <- NoFingerprint
    Tools <- FlowEntries
    Rules <- FlowRules
    Listing <- NoListings
    Tool = {"read", "fetch", "send"}
    UnknownTools = "allow"
    Mode = "enforce"
    MaxMessages = 3
    Sends = {"call"}
    Faults = {}
INVARIANTS
    NoForbiddenFlow
    EvidenceIsFirst
    ViolationsAudited
PROPERTIES
    ImplementsFlowWall
