SPECIFICATION FairSpec
CONSTANTS
    Server = {"hr"}
    NoServer = "NoServer"
    This = "hr"
    Uri = {}
    Resources = {}
    Label = {"sensitive", "untrusted", "sink"}
    NoDigest = "none"
    NoEvidence = NoEvidence
    NoMessage = NoMessage
    NoDef = NoDef
    ProbeId = ProbeId
    Offline = FALSE
    PinMismatch = "deny"
    Scope = {"s1"}
    Arg = {"ok"}
    Digest = {"#read", "#send", "#evil"}
    Def = {"read1", "read2", "send1", "evil"}
    Fingerprint <- PinFingerprint
    Tools <- TwoEntries
    Rules <- DefaultRules
    Listing <- OneListing
    Tool = {"read", "send"}
    UnknownTools = "deny"
    Mode = "enforce"
    MaxMessages = 2
    Sends = {"call", "list", "other"}
    Faults = {"server", "client", "stall"}
PROPERTIES
    EveryMessageHandled
    HangUpEndsRun
    RepliesDelivered
