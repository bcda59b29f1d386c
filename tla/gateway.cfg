SPECIFICATION FairSpec
CONSTANTS
    NoServer = "NoServer"
    Uri = {"file", "gone"}
    Resources <- ResourceRules
    Label = {"sensitive", "untrusted", "sink"}
    NoDigest = "none"
    NoEvidence = NoEvidence
    NoDef = NoDef
    Offline = FALSE
    PinMismatch = "deny"
    Scope = {"s1"}
    Arg = {"ok"}
    Server = {"hr", "mail"}
    Tool = {"read", "send"}
    Digest = {"#read", "#evil"}
    Def = {"good", "evil"}
    Fingerprint <- Fingerprints
    Tools <- Entries
    Rules <- DefaultRules
    Order <- ByName
    Prefixed <- MailPrefix
    Listings <- ToolLists
    Offers <- UriLists
    NoRequest = NoRequest
    UnknownTools = "deny"
    Mode = "enforce"
    MaxRequests = 4
INVARIANTS
    TypeOK
    PinnedCallsCleared
    ListedUriRoutes
    ExplainAgrees
    AllServersOrNone
PROPERTIES
    ImplementsFlowWall
    AnsweredUnlessHeld
