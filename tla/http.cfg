SPECIFICATION Spec
CONSTANTS
    Token <- MCToken
    Lower <- MCLower
    NoHeader = "-"
    Tool = {"deploy"}
    Schema <- FewSchemas
    Args <- MCArgs
    OurVersion = 3
    LegacyVersion = 1
    Offers <- MCOffers
    Probed <- MCProbed
    Faults <- MCFaults
    Session = {"s1"}
    NoSession = NoSession
    NoSchema = NoSchema
    NoParam = NoParam
    NoAnswer = NoAnswer
    MaxCalls = 2
    MaxChanges = 1
    MaxAsks = 1
INVARIANTS
    TypeOK
    EraRight
    VersionsAgree
    SessionEchoed
    EstablishedEnded
    ExecutedOnce
    CallsFitSchema
    OnlyMalformedDropped
