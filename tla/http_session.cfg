SPECIFICATION Spec
CONSTANTS
    Token <- MCToken
    Lower <- MCLower
    NoHeader = "-"
    Tool = {"deploy"}
    Schema <- BuriedSchemas
    Args <- MCArgs
    OurVersion = 3
    LegacyVersion = 1
    Offers <- MCOffers
    Probed <- MCProbed
    Faults <- MCFaults
    Session = {"s1"}
    NoSession = NoSession
    NoSchema = NoSchema
    NoParam = NoParam
    NoAnswer = NoAnswer
    MaxCalls = 1
    MaxChanges = 0
    MaxAsks = 0
INVARIANTS
    SessionsEnded
