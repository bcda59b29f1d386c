SPECIFICATION Spec
CONSTANTS
    OurVersion = 5
    LegacyVersion = 4
    Offers <- MCOffers
    Cursor <- MCCursors
    First = ""
    NextCursor <- MCNext
    Payload = {"p", "q"}
    Metas = {NoMeta}
    CallerMeta = CallerMeta
    NoMeta = NoMeta
    NoParam = NoParam
    ChanCap = 1
    PipeCap = 1
    MaxCalls = 2
    MaxUnsolicited = 0
    MaxPages = 1
INVARIANTS
    TypeOK
    OwnAnswer
    ListingIsWhole
    VersionAgreed
    CallsFitEra
    NoAnswerLost
