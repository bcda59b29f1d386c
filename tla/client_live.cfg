SPECIFICATION FairSpec
CONSTANTS
    OurVersion = 5
    LegacyVersion = 4
    Offers <- RoundOffers
    Cursor <- RoundCursors
    First = ""
    NextCursor <- RoundNext
    Payload = {"p"}
    Metas = {NoMeta}
    CallerMeta = CallerMeta
    NoMeta = NoMeta
    NoParam = NoParam
    ChanCap = 1
    PipeCap = 1
    MaxCalls = 1
    MaxUnsolicited = 2
    MaxPages = 4
PROPERTIES
    EveryCallReturns
