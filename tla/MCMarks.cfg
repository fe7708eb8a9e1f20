SPECIFICATION FairSpec
CONSTANTS
    Users = {alice}
    Messages = {m1, m2}
    Targets = {t1}
    RowIds = {1, 2}
    Requests = {r1, r2}
INVARIANTS
    TypeOK
    AnsweredMeansRead
    AnnouncedByItsCreator
    RoomKnowsReactions
PROPERTIES
    WaitsEnd
