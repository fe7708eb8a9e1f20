SPECIFICATION FairSpec
CONSTANTS
    Users = {1, 2, 3}
    Inactive = {3}
    ConversationIds = {c1, c2}
    Requests = {r1, r2, r3}
INVARIANT
    TypeOK
PROPERTIES
    ImplementsPairing
    ReopenIsEffective
    InsertionsEnd
