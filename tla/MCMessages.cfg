SPECIFICATION FairSpec
CONSTANTS
    Users = {alice, bob, carol}
    Muted = {carol}
    Contexts = {general}
    Deletable = {general}
    MessageIds = {hello}
    Requests = {r1, r2}
    MaxVersion = 3
INVARIANTS
    TypeOK
    NothingAheadOfTheDatabase
    AnswersAreTrue
    LatestTextIsShown
PROPERTY
    StoredIsBroadcast
