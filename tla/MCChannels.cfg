SPECIFICATION Spec
CONSTANTS
    Users = {u1, u2, u3}
    ChannelIds = {general}
    RowIds = {m1, m2, m3}
    Requests = {r1, r2}
SYMMETRY Symmetry
INVARIANTS
    TypeOK
    OneOwner
    ConsistentTables
PROPERTIES
    OwnerOnly
    ImplementsRegistry
