SPECIFICATION NotificationsSpec
CONSTANTS
    Recipients = {alice, bob}
    Ids = {n1}
    Requests = {r1, r2}
SYMMETRY Symmetry
INVARIANTS
    NotificationsTypeOK
    BadgeIsRight
PROPERTIES
    PreferenceIsRespected
