SPECIFICATION Spec
CONSTANTS
    Users = {alice, bob}
    Muted = {}
    Contexts = {general}
    Deletable = {general}
    MessageIds = {hello}
    Requests = {r1}
    MaxVersion = 2
PROPERTY
    SenderCanDelete
