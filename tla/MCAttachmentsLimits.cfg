SPECIFICATION Spec
CONSTANTS
    f1 = f1
    f2 = f2
    f3 = f3
    f4 = f4
    f5 = f5
    Users = {alice}
    Attachments = {f1, f2, f3, f4}
    Requests = {r1, r2}
    MaxAttachments = 2
    MaxSize = 2
    MaxTotalSize = 3
    Size <- Sizes
    Sender = alice
    MaxFailures = 0
SYMMETRY Symmetry
INVARIANT
    WithinLimits
