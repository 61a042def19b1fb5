SPECIFICATION Spec
CONSTANTS
    v1 = v1
    v2 = v2
    FirstDocs <- RemoteOnly
    Layers <- RemoteAndFile
    Value = {v1, v2}
    Absent = Absent
    Broken = Broken
    Nobody = Nobody
    None = None
    Feed = {watch}
    Rereads <- OnlyFile
    Greets <- NoLayer
    MaxEdits = 2
    MaxFaults = 2
INVARIANTS
    NoSilentLoss
    CallbacksAgree
PROPERTIES
    QuietAfterClose
    Converges
