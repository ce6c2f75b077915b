CONSTANTS
    IndexCards = {c1}
    Viewers = {v1, v2}
    MaxEdits = 1
    MaxMarks = 2
    Sessions = {s1, s2}
    Docs = {1, 2}
    CommitsOf <- MCCommits
    EvidenceOf <- MCEvidence
    Grades = {"resolved", "partly"}
    NoSession = NoSession
    MaxRequests = 2
    MaxEvents = 1
    Importers = {p1, p2}
    Sources = {i1, i2}
    Slug = Slug
    MaxRemoved = 2
    Watched = {c1}
    QueueSize = 1
    MaxChanges = 2
    MaxRetries = 1
    MaxBeats = 1
    FormCards = {f1, f2}
    Keep = 1
    MaxOps = 2
    MaxStops = 2
    MaxSaves = 1
    OpenCards = {c1, c2}
    NoCard = NoCard
    MaxTicks = 1
    Panels = {p1, p2}
    Nobody = Nobody
    MaxSettings = 2
SPECIFICATION Spec
INVARIANTS AskedOnce OneCardPerIssue TextKept OnlyEditsStop
PROPERTIES ViewCurrent Ends AnnouncedOnTime NeverBack Settles NothingOverwritten
CHECK_DEADLOCK FALSE
