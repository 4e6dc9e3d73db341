CONSTANTS
    a1 = a1
    Agents = {a1, a2}
    NoAgent = NoAgent
    MaxOrdinal = 2
    MaxFence = 2
    MaxEpoch = 1
    LeaseTicks = 1
    Backups = {b1}
    EffectKeys = {"release"}
    NonIdempotent = {"release"}
    Runtime = {"release"}
    MaxEffects = 2
    PlainOutcomes = {"succeeded"}
    Hosts = {a1}
    Window = 4
    Margin = 1
    Grace = 1
    Steps = 1
    MaxGrants = 2
    MaxCrashes = 1
    MaxLosses = 1
    m1 = m1
    m2 = m2
    m3 = m3
    x1 = x1
    x2 = x2
    Members = {m1, m2, m3}
    Plains = {x1, x2}
    Producers = {"pair", "single", "first", "second"}
    ProducerOf <- Makers
    OrgOf <- Owners
    DigestOf <- Contents
    MaxUploads <- OneUpload
    Callers = {c1}
    Deleters = {w1, w2}
    MaxClaims = 1
    NoHandle = NoHandle
    Fleeting <- Shared
    Holds <- HeldByOne
    Unsteady = {"pair"}
    Cancellable = {"single"}
    Plays <- Uploaded
SPECIFICATION TruthSpec
INVARIANTS
    TruthTypeOK
    HierarchyAgrees
    OneAuthority
    LeaseMatchesStatus
    CancelledNeverOffered
    RetryXorClose
    ProtectedEffectPinsFence
    SuccessIsComplete
    RunsUnderLease
    RetiredMeansGone
    JournalAgrees
    ListedIsReadable
    ReservedBytesSurvive
PROPERTIES
    TerminalIsFinal
    OnlyUnprotectedDeleted
CHECK_DEADLOCK FALSE
