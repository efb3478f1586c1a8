\* A command that has ended and a bound that is reached leave nothing to do.
CHECK_DEADLOCK FALSE
SPECIFICATION Spec
CONSTANTS
    None = None
    i1 = i1  i2 = i2  p1 = p1
    s1 = s1  s2 = s2
    MaxTime = 2
    MaxIncidents = 2
    Servers <- BothServers
    Releases <- ThreeReleases
    Text <- Texts
    SourceFiles <- FiveFiles
    Imports <- TheirImports
    Requires <- TheyRequire
    Json <- Tables
    EntryPoints <- Scripts
    MaxVersion = 2
    Hosts <- BothServers
    Ahead <- ClocksDiffer
    Rules <- TwoRules
    Things <- TwoThings
    Limit = 2
    Lease = 1
    Midnight = 2
    MaxRuleRuns = 2
    Actors <- TestActors
    Admin = "ADMIN"
    MaxAttempts = 3
    MaxTries = 2
    Rpo = 1
    MaxWrites = 2
    Signals <- Alerts
    Roles <- OnCall
    Within <- AnswerTimes
    Week = 1
    MaxManifests = 2
    MaxRuns = 2
    Issues <- AllIssues
    Pulls <- PullRequests
    PerPage = 1
    MaxPages = 3
    Day = 1
    Triage = 1
    Hour = 1
    OneDay = 1
    MaxChanges = 2
    Domains <- Compared
    FreshFor = 1
    MaxReplaced = 1
INVARIANTS
    AppliedOnce
    ServesItsSchema
    RanWhatWasApproved
    RunsAsRecorded
    PassLeavesNothing
    SecondCodeWorks
    DrillWasReal
    NothingLeftBehind
    PagedOnce
    QueueIsComplete
    SawWhatWasThere
    ClosedAsAWhole
