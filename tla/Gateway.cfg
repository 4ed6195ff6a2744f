SPECIFICATION FairSpec
CONSTANTS
    q1 = q1
    q2 = q2
    Requests = {q1, q2}
    Calls <- AnyAndUnknown
    Settings <- EverySetting
    Replies = {"allow", "deny", "redact", "require_human", "denny"}
    Rate = 1
    MaxFailures = 2
    None = None
CHECK_DEADLOCK FALSE
INVARIANTS
    TypeOK
    FailClosed
    RecordedFirst
    InvocationClosed
    OutcomeHonest
    ParkedWaits
    NotificationsUnanswered
PROPERTY Answered
