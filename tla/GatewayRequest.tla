--------------------------- MODULE GatewayRequest ---------------------------
(***************************************************************************)
(* A request on its way through the gateway (kya_gateway/server.py with    *)
(* kya_gateway/policy_pipeline.py), on either of its endpoints:            *)
(*                                                                         *)
(*    mcp      POST /mcp: decide, record, and forward to the backend       *)
(*    decide   POST /v1/policy/decide: decide and record, for a hook that  *)
(*             asks before it runs the tool itself                         *)
(*                                                                         *)
(* Every step that commits a transaction, or that another party sees, is   *)
(* one action: the invocation row, the evidence, the trust signal, the     *)
(* outcome, the pending row, the call of the backend, the answer. Each of  *)
(* the stores may fail and the worker may die between any two of them.     *)
(*                                                                         *)
(* Bodies that are too large or no JSON-RPC are answered 413 or 400 before *)
(* anything is recorded and are left out. What the stores do inside is in  *)
(* EvidenceChain and PendingInvocations.                                   *)
(***************************************************************************)
EXTENDS Integers, TLAPS

CONSTANTS
    Requests,
    Calls,          \* what each request may ask, a subset of AllCalls
    Settings,       \* deployments considered: mode of enforcement, KYA_ENV
    Replies,        \* what the policy evaluator may answer
    Rate,           \* evidence rows per second for callers without identity
    MaxFailures,    \* bound: stores that fail, workers that die
    None

Modes == {"enforce", "audit_only", "advise"}

AllCalls ==
    [endpoint     : {"mcp", "decide"},
     method       : {"initialize", "discovery", "other", "tools/call"},
     notification : BOOLEAN,     \* a JSON-RPC request without an id
     known        : BOOLEAN,     \* identity.resolve binds a principal
     named        : BOOLEAN]     \* the tool name parses

\* The decide endpoint has one method and no notifications.
ASSUME CallsAssumption ==
    /\ Calls \in [Requests -> SUBSET AllCalls]
    /\ \A q \in Requests : \A c \in Calls[q] : c.endpoint = "decide" =>
          c.method = "tools/call" /\ ~ c.notification
ASSUME SettingsAssumption == Settings \subseteq [mode : Modes, production : BOOLEAN]
ASSUME BoundsAssumption == Rate \in Nat \ {0} /\ MaxFailures \in Nat
ASSUME NoneAssumption == None \notin AllCalls /\ None # "428"   \* no call, no answer

VARIABLES
    setting,         \* the deployment; it never changes
    req,             \* each request's progress and what it left in the stores
    unauth_writes,   \* _UNAUTH_EVIDENCE_LAST, one source address, this second
    failures

vars == <<setting, req, unauth_writes, failures>>

Verdicts == {"allow", "deny", "redact", "throttle", "flag_for_review",
             "block", "anonymize"}
Steps == {"invocation", "evidence", "signal", "finalise", "park"}

\* A request before it arrives. id: the handler holds the id of its
\* invocation row. row: the outcome column of that row. missed: the steps
\* that failed or were skipped, a history variable.
NewRequest ==
    [pc |-> "new", call |-> None, candidate |-> None, verdict |-> None,
     id |-> FALSE, row |-> None, evidence |-> FALSE, signal |-> FALSE,
     parked |-> FALSE, reached |-> FALSE, reply |-> None, missed |-> {}]

Init ==
    /\ setting \in Settings
    /\ req = [q \in Requests |-> NewRequest]
    /\ unauth_writes = 0
    /\ failures = 0

At(q, pc)    == req[q].pc = pc
Call(q)      == req[q].call
IsMcp(q)     == Call(q).endpoint = "mcp"
Enforcing    == setting.mode = "enforce"

\* The steps below change the request and, unless they say so, nothing else.
Quiet == UNCHANGED <<setting, unauth_writes, failures>>

\* A store fails, or the worker does.
Failure ==
    /\ failures < MaxFailures
    /\ failures' = failures + 1
    /\ UNCHANGED setting

-----------------------------------------------------------------------------
(* Parsing, identity and dispatch: no await, no transaction.               *)

Receive(q) ==
    /\ At(q, "new")
    /\ \E c \in Calls[q] : req' = [req EXCEPT ![q].pc = "received", ![q].call = c]
    /\ Quiet

\* Only /mcp, outside enforce mode, goes on without a principal.
Admitted(q) ==
    \/ Call(q).known
    \/ IsMcp(q) /\ ~ Enforcing /\ ~ Call(q).notification

Answer(q, reply) ==
    req' = [req EXCEPT ![q].pc = "answered", ![q].reply = reply]

\* /v1/policy/decide looks at the tool name before the identity, /mcp after.
RefuseName(q) ==
    /\ At(q, "received")
    /\ Call(q).method = "tools/call"
    /\ ~ Call(q).named
    /\ IsMcp(q) => Admitted(q)
    /\ Answer(q, "400")
    /\ Quiet

RefuseIdentity(q) ==
    /\ At(q, "received")
    /\ ~ Admitted(q)
    /\ ~ IsMcp(q) => Call(q).named
    /\ Answer(q, IF Call(q).notification THEN "204" ELSE "401")
    /\ Quiet

\* initialize, and discovery nobody waits for.
AnswerDirectly(q) ==
    /\ At(q, "received")
    /\ Admitted(q)
    /\ \/ Call(q).method = "initialize"
       \/ Call(q).method = "discovery" /\ Call(q).notification
    /\ Answer(q, IF Call(q).notification THEN "204" ELSE "200")
    /\ Quiet

\* _proxy_passthrough: no policy, no record.
PassThrough(q) ==
    /\ At(q, "received")
    /\ Admitted(q)
    /\ \/ Call(q).method = "other"
       \/ Call(q).method = "discovery" /\ ~ Call(q).notification
    /\ req' = [req EXCEPT ![q].pc = "forward"]
    /\ Quiet

AdmitCall(q) ==
    /\ At(q, "received")
    /\ Admitted(q)
    /\ Call(q).method = "tools/call"
    /\ Call(q).named
    /\ req' = [req EXCEPT ![q].pc = "record"]
    /\ Quiet

-----------------------------------------------------------------------------
(* _record_invocation_pre_policy                                           *)

RecordInvocation(q) ==
    /\ At(q, "record")
    /\ req' = [req EXCEPT ![q].pc = "policy", ![q].id = TRUE, ![q].row = "pending"]
    /\ Quiet

\* enforce_delegation_policy raises in block mode: record_invocation has
\* closed the row as blocked, and the gateway goes on without its id.
DelegationBlocks(q) ==
    /\ At(q, "record")
    /\ Call(q).known
    /\ req' = [req EXCEPT ![q].pc = "policy", ![q].row = "blocked",
                          ![q].missed = @ \cup {"invocation"}]
    /\ Quiet

\* No id comes back, from before the COMMIT of the row or from after it.
RecordInvocationFails(q) ==
    /\ At(q, "record")
    /\ Failure
    /\ \E row \in {None, "pending"} :
          req' = [req EXCEPT ![q].pc = "policy", ![q].row = row,
                             ![q].missed = @ \cup {"invocation"}]
    /\ UNCHANGED unauth_writes

-----------------------------------------------------------------------------
(* The policy pipeline                                                     *)

\* evaluate(): RBAC, then payload cap, rate limit, budget and trust. The first
\* of them to refuse, or to raise, ends it with deny.
Candidate(rbac, others_pass) ==
    IF rbac = "deny" \/ ~ others_pass THEN "deny" ELSE rbac

\* Seeded fault: the evaluator has the last word in favour of the call, too.
EmittedAlways(candidate, reply) == IF reply \in Verdicts THEN reply ELSE candidate

\* _emit_via_evaluator: an evaluator that is missing, that raises, that says
\* allow or that uses a word of its own leaves the candidate as it is; any
\* other verdict of its replaces the candidate.
Emitted(candidate, reply) ==
    CASE reply = "require_human"          -> "flag_for_review"
      [] reply \in Verdicts \ {"allow"}   -> reply
      [] OTHER                            -> candidate

\* Seeded fault: only refusals are recorded.
AfterPolicyUnrecorded(q, verdict) ==
    IF verdict = "allow" THEN "finalise" ELSE "evidence"

\* The decide endpoint parks the request before it records the evidence.
AfterPolicy(q, verdict) ==
    IF ~ IsMcp(q) /\ verdict = "flag_for_review" THEN "park" ELSE "evidence"

Decided(q, candidate, verdict) ==
    req' = [req EXCEPT ![q].pc = AfterPolicy(q, verdict),
                       ![q].candidate = candidate, ![q].verdict = verdict]

RunPolicy(q) ==
    /\ At(q, "policy")
    /\ Call(q).known
    /\ \E rbac \in {"allow", "deny", "flag_for_review"}, others_pass \in BOOLEAN,
          reply \in Replies :
             LET candidate == Candidate(rbac, others_pass)
             IN Decided(q, candidate, Emitted(candidate, reply))
    /\ Quiet

\* A caller without identity gets a deny without asking the pipeline.
DenyUnknown(q) ==
    /\ At(q, "policy")
    /\ ~ Call(q).known
    /\ Decided(q, "deny", "deny")
    /\ Quiet

\* The pipeline raises: no evidence, the row is closed as an error.
PolicyCrashes(q) ==
    /\ At(q, "policy")
    /\ Call(q).known
    /\ Failure
    /\ req' = [req EXCEPT ![q].pc = "finalise", ![q].verdict = "crash"]
    /\ UNCHANGED unauth_writes

-----------------------------------------------------------------------------
(* _record_verdict_evidence: record_evidence commits, then the signal does *)

\* Seeded fault: the throttle counts and does not stop anyone.
MayRecordAlways(q) == TRUE

\* _should_record_unauth_evidence
MayRecord(q) == Call(q).known \/ unauth_writes < Rate

\* Seeded fault: the throttle of the evidence skips the outcome, too.
SkipAll(q) ==
    /\ At(q, "evidence")
    /\ ~ MayRecord(q)
    /\ req' = [req EXCEPT ![q].pc = "answer", ![q].missed = @ \cup {"evidence"}]
    /\ Quiet

Skip(q) ==
    /\ At(q, "evidence")
    /\ ~ MayRecord(q)
    /\ req' = [req EXCEPT ![q].pc = "finalise", ![q].missed = @ \cup {"evidence"}]
    /\ Quiet

CountUnknown(q) ==
    unauth_writes' = IF Call(q).known THEN unauth_writes ELSE unauth_writes + 1

\* kya_evidence.invocation_id is NOT NULL: without the id there is no row.
RecordEvidence(q) ==
    /\ At(q, "evidence")
    /\ MayRecord(q)
    /\ CountUnknown(q)
    /\ req' = [req EXCEPT ![q].pc = IF req[q].id THEN "signal" ELSE "finalise",
                          ![q].evidence = req[q].id]
    /\ UNCHANGED <<setting, failures>>

RecordEvidenceFails(q) ==
    /\ At(q, "evidence")
    /\ MayRecord(q)
    /\ CountUnknown(q)
    /\ Failure
    /\ req' = [req EXCEPT ![q].pc = "finalise", ![q].missed = @ \cup {"evidence"}]

RecordSignal(q) ==
    /\ At(q, "signal")
    /\ req' = [req EXCEPT ![q].pc = "finalise", ![q].signal = TRUE]
    /\ Quiet

RecordSignalFails(q) ==
    /\ At(q, "signal")
    /\ Failure
    /\ req' = [req EXCEPT ![q].pc = "finalise", ![q].missed = @ \cup {"signal"}]
    /\ UNCHANGED unauth_writes

\* The clock of the throttle.
NewSecond ==
    /\ unauth_writes > 0
    /\ unauth_writes' = 0
    /\ UNCHANGED <<setting, req, failures>>

-----------------------------------------------------------------------------
(* _finalise_invocation                                                    *)

\* Seeded fault: the mapping is completed for the verdict that was left out.
OutcomeCompleted ==
    [allow |-> "success", deny |-> "denied", block |-> "blocked",
     throttle |-> "throttled", redact |-> "partial", anonymize |-> "partial",
     flag_for_review |-> "partial", crash |-> "error"]

\* flag_for_review stands for a decision still to come.
Outcome ==
    [allow |-> "success", deny |-> "denied", block |-> "blocked",
     throttle |-> "throttled", redact |-> "partial", anonymize |-> "partial",
     flag_for_review |-> "pending", crash |-> "error"]

\* finalize_invocation_outcome moves a row that has no final outcome yet.
Finalise(q) ==
    /\ At(q, "finalise")
    /\ req' = [req EXCEPT ![q].pc = "answer",
                          ![q].row = IF req[q].id /\ @ = "pending"
                                     THEN Outcome[req[q].verdict] ELSE @]
    /\ Quiet

FinaliseFails(q) ==
    /\ At(q, "finalise")
    /\ Failure
    /\ req' = [req EXCEPT ![q].pc = "answer", ![q].missed = @ \cup {"finalise"}]
    /\ UNCHANGED unauth_writes

-----------------------------------------------------------------------------
(* The answer                                                              *)

AnswerDecide(q) ==
    /\ At(q, "answer")
    /\ ~ IsMcp(q)
    /\ Answer(q, IF req[q].verdict = "crash" THEN "500" ELSE "200")
    /\ Quiet

\* A notification ends here, whatever its verdict.
AnswerNotification(q) ==
    /\ At(q, "answer")
    /\ IsMcp(q) /\ Call(q).notification
    /\ Answer(q, "204")
    /\ Quiet

\* Seeded fault: notifications are answered like everybody else.
AwaitsAnswerAlways(q) == At(q, "answer") /\ IsMcp(q)

AwaitsAnswer(q) == At(q, "answer") /\ IsMcp(q) /\ ~ Call(q).notification

\* Seeded fault: the crash is handled in enforce mode only.
AnswerCrashEnforcing(q) ==
    /\ AwaitsAnswer(q)
    /\ Enforcing
    /\ req[q].verdict = "crash"
    /\ Answer(q, "500")
    /\ Quiet

AnswerCrash(q) ==
    /\ AwaitsAnswer(q)
    /\ req[q].verdict = "crash"
    /\ Answer(q, "500")
    /\ Quiet

\* Enforce mode refuses whatever it does not know how to carry out.
Refuse(q) ==
    /\ AwaitsAnswer(q)
    /\ Enforcing
    /\ req[q].verdict \notin {"allow", "flag_for_review", "crash"}
    /\ Answer(q, "403")
    /\ Quiet

AskHuman(q) ==
    /\ AwaitsAnswer(q)
    /\ Enforcing
    /\ req[q].verdict = "flag_for_review"
    /\ req' = [req EXCEPT ![q].pc = "park"]
    /\ Quiet

\* The answer 428 carries the id of the pending row iff there is one.
CreatePendingRow(q) ==
    /\ At(q, "park")
    /\ req' = IF IsMcp(q)
              THEN [req EXCEPT ![q].parked = TRUE,
                               ![q].pc = "answered", ![q].reply = "428"]
              ELSE [req EXCEPT ![q].parked = TRUE, ![q].pc = "evidence"]
    /\ Quiet

\* A body over the limit is not parked, wherever the gateway runs.
BodyTooLarge(q) ==
    /\ At(q, "park")
    /\ req' = IF IsMcp(q)
              THEN [req EXCEPT ![q].missed = @ \cup {"park"},
                               ![q].pc = "answered", ![q].reply = "428"]
              ELSE [req EXCEPT ![q].missed = @ \cup {"park"}, ![q].pc = "evidence"]
    /\ Quiet

\* An exception is logged in production; elsewhere /mcp lets it through and the
\* decide endpoint catches it.
CreatePendingRowFails(q) ==
    LET missed == req[q].missed \cup {"park"} IN
        /\ At(q, "park")
        /\ Failure
        /\ req' = IF IsMcp(q)
                  THEN [req EXCEPT ![q].missed = missed, ![q].pc = "answered",
                                   ![q].reply = IF setting.production THEN "428" ELSE "500"]
                  ELSE [req EXCEPT ![q].missed = missed, ![q].pc = "evidence"]
        /\ UNCHANGED unauth_writes

\* Seeded fault: enforce mode knows deny and review; any other verdict passes.
StartForwardUnlessDenied(q) ==
    /\ AwaitsAnswer(q)
    /\ req[q].verdict # "crash"
    /\ Enforcing => req[q].verdict \notin {"deny", "flag_for_review"}
    /\ req' = [req EXCEPT ![q].pc = "forward"]
    /\ Quiet

StartForward(q) ==
    /\ AwaitsAnswer(q)
    /\ req[q].verdict # "crash"
    /\ Enforcing => req[q].verdict = "allow"
    /\ req' = [req EXCEPT ![q].pc = "forward"]
    /\ Quiet

\* The backend gets the call, and carries it out.
Forward(q) ==
    /\ At(q, "forward")
    /\ req' = [req EXCEPT ![q].pc = "relay", ![q].reached = TRUE]
    /\ Quiet

Relay(q) ==
    /\ At(q, "relay")
    /\ Answer(q, IF Call(q).notification THEN "204" ELSE "backend")
    /\ Quiet

\* BackendUnreachable: no connection, or a timeout or a 5xx after the call.
Unreachable(q) ==
    /\ req[q].pc \in {"forward", "relay"}
    /\ Failure
    /\ Answer(q, IF Call(q).notification THEN "204" ELSE "502")
    /\ UNCHANGED unauth_writes

\* The worker that serves the request dies. (A throttle that is lost with its
\* worker acts like NewSecond.)
Dies(q) ==
    /\ req[q].pc \notin {"new", "answered", "dead"}
    /\ Failure
    /\ req' = [req EXCEPT ![q].pc = "dead"]
    /\ UNCHANGED unauth_writes

-----------------------------------------------------------------------------
Admission(q) ==
    \/ RefuseName(q) \/ RefuseIdentity(q) \/ AnswerDirectly(q)
    \/ PassThrough(q) \/ AdmitCall(q)

Recording(q) ==
    \/ RecordInvocation(q) \/ DelegationBlocks(q)
    \/ RunPolicy(q) \/ DenyUnknown(q)
    \/ Skip(q) \/ RecordEvidence(q) \/ RecordSignal(q) \/ Finalise(q)

Answering(q) ==
    \/ AnswerDecide(q) \/ AnswerNotification(q) \/ AnswerCrash(q) \/ Refuse(q)
    \/ AskHuman(q) \/ CreatePendingRow(q) \/ BodyTooLarge(q)
    \/ StartForward(q) \/ Forward(q) \/ Relay(q)

Failing(q) ==
    \/ RecordInvocationFails(q) \/ PolicyCrashes(q) \/ RecordEvidenceFails(q)
    \/ RecordSignalFails(q) \/ FinaliseFails(q) \/ CreatePendingRowFails(q)
    \/ Unreachable(q) \/ Dies(q)

Next ==
    \/ \E q \in Requests : Receive(q)
    \/ \E q \in Requests : Admission(q)
    \/ \E q \in Requests : Recording(q)
    \/ \E q \in Requests : Answering(q)
    \/ \E q \in Requests : Failing(q)
    \/ NewSecond

Spec == Init /\ [][Next]_vars

\* A handler that has been entered runs on; the backend answers, is given up
\* after its timeout_s, or has failed.
Fairness ==
    \A q \in Requests : WF_vars(Admission(q) \/ Recording(q) \/ Answering(q))

FairSpec == Spec /\ Fairness

-----------------------------------------------------------------------------
(* Properties                                                              *)

\* What a request's progress and what it left may be.
Progress ==
    [pc        : {"new", "received", "record", "policy", "evidence", "signal",
                  "finalise", "answer", "park", "forward", "relay", "answered", "dead"},
     call      : AllCalls \cup {None},
     candidate : {"allow", "deny", "flag_for_review", None},
     verdict   : Verdicts \cup {"crash", None},
     id        : BOOLEAN,
     row       : {"pending", "success", "denied", "blocked", "throttled",
                  "partial", "error", None},
     evidence  : BOOLEAN,
     signal    : BOOLEAN,
     parked    : BOOLEAN,
     reached   : BOOLEAN,
     reply     : {"200", "204", "400", "401", "403", "428", "500", "502",
                  "backend", None},
     missed    : SUBSET Steps]

\* The type of the requests' progress and of the counters.
TypeOK ==
    /\ setting \in Settings
    /\ req \in [Requests -> Progress]
    /\ unauth_writes \in 0 .. Rate
    /\ failures \in 0 .. MaxFailures

IsToolCall(q) == Call(q) # None /\ Call(q).method = "tools/call"

\* Fail-closed: in enforce mode a tool call reaches the backend only if its
\* caller has an identity, the rules allow it and the evaluator did not object.
\* No failure of a store, crash of the pipeline or word of the evaluator turns
\* a refusal into a call; the decide endpoint never calls the backend.
FailClosed ==
    \A q \in Requests : IsToolCall(q) /\ req[q].reached =>
        /\ IsMcp(q)
        /\ Enforcing =>
              Call(q).known /\ req[q].candidate = "allow" /\ req[q].verdict = "allow"

\* Record first: when a tool call reaches the backend, or waits for a human, its
\* invocation is on record and its evidence committed, unless the store of one of
\* them failed or the caller, who has no identity, is throttled. (The decide
\* endpoint parks the request first, see AfterPolicy.)
RecordedFirst ==
    \A q \in Requests :
        /\ IsToolCall(q) /\ (req[q].reached \/ req[q].parked) =>
              /\ req[q].id \/ "invocation" \in req[q].missed
              /\ IsMcp(q) /\ req[q].id =>
                    req[q].evidence \/ "evidence" \in req[q].missed
        /\ "evidence" \in req[q].missed => failures > 0 \/ ~ Call(q).known

\* No answered request leaves its invocation open, except one that was flagged
\* for review or whose UPDATE failed: the crash of the pipeline and the throttle
\* of the evidence close it too.
InvocationClosed ==
    \A q \in Requests :
        At(q, "answered") /\ req[q].id /\ "finalise" \notin req[q].missed =>
            (req[q].row = "pending" <=> req[q].verdict = "flag_for_review")

\* What the gateway closed as refused it did not carry out (enforce mode), and
\* what it closed as a success it did not refuse: the audit trail and the answer
\* to the caller come from one verdict.
OutcomeHonest ==
    \A q \in Requests : Enforcing /\ req[q].id =>
        /\ req[q].row \in {"denied", "blocked", "throttled", "partial", "error"} =>
              ~ req[q].reached
        /\ req[q].row = "success" => req[q].reply \notin {"403", "428", "500"}

\* A request that waits for a human has not been carried out and its invocation
\* is still open; a caller told to wait can poll, unless the row was not written.
ParkedWaits ==
    \A q \in Requests :
        /\ req[q].parked => ~ req[q].reached /\ req[q].row \in {"pending", "blocked", None}
        /\ req[q].reply = "428" => req[q].parked \/ "park" \in req[q].missed

\* "MUST NOT reply to notifications": a notification gets an empty 204, whatever
\* is refused, flagged or broken on its way. (Not one with a malformed tool name,
\* which is answered with an error.)
NotificationsUnanswered ==
    \A q \in Requests :
        At(q, "answered") /\ Call(q).notification /\ Call(q).named
            => req[q].reply = "204"

\* Every request that arrives is answered, or its worker has died.
Answered ==
    \A q \in Requests : At(q, "received") ~> req[q].pc \in {"answered", "dead"}
-----------------------------------------------------------------------------
(* The strengthening of FailClosed and OutcomeHonest that is inductive.    *)

Handling == {"record", "policy", "evidence", "signal", "finalise", "answer", "park"}

\* Only an admitted tool call gets to the recording steps.
CallsAdmitted ==
    \A q \in Requests :
        /\ ~ At(q, "new") => Call(q) \in Calls[q]
        /\ req[q].pc \in Handling => IsToolCall(q) /\ Admitted(q)
        /\ req[q].id => IsToolCall(q)

\* The evaluator never talks a candidate into allow; a verdict, once there, stays
\* what the row is closed with and what the caller is told.
VerdictsStand ==
    \A q \in Requests :
        /\ req[q].verdict = "allow" => req[q].candidate = "allow"
        /\ req[q].id /\ req[q].row # "pending" =>
              req[q].verdict # None /\ req[q].row = Outcome[req[q].verdict]
        /\ req[q].reply \in {"403", "428", "500"} => req[q].verdict # "allow"
        /\ req[q].pc \in {"new", "received", "record", "policy"} =>
              req[q].row \in {None, "pending", "blocked"}
        /\ req[q].pc \in {"evidence", "signal", "finalise", "answer", "park"} =>
              req[q].verdict \in Verdicts \cup {"crash"}

\* Whatever is on its way to the backend, or was, may go there.
ForwardingAllowed ==
    \A q \in Requests :
        /\ req[q].reached => req[q].pc \in {"relay", "answered", "dead"}
        /\ IsToolCall(q) /\ (req[q].reached \/ req[q].pc \in {"forward", "relay"}) =>
              /\ IsMcp(q)
              /\ Enforcing => Call(q).known /\ req[q].candidate = "allow"
                                            /\ req[q].verdict = "allow"

IInv == CallsAdmitted /\ VerdictsStand /\ ForwardingAllowed

(* What RecordedFirst, InvocationClosed, ParkedWaits and                   *)
(* NotificationsUnanswered need beside it: what a request left behind it   *)
(* when it comes to a step.                                                *)

\* Nothing is left of a request before its invocation is recorded.
NothingYet ==
    \A q \in Requests : req[q].pc \in {"new", "received", "record"} =>
        /\ ~ req[q].id /\ req[q].row = None /\ req[q].missed = {}
        /\ ~ req[q].parked /\ req[q].reply = None /\ req[q].verdict = None

OnItsWay(q) == IsToolCall(q) /\ (req[q].reached \/ req[q].pc \in {"forward", "relay"})

\* The invocation is behind whoever is past "record".
InvocationBehind ==
    \A q \in Requests :
        req[q].pc \in Handling \ {"record"} \/ OnItsWay(q) \/ req[q].parked =>
            req[q].id \/ "invocation" \in req[q].missed

\* The evidence is behind whoever is past "evidence"; the decide endpoint parks
\* before it.
EvidenceBehind ==
    \A q \in Requests :
        /\ req[q].id
        /\ \/ req[q].pc = "signal" \/ OnItsWay(q)
           \/ req[q].pc \in {"finalise", "answer"} /\ req[q].verdict # "crash"
           \/ (req[q].pc = "park" \/ req[q].parked) /\ IsMcp(q)
        => req[q].evidence \/ "evidence" \in req[q].missed

\* Evidence is missed when its store fails or its caller is throttled.
MissedExplained ==
    \A q \in Requests : "evidence" \in req[q].missed => failures > 0 \/ ~ Call(q).known

\* A row whose id is known is open until it is finalised, and then has the outcome of
\* the verdict; without the id nobody moves it.
RowsFollow ==
    \A q \in Requests :
        /\ ~ req[q].id => req[q].row \in {None, "pending", "blocked"}
        /\ req[q].id /\ req[q].pc \in {"policy", "evidence", "signal", "finalise"} =>
              req[q].row = "pending"
        /\ req[q].id /\ req[q].pc = "park" /\ ~ IsMcp(q) => req[q].row = "pending"
        /\ /\ req[q].id /\ "finalise" \notin req[q].missed
           /\ \/ req[q].pc \in {"answer", "forward", "relay", "answered"}
              \/ req[q].pc = "park" /\ IsMcp(q)
           => /\ req[q].verdict \in Verdicts \cup {"crash"}
              /\ req[q].row = Outcome[req[q].verdict]

\* Only what was flagged for review is parked, at /mcp in enforce mode only, and
\* never a notification there; who is told to wait has been through it.
ParkingAsked ==
    \A q \in Requests :
        /\ req[q].pc = "park" \/ req[q].parked =>
              IsToolCall(q) /\ req[q].verdict = "flag_for_review" /\ (IsMcp(q) => Enforcing)
        /\ req[q].pc = "park" => ~ Call(q).notification
        /\ req[q].reply = "428" => req[q].parked \/ "park" \in req[q].missed

HistoryInv ==
    /\ NothingYet /\ InvocationBehind /\ EvidenceBehind /\ MissedExplained
    /\ RowsFollow /\ ParkingAsked /\ NotificationsUnanswered
-----------------------------------------------------------------------------
(* Theorems: no failure of a store, crash of the pipeline or answer of the *)
(* evaluator lets a refused tool call through, and the outcome on record   *)
(* agrees with what was done, for any number of requests, calls, failures  *)
(* and evaluators.                                                         *)

\* The pipeline ends with one of the verdicts; it ends with allow only if no
\* rule refused or asked for a human, whatever the evaluator answers.
LEMMA PipelineType ==
    ASSUME NEW rbac \in {"allow", "deny", "flag_for_review"},
           NEW others_pass \in BOOLEAN, NEW reply
    PROVE  /\ Candidate(rbac, others_pass) \in {"allow", "deny", "flag_for_review"}
           /\ Emitted(Candidate(rbac, others_pass), reply) \in Verdicts
           /\ Emitted(Candidate(rbac, others_pass), reply) = "allow" =>
                 Candidate(rbac, others_pass) = "allow"
BY DEF Candidate, Emitted, Verdicts

LEMMA TypeInit == Init => TypeOK
BY BoundsAssumption DEF Init, TypeOK, NewRequest, Progress

\* Every step keeps the types. The outcome of an invocation has one because no
\* request gets to its finalisation without a verdict.
LEMMA TypeStep == TypeOK /\ IInv /\ [Next]_vars => TypeOK'
<1> SUFFICES ASSUME TypeOK, IInv, [Next]_vars PROVE TypeOK'
    OBVIOUS
<1> USE BoundsAssumption DEF TypeOK, At, Quiet, Failure, Answer
<1>1. ASSUME NEW q \in Requests, Receive(q) PROVE TypeOK'
    <2>1. PICK c \in Calls[q] :
             req' = [req EXCEPT ![q].pc = "received", ![q].call = c]
        BY <1>1 DEF Receive
    <2>2. c \in AllCalls
        BY <1>1, CallsAssumption
    <2>3. req[q] \in Progress
        BY <1>1
    <2>4. [req[q] EXCEPT !.pc = "received", !.call = c] \in Progress
        BY <2>2, <2>3 DEF Progress
    <2>5. QED
        BY <1>1, <2>1, <2>4 DEF Receive
<1>2. ASSUME NEW q \in Requests, Admission(q) PROVE TypeOK'
    BY <1>2 DEF Admission, RefuseName, RefuseIdentity, AnswerDirectly, PassThrough,
       AdmitCall, Progress
<1>3. ASSUME NEW q \in Requests, Recording(q) PROVE TypeOK'
    <2> req[q] \in Progress
        BY <1>3
    <2>1. CASE RecordInvocation(q) \/ DelegationBlocks(q)
        BY <1>3, <2>1 DEF RecordInvocation, DelegationBlocks, Steps, Progress
    <2>2. CASE RunPolicy(q)
        <3>1. PICK rbac \in {"allow", "deny", "flag_for_review"}, others_pass \in BOOLEAN,
                   reply \in Replies :
                 LET candidate == Candidate(rbac, others_pass)
                 IN Decided(q, candidate, Emitted(candidate, reply))
            BY <2>2 DEF RunPolicy
        <3> DEFINE candidate == Candidate(rbac, others_pass)
        <3> DEFINE verdict == Emitted(candidate, reply)
        <3>2. [req[q] EXCEPT !.pc = AfterPolicy(q, verdict), !.candidate = candidate,
                             !.verdict = verdict] \in Progress
            <4>1. candidate \in {"allow", "deny", "flag_for_review"} /\ verdict \in Verdicts
                BY PipelineType
            <4> HIDE DEF candidate, verdict
            <4>2. AfterPolicy(q, verdict) \in {"park", "evidence"}
                BY DEF AfterPolicy
            <4>3. QED
                BY <4>1, <4>2 DEF Progress
        <3>3. QED
            BY <1>3, <2>2, <3>1, <3>2 DEF RunPolicy, Decided
    <2>3. CASE DenyUnknown(q)
        <3>1. [req[q] EXCEPT !.pc = AfterPolicy(q, "deny"), !.candidate = "deny",
                             !.verdict = "deny"] \in Progress
            BY DEF AfterPolicy, Verdicts, Progress
        <3>2. QED
            BY <1>3, <2>3, <3>1 DEF DenyUnknown, Decided
    <2>4. CASE Skip(q)
        <3>1. [req[q] EXCEPT !.pc = "finalise",
                             !.missed = @ \cup {"evidence"}] \in Progress
            BY DEF Steps, Progress
        <3>2. QED
            BY <1>3, <2>4, <3>1 DEF Skip
    <2>5. CASE RecordEvidence(q)
        <3>1. [req[q] EXCEPT !.pc = IF req[q].id THEN "signal" ELSE "finalise",
                             !.evidence = req[q].id] \in Progress
            BY DEF Progress
        <3>2. unauth_writes' \in 0 .. Rate
            BY <2>5 DEF RecordEvidence, MayRecord, CountUnknown
        <3>3. QED
            BY <1>3, <2>5, <3>1, <3>2 DEF RecordEvidence
    <2>6. CASE RecordSignal(q)
        <3>1. [req[q] EXCEPT !.pc = "finalise", !.signal = TRUE] \in Progress
            BY DEF Progress
        <3>2. QED
            BY <1>3, <2>6, <3>1 DEF RecordSignal
    <2>7. CASE Finalise(q)
        <3>1. req[q].verdict \in Verdicts \cup {"crash"}
            BY <1>3, <2>7 DEF Finalise, IInv, VerdictsStand
        <3>2. Outcome[req[q].verdict] \in
                 {"pending", "success", "denied", "blocked", "throttled", "partial", "error"}
            BY <3>1 DEF Outcome, Verdicts
        <3> DEFINE outcome == IF req[q].id /\ req[q].row = "pending"
                              THEN Outcome[req[q].verdict] ELSE req[q].row
        <3>3. outcome \in {"pending", "success", "denied", "blocked", "throttled",
                           "partial", "error", None}
            BY <3>2 DEF Progress
        <3>4. req' = [req EXCEPT ![q].pc = "answer", ![q].row = outcome]
            BY <1>3, <2>7 DEF Finalise
        <3> HIDE DEF outcome
        <3>5. [req[q] EXCEPT !.pc = "answer", !.row = outcome] \in Progress
            BY <3>3 DEF Progress
        <3>6. QED
            BY <1>3, <2>7, <3>4, <3>5 DEF Finalise
    <2>8. QED
        BY <1>3, <2>1, <2>2, <2>3, <2>4, <2>5, <2>6, <2>7 DEF Recording
<1>4. ASSUME NEW q \in Requests, Answering(q) PROVE TypeOK'
    BY <1>4 DEF Answering, AwaitsAnswer, AnswerDecide, AnswerNotification, AnswerCrash,
       Refuse, AskHuman, CreatePendingRow, BodyTooLarge, StartForward, Forward, Relay,
       Steps, Progress
<1>5. ASSUME NEW q \in Requests, Failing(q) PROVE TypeOK'
    <2>1. failures' \in 0 .. MaxFailures /\ setting' = setting
        BY <1>5 DEF Failing, RecordInvocationFails, PolicyCrashes, RecordEvidenceFails,
           RecordSignalFails, FinaliseFails, CreatePendingRowFails, Unreachable, Dies
    <2>2. unauth_writes' \in 0 .. Rate
        BY <1>5 DEF Failing, RecordInvocationFails, PolicyCrashes, RecordEvidenceFails,
           RecordSignalFails, FinaliseFails, CreatePendingRowFails, Unreachable, Dies,
           MayRecord, CountUnknown
    <2>3. QED
        BY <1>5, <2>1, <2>2 DEF Failing, RecordInvocationFails, PolicyCrashes,
           RecordEvidenceFails, RecordSignalFails, FinaliseFails, CreatePendingRowFails,
           Unreachable, Dies, Steps, Progress
<1>6. CASE NewSecond
    BY <1>6 DEF NewSecond
<1>7. CASE UNCHANGED vars
    BY <1>7 DEF vars
<1>8. QED
    BY <1>1, <1>2, <1>3, <1>4, <1>5, <1>6, <1>7 DEF Next

LEMMA InvariantInit == Init => IInv
BY DEF Init, NewRequest, IInv, CallsAdmitted, VerdictsStand, ForwardingAllowed, At, Call,
   Handling, IsToolCall, Verdicts

\* Every step keeps the invariant.
LEMMA InvariantStep == TypeOK /\ IInv /\ [Next]_vars => IInv'
<1> SUFFICES ASSUME TypeOK, IInv, [Next]_vars PROVE IInv'
    OBVIOUS
<1> req \in [Requests -> Progress]
    BY DEF TypeOK
<1> USE DEF IInv, CallsAdmitted, VerdictsStand, ForwardingAllowed, At, Call, IsMcp,
        Enforcing, Admitted, IsToolCall, Handling, Quiet, Failure, Answer
<1>1. ASSUME NEW q \in Requests, Receive(q) PROVE IInv'
    BY <1>1, NoneAssumption, CallsAssumption DEF Receive, Progress
<1>2. ASSUME NEW q \in Requests, Admission(q) PROVE IInv'
    <2>1. CASE RefuseName(q)
        BY <1>2, <2>1 DEF RefuseName, Progress
    <2>2. CASE RefuseIdentity(q)
        BY <1>2, <2>2 DEF RefuseIdentity, Progress
    <2>3. CASE AnswerDirectly(q)
        BY <1>2, <2>3 DEF AnswerDirectly, Progress
    <2>4. CASE PassThrough(q)
        BY <1>2, <2>4 DEF PassThrough, Progress
    <2>5. CASE AdmitCall(q)
        <3>1. CallsAdmitted'
            <4>1. req' = [req EXCEPT ![q].pc = "record"] /\ setting' = setting
                BY <2>5 DEF AdmitCall
            <4>2. ~ At(q, "new") /\ IsToolCall(q) /\ Admitted(q)
                BY <1>2, <2>5, NoneAssumption, CallsAssumption DEF AdmitCall
            <4>3. QED
                BY <1>2, <4>1, <4>2 DEF Progress
        <3>2. VerdictsStand'
            BY <1>2, <2>5 DEF AdmitCall, Progress
        <3>3. ForwardingAllowed'
            BY <1>2, <2>5 DEF AdmitCall, Progress
        <3>4. QED
            BY <3>1, <3>2, <3>3
    <2>6. QED
        BY <1>2, <2>1, <2>2, <2>3, <2>4, <2>5 DEF Admission
<1>3. ASSUME NEW q \in Requests, Recording(q) PROVE IInv'
    <2>1. CASE RecordInvocation(q)
        BY <1>3, <2>1 DEF RecordInvocation, Progress
    <2>2. CASE DelegationBlocks(q)
        BY <1>3, <2>2 DEF DelegationBlocks, Progress
    <2>3. CASE RunPolicy(q)
        <3>1. PICK rbac \in {"allow", "deny", "flag_for_review"}, others_pass \in BOOLEAN,
                   reply \in Replies :
                 LET candidate == Candidate(rbac, others_pass)
                 IN Decided(q, candidate, Emitted(candidate, reply))
            BY <2>3 DEF RunPolicy
        <3> DEFINE candidate == Candidate(rbac, others_pass)
        <3> DEFINE verdict == Emitted(candidate, reply)
        <3>2. verdict \in Verdicts /\ (verdict = "allow" => candidate = "allow")
            BY PipelineType
        <3>3. req' = [req EXCEPT ![q].pc = AfterPolicy(q, verdict),
                                 ![q].candidate = candidate, ![q].verdict = verdict]
            BY <3>1 DEF Decided
        <3>4. AfterPolicy(q, verdict) \in {"park", "evidence"}
            BY DEF AfterPolicy
        <3> HIDE DEF candidate, verdict
        <3>5. CallsAdmitted'
            BY <1>3, <2>3, <3>3, <3>4 DEF RunPolicy, Progress
        <3>6. VerdictsStand'
            BY <1>3, <2>3, <3>2, <3>3, <3>4 DEF RunPolicy, Progress
        <3>7. ForwardingAllowed'
            BY <1>3, <2>3, <3>3, <3>4 DEF RunPolicy, Progress
        <3>8. QED
            BY <3>5, <3>6, <3>7
    <2>4. CASE DenyUnknown(q)
        BY <1>3, <2>4 DEF DenyUnknown, Decided, AfterPolicy, Verdicts, Progress
    <2>5. CASE Skip(q)
        BY <1>3, <2>5 DEF Skip, Progress
    <2>6. CASE RecordEvidence(q)
        <3>1. CallsAdmitted'
            BY <1>3, <2>6 DEF RecordEvidence, Progress
        <3>2. VerdictsStand'
            BY <1>3, <2>6 DEF RecordEvidence, Progress
        <3>3. ForwardingAllowed'
            BY <1>3, <2>6 DEF RecordEvidence, Progress
        <3>4. QED
            BY <3>1, <3>2, <3>3
    <2>7. CASE RecordSignal(q)
        BY <1>3, <2>7 DEF RecordSignal, Progress
    <2>8. CASE Finalise(q)
        BY <1>3, <2>8 DEF Finalise, Progress
    <2>9. QED
        BY <1>3, <2>1, <2>2, <2>3, <2>4, <2>5, <2>6, <2>7, <2>8 DEF Recording
<1>4. ASSUME NEW q \in Requests, Answering(q) PROVE IInv'
    <2>1. CASE AnswerDecide(q)
        BY <1>4, <2>1 DEF AnswerDecide, Progress
    <2>2. CASE AnswerNotification(q)
        BY <1>4, <2>2 DEF AnswerNotification, Progress
    <2>3. CASE AnswerCrash(q)
        BY <1>4, <2>3 DEF AwaitsAnswer, AnswerCrash, Progress
    <2>4. CASE Refuse(q)
        BY <1>4, <2>4 DEF AwaitsAnswer, Refuse, Progress
    <2>5. CASE AskHuman(q)
        BY <1>4, <2>5 DEF AwaitsAnswer, AskHuman, Progress
    <2>6. CASE CreatePendingRow(q)
        <3>1. CallsAdmitted'
            BY <1>4, <2>6 DEF CreatePendingRow, Progress
        <3>2. VerdictsStand'
            BY <1>4, <2>6 DEF CreatePendingRow, Progress
        <3>3. ForwardingAllowed'
            BY <1>4, <2>6 DEF CreatePendingRow, Progress
        <3>4. QED
            BY <3>1, <3>2, <3>3
    <2>7. CASE StartForward(q)
        BY <1>4, <2>7 DEF AwaitsAnswer, StartForward, Progress
    <2>8. CASE Forward(q)
        BY <1>4, <2>8 DEF Forward, Progress
    <2>9. CASE Relay(q)
        BY <1>4, <2>9 DEF Relay, Progress
    <2>10. CASE BodyTooLarge(q)
        <3>1. CallsAdmitted'
            BY <1>4, <2>10 DEF BodyTooLarge, Progress
        <3>2. VerdictsStand'
            BY <1>4, <2>10 DEF BodyTooLarge, Progress
        <3>3. ForwardingAllowed'
            BY <1>4, <2>10 DEF BodyTooLarge, Progress
        <3>4. QED
            BY <3>1, <3>2, <3>3
    <2>11. QED
        BY <1>4, <2>1, <2>2, <2>3, <2>4, <2>5, <2>6, <2>7, <2>8, <2>9, <2>10 DEF Answering
<1>5. ASSUME NEW q \in Requests, Failing(q) PROVE IInv'
    <2>1. CASE RecordInvocationFails(q)
        BY <1>5, <2>1 DEF RecordInvocationFails, Progress
    <2>2. CASE PolicyCrashes(q)
        BY <1>5, <2>2 DEF PolicyCrashes, Progress
    <2>3. CASE RecordEvidenceFails(q)
        BY <1>5, <2>3 DEF RecordEvidenceFails, Progress
    <2>4. CASE RecordSignalFails(q)
        BY <1>5, <2>4 DEF RecordSignalFails, Progress
    <2>5. CASE FinaliseFails(q)
        BY <1>5, <2>5 DEF FinaliseFails, Progress
    <2>6. CASE CreatePendingRowFails(q)
        <3>1. CallsAdmitted'
            BY <1>5, <2>6 DEF CreatePendingRowFails, Progress
        <3>2. VerdictsStand'
            BY <1>5, <2>6 DEF CreatePendingRowFails, Progress
        <3>3. ForwardingAllowed'
            BY <1>5, <2>6 DEF CreatePendingRowFails, Progress
        <3>4. QED
            BY <3>1, <3>2, <3>3
    <2>7. CASE Unreachable(q)
        BY <1>5, <2>7 DEF Unreachable, Progress
    <2>8. CASE Dies(q)
        BY <1>5, <2>8 DEF Dies, Progress
    <2>9. QED
        BY <1>5, <2>1, <2>2, <2>3, <2>4, <2>5, <2>6, <2>7, <2>8 DEF Failing
<1>6. CASE NewSecond
    BY <1>6 DEF NewSecond
<1>7. CASE UNCHANGED vars
    BY <1>7 DEF vars
<1>8. QED
    BY <1>1, <1>2, <1>3, <1>4, <1>5, <1>6, <1>7 DEF Next

\* Every request's progress and what it leaves in the stores keep their types.
THEOREM TypeCorrect == Spec => []TypeOK
<1>1. QED
    BY TypeInit, TypeStep, InvariantInit, InvariantStep, PTL DEF Spec

\* Only admitted tool calls are recorded and decided, a verdict stands once it is
\* there, and nothing gets on its way to the backend that may not go there.
THEOREM InvariantHolds == Spec => []IInv
<1>1. QED
    BY TypeInit, TypeStep, InvariantInit, InvariantStep, PTL DEF Spec

\* In enforce mode no tool call reaches the backend that the rules or the evaluator
\* refused or whose caller has no identity, whatever fails, crashes or is answered.
THEOREM FailClosedHolds == Spec => []FailClosed
<1>1. IInv => FailClosed
    BY DEF IInv, ForwardingAllowed, FailClosed
<1>2. QED
    BY <1>1, InvariantHolds, PTL

\* In enforce mode what is on record as refused was not carried out, and what is on
\* record as a success was not refused.
THEOREM OutcomeHonestHolds == Spec => []OutcomeHonest
<1>1. TypeOK /\ IInv => OutcomeHonest
    <2> SUFFICES ASSUME TypeOK, IInv, Enforcing, NEW q \in Requests, req[q].id
                 PROVE  /\ req[q].row \in {"denied", "blocked", "throttled", "partial", "error"}
                              => ~ req[q].reached
                        /\ req[q].row = "success" => req[q].reply \notin {"403", "428", "500"}
        BY DEF OutcomeHonest
    <2>1. IsToolCall(q)
        BY DEF IInv, CallsAdmitted
    <2>2. req[q].row # "pending" => req[q].row = Outcome[req[q].verdict]
        BY DEF IInv, VerdictsStand
    <2>3. Outcome["allow"] = "success"
        BY DEF Outcome
    <2>4. ASSUME req[q].reached PROVE req[q].verdict = "allow"
        BY <2>1, <2>4 DEF IInv, ForwardingAllowed
    <2>5. req[q].row = "success" => req[q].verdict = "allow"
        <3>1. req[q].row # "pending" => req[q].verdict \in Verdicts \cup {"crash"}
            BY DEF IInv, VerdictsStand, TypeOK, Progress
        <3>2. QED
            BY <2>2, <3>1 DEF Outcome, Verdicts
    <2>6. QED
        BY <2>2, <2>3, <2>4, <2>5 DEF IInv, VerdictsStand
<1>2. QED
    BY <1>1, TypeCorrect, InvariantHolds, PTL

LEMMA HistoryInit == Init => HistoryInv
<1> SUFFICES ASSUME Init PROVE HistoryInv
    OBVIOUS
<1>1. ASSUME NEW q \in Requests
      PROVE  /\ At(q, "new") /\ ~ IsToolCall(q) /\ ~ OnItsWay(q)
             /\ ~ req[q].id /\ req[q].row = None /\ req[q].missed = {}
             /\ ~ req[q].parked /\ req[q].reply = None /\ req[q].verdict = None
    BY DEF Init, NewRequest, At, IsToolCall, OnItsWay, Call
<1>2. None # "428" => HistoryInv
    BY <1>1 DEF HistoryInv, NothingYet, InvocationBehind, EvidenceBehind, MissedExplained,
       RowsFollow, ParkingAsked, NotificationsUnanswered, At, Handling
<1>3. None # "428"
    BY NoneAssumption
<1>4. QED
    BY <1>2, <1>3

\* The pipeline decides: the decide endpoint, which has no notifications, parks what
\* is flagged.
LEMMA DecidedKeeps ==
    ASSUME TypeOK, IInv, HistoryInv, NEW q \in Requests, At(q, "policy"), Quiet,
           NEW candidate, NEW verdict \in Verdicts, Decided(q, candidate, verdict)
    PROVE  HistoryInv'
<1> DEFINE pc == AfterPolicy(q, verdict)
<1>1. IsToolCall(q) /\ Call(q) \in Calls[q]
    BY DEF IInv, CallsAdmitted, At, Handling
<1>2. pc \in {"park", "evidence"}
    BY DEF AfterPolicy
<1>3. pc = "park" => verdict = "flag_for_review" /\ ~ IsMcp(q) /\ ~ Call(q).notification
    <2>1. Call(q) \in AllCalls
        BY <1>1, CallsAssumption
    <2>2. QED
        BY <1>1, <2>1, CallsAssumption DEF AfterPolicy, IsMcp, AllCalls
<1>4. req' = [req EXCEPT ![q].pc = pc, ![q].candidate = candidate, ![q].verdict = verdict]
    BY DEF Decided
<1>5. verdict # "crash"
    BY DEF Verdicts
<1> HIDE DEF pc
<1> req \in [Requests -> Progress]
    BY DEF TypeOK
<1> USE DEF HistoryInv, NothingYet, InvocationBehind, EvidenceBehind, MissedExplained,
        RowsFollow, ParkingAsked,
        NotificationsUnanswered, OnItsWay, At, Call, IsMcp, Enforcing, IsToolCall,
        Handling, Quiet
<1>6. NothingYet'
    BY <1>2, <1>4 DEF Progress
<1>7. InvocationBehind'
    BY <1>2, <1>4 DEF Progress
<1>8. EvidenceBehind'
    BY <1>2, <1>3, <1>4 DEF Progress
<1>9. MissedExplained'
    BY <1>4 DEF Progress
<1>10. RowsFollow'
    BY <1>2, <1>3, <1>4 DEF Progress
<1>11. ParkingAsked'
    BY <1>1, <1>2, <1>3, <1>4 DEF Progress
<1>12. NotificationsUnanswered'
    BY <1>2, <1>4 DEF Progress
<1>13. QED
    BY <1>6, <1>7, <1>8, <1>9, <1>10, <1>11, <1>12

LEMMA PolicyKeeps ==
    ASSUME TypeOK, IInv, HistoryInv, NEW q \in Requests, RunPolicy(q) \/ DenyUnknown(q)
    PROVE  HistoryInv'
<1>1. PICK candidate \in {"allow", "deny", "flag_for_review"}, verdict \in Verdicts :
         Decided(q, candidate, verdict)
    <2>1. CASE RunPolicy(q)
        <3>1. PICK rbac \in {"allow", "deny", "flag_for_review"}, others_pass \in BOOLEAN,
                   reply \in Replies :
                 LET candidate == Candidate(rbac, others_pass)
                 IN Decided(q, candidate, Emitted(candidate, reply))
            BY <2>1 DEF RunPolicy
        <3>2. /\ Candidate(rbac, others_pass) \in {"allow", "deny", "flag_for_review"}
              /\ Emitted(Candidate(rbac, others_pass), reply) \in Verdicts
            BY PipelineType
        <3>3. Decided(q, Candidate(rbac, others_pass),
                      Emitted(Candidate(rbac, others_pass), reply))
            BY <3>1
        <3>4. QED
            BY <3>2, <3>3
    <2>2. CASE DenyUnknown(q)
        BY <2>2 DEF DenyUnknown, Verdicts
    <2>3. QED
        BY <2>1, <2>2
<1>2. At(q, "policy") /\ Quiet
    BY DEF RunPolicy, DenyUnknown
<1>3. QED
    BY <1>1, <1>2, DecidedKeeps

\* Every step keeps what the requests left behind them in order.
LEMMA HistoryStep == TypeOK /\ IInv /\ HistoryInv /\ [Next]_vars => HistoryInv'
<1> SUFFICES ASSUME TypeOK, IInv, HistoryInv, [Next]_vars PROVE HistoryInv'
    OBVIOUS
<1> req \in [Requests -> Progress] /\ failures \in Nat
    BY BoundsAssumption DEF TypeOK
<1> USE DEF HistoryInv, NothingYet, InvocationBehind, EvidenceBehind, MissedExplained,
        RowsFollow, ParkingAsked,
        NotificationsUnanswered, OnItsWay, At, Call, IsMcp, Enforcing, IsToolCall,
        Handling, Quiet, Failure, Answer
<1>1. ASSUME NEW q \in Requests, Receive(q) PROVE HistoryInv'
    BY <1>1 DEF Receive, Progress
<1>2. ASSUME NEW q \in Requests, Admission(q) PROVE HistoryInv'
    <2>1. CASE RefuseName(q)
        BY <1>2, <2>1 DEF RefuseName, Progress
    <2>2. CASE RefuseIdentity(q)
        BY <1>2, <2>2 DEF RefuseIdentity, Progress
    <2>3. CASE AnswerDirectly(q)
        BY <1>2, <2>3 DEF AnswerDirectly, Progress
    <2>4. CASE PassThrough(q)
        BY <1>2, <2>4 DEF PassThrough, Progress
    <2>5. CASE AdmitCall(q)
        BY <1>2, <2>5 DEF AdmitCall, Progress
    <2>6. QED
        BY <1>2, <2>1, <2>2, <2>3, <2>4, <2>5 DEF Admission
<1>3. ASSUME NEW q \in Requests, Recording(q) PROVE HistoryInv'
    <2>1. CASE RecordInvocation(q)
        <3>1. NothingYet'
            BY <1>3, <2>1 DEF RecordInvocation, Progress
        <3>2. InvocationBehind'
            BY <1>3, <2>1 DEF RecordInvocation, Progress
        <3>3. EvidenceBehind'
            BY <1>3, <2>1 DEF RecordInvocation, Progress
        <3>4. MissedExplained'
            BY <1>3, <2>1 DEF RecordInvocation, Progress
        <3>5. RowsFollow'
            BY <1>3, <2>1 DEF RecordInvocation, Progress
        <3>6. ParkingAsked'
            BY <1>3, <2>1 DEF RecordInvocation, Progress
        <3>7. NotificationsUnanswered'
            BY <1>3, <2>1 DEF RecordInvocation, Progress
        <3>8. QED
            BY <3>1, <3>2, <3>3, <3>4, <3>5, <3>6, <3>7
    <2>2. CASE DelegationBlocks(q)
        <3>1. NothingYet'
            BY <1>3, <2>2 DEF DelegationBlocks, Progress
        <3>2. InvocationBehind'
            BY <1>3, <2>2 DEF DelegationBlocks, Progress
        <3>3. EvidenceBehind'
            BY <1>3, <2>2 DEF DelegationBlocks, Progress
        <3>4. MissedExplained'
            BY <1>3, <2>2 DEF DelegationBlocks, Progress
        <3>5. RowsFollow'
            BY <1>3, <2>2 DEF DelegationBlocks, Progress
        <3>6. ParkingAsked'
            BY <1>3, <2>2 DEF DelegationBlocks, Progress
        <3>7. NotificationsUnanswered'
            BY <1>3, <2>2 DEF DelegationBlocks, Progress
        <3>8. QED
            BY <3>1, <3>2, <3>3, <3>4, <3>5, <3>6, <3>7
    <2>3. CASE RunPolicy(q)
        BY <1>3, <2>3, PolicyKeeps
    <2>4. CASE DenyUnknown(q)
        BY <1>3, <2>4, PolicyKeeps
    <2>5. CASE Skip(q)
        BY <1>3, <2>5 DEF Skip, Progress
    <2>6. CASE RecordEvidence(q)
        <3>1. NothingYet'
            BY <1>3, <2>6 DEF RecordEvidence, Progress
        <3>2. InvocationBehind'
            BY <1>3, <2>6 DEF RecordEvidence, Progress
        <3>3. EvidenceBehind'
            BY <1>3, <2>6 DEF RecordEvidence, Progress
        <3>4. MissedExplained'
            BY <1>3, <2>6 DEF RecordEvidence, Progress
        <3>5. RowsFollow'
            BY <1>3, <2>6 DEF RecordEvidence, Progress
        <3>6. ParkingAsked'
            BY <1>3, <2>6 DEF RecordEvidence, Progress
        <3>7. NotificationsUnanswered'
            BY <1>3, <2>6 DEF RecordEvidence, Progress
        <3>8. QED
            BY <3>1, <3>2, <3>3, <3>4, <3>5, <3>6, <3>7
    <2>7. CASE RecordSignal(q)
        BY <1>3, <2>7 DEF RecordSignal, Progress
    <2>8. CASE Finalise(q)
        <3>1. NothingYet'
            BY <1>3, <2>8 DEF Finalise, Progress
        <3>2. InvocationBehind'
            BY <1>3, <2>8 DEF Finalise, Progress
        <3>3. EvidenceBehind'
            BY <1>3, <2>8 DEF Finalise, Progress
        <3>4. MissedExplained'
            BY <1>3, <2>8 DEF Finalise, Progress
        <3>5. RowsFollow'
            BY <1>3, <2>8 DEF Finalise, Progress, IInv, VerdictsStand
        <3>6. ParkingAsked'
            BY <1>3, <2>8 DEF Finalise, Progress
        <3>7. NotificationsUnanswered'
            BY <1>3, <2>8 DEF Finalise, Progress
        <3>8. QED
            BY <3>1, <3>2, <3>3, <3>4, <3>5, <3>6, <3>7
    <2>9. QED
        BY <1>3, <2>1, <2>2, <2>3, <2>4, <2>5, <2>6, <2>7, <2>8 DEF Recording
<1>4. ASSUME NEW q \in Requests, Answering(q) PROVE HistoryInv'
    <2>1. CASE AnswerDecide(q)
        <3>1. NothingYet'
            BY <1>4, <2>1 DEF AnswerDecide, Progress
        <3>2. InvocationBehind'
            BY <1>4, <2>1 DEF AnswerDecide, Progress
        <3>3. EvidenceBehind'
            BY <1>4, <2>1 DEF AnswerDecide, Progress
        <3>4. MissedExplained'
            BY <1>4, <2>1 DEF AnswerDecide, Progress
        <3>5. RowsFollow'
            BY <1>4, <2>1 DEF AnswerDecide, Progress
        <3>6. ParkingAsked'
            BY <1>4, <2>1 DEF AnswerDecide, Progress
        <3>7. NotificationsUnanswered'
            <4>1. Call(q) \in Calls[q] /\ Calls[q] \subseteq AllCalls
                BY <1>4, <2>1, CallsAssumption DEF AnswerDecide, IInv, CallsAdmitted
            <4>2. Call(q).endpoint = "decide"
                BY <2>1, <4>1 DEF AnswerDecide, AllCalls
            <4>3. ~ Call(q).notification
                BY <4>1, <4>2, CallsAssumption
            <4>4. QED
                BY <1>4, <2>1, <4>3 DEF AnswerDecide, Progress
        <3>8. QED
            BY <3>1, <3>2, <3>3, <3>4, <3>5, <3>6, <3>7
    <2>2. CASE AnswerNotification(q)
        <3>1. NothingYet'
            BY <1>4, <2>2 DEF AnswerNotification, Progress
        <3>2. InvocationBehind'
            BY <1>4, <2>2 DEF AnswerNotification, Progress
        <3>3. EvidenceBehind'
            BY <1>4, <2>2 DEF AnswerNotification, Progress
        <3>4. MissedExplained'
            BY <1>4, <2>2 DEF AnswerNotification, Progress
        <3>5. RowsFollow'
            BY <1>4, <2>2 DEF AnswerNotification, Progress
        <3>6. ParkingAsked'
            BY <1>4, <2>2 DEF AnswerNotification, Progress
        <3>7. NotificationsUnanswered'
            BY <1>4, <2>2 DEF AnswerNotification, Progress
        <3>8. QED
            BY <3>1, <3>2, <3>3, <3>4, <3>5, <3>6, <3>7
    <2>3. CASE AnswerCrash(q)
        BY <1>4, <2>3 DEF AwaitsAnswer, AnswerCrash, Progress
    <2>4. CASE Refuse(q)
        BY <1>4, <2>4 DEF AwaitsAnswer, Refuse, Progress
    <2>5. CASE AskHuman(q)
        <3>1. NothingYet'
            BY <1>4, <2>5 DEF AwaitsAnswer, AskHuman, Progress
        <3>2. InvocationBehind'
            BY <1>4, <2>5 DEF AwaitsAnswer, AskHuman, Progress
        <3>3. EvidenceBehind'
            BY <1>4, <2>5 DEF AwaitsAnswer, AskHuman, Progress
        <3>4. MissedExplained'
            BY <1>4, <2>5 DEF AwaitsAnswer, AskHuman, Progress
        <3>5. RowsFollow'
            BY <1>4, <2>5 DEF AwaitsAnswer, AskHuman, Progress
        <3>6. ParkingAsked'
            BY <1>4, <2>5 DEF AwaitsAnswer, AskHuman, Progress, IInv, CallsAdmitted
        <3>7. NotificationsUnanswered'
            BY <1>4, <2>5 DEF AwaitsAnswer, AskHuman, Progress
        <3>8. QED
            BY <3>1, <3>2, <3>3, <3>4, <3>5, <3>6, <3>7
    <2>6. CASE CreatePendingRow(q)
        <3>1. CASE IsMcp(q)
            <4>1. req' = [req EXCEPT ![q].parked = TRUE, ![q].pc = "answered",
                                     ![q].reply = "428"]
                BY <2>6, <3>1 DEF CreatePendingRow
            <4>2. NothingYet'
                BY <1>4, <2>6, <3>1, <4>1 DEF CreatePendingRow, Progress
            <4>3. InvocationBehind'
                BY <1>4, <2>6, <3>1, <4>1 DEF CreatePendingRow, Progress
            <4>4. EvidenceBehind'
                BY <1>4, <2>6, <3>1, <4>1 DEF CreatePendingRow, Progress
            <4>5. MissedExplained'
                BY <1>4, <2>6, <3>1, <4>1 DEF CreatePendingRow, Progress
            <4>6. RowsFollow'
                BY <1>4, <2>6, <3>1, <4>1 DEF CreatePendingRow, Progress
            <4>7. ParkingAsked'
                BY <1>4, <2>6, <3>1, <4>1 DEF CreatePendingRow, Progress
            <4>8. NotificationsUnanswered'
                BY <1>4, <2>6, <3>1, <4>1 DEF CreatePendingRow, Progress
            <4>9. QED
                BY <4>2, <4>3, <4>4, <4>5, <4>6, <4>7, <4>8
        <3>2. CASE ~ IsMcp(q)
            <4>1. req' = [req EXCEPT ![q].parked = TRUE, ![q].pc = "evidence"]
                BY <2>6, <3>2 DEF CreatePendingRow
            <4>2. NothingYet'
                BY <1>4, <2>6, <3>2, <4>1 DEF CreatePendingRow, Progress
            <4>3. InvocationBehind'
                BY <1>4, <2>6, <3>2, <4>1 DEF CreatePendingRow, Progress
            <4>4. EvidenceBehind'
                BY <1>4, <2>6, <3>2, <4>1 DEF CreatePendingRow, Progress
            <4>5. MissedExplained'
                BY <1>4, <2>6, <3>2, <4>1 DEF CreatePendingRow, Progress
            <4>6. RowsFollow'
                BY <1>4, <2>6, <3>2, <4>1 DEF CreatePendingRow, Progress
            <4>7. ParkingAsked'
                BY <1>4, <2>6, <3>2, <4>1 DEF CreatePendingRow, Progress
            <4>8. NotificationsUnanswered'
                BY <1>4, <2>6, <3>2, <4>1 DEF CreatePendingRow, Progress
            <4>9. QED
                BY <4>2, <4>3, <4>4, <4>5, <4>6, <4>7, <4>8
        <3>3. QED
            BY <3>1, <3>2
    <2>7. CASE StartForward(q)
        BY <1>4, <2>7 DEF AwaitsAnswer, StartForward, Progress
    <2>8. CASE Forward(q)
        BY <1>4, <2>8 DEF Forward, Progress
    <2>9. CASE Relay(q)
        <3>1. NothingYet'
            BY <1>4, <2>9 DEF Relay, Progress
        <3>2. InvocationBehind'
            BY <1>4, <2>9 DEF Relay, Progress
        <3>3. EvidenceBehind'
            BY <1>4, <2>9 DEF Relay, Progress
        <3>4. MissedExplained'
            BY <1>4, <2>9 DEF Relay, Progress
        <3>5. RowsFollow'
            BY <1>4, <2>9 DEF Relay, Progress
        <3>6. ParkingAsked'
            BY <1>4, <2>9 DEF Relay, Progress
        <3>7. NotificationsUnanswered'
            BY <1>4, <2>9 DEF Relay, Progress
        <3>8. QED
            BY <3>1, <3>2, <3>3, <3>4, <3>5, <3>6, <3>7
    <2>10. CASE BodyTooLarge(q)
        <3> DEFINE missed == req[q].missed \cup {"park"}
        <3>1. CASE IsMcp(q)
            <4>1. req' = [req EXCEPT ![q].missed = missed, ![q].pc = "answered",
                                     ![q].reply = "428"]
                BY <2>10, <3>1 DEF BodyTooLarge
            <4>2. /\ "park" \in missed
                  /\ \A step \in Steps \ {"park"} : step \in missed <=> step \in req[q].missed
                OBVIOUS
            <4> HIDE DEF missed
            <4>3. NothingYet'
                BY <1>4, <2>10, <3>1, <4>1, <4>2 DEF BodyTooLarge, Progress, Steps
            <4>4. InvocationBehind'
                BY <1>4, <2>10, <3>1, <4>1, <4>2 DEF BodyTooLarge, Progress, Steps
            <4>5. EvidenceBehind'
                BY <1>4, <2>10, <3>1, <4>1, <4>2 DEF BodyTooLarge, Progress, Steps
            <4>6. MissedExplained'
                BY <1>4, <2>10, <3>1, <4>1, <4>2 DEF BodyTooLarge, Progress, Steps
            <4>7. RowsFollow'
                BY <1>4, <2>10, <3>1, <4>1, <4>2 DEF BodyTooLarge, Progress, Steps
            <4>8. ParkingAsked'
                BY <1>4, <2>10, <3>1, <4>1, <4>2 DEF BodyTooLarge, Progress, Steps
            <4>9. NotificationsUnanswered'
                BY <1>4, <2>10, <3>1, <4>1, <4>2 DEF BodyTooLarge, Progress, Steps
            <4>10. QED
                BY <4>3, <4>4, <4>5, <4>6, <4>7, <4>8, <4>9
        <3>2. CASE ~ IsMcp(q)
            <4>1. req' = [req EXCEPT ![q].missed = missed, ![q].pc = "evidence"]
                BY <2>10, <3>2 DEF BodyTooLarge
            <4>2. \A step \in Steps \ {"park"} : step \in missed <=> step \in req[q].missed
                OBVIOUS
            <4> HIDE DEF missed
            <4>3. NothingYet'
                BY <1>4, <2>10, <3>2, <4>1, <4>2 DEF BodyTooLarge, Progress, Steps
            <4>4. InvocationBehind'
                BY <1>4, <2>10, <3>2, <4>1, <4>2 DEF BodyTooLarge, Progress, Steps
            <4>5. EvidenceBehind'
                BY <1>4, <2>10, <3>2, <4>1, <4>2 DEF BodyTooLarge, Progress, Steps
            <4>6. MissedExplained'
                BY <1>4, <2>10, <3>2, <4>1, <4>2 DEF BodyTooLarge, Progress, Steps
            <4>7. RowsFollow'
                BY <1>4, <2>10, <3>2, <4>1, <4>2 DEF BodyTooLarge, Progress, Steps
            <4>8. ParkingAsked'
                BY <1>4, <2>10, <3>2, <4>1, <4>2 DEF BodyTooLarge, Progress, Steps
            <4>9. NotificationsUnanswered'
                BY <1>4, <2>10, <3>2, <4>1, <4>2 DEF BodyTooLarge, Progress, Steps
            <4>10. QED
                BY <4>3, <4>4, <4>5, <4>6, <4>7, <4>8, <4>9
        <3>3. QED
            BY <3>1, <3>2
    <2>11. QED
        BY <1>4, <2>1, <2>2, <2>3, <2>4, <2>5, <2>6, <2>7, <2>8, <2>9, <2>10 DEF Answering
<1>5. ASSUME NEW q \in Requests, Failing(q) PROVE HistoryInv'
    <2>1. CASE RecordInvocationFails(q)
        <3>1. NothingYet'
            BY <1>5, <2>1 DEF RecordInvocationFails, Progress
        <3>2. InvocationBehind'
            BY <1>5, <2>1 DEF RecordInvocationFails, Progress
        <3>3. EvidenceBehind'
            BY <1>5, <2>1 DEF RecordInvocationFails, Progress
        <3>4. MissedExplained'
            BY <1>5, <2>1 DEF RecordInvocationFails, Progress
        <3>5. RowsFollow'
            BY <1>5, <2>1 DEF RecordInvocationFails, Progress
        <3>6. ParkingAsked'
            BY <1>5, <2>1 DEF RecordInvocationFails, Progress
        <3>7. NotificationsUnanswered'
            BY <1>5, <2>1 DEF RecordInvocationFails, Progress
        <3>8. QED
            BY <3>1, <3>2, <3>3, <3>4, <3>5, <3>6, <3>7
    <2>2. CASE PolicyCrashes(q)
        BY <1>5, <2>2 DEF PolicyCrashes, Progress
    <2>3. CASE RecordEvidenceFails(q)
        <3>1. NothingYet'
            BY <1>5, <2>3 DEF RecordEvidenceFails, Progress
        <3>2. InvocationBehind'
            BY <1>5, <2>3 DEF RecordEvidenceFails, Progress
        <3>3. EvidenceBehind'
            BY <1>5, <2>3 DEF RecordEvidenceFails, Progress
        <3>4. MissedExplained'
            BY <1>5, <2>3 DEF RecordEvidenceFails, Progress
        <3>5. RowsFollow'
            BY <1>5, <2>3 DEF RecordEvidenceFails, Progress
        <3>6. ParkingAsked'
            BY <1>5, <2>3 DEF RecordEvidenceFails, Progress
        <3>7. NotificationsUnanswered'
            BY <1>5, <2>3 DEF RecordEvidenceFails, Progress
        <3>8. QED
            BY <3>1, <3>2, <3>3, <3>4, <3>5, <3>6, <3>7
    <2>4. CASE RecordSignalFails(q)
        BY <1>5, <2>4 DEF RecordSignalFails, Progress
    <2>5. CASE FinaliseFails(q)
        BY <1>5, <2>5 DEF FinaliseFails, Progress
    <2>6. CASE CreatePendingRowFails(q)
        <3> DEFINE missed == req[q].missed \cup {"park"}
        <3>1. CASE IsMcp(q)
            <4>1. PICK reply \in {"428", "500"} :
                     req' = [req EXCEPT ![q].missed = missed, ![q].pc = "answered",
                                        ![q].reply = reply]
                BY <2>6, <3>1 DEF CreatePendingRowFails
            <4>2. /\ "park" \in missed
                  /\ \A step \in Steps \ {"park"} : step \in missed <=> step \in req[q].missed
                OBVIOUS
            <4> HIDE DEF missed
            <4>3. NothingYet'
                BY <1>5, <2>6, <3>1, <4>1, <4>2 DEF CreatePendingRowFails, Progress, Steps
            <4>4. InvocationBehind'
                BY <1>5, <2>6, <3>1, <4>1, <4>2 DEF CreatePendingRowFails, Progress, Steps
            <4>5. EvidenceBehind'
                BY <1>5, <2>6, <3>1, <4>1, <4>2 DEF CreatePendingRowFails, Progress, Steps
            <4>6. MissedExplained'
                BY <1>5, <2>6, <3>1, <4>1, <4>2 DEF CreatePendingRowFails, Progress, Steps
            <4>7. RowsFollow'
                BY <1>5, <2>6, <3>1, <4>1, <4>2 DEF CreatePendingRowFails, Progress, Steps
            <4>8. ParkingAsked'
                BY <1>5, <2>6, <3>1, <4>1, <4>2 DEF CreatePendingRowFails, Progress, Steps
            <4>9. NotificationsUnanswered'
                BY <1>5, <2>6, <3>1, <4>1, <4>2 DEF CreatePendingRowFails, Progress, Steps
            <4>10. QED
                BY <4>3, <4>4, <4>5, <4>6, <4>7, <4>8, <4>9
        <3>2. CASE ~ IsMcp(q)
            <4>1. req' = [req EXCEPT ![q].missed = missed, ![q].pc = "evidence"]
                BY <2>6, <3>2 DEF CreatePendingRowFails
            <4>2. \A step \in Steps \ {"park"} : step \in missed <=> step \in req[q].missed
                OBVIOUS
            <4> HIDE DEF missed
            <4>3. NothingYet'
                BY <1>5, <2>6, <3>2, <4>1, <4>2 DEF CreatePendingRowFails, Progress, Steps
            <4>4. InvocationBehind'
                BY <1>5, <2>6, <3>2, <4>1, <4>2 DEF CreatePendingRowFails, Progress, Steps
            <4>5. EvidenceBehind'
                BY <1>5, <2>6, <3>2, <4>1, <4>2 DEF CreatePendingRowFails, Progress, Steps
            <4>6. MissedExplained'
                BY <1>5, <2>6, <3>2, <4>1, <4>2 DEF CreatePendingRowFails, Progress, Steps
            <4>7. RowsFollow'
                BY <1>5, <2>6, <3>2, <4>1, <4>2 DEF CreatePendingRowFails, Progress, Steps
            <4>8. ParkingAsked'
                BY <1>5, <2>6, <3>2, <4>1, <4>2 DEF CreatePendingRowFails, Progress, Steps
            <4>9. NotificationsUnanswered'
                BY <1>5, <2>6, <3>2, <4>1, <4>2 DEF CreatePendingRowFails, Progress, Steps
            <4>10. QED
                BY <4>3, <4>4, <4>5, <4>6, <4>7, <4>8, <4>9
        <3>3. QED
            BY <3>1, <3>2
    <2>7. CASE Unreachable(q)
        <3>1. NothingYet'
            BY <1>5, <2>7 DEF Unreachable, Progress
        <3>2. InvocationBehind'
            BY <1>5, <2>7 DEF Unreachable, Progress
        <3>3. EvidenceBehind'
            BY <1>5, <2>7 DEF Unreachable, Progress
        <3>4. MissedExplained'
            BY <1>5, <2>7 DEF Unreachable, Progress
        <3>5. RowsFollow'
            BY <1>5, <2>7 DEF Unreachable, Progress
        <3>6. ParkingAsked'
            BY <1>5, <2>7 DEF Unreachable, Progress
        <3>7. NotificationsUnanswered'
            BY <1>5, <2>7 DEF Unreachable, Progress
        <3>8. QED
            BY <3>1, <3>2, <3>3, <3>4, <3>5, <3>6, <3>7
    <2>8. CASE Dies(q)
        <3>1. NothingYet'
            BY <1>5, <2>8 DEF Dies, Progress
        <3>2. InvocationBehind'
            BY <1>5, <2>8 DEF Dies, Progress
        <3>3. EvidenceBehind'
            BY <1>5, <2>8 DEF Dies, Progress
        <3>4. MissedExplained'
            BY <1>5, <2>8 DEF Dies, Progress
        <3>5. RowsFollow'
            BY <1>5, <2>8 DEF Dies, Progress
        <3>6. ParkingAsked'
            BY <1>5, <2>8 DEF Dies, Progress
        <3>7. NotificationsUnanswered'
            BY <1>5, <2>8 DEF Dies, Progress
        <3>8. QED
            BY <3>1, <3>2, <3>3, <3>4, <3>5, <3>6, <3>7
    <2>9. QED
        BY <1>5, <2>1, <2>2, <2>3, <2>4, <2>5, <2>6, <2>7, <2>8 DEF Failing
<1>6. CASE NewSecond
    BY <1>6 DEF NewSecond
<1>7. CASE UNCHANGED vars
    BY <1>7 DEF vars
<1>8. QED
    BY <1>1, <1>2, <1>3, <1>4, <1>5, <1>6, <1>7 DEF Next

\* What a request left in the stores is in order before each of its steps: nothing
\* before its invocation is recorded, then the invocation, then the evidence, then
\* the outcome, with the pending row only for what was flagged.
THEOREM HistoryHolds == Spec => []HistoryInv
<1>1. QED
    BY TypeInit, TypeStep, InvariantInit, InvariantStep, HistoryInit, HistoryStep, PTL
       DEF Spec

\* A tool call that reached the backend, or is parked, is on record with its evidence,
\* unless a store failed or the caller, who has no identity, is throttled.
THEOREM RecordedFirstHolds == Spec => []RecordedFirst
<1>1. HistoryInv => RecordedFirst
    BY DEF HistoryInv, InvocationBehind, EvidenceBehind, MissedExplained, OnItsWay,
       RecordedFirst
<1>2. QED
    BY <1>1, HistoryHolds, PTL

\* An answered request leaves its invocation open only if it was flagged for review
\* or the UPDATE of its outcome failed.
THEOREM InvocationClosedHolds == Spec => []InvocationClosed
<1>1. HistoryInv => InvocationClosed
    <2> SUFFICES ASSUME HistoryInv, NEW q \in Requests, At(q, "answered"), req[q].id,
                        "finalise" \notin req[q].missed
                 PROVE  req[q].row = "pending" <=> req[q].verdict = "flag_for_review"
        BY DEF InvocationClosed
    <2>1. /\ req[q].verdict \in Verdicts \cup {"crash"}
          /\ req[q].row = Outcome[req[q].verdict]
        BY DEF HistoryInv, RowsFollow, At
    <2>2. QED
        BY <2>1 DEF Verdicts, Outcome
<1>2. QED
    BY <1>1, HistoryHolds, PTL

\* What waits for a human was not carried out, in enforce mode nor in any other, and
\* its invocation is open; who is told to wait has a row to poll, unless it failed.
THEOREM ParkedWaitsHolds == Spec => []ParkedWaits
<1>1. TypeOK /\ IInv /\ HistoryInv => ParkedWaits
    <2> SUFFICES ASSUME TypeOK, IInv, HistoryInv, NEW q \in Requests, req[q].parked
                 PROVE  ~ req[q].reached /\ req[q].row \in {"pending", "blocked", None}
        BY DEF ParkedWaits, HistoryInv, ParkingAsked
    <2>1. IsToolCall(q) /\ req[q].verdict = "flag_for_review" /\ (IsMcp(q) => Enforcing)
        BY DEF HistoryInv, ParkingAsked
    <2>2. ~ req[q].reached
        BY <2>1 DEF IInv, ForwardingAllowed
    <2>3. req[q].id /\ req[q].row # "pending" => req[q].row = Outcome["flag_for_review"]
        BY <2>1 DEF IInv, VerdictsStand
    <2>4. req[q].row \in {"pending", "blocked", None}
        BY <2>3 DEF HistoryInv, RowsFollow, Outcome
    <2>5. QED
        BY <2>2, <2>4
<1>2. QED
    BY <1>1, TypeCorrect, InvariantHolds, HistoryHolds, PTL

\* Whatever is refused, flagged or broken on its way, a notification with a tool's
\* name is answered with an empty 204.
THEOREM NotificationsHold == Spec => []NotificationsUnanswered
<1>1. HistoryInv => NotificationsUnanswered
    BY DEF HistoryInv
<1>2. QED
    BY <1>1, HistoryHolds, PTL
=============================================================================
