------------------------- MODULE PendingInvocations -------------------------
(***************************************************************************)
(* The kya_pending_invocations table and the calls that move its rows      *)
(* through the human-in-the-loop lifecycle (kya/pending_invocations.py):   *)
(*                                                                         *)
(*    create_pending   the gateway parks a request it answered with 428    *)
(*    decide           an approver approves or denies it                   *)
(*    find_ready_to_resume, mark_resumed                                   *)
(*                     a resume worker replays an approved request         *)
(*    sweep_expired    the cron job that retires undecided rows            *)
(*                                                                         *)
(* Every call samples the clock first and touches the database later, so   *)
(* the time a call judges expiry by may be stale when its statement runs.  *)
(* One SQL statement is one step; a transaction of several statements      *)
(* holds the locks of the rows it updated until it commits.                *)
(*                                                                         *)
(* The columns of the table are functions on Ids; the row id exists iff    *)
(* status[id] # "absent".                                                  *)
(***************************************************************************)
EXTENDS Integers, FiniteSets

CONSTANTS
    Ids,          \* row ids (uuid4), one per 428 answered
    Tenants,
    Users,        \* approvers
    Decides,      \* calls of decide()
    DeciderOf,    \* the decided_by argument of each of them
    Resumes,      \* resume attempts
    Sweepers,     \* cron workers that run sweep_expired()
    Dialects,     \* the databases considered; a deployment uses one
    TTL,          \* lifetime of a row in clock ticks (24 hours)
    BatchSize,    \* LIMIT of the sweep's SELECT
    ChunkSize,    \* ids per UPDATE of the sweep
    MaxClock,     \* bound: the clock stops here
    MaxAborts,    \* bound: sweeps that lose their connection
    None

ASSUME DeciderAssumption == DeciderOf \in [Decides -> Users]
ASSUME DialectAssumption ==
    Dialects \subseteq {"postgresql", "sqlite", "duckdb", "mysql"}
ASSUME NumbersAssumption ==
    /\ TTL \in Nat \ {0}
    /\ BatchSize \in Nat \ {0}
    /\ ChunkSize \in Nat \ {0}
    /\ MaxClock \in Nat
    /\ MaxAborts \in Nat
ASSUME NoneAssumption ==
    /\ None \notin Ids \cup Tenants \cup Users \cup Resumes \cup Sweepers
    /\ None \notin Int

VARIABLES
    dialect,
    clock,
    \* columns of kya_pending_invocations
    status, tenant, expires_at, decided_at, decided_by, resume_ev,
    \* locals of the decide() calls
    d_pc, d_id, d_decision, d_tenant, d_ts,
    \* locals of the resume attempts
    r_pc, r_id, r_ts,
    \* locals of the sweep transactions, and the locks they hold
    s_pc, s_ts, s_ids, s_expired, aborts

table  == <<status, tenant, expires_at, decided_at, decided_by, resume_ev>>
d_vars == <<d_pc, d_id, d_decision, d_tenant, d_ts>>
r_vars == <<r_pc, r_id, r_ts>>
s_vars == <<s_pc, s_ts, s_ids, s_expired, aborts>>
vars   == <<dialect, clock, table, d_vars, r_vars, s_vars>>

Status    == {"absent", "pending", "approved", "denied", "expired", "resumed"}
Decisions == {"approved", "denied"}
Time      == 0 .. MaxClock

Init ==
    /\ dialect \in Dialects
    /\ clock = 0
    /\ status     = [id \in Ids |-> "absent"]
    /\ tenant     = [id \in Ids |-> None]
    /\ expires_at = [id \in Ids |-> 0]
    /\ decided_at = [id \in Ids |-> None]
    /\ decided_by = [id \in Ids |-> None]
    /\ resume_ev  = [id \in Ids |-> None]
    /\ d_pc       = [c \in Decides |-> "idle"]
    /\ d_id       = [c \in Decides |-> None]
    /\ d_decision = [c \in Decides |-> None]
    /\ d_tenant   = [c \in Decides |-> None]
    /\ d_ts       = [c \in Decides |-> 0]
    /\ r_pc       = [r \in Resumes |-> "idle"]
    /\ r_id       = [r \in Resumes |-> None]
    /\ r_ts       = [r \in Resumes |-> 0]
    /\ s_pc       = [w \in Sweepers |-> "idle"]
    /\ s_ts       = [w \in Sweepers |-> 0]
    /\ s_ids      = [w \in Sweepers |-> {}]
    /\ s_expired  = [w \in Sweepers |-> {}]
    /\ aborts = 0

Tick ==
    /\ clock < MaxClock
    /\ clock' = clock + 1
    /\ UNCHANGED <<dialect, table, d_vars, r_vars, s_vars>>

\* _supports_returning: UPDATE ... RETURNING, which MySQL lacks.
Returning == dialect \in {"postgresql", "sqlite", "duckdb"}

\* A row that an open sweep transaction has updated: other writers of the
\* row wait for its COMMIT or ROLLBACK, readers see the row as it was.
Locked(id) == \E w \in Sweepers : id \in s_expired[w]

-----------------------------------------------------------------------------
(* create_pending: one INSERT. Retries of a paused request get rows of     *)
(* their own.                                                              *)

CreatePending(id, t) ==
    /\ status[id] = "absent"
    /\ clock + TTL <= MaxClock
    /\ status'     = [status EXCEPT ![id] = "pending"]
    /\ tenant'     = [tenant EXCEPT ![id] = t]
    /\ expires_at' = [expires_at EXCEPT ![id] = clock + TTL]
    /\ UNCHANGED <<dialect, clock, decided_at, decided_by, resume_ev,
                   d_vars, r_vars, s_vars>>

-----------------------------------------------------------------------------
(* decide: the clock is read, then the UPDATE runs under its own WHERE.    *)
(* The tenant argument is optional. Nobody knows the id of a row before    *)
(* create_pending has returned it.                                         *)

DecideCall(c, id, decision, t) ==
    /\ d_pc[c] = "idle"
    /\ status[id] # "absent"
    /\ d_pc'       = [d_pc EXCEPT ![c] = "called"]
    /\ d_id'       = [d_id EXCEPT ![c] = id]
    /\ d_decision' = [d_decision EXCEPT ![c] = decision]
    /\ d_tenant'   = [d_tenant EXCEPT ![c] = t]
    /\ d_ts'       = [d_ts EXCEPT ![c] = clock]
    /\ UNCHANGED <<dialect, clock, table, r_vars, s_vars>>

\* Seeded fault: a row may be decided after its expiry.
DecideMatchesExpired(c) ==
    status[d_id[c]] = "pending" /\ d_tenant[c] \in {None, tenant[d_id[c]]}

\* Seeded fault: the UPDATE forgets the status, and the last decision wins.
DecideMatchesDecided(c) ==
    /\ status[d_id[c]] \in {"pending", "approved", "denied"}
    /\ expires_at[d_id[c]] > d_ts[c]
    /\ d_tenant[c] \in {None, tenant[d_id[c]]}

\* The WHERE clause of decide's UPDATE.
DecideMatches(c) ==
    LET id == d_id[c] IN
        /\ status[id] = "pending"
        /\ expires_at[id] > d_ts[c]
        /\ d_tenant[c] \in {None, tenant[id]}

DecideWins(c) ==
    LET id == d_id[c] IN
        /\ d_pc[c] = "called"
        /\ ~ Locked(id)
        /\ DecideMatches(c)
        /\ status'     = [status EXCEPT ![id] = d_decision[c]]
        /\ decided_at' = [decided_at EXCEPT ![id] = d_ts[c]]
        /\ decided_by' = [decided_by EXCEPT ![id] = DeciderOf[c]]
        /\ d_pc'       = [d_pc EXCEPT ![c] = "won"]
        /\ UNCHANGED <<dialect, clock, tenant, expires_at, resume_ev,
                       d_id, d_decision, d_tenant, d_ts, r_vars, s_vars>>

\* No row came back. MySQL has no RETURNING and goes on to a SELECT.
DecideMisses(c) ==
    /\ d_pc[c] = "called"
    /\ ~ Locked(d_id[c])
    /\ ~ DecideMatches(c)
    /\ d_pc' = [d_pc EXCEPT ![c] = IF Returning THEN "lost" ELSE "confirm"]
    /\ UNCHANGED <<dialect, clock, table, d_id, d_decision, d_tenant, d_ts,
                   r_vars, s_vars>>

\* Seeded fault: the SELECT asks for the decision only, not for the approver.
DecideConfirmAnyone(c) ==
    /\ d_pc[c] = "confirm"
    /\ d_pc' = [d_pc EXCEPT ![c] =
                   IF status[d_id[c]] = d_decision[c] THEN "won" ELSE "lost"]
    /\ UNCHANGED <<dialect, clock, table, d_id, d_decision, d_tenant, d_ts,
                   r_vars, s_vars>>

\* That SELECT asks whether the row now is in the state this caller wanted,
\* under this caller's name: who put it there it cannot tell.
DecideConfirm(c) ==
    /\ d_pc[c] = "confirm"
    /\ LET confirmed == /\ status[d_id[c]] = d_decision[c]
                        /\ decided_by[d_id[c]] = DeciderOf[c]
       IN d_pc' = [d_pc EXCEPT ![c] = IF confirmed THEN "won" ELSE "lost"]
    /\ UNCHANGED <<dialect, clock, table, d_id, d_decision, d_tenant, d_ts,
                   r_vars, s_vars>>

Decide(c) == DecideWins(c) \/ DecideMisses(c) \/ DecideConfirm(c)

-----------------------------------------------------------------------------
(* A resume attempt: find_ready_to_resume (clock, then SELECT), the replay *)
(* of the parked request by the resume endpoint, and mark_resumed with the *)
(* id of the evidence row that the replay wrote (named after the attempt). *)

ResumeCall(r, id) ==
    /\ r_pc[r] = "idle"
    /\ status[id] # "absent"
    /\ r_pc' = [r_pc EXCEPT ![r] = "called"]
    /\ r_id' = [r_id EXCEPT ![r] = id]
    /\ r_ts' = [r_ts EXCEPT ![r] = clock]
    /\ UNCHANGED <<dialect, clock, table, d_vars, s_vars>>

\* Seeded fault: the gate lets undecided rows through.
ReadyToResumeAnyStatus(r) ==
    /\ status[r_id[r]] \in {"pending", "approved"}
    /\ expires_at[r_id[r]] > r_ts[r]
    /\ resume_ev[r_id[r]] = None

ReadyToResume(r) ==
    LET id == r_id[r] IN
        /\ status[id] = "approved"
        /\ expires_at[id] > r_ts[r]
        /\ resume_ev[id] = None

FindReadyToResume(r) ==
    /\ r_pc[r] = "called"
    /\ r_pc' = [r_pc EXCEPT ![r] = IF ReadyToResume(r) THEN "ready" ELSE "refused"]
    /\ UNCHANGED <<dialect, clock, table, d_vars, r_id, r_ts, s_vars>>

Replay(r) ==
    /\ r_pc[r] = "ready"
    /\ r_pc' = [r_pc EXCEPT ![r] = "replayed"]
    /\ UNCHANGED <<dialect, clock, table, d_vars, r_id, r_ts, s_vars>>

\* The resume worker dies, or the replay fails, before mark_resumed.
ResumeFails(r) ==
    /\ r_pc[r] \in {"ready", "replayed"}
    /\ r_pc' = [r_pc EXCEPT ![r] = "failed"]
    /\ UNCHANGED <<dialect, clock, table, d_vars, r_id, r_ts, s_vars>>

\* The WHERE clause of mark_resumed. It does not look at expires_at.
Resumable(id) == status[id] = "approved" /\ resume_ev[id] = None
MarkResumed(r) ==
    LET id == r_id[r] IN
        /\ r_pc[r] = "replayed"
        /\ IF Resumable(id)
           THEN /\ status'    = [status EXCEPT ![id] = "resumed"]
                /\ resume_ev' = [resume_ev EXCEPT ![id] = r]
                /\ r_pc'      = [r_pc EXCEPT ![r] = "resumed"]
           ELSE /\ r_pc'      = [r_pc EXCEPT ![r] = "late"]
                /\ UNCHANGED <<dialect, status, resume_ev>>
        /\ UNCHANGED <<dialect, clock, tenant, expires_at, decided_at, decided_by,
                       d_vars, r_id, r_ts, s_vars>>

-----------------------------------------------------------------------------
(* sweep_expired: one transaction of a SELECT of at most BatchSize ids and *)
(* an UPDATE per chunk of them, committed at the end.                      *)

SweepCall(w) ==
    /\ s_pc[w] = "idle"
    /\ s_pc' = [s_pc EXCEPT ![w] = "called"]
    /\ s_ts' = [s_ts EXCEPT ![w] = clock]
    /\ UNCHANGED <<dialect, clock, table, d_vars, r_vars, s_ids, s_expired, aborts>>

\* Seeded fault: the sweep's SELECT forgets the status, so that rows it has
\* expired fill its batches for ever.
OverdueEver(ts) == {id \in Ids : status[id] # "absent" /\ expires_at[id] <= ts}

Overdue(ts) == {id \in Ids : status[id] = "pending" /\ expires_at[id] <= ts}

\* Any ids the LIMIT lets through: the SELECT has no ORDER BY.
Batches(ts) ==
    {b \in SUBSET Overdue(ts) :
        \/ b = Overdue(ts) /\ Cardinality(b) <= BatchSize
        \/ b # Overdue(ts) /\ Cardinality(b) = BatchSize}

SweepSelect(w) ==
    /\ s_pc[w] = "called"
    /\ \E b \in Batches(s_ts[w]) :
          /\ s_ids' = [s_ids EXCEPT ![w] = b]
          /\ s_pc'  = [s_pc EXCEPT ![w] = IF b = {} THEN "idle" ELSE "open"]
    /\ UNCHANGED <<dialect, clock, table, d_vars, r_vars, s_ts, s_expired, aborts>>

\* Seeded fault: the UPDATE trusts the SELECT and does not test the status.
SweepUpdateUnchecked(w) ==
    /\ s_pc[w] = "open"
    /\ \E chunk \in SUBSET s_ids[w] \ {{}} :
          /\ Cardinality(chunk) <= ChunkSize
          /\ \A id \in chunk : ~ Locked(id)
          /\ s_ids' = [s_ids EXCEPT ![w] = @ \ chunk]
          /\ s_expired' = [s_expired EXCEPT ![w] = @ \cup chunk]
    /\ UNCHANGED <<dialect, clock, table, d_vars, r_vars, s_pc, s_ts, aborts>>

SweepUpdate(w) ==
    /\ s_pc[w] = "open"
    /\ \E chunk \in SUBSET s_ids[w] :
          /\ chunk # {}
          /\ \/ chunk = s_ids[w] /\ Cardinality(chunk) <= ChunkSize
             \/ chunk # s_ids[w] /\ Cardinality(chunk) = ChunkSize
          /\ \A id \in chunk : ~ Locked(id)
          /\ s_ids' = [s_ids EXCEPT ![w] = @ \ chunk]
          /\ s_expired' =
                [s_expired EXCEPT ![w] = @ \cup {id \in chunk : status[id] = "pending"}]
    /\ UNCHANGED <<dialect, clock, table, d_vars, r_vars, s_pc, s_ts, aborts>>

SweepCommit(w) ==
    /\ s_pc[w] = "open"
    /\ s_ids[w] = {}
    /\ status' = [id \in Ids |-> IF id \in s_expired[w] THEN "expired" ELSE status[id]]
    /\ s_expired' = [s_expired EXCEPT ![w] = {}]
    /\ s_pc' = [s_pc EXCEPT ![w] = "idle"]
    /\ UNCHANGED <<dialect, clock, tenant, expires_at, decided_at, decided_by, resume_ev,
                   d_vars, r_vars, s_ts, s_ids, aborts>>

\* engine.begin() rolls back and the exception ends the call.
SweepRollback(w) ==
    /\ s_pc[w] = "open"
    /\ s_expired' = [s_expired EXCEPT ![w] = {}]
    /\ s_ids' = [s_ids EXCEPT ![w] = {}]
    /\ s_pc' = [s_pc EXCEPT ![w] = "idle"]
    /\ UNCHANGED <<dialect, clock, table, d_vars, r_vars, s_ts>>

\* The worker dies or loses its connection.
SweepAbort(w) ==
    /\ aborts < MaxAborts
    /\ aborts' = aborts + 1
    /\ SweepRollback(w)

\* Two sweeps wait for each other's rows: the database picks a victim.
SweepDeadlock(w) ==
    /\ \E v \in Sweepers :
          /\ s_ids[w] \cap s_expired[v] # {}
          /\ s_ids[v] \cap s_expired[w] # {}
    /\ SweepRollback(w)
    /\ UNCHANGED aborts

Sweep(w) == SweepCall(w) \/ SweepSelect(w) \/ SweepUpdate(w) \/ SweepCommit(w)

-----------------------------------------------------------------------------
Next ==
    \/ Tick
    \/ \E id \in Ids, t \in Tenants : CreatePending(id, t)
    \/ \E c \in Decides, id \in Ids, decision \in Decisions,
          t \in Tenants \cup {None} : DecideCall(c, id, decision, t)
    \/ \E c \in Decides : DecideWins(c)
    \/ \E c \in Decides : DecideMisses(c)
    \/ \E c \in Decides : DecideConfirm(c)
    \/ \E r \in Resumes, id \in Ids : ResumeCall(r, id)
    \/ \E r \in Resumes : FindReadyToResume(r)
    \/ \E r \in Resumes : Replay(r)
    \/ \E r \in Resumes : ResumeFails(r)
    \/ \E r \in Resumes : MarkResumed(r)
    \/ \E w \in Sweepers : SweepCall(w)
    \/ \E w \in Sweepers : SweepSelect(w)
    \/ \E w \in Sweepers : SweepUpdate(w)
    \/ \E w \in Sweepers : SweepCommit(w)
    \/ \E w \in Sweepers : SweepAbort(w)
    \/ \E w \in Sweepers : SweepDeadlock(w)

Spec == Init /\ [][Next]_vars

\* The clock runs and the cron keeps calling the sweep; the database detects
\* deadlocks, and a transaction that waits with locks of its own is served in
\* the end when the lock it waits for is freed again and again (hence SF: the
\* survivors of deadlocks are in the queue before those who start anew). No
\* approver and no resume worker is obliged to act; a decision that was made
\* reaches its UPDATE.
Fairness ==
    /\ WF_vars(Tick)
    /\ WF_vars(\E w \in Sweepers : SweepDeadlock(w))
    /\ \A w \in Sweepers :
          WF_vars(Sweep(w)) /\ SF_vars(s_expired[w] # {} /\ SweepUpdate(w))
    /\ \A c \in Decides : WF_vars(Decide(c))

FairSpec == Spec /\ Fairness

-----------------------------------------------------------------------------
(* Properties                                                              *)

\* The type of every column and every call's locals.
TypeOK ==
    /\ dialect \in Dialects
    /\ clock \in Time
    /\ status \in [Ids -> Status]
    /\ tenant \in [Ids -> Tenants \cup {None}]
    /\ expires_at \in [Ids -> Time]
    /\ decided_at \in [Ids -> Time \cup {None}]
    /\ decided_by \in [Ids -> Users \cup {None}]
    /\ resume_ev \in [Ids -> Resumes \cup {None}]
    /\ d_pc \in [Decides -> {"idle", "called", "confirm", "won", "lost"}]
    /\ d_id \in [Decides -> Ids \cup {None}]
    /\ d_decision \in [Decides -> Decisions \cup {None}]
    /\ d_tenant \in [Decides -> Tenants \cup {None}]
    /\ d_ts \in [Decides -> Time]
    /\ r_pc \in [Resumes -> {"idle", "called", "refused", "ready", "replayed",
                             "failed", "resumed", "late"}]
    /\ r_id \in [Resumes -> Ids \cup {None}]
    /\ r_ts \in [Resumes -> Time]
    /\ s_pc \in [Sweepers -> {"idle", "called", "open"}]
    /\ s_ts \in [Sweepers -> Time]
    /\ s_ids \in [Sweepers -> SUBSET Ids]
    /\ s_expired \in [Sweepers -> SUBSET Ids]
    /\ aborts \in 0 .. MaxAborts

\* A caller that decide() answered with True finds its own decision under
\* its own name in the row from then on, whatever other approvers, the
\* sweep and the resume workers do (both dialects).
WonMeansDecided ==
    \A c \in Decides : d_pc[c] = "won" =>
        /\ decided_by[d_id[c]] = DeciderOf[c]
        /\ \/ status[d_id[c]] = d_decision[c]
           \/ status[d_id[c]] = "resumed" /\ d_decision[c] = "approved"

\* "Returns True iff we won the race": of all the decide() calls on a row at
\* most one is answered with True.
OneWinner ==
    \A c, d \in Decides :
        d_pc[c] = "won" /\ d_pc[d] = "won" /\ d_id[c] = d_id[d] => c = d

\* A decide() call that names a tenant is answered with False on the rows of
\* every other tenant, with no window between the check and the write.
TenantScoped ==
    \A c \in Decides :
        d_pc[c] = "won" /\ d_tenant[c] # None => d_tenant[c] = tenant[d_id[c]]

\* The answer of decide() means what its docstring says wherever it comes from
\* RETURNING: one True per row, and none across tenants.
ReturningDecides == Returning => OneWinner /\ TenantScoped

\* Expiry and decision exclude each other although the approvers and the
\* sweep judge the time by clocks they read earlier: a row carries a
\* decision made before its expiry, or it expired undecided and overdue.
ExpiryRespected ==
    \A id \in Ids :
        /\ status[id] \in {"approved", "denied", "resumed"} =>
              decided_at[id] # None /\ decided_at[id] < expires_at[id]
        /\ status[id] = "expired" =>
              decided_by[id] = None /\ expires_at[id] <= clock

\* Whatever a resume attempt has let through stays approved: a request that
\* was denied, that expired or that nobody decided is never replayed.
ReplayApproved ==
    \A r \in Resumes :
        r_pc[r] \in {"ready", "replayed", "failed", "resumed", "late"} =>
            status[r_id[r]] \in {"approved", "resumed"}

\* mark_resumed answers True to one attempt per row, and the row links that
\* attempt's evidence for ever.
OneResume ==
    /\ \A r \in Resumes : r_pc[r] = "resumed" => resume_ev[r_id[r]] = r
    /\ \A id \in Ids : status[id] = "resumed" <=> resume_ev[id] # None
\* However many rows are overdue and however small the batch, a row that
\* nobody decides does not stay pending: a sweep reaches it.
PendingResolved ==
    \A id \in Ids : status[id] = "pending" ~> status[id] # "pending"

\* The table is an approval lifecycle (HitlLifecycle): the row's status and
\* decider, with the calls, the clocks, the locks and the batches hidden.
Lifecycle == INSTANCE HitlLifecycle WITH state <- status, decider <- decided_by

ImplementsLifecycle == Lifecycle!Spec

-----------------------------------------------------------------------------
(* The strengthening of the safety properties that is inductive.           *)

\* A row shows a decision exactly when it is past one, made by a clock that
\* had not passed; its expiry was set when it was inserted.
RowsConsistent ==
    \A id \in Ids :
        /\ status[id] \in {"approved", "denied", "resumed"} <=> decided_by[id] # None
        /\ decided_by[id] # None <=> decided_at[id] # None
        /\ decided_at[id] # None => decided_at[id] < expires_at[id]
        /\ status[id] = "resumed" <=> resume_ev[id] # None
        /\ status[id] = "expired" => expires_at[id] <= clock

\* What a sweep has updated is still pending (its lock keeps it so) and was
\* overdue by a clock reading that has passed; what it selected existed and
\* was overdue.
SweepsConsistent ==
    \A w \in Sweepers :
        /\ s_ts[w] <= clock
        /\ s_pc[w] # "open" => s_ids[w] = {} /\ s_expired[w] = {}
        /\ \A id \in s_ids[w] : status[id] # "absent" /\ expires_at[id] <= s_ts[w]
        /\ \A id \in s_expired[w] : status[id] = "pending" /\ expires_at[id] <= s_ts[w]
        /\ \A v \in Sweepers : v # w => s_expired[v] \cap s_expired[w] = {}

\* A call past its first step has its arguments.
CallsConsistent ==
    /\ \A c \in Decides :
          /\ d_pc[c] # "idle" => d_id[c] \in Ids /\ d_decision[c] \in Decisions
          /\ d_pc[c] # "idle" => status[d_id[c]] # "absent"
          /\ d_pc[c] = "confirm" => ~ Returning
    /\ \A r \in Resumes : r_pc[r] # "idle" => r_id[r] \in Ids

IInv ==
    /\ RowsConsistent
    /\ SweepsConsistent
    /\ CallsConsistent
    /\ WonMeansDecided
    /\ ReturningDecides
    /\ ReplayApproved
    /\ OneResume
=============================================================================
