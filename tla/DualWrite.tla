------------------------------ MODULE DualWrite ------------------------------
(***************************************************************************)
(* The dual-write sink (kya/dualwrite.py, kya/_emit.py): recorders hand    *)
(* rows to a bounded queue, a worker thread posts them in batches with     *)
(* retries and a circuit breaker, and enable, disable and the exit of the  *)
(* process shut a sink down.  Rows of tables that are not allow-listed and *)
(* rows that cannot be redacted never get here; time is left out: waits    *)
(* end at any moment.                                                      *)
(***************************************************************************)
EXTENDS Integers, FiniteSets, SequencesExt

CONSTANTS
    MaxRows,       \* bound on the rows; they are numbered as their recorders begin
    MaxSinks,      \* bound on the sinks that enable_dual_write creates
    QueueMax, BatchMax, MaxRetries,
    Threshold,     \* breaker_failure_threshold
    None

BoundsAssumption ==
    /\ MaxRows \in Nat /\ MaxSinks \in Nat /\ QueueMax \in Nat /\ MaxRetries \in Nat
    /\ BatchMax \in Nat \ {0} /\ Threshold \in Nat \ {0}

VARIABLES
    active,        \* _ACTIVE, the last sink enabled, or 0
    emitter,       \* the sink that recorders hand to, or 0
    queue,         \* of each sink: rows and wake-ups
    stopped,       \* _stop
    open,          \* the breaker is open
    failures,      \* _consecutive_failures
    w_pc, batch, attempt,   \* the worker of each sink
    m_pc, m_op,    \* enable, disable or the exit in progress (_ACTIVE_LOCK)
    e_sink,        \* of each row: the sink its recorder hands it to
    outcome,       \* what the counters say of a row, or None
    accepted,      \* history: the rows in the order they were queued
    received       \* rows as they arrived at the collector

queues == <<queue, stopped>>
breaker == <<open, failures>>
worker == <<w_pc, batch, attempt>>
manager == <<active, emitter, m_pc, m_op>>
rows == <<e_sink, outcome, accepted>>
vars == <<queues, breaker, worker, manager, rows, received>>

Rows == 1..MaxRows
Sinks == 1..MaxSinks
Wake == 0
Settled == {"ok", "bad_request", "failed"}
Counted == {"not_watched", "breaker_open", "queue_full"} \cup Settled
Ops == {"enable", "disable", "exit"}
NoneAssumption == None \notin Int \cup Counted \cup Ops \cup {"emitted"}

Init ==
    /\ active = 0 /\ emitter = 0
    /\ queue = [s \in Sinks |-> <<>>]
    /\ stopped = [s \in Sinks |-> FALSE]
    /\ open = [s \in Sinks |-> FALSE]
    /\ failures = [s \in Sinks |-> 0]
    /\ w_pc = [s \in Sinks |-> "new"]
    /\ batch = [s \in Sinks |-> <<>>]
    /\ attempt = [s \in Sinks |-> 0]
    /\ m_pc = "idle" /\ m_op = None
    /\ e_sink = [r \in Rows |-> None]
    /\ outcome = [r \in Rows |-> None]
    /\ accepted = <<>> /\ received = <<>>
-----------------------------------------------------------------------------
(* A recorder: the emitter and the breaker are read without a lock, ...    *)
Emit(r) ==
    /\ e_sink[r] = None /\ m_pc # "exited"
    /\ r # 1 => e_sink[r - 1] # None
    /\ e_sink' = [e_sink EXCEPT ![r] = emitter]
    /\ outcome' = [outcome EXCEPT ![r] =
            IF emitter = 0 THEN "not_watched"
            ELSE IF open[emitter] THEN "breaker_open" ELSE None]
    /\ UNCHANGED <<queues, breaker, worker, manager, accepted, received>>

\* ... and the row is put, or dropped where the queue is full.
Put(r, s) ==
    /\ e_sink[r] = s /\ outcome[r] = None
    /\ IF Len(queue[s]) < QueueMax
       THEN /\ queue' = [queue EXCEPT ![s] = Append(@, r)]
            /\ accepted' = Append(accepted, r)
            /\ outcome' = [outcome EXCEPT ![r] = "emitted"]
       ELSE /\ outcome' = [outcome EXCEPT ![r] = "queue_full"]
            /\ UNCHANGED <<queue, accepted>>
    /\ UNCHANGED <<stopped, breaker, worker, manager, e_sink, received>>
-----------------------------------------------------------------------------
(* The worker.                                                             *)
Step(s, from, to) == w_pc[s] = from /\ w_pc' = [w_pc EXCEPT ![s] = to]

\* After each batch _run looks at _stop.
NextRound(s) == IF stopped[s] THEN "ended" ELSE "collect"

\* _collect_batch takes a row, or the wake-up, which ends the batch.
Take(s) ==
    /\ queue[s] # <<>>
    /\ queue' = [queue EXCEPT ![s] = Tail(@)]
    /\ IF Head(queue[s]) = Wake
       THEN /\ Step(s, "collect", IF batch[s] = <<>> THEN NextRound(s) ELSE "send")
            /\ UNCHANGED batch
       ELSE /\ batch' = [batch EXCEPT ![s] = Append(@, Head(queue[s]))]
            /\ Step(s, "collect", IF Len(batch'[s]) = BatchMax THEN "send" ELSE "collect")
    /\ UNCHANGED <<stopped, breaker, attempt, manager, rows, received>>

\* The flush interval is over.
Flush(s) ==
    /\ batch[s] = <<>> => queue[s] = <<>>
    /\ Step(s, "collect", IF batch[s] = <<>> THEN NextRound(s) ELSE "send")
    /\ UNCHANGED <<queues, breaker, batch, attempt, manager, rows, received>>

\* The batch is over and done with.
Done(s) ==
    /\ batch' = [batch EXCEPT ![s] = <<>>]
    /\ attempt' = [attempt EXCEPT ![s] = 0]

\* Seeded fault: of a batch only the first row is counted.
CountsFirst(s, how) == outcome' = [outcome EXCEPT ![batch[s][1]] = how]

Counts(s, how) ==
    outcome' = [r \in Rows |-> IF r \in Range(batch[s]) THEN how ELSE outcome[r]]

Arrives(s) == received' = received \o batch[s]

\* Once the sink is stopped nothing is posted any more: the batch is dropped where it
\* stands, before a post or in its backoff, and nothing counts its rows.
Sends(s) == ~ stopped[s]

Send(s) ==
    /\ w_pc[s] \in {"send", "backoff"}
    /\ IF Sends(s)
       THEN w_pc' = [w_pc EXCEPT ![s] = "post"] /\ UNCHANGED <<batch, attempt>>
       ELSE w_pc' = [w_pc EXCEPT ![s] = NextRound(s)] /\ Done(s)
    /\ UNCHANGED <<queues, breaker, manager, rows, received>>

PostOk(s) ==
    /\ Step(s, "post", NextRound(s)) /\ Done(s)
    /\ Arrives(s) /\ Counts(s, "ok")
    /\ failures' = [failures EXCEPT ![s] = 0]
    /\ UNCHANGED <<queues, open, manager, e_sink, accepted>>

\* 4xx: not retried, and not a failure to the breaker.
PostRefused(s) ==
    /\ Step(s, "post", NextRound(s)) /\ Done(s)
    /\ Counts(s, "bad_request")
    /\ UNCHANGED <<queues, breaker, manager, e_sink, accepted, received>>

\* 5xx, 429 or no answer, whether or not the rows arrived.
Unanswered(s) == Arrives(s) \/ UNCHANGED received

PostFails(s) ==
    /\ attempt[s] < MaxRetries
    /\ Step(s, "post", "backoff")
    /\ Unanswered(s)
    /\ attempt' = [attempt EXCEPT ![s] = @ + 1]
    /\ UNCHANGED <<queues, breaker, batch, manager, rows>>

\* Seeded fault: the breaker opens and the count goes on.
BatchFailsOn(s) ==
    /\ attempt[s] = MaxRetries
    /\ Step(s, "post", NextRound(s)) /\ Done(s)
    /\ Unanswered(s) /\ Counts(s, "failed")
    /\ failures' = [failures EXCEPT ![s] = @ + 1]
    /\ open' = [open EXCEPT ![s] = @ \/ failures[s] + 1 >= Threshold]
    /\ UNCHANGED <<queues, manager, e_sink, accepted>>

\* _note_failure, after the last retry.
BatchFails(s) ==
    /\ attempt[s] = MaxRetries
    /\ Step(s, "post", NextRound(s)) /\ Done(s)
    /\ Unanswered(s) /\ Counts(s, "failed")
    /\ IF failures[s] + 1 >= Threshold
       THEN failures' = [failures EXCEPT ![s] = 0] /\ open' = [open EXCEPT ![s] = TRUE]
       ELSE failures' = [failures EXCEPT ![s] = @ + 1] /\ UNCHANGED open
    /\ UNCHANGED <<queues, manager, e_sink, accepted>>

CoolDown(s) ==
    /\ open[s]
    /\ open' = [open EXCEPT ![s] = FALSE]
    /\ UNCHANGED <<queues, failures, worker, manager, rows, received>>

Work(s) ==
    m_pc # "exited"
    /\ (Take(s) \/ Flush(s) \/ Send(s) \/ PostOk(s) \/ PostRefused(s)
        \/ PostFails(s) \/ BatchFails(s))
-----------------------------------------------------------------------------
(* enable_dual_write, disable_dual_write, and the hook at the exit.        *)
Alive == w_pc[active] # "ended"

Begin(op) ==
    /\ m_pc = "idle"
    /\ op = "enable" => active < MaxSinks
    /\ m_op' = op
    /\ m_pc' = IF emitter = 0 THEN "finish" ELSE "stop"
    /\ emitter' = IF op = "disable" THEN 0 ELSE emitter
    /\ UNCHANGED <<queues, breaker, worker, active, rows, received>>

Stop ==
    /\ m_pc = "stop" /\ m_pc' = "drain"
    /\ stopped' = [stopped EXCEPT ![active] = TRUE]
    /\ UNCHANGED <<queue, breaker, worker, active, emitter, m_op, rows, received>>

\* The queue is emptied by batches, which _send_with_retry does not post, until it is
\* empty or the time is up.
Drain ==
    /\ m_pc = "drain" /\ queue[active] # <<>>
    /\ LET taken == IF Len(queue[active]) < BatchMax THEN Len(queue[active]) ELSE BatchMax
       IN queue' = [queue EXCEPT ![active] = SubSeq(@, taken + 1, Len(@))]
    /\ UNCHANGED <<stopped, breaker, worker, manager, rows, received>>

DrainEnds ==
    /\ m_pc = "drain" /\ m_pc' = "finish"
    /\ queue' = IF Alive /\ Len(queue[active]) < QueueMax
                THEN [queue EXCEPT ![active] = Append(@, Wake)] ELSE queue
    /\ UNCHANGED <<stopped, breaker, worker, active, emitter, m_op, rows, received>>

\* The worker has been joined, or the timeout of the join is over.
Finish ==
    /\ m_pc = "finish"
    /\ m_pc' = IF m_op = "exit" THEN "exited" ELSE "idle"
    /\ m_op' = None
    /\ IF m_op = "enable"
       THEN /\ active' = active + 1 /\ emitter' = active + 1
            /\ w_pc' = [w_pc EXCEPT ![active + 1] = "collect"]
       ELSE UNCHANGED <<active, emitter, w_pc>>
    /\ UNCHANGED <<queues, breaker, batch, attempt, rows, received>>

Manage == Stop \/ Drain \/ DrainEnds \/ Finish
-----------------------------------------------------------------------------
Next ==
    \/ \E r \in Rows : Emit(r) \/ \E s \in Sinks : Put(r, s)
    \/ \E s \in Sinks : Work(s) \/ CoolDown(s)
    \/ \E op \in Ops : Begin(op)
    \/ Manage

\* Threads run; a post ends by its timeout, a wait by its own.
Fairness ==
    /\ \A s \in Sinks : WF_vars(Work(s))
    /\ WF_vars(Manage)

Spec == Init /\ [][Next]_vars
FairSpec == Spec /\ Fairness
-----------------------------------------------------------------------------
TypeOK ==
    /\ active \in 0..MaxSinks /\ emitter \in {0, active}
    /\ queue \in [Sinks -> Seq(Rows \cup {Wake})]
    /\ \A s \in Sinks : Len(queue[s]) <= QueueMax /\ Len(batch[s]) <= BatchMax
    /\ stopped \in [Sinks -> BOOLEAN] /\ open \in [Sinks -> BOOLEAN]
    /\ failures \in [Sinks -> 0..(Threshold - 1)]
    /\ w_pc \in [Sinks -> {"new", "collect", "send", "post", "backoff", "ended"}]
    /\ batch \in [Sinks -> Seq(Rows)] /\ attempt \in [Sinks -> 0..MaxRetries]
    /\ m_pc \in {"idle", "stop", "drain", "finish", "exited"}
    /\ m_op \in Ops \cup {None} /\ e_sink \in [Rows -> 0..MaxSinks \cup {None}]
    /\ outcome \in [Rows -> Counted \cup {None, "emitted"}]
    /\ accepted \in Seq(Rows) /\ received \in Seq(Rows)

Holds(s, r) == r \in Range(queue[s]) \cup Range(batch[s])

\* A row that was accepted and that no counter has settled is on its way, in the sink
\* that accepted it and in no other, unless that sink was stopped.
LostOnlyAtShutdown ==
    \A r \in Rows : outcome[r] = "emitted" =>
        /\ Holds(e_sink[r], r) \/ stopped[e_sink[r]]
        /\ \A s \in Sinks \ {e_sink[r]} : ~ Holds(s, r)

\* "Drops are visible via counters": an accepted row is on its way or counted.
DropsCounted ==
    \A r \in Rows : outcome[r] = "emitted" => Holds(e_sink[r], r)

\* What the counters call sent has arrived; a row arrives at most once per attempt,
\* however often the answer is lost; and the rows of one sink arrive for the first
\* time in the order in which they were queued, whoever empties the queue meanwhile.
Arrivals(r) == {i \in DOMAIN received : received[i] = r}
First(r) == CHOOSE i \in Arrivals(r) : \A j \in Arrivals(r) : i <= j
ArrivalsHonest ==
    /\ \A r \in Rows :
        /\ outcome[r] = "ok" => Arrivals(r) # {}
        /\ Cardinality(Arrivals(r)) <= MaxRetries + 1
    /\ \A i, j \in DOMAIN accepted :
        LET q == accepted[i] r == accepted[j]
        IN  (i < j /\ e_sink[q] = e_sink[r] /\ Arrivals(q) # {} /\ Arrivals(r) # {}) =>
                First(q) < First(r)

SinkAccounts == LostOnlyAtShutdown /\ ArrivalsHonest

\* A row that was accepted is settled, unless its sink is stopped; and the worker of a
\* stopped sink ends.
Unsettled ==
    \/ \E r \in Rows : outcome[r] = "emitted" /\ ~ stopped[e_sink[r]]
    \/ \E s \in Sinks : stopped[s] /\ w_pc[s] # "ended" /\ m_pc # "exited"
RowsSettle == Unsettled ~> ~ Unsettled
-----------------------------------------------------------------------------
(* What makes it inductive.                                                *)

\* A row is accepted once, and its outcome says so.
AcceptedOnce ==
    /\ \A i, j \in DOMAIN accepted : accepted[i] = accepted[j] => i = j
    /\ \A r \in Rows :
        /\ outcome[r] \in Settled \cup {"emitted"} <=> \E i \in DOMAIN accepted : accepted[i] = r
        /\ outcome[r] \in Settled \cup {"emitted"} => e_sink[r] \in Sinks
        /\ e_sink[r] = None => outcome[r] = None

\* What a sink holds is its own and not settled; its batch comes before its queue, and
\* both are in the order in which the rows were accepted.
Mine(s, r) == r \in Rows /\ e_sink[r] = s /\ outcome[r] = "emitted"
Before(q, r) == \E i, j \in DOMAIN accepted : i < j /\ accepted[i] = q /\ accepted[j] = r
HeldInOrder ==
    \A s \in Sinks :
        /\ \A i \in DOMAIN batch[s] : Mine(s, batch[s][i])
        /\ \A j \in DOMAIN queue[s] : queue[s][j] # Wake =>
            /\ Mine(s, queue[s][j])
            /\ \A i \in DOMAIN batch[s] : Before(batch[s][i], queue[s][j])
        /\ \A i, j \in DOMAIN batch[s] : i < j => Before(batch[s][i], batch[s][j])
        /\ \A i, j \in DOMAIN queue[s] :
            (i < j /\ queue[s][i] # Wake /\ queue[s][j] # Wake) =>
                Before(queue[s][i], queue[s][j])

\* A row arrives with its batch only, at most once per attempt, and none has overtaken
\* a row of its sink that is held and has not arrived.
Came(r) == Arrivals(r) # {}
ArrivedWithBatch ==
    /\ \A i \in DOMAIN received : \E j \in DOMAIN accepted : accepted[j] = received[i]
    /\ \A s \in Sinks :
        /\ \A j \in DOMAIN queue[s] : queue[s][j] # Wake => ~ Came(queue[s][j])
        /\ \A i \in DOMAIN batch[s] :
            /\ Cardinality(Arrivals(batch[s][i])) <= attempt[s]
            /\ \A j \in DOMAIN batch[s] : Came(batch[s][i]) => Came(batch[s][j])
    /\ \A r \in Rows :
        /\ outcome[r] = "ok" => Came(r)
        /\ Cardinality(Arrivals(r)) <= MaxRetries + 1
ArrivedInOrder ==
    \A q, r \in Rows : (Before(q, r) /\ e_sink[q] = e_sink[r] /\ Came(r)) =>
        /\ \A s \in Sinks : Holds(s, q) => Came(q)
        /\ Came(q) => \E i \in Arrivals(q) : \A j \in Arrivals(r) : i < j

\* A worker that collects or has ended has sent its batch or given it up, and a sink
\* that is yet to be enabled has none.
WorkersInStep ==
    \A s \in Sinks :
        /\ w_pc[s] \in {"new", "collect", "ended"} => attempt[s] = 0
        /\ w_pc[s] \in {"new", "ended"} => batch[s] = <<>>
        /\ w_pc[s] = "collect" => Len(batch[s]) < BatchMax
        /\ s > active => w_pc[s] = "new"

\* The active sink is stopped before it is drained.
ManagerInStep ==
    /\ m_pc \in {"stop", "drain"} => active # 0
    /\ m_pc = "drain" => stopped[active]
    /\ (m_pc # "idle" /\ m_op = "enable") => active < MaxSinks

SinkInv ==
    /\ TypeOK /\ AcceptedOnce /\ HeldInOrder /\ ArrivedWithBatch /\ ArrivedInOrder
    /\ WorkersInStep /\ ManagerInStep /\ LostOnlyAtShutdown
=============================================================================
