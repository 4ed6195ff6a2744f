----------------------------- MODULE PhoenixPoll -----------------------------
(***************************************************************************)
(* The thread that polls Phoenix for evaluations and counts those that     *)
(* flag an agent (kya/phoenix_poll.py): from a cursor kept in Valkey, with *)
(* a window where there is none, and the start and stop of that thread     *)
(* through two globals of its process.                                     *)
(***************************************************************************)
EXTENDS Integers, FiniteSets

CONSTANTS
    Evals,
    TimeOf,      \* Evals -> its end_time, None for none that can be read
    FlagsOf,     \* Evals -> {"flagged", "passed", "nobody"}: above its threshold or not,
                 \* "nobody" for a span that names no agent
    Processes,
    Threads,     \* bound: threads that are started
    Stores,      \* subset of BOOLEAN: whether the process can reach Valkey (db.redis)
    Window,      \* window_minutes
    MaxPolls,    \* bound on polls
    MaxFaults,   \* bound on crashes, rows that break and cursor accesses that fail
    Horizon,     \* bound: the clock stops here
    None

EvalsAssumption ==
    /\ TimeOf \in [Evals -> Nat \cup {None}]
    /\ FlagsOf \in [Evals -> {"flagged", "passed", "nobody"}]
NumbersAssumption ==
    /\ Stores \subseteq BOOLEAN /\ None \notin Nat
    /\ {Window, MaxPolls, MaxFaults, Horizon} \subseteq Nat

VARIABLES
    now,
    visible,     \* evaluations Phoenix has
    keeps,       \* constant: whether there is a cursor
    cursor,      \* the cursor in Valkey
    event,       \* _poll_stop_event of a process: None, "clear" or "set"
    thread,      \* _poll_thread of a process, None for none
    stopping,    \* processes in stop_phoenix_poll_thread
    home,        \* process of a thread, None before its start
    pc,
    since,       \* cursor a poll works from
    latest,      \* latest time it has met
    batch,       \* what it fetched and has not come to
    count,       \* times an evaluation was counted
    polls, faults,
    overlapped,  \* history: two polls were under way at once
    shaken,      \* history: a fault has struck
    abandoned,   \* history: processes where stop gave up waiting for the thread
    handled,     \* history: evaluations a finished poll has come to
    late,        \* history: those that came after another that is no older
    old,         \* history: those older than the window of a poll without cursor
    broken       \* history: those that a poll stumbled over

clocks == <<now, visible, keeps>>
control == <<event, thread, stopping, home, abandoned>>
work == <<cursor, since, latest, batch, count>>
tale == <<polls, faults, overlapped, shaken, handled, late, old, broken>>
vars == <<clocks, control, work, tale, pc>>

Timed(e) == TimeOf[e] # None
Polling(t) == pc[t] \in {"fetch", "rows"}
Alive(t) == Polling(t) \/ pc[t] \in {"loop", "sleep"}

Init ==
    /\ now = 0 /\ visible = {} /\ keeps \in Stores /\ cursor = None
    /\ event = [p \in Processes |-> None] /\ thread = [p \in Processes |-> None]
    /\ stopping = {} /\ home = [t \in Threads |-> None]
    /\ pc = [t \in Threads |-> "new"]
    /\ since = [t \in Threads |-> None] /\ latest = [t \in Threads |-> None]
    /\ batch = [t \in Threads |-> {}] /\ count = [e \in Evals |-> 0]
    /\ polls = 0 /\ faults = 0 /\ overlapped = FALSE /\ shaken = FALSE
    /\ abandoned = {} /\ handled = {} /\ late = {} /\ old = {} /\ broken = {}

Go(t, step) == pc' = [pc EXCEPT ![t] = step]
Fault == faults < MaxFaults /\ faults' = faults + 1 /\ shaken' = TRUE
NoFault == UNCHANGED <<faults, shaken>>

Tick ==
    /\ now < Horizon /\ now' = now + 1
    /\ UNCHANGED <<visible, keeps, control, work, tale, pc>>

\* An evaluation is there once its span has ended, or any time later.
Appear(e) ==
    /\ e \notin visible /\ (Timed(e) => TimeOf[e] <= now)
    /\ visible' = visible \cup {e}
    /\ late' = IF Timed(e) /\ \E f \in visible : Timed(f) /\ TimeOf[f] >= TimeOf[e]
               THEN late \cup {e} ELSE late
    /\ UNCHANGED <<now, keeps, control, work, polls, faults, overlapped, shaken, handled,
                   old, broken, pc>>
-----------------------------------------------------------------------------
(* The thread                                                              *)

\* start_phoenix_poll_thread: nothing while the thread of the process is alive.
Start(p) ==
    /\ p \notin stopping
    /\ thread[p] # None => ~ Alive(thread[p])
    /\ \E t \in Threads :
        /\ pc[t] = "new" /\ \A other \in Threads : pc[other] = "new" => t <= other
        /\ event' = [event EXCEPT ![p] = "clear"]
        /\ thread' = [thread EXCEPT ![p] = t]
        /\ home' = [home EXCEPT ![t] = p]
        /\ Go(t, "loop")
    /\ UNCHANGED <<clocks, stopping, abandoned, work, tale>>

StopSet(p) ==
    /\ p \notin stopping /\ event[p] # None
    /\ event' = [event EXCEPT ![p] = "set"]
    /\ stopping' = stopping \cup {p}
    /\ UNCHANGED <<clocks, thread, home, abandoned, work, tale, pc>>

\* join waits for five seconds at most, which a poll may take longer than; then the
\* globals are dropped, with the thread alive or not.
StopEnds(p) ==
    /\ p \in stopping
    /\ ~ Alive(thread[p]) \/ Polling(thread[p])
    /\ abandoned' = IF Alive(thread[p]) THEN abandoned \cup {p} ELSE abandoned
    /\ event' = [event EXCEPT ![p] = None] /\ thread' = [thread EXCEPT ![p] = None]
    /\ stopping' = stopping \ {p}
    /\ UNCHANGED <<clocks, home, work, tale, pc>>

From(t, time) ==
    /\ since' = [since EXCEPT ![t] = time] /\ latest' = [latest EXCEPT ![t] = time]
    /\ UNCHANGED old

\* Without a cursor a poll goes back Window.
FromWindow(t) ==
    /\ since' = [since EXCEPT ![t] = now - Window]
    /\ latest' = [latest EXCEPT ![t] = now - Window]
    /\ old' = old \cup {e \in Evals : Timed(e) /\ TimeOf[e] <= now - Window}

\* The loop looks at the event that is in the global now: that of its stop, of a later
\* start, or none, which ends it with an AttributeError.
Loop(t) ==
    LET ev == event[home[t]]
    IN  /\ pc[t] = "loop" /\ (ev = "clear" => polls < MaxPolls)
        /\ IF ev = "clear"
           THEN /\ \/ keeps /\ cursor # None /\ From(t, cursor) /\ NoFault
                   \/ keeps /\ cursor # None /\ FromWindow(t) /\ Fault
                   \/ (keeps => cursor = None) /\ FromWindow(t) /\ NoFault
                /\ polls' = polls + 1
                /\ overlapped' = (overlapped \/ \E u \in Threads : Polling(u))
                /\ Go(t, "fetch")
           ELSE Go(t, "ended") /\ UNCHANGED <<since, latest, old, polls, overlapped>> /\ NoFault
        /\ UNCHANGED <<clocks, control, cursor, batch, count, handled, late, broken>>

\* ... and again when it has slept.
Wake(t) ==
    /\ pc[t] = "sleep"
    /\ Go(t, IF event[home[t]] = None THEN "ended" ELSE "loop")
    /\ UNCHANGED <<clocks, control, work, tale>>

\* The process dies: its threads and globals go.
Crash(p) ==
    /\ \E t \in Threads : home[t] = p /\ Polling(t)
    /\ Fault
    /\ pc' = [t \in Threads |-> IF home[t] = p THEN "ended" ELSE pc[t]]
    /\ event' = [event EXCEPT ![p] = None] /\ thread' = [thread EXCEPT ![p] = None]
    /\ stopping' = stopping \ {p}
    /\ since' = [t \in Threads |-> IF home[t] = p THEN None ELSE since[t]]
    /\ latest' = [t \in Threads |-> IF home[t] = p THEN None ELSE latest[t]]
    /\ batch' = [t \in Threads |-> IF home[t] = p THEN {} ELSE batch[t]]
    /\ UNCHANGED <<clocks, home, abandoned, cursor, count, polls, overlapped, handled, late,
                   old, broken>>
-----------------------------------------------------------------------------
(* poll_phoenix_evals                                                      *)

\* All that Phoenix has is fetched, or nothing if it does not answer.
Fetch(t) ==
    /\ pc[t] = "fetch"
    /\ \E fetched \in {visible, {}} : batch' = [batch EXCEPT ![t] = fetched]
    /\ Go(t, "rows")
    /\ UNCHANGED <<clocks, control, cursor, since, latest, count, tale>>

\* What is not after the cursor was counted before.
Processed(t, e) == Timed(e) /\ TimeOf[e] <= since[t]

\* In the order Phoenix returns them, which may be any.
Row(t) ==
    /\ pc[t] = "rows"
    /\ \E e \in batch[t] :
        LET taken == ~ Processed(t, e) /\ FlagsOf[e] # "nobody"
        IN  /\ batch' = [batch EXCEPT ![t] = @ \ {e}]
            /\ count' = IF taken /\ FlagsOf[e] = "flagged"
                        THEN [count EXCEPT ![e] = @ + 1] ELSE count
            /\ latest' = IF taken /\ Timed(e) /\ TimeOf[e] > latest[t]
                         THEN [latest EXCEPT ![t] = TimeOf[e]] ELSE latest
    /\ UNCHANGED <<clocks, control, cursor, since, tale, pc>>

\* The exception of a row is logged, and the loop goes on with the next.
RowFails(t) ==
    /\ pc[t] = "rows" /\ faults < MaxFaults
    /\ faults' = faults + 1
    /\ \E e \in batch[t] :
        /\ batch' = [batch EXCEPT ![t] = @ \ {e}]
        /\ broken' = broken \cup {e}
    /\ UNCHANGED <<clocks, control, cursor, since, latest, count, polls, overlapped, shaken,
                   handled, late, old, pc>>

\* The cursor is written last, if it moved at all, over whatever is there.
Save(t) ==
    /\ pc[t] = "rows" /\ batch[t] = {}
    /\ IF keeps /\ latest[t] # since[t]
       THEN \/ cursor' = latest[t] /\ NoFault
            \/ UNCHANGED cursor /\ Fault
       ELSE UNCHANGED cursor /\ NoFault
    /\ handled' = handled \cup {e \in visible : Timed(e) /\ TimeOf[e] <= latest[t]}
    /\ since' = [since EXCEPT ![t] = None] /\ latest' = [latest EXCEPT ![t] = None]
    /\ Go(t, "sleep")
    /\ UNCHANGED <<clocks, control, batch, count, polls, overlapped, late, old, broken>>

Next ==
    \/ Tick
    \/ \E e \in Evals : Appear(e)
    \/ \E p \in Processes : Start(p) \/ StopSet(p) \/ StopEnds(p) \/ Crash(p)
    \/ \E t \in Threads : Loop(t) \/ Wake(t) \/ Fetch(t) \/ Row(t) \/ RowFails(t) \/ Save(t)

Spec == Init /\ [][Next]_vars
-----------------------------------------------------------------------------
TypeOK ==
    /\ now \in 0..Horizon /\ visible \subseteq Evals /\ keeps \in Stores
    /\ cursor \in Int \cup {None}
    /\ event \in [Processes -> {None, "clear", "set"}]
    /\ thread \in [Processes -> Threads \cup {None}]
    /\ home \in [Threads -> Processes \cup {None}]
    /\ pc \in [Threads -> {"new", "loop", "fetch", "rows", "sleep", "ended"}]
    /\ count \in [Evals -> Nat] /\ \A t \in Threads : batch[t] \subseteq visible
    /\ polls \in 0..MaxPolls /\ faults \in 0..MaxFaults

\* An evaluation with a time is counted once as long as the cursor is kept, nothing fails
\* and no two polls run at once.
CountedOnce ==
    (keeps /\ ~ overlapped /\ ~ shaken) =>
        \A e \in Evals : Timed(e) => count[e] <= 1

\* One that a poll has left behind its cursor without counting it came after another that
\* was no older, was older than the window of a poll that had no cursor, or broke its row.
MissedExplained ==
    \A e \in handled :
        (FlagsOf[e] = "flagged" /\ count[e] = 0) => e \in late \cup old \cup broken

\* Two threads of one process poll, one after the other or at once, only where a stop
\* gave up waiting for the first.
OneLoop ==
    \A t \in Threads, u \in Threads :
        (t # u /\ home[t] = home[u] /\ Alive(t) /\ Alive(u)) => home[t] \in abandoned

PollKept == CountedOnce /\ MissedExplained /\ OneLoop
=============================================================================
