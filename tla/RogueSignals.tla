---------------------------- MODULE RogueSignals ----------------------------
(***************************************************************************)
(* A rogue event (record_data_leak, record_oos_tool_attempt and their like *)
(* in kya/rogue.py): it is counted in the windows of kya/realtime.py, and  *)
(* then mirrored, over one session, onto the trust rows of everyone it is  *)
(* attributed to: the agent that did it, the invoking user (in the table   *)
(* of kya/users.py and in that of the principals) and the agent that drove *)
(* it.  Each mirror may fail, and the event must go on.                    *)
(*                                                                         *)
(* One tenant and one kind of event.  What a signal does to a row of       *)
(* principals is PrincipalTrust; here it is one step.                      *)
(***************************************************************************)
EXTENDS Integers, FiniteSets

CONSTANTS
    Reports,       \* events
    SubjectOf,     \* agent_key, by event
    UserOf,        \* user_id, None for none
    ActorOf,       \* actor_agent_key, None for none
    Windows,       \* [span, life]: a window and the lifetime of its key
    Dialects,
    MaxFaults,     \* bound: failed writes
    Horizon,       \* bound: the clock stops here
    None

Agents == {SubjectOf[r] : r \in Reports}
Users == {UserOf[r] : r \in Reports} \ {None}
Principals ==
    ({"agent"} \X (Agents \cup ({ActorOf[r] : r \in Reports} \ {None}))) \cup ({"user"} \X Users)

ReportsAssumption ==
    /\ IsFiniteSet(Reports)
    /\ DOMAIN SubjectOf = Reports /\ DOMAIN UserOf = Reports /\ DOMAIN ActorOf = Reports
WindowsAssumption ==
    \A w \in Windows : w.span \in Nat /\ w.life \in Nat /\ w.life >= w.span /\ w.span > 0
NumbersAssumption == MaxFaults \in Nat /\ Horizon \in Nat /\ None \notin Nat

VARIABLES
    dialect,
    now,
    key,        \* kya:rogue:...: Agents -> Windows -> [n, until], n = 0 for no key
    pc,         \* of an event: the write that comes next
    spoilt,     \* the event's session has an aborted transaction
    read,       \* the user's count as read, None
    legacy,     \* signal_counts of kya_user_trust, by user
    tally,      \* signal_counts of kya_principal_trust
    counted,    \* when an event was counted in the windows, None if it was not
    hit,        \* writes that failed, as <<event, write>>
    crossed,    \* users whose count was written from a read that had become stale
    faults

counters == <<now, key, counted>>
rows == <<legacy, tally>>
vars == <<dialect, counters, pc, spoilt, read, rows, hit, crossed, faults>>

Init ==
    /\ dialect \in Dialects
    /\ now = 0
    /\ key = [a \in Agents |-> [w \in Windows |-> [n |-> 0, until |-> 0]]]
    /\ pc = [r \in Reports |-> "count"]
    /\ spoilt = [r \in Reports |-> FALSE]
    /\ read = [r \in Reports |-> None]
    /\ legacy = [u \in Users |-> 0]
    /\ tally = [p \in Principals |-> 0]
    /\ counted = [r \in Reports |-> None]
    /\ hit = {} /\ crossed = {} /\ faults = 0

Fault(r) == /\ faults < MaxFaults /\ faults' = faults + 1
            /\ hit' = hit \cup {<<r, pc[r]>>}
NoFault == UNCHANGED <<faults, hit>>

Tick == /\ now < Horizon /\ now' = now + 1
        /\ UNCHANGED <<dialect, key, counted, pc, spoilt, read, rows, hit, crossed, faults>>

\* Seeded fault: only the first event of a key sets its lifetime.
BumpedOnce(k, w) ==
    IF now < k.until THEN [k EXCEPT !.n = @ + 1] ELSE [n |-> 1, until |-> now + w.life]

\* INCR and EXPIRE of one key.
Bumped(k, w) == [n |-> IF now < k.until THEN k.n + 1 ELSE 1, until |-> now + w.life]

\* record_signal: the keys of all windows in one MULTI.
Count(r) ==
    /\ pc[r] = "count"
    /\ key' = [key EXCEPT ![SubjectOf[r]] = [w \in Windows |-> Bumped(@[w], w)]]
    /\ counted' = [counted EXCEPT ![r] = now]
    /\ pc' = [pc EXCEPT ![r] = "subject"]
    /\ NoFault /\ UNCHANGED <<dialect, now, spoilt, read, rows, crossed>>

CountFails(r) ==
    /\ pc[r] = "count" /\ Fault(r)
    /\ pc' = [pc EXCEPT ![r] = "subject"]
    /\ UNCHANGED <<dialect, counters, spoilt, read, rows, crossed>>

\* Seeded fault: an agent that drives itself is blamed twice.
ActorAlways(r) == ActorOf[r]

\* _emit_actor_agent_signal: not again if the actor is the subject.
Actor(r) == IF ActorOf[r] = SubjectOf[r] THEN None ELSE ActorOf[r]

AfterSubject(r) ==
    IF UserOf[r] # None THEN "legacy" ELSE IF Actor(r) # None THEN "actor" ELSE "done"
AfterUser(r) == IF Actor(r) # None THEN "actor" ELSE "done"

\* The principal that the next write is about, and what comes after it.
Blamed(r) ==
    CASE pc[r] = "subject" -> <<"agent", SubjectOf[r]>>
      [] pc[r] = "user" -> <<"user", UserOf[r]>>
      [] OTHER -> <<"agent", Actor(r)>>
Mirrored(r) ==
    /\ pc[r] \in {"subject", "user", "actor"}
    /\ pc' = [pc EXCEPT ![r] = CASE @ = "subject" -> AfterSubject(r)
                                 [] @ = "user" -> AfterUser(r)
                                 [] OTHER -> "done"]
    /\ spoilt' = [spoilt EXCEPT ![r] = FALSE]
    /\ UNCHANGED <<dialect, counters, read, legacy, crossed>>

\* record_principal_signal: in an aborted transaction its SELECT fails, which rolls back
\* and raises, and the event goes on with the next one.
Mirror(r) ==
    /\ Mirrored(r)
    /\ tally' = IF spoilt[r] THEN tally ELSE [tally EXCEPT ![Blamed(r)] = @ + 1]
    /\ NoFault

MirrorFails(r) == Mirrored(r) /\ Fault(r) /\ UNCHANGED tally

\* record_user_signal: one statement on PostgreSQL, elsewhere a read and a write.
UserUpsert(r) ==
    /\ pc[r] = "legacy" /\ dialect = "postgresql"
    /\ legacy' = [legacy EXCEPT ![UserOf[r]] = @ + 1]
    /\ pc' = [pc EXCEPT ![r] = "user"]
    /\ NoFault /\ UNCHANGED <<dialect, counters, spoilt, read, tally, crossed>>

UserRead(r) ==
    /\ pc[r] = "legacy" /\ dialect # "postgresql" /\ read[r] = None
    /\ read' = [read EXCEPT ![r] = legacy[UserOf[r]]]
    /\ NoFault /\ UNCHANGED <<dialect, counters, pc, spoilt, rows, crossed>>

UserWrite(r) ==
    LET u == UserOf[r]
    IN  /\ pc[r] = "legacy" /\ read[r] # None
        /\ legacy' = [legacy EXCEPT ![u] = read[r] + 1]
        /\ crossed' = IF read[r] = legacy[u] THEN crossed ELSE crossed \cup {u}
        /\ read' = [read EXCEPT ![r] = None]
        /\ pc' = [pc EXCEPT ![r] = "user"]
        /\ NoFault /\ UNCHANGED <<dialect, counters, spoilt, tally>>

\* The exception is swallowed, and the transaction is left as it is.
UserFails(r) ==
    /\ pc[r] = "legacy" /\ Fault(r)
    /\ spoilt' = [spoilt EXCEPT ![r] = (dialect = "postgresql")]
    /\ read' = [read EXCEPT ![r] = None]
    /\ pc' = [pc EXCEPT ![r] = "user"]
    /\ UNCHANGED <<dialect, counters, rows, crossed>>

Next ==
    \/ Tick
    \/ \E r \in Reports :
        \/ Count(r) \/ CountFails(r) \/ Mirror(r) \/ MirrorFails(r)
        \/ UserUpsert(r) \/ UserRead(r) \/ UserWrite(r) \/ UserFails(r)

Spec == Init /\ [][Next]_vars
-----------------------------------------------------------------------------
TypeOK ==
    /\ dialect \in Dialects /\ now \in 0..Horizon
    /\ key \in [Agents -> [Windows -> [n : 0..Cardinality(Reports), until : Nat]]]
    /\ pc \in [Reports -> {"count", "subject", "legacy", "user", "actor", "done"}]
    /\ spoilt \in [Reports -> BOOLEAN]
    /\ read \in [Reports -> (0..Cardinality(Reports)) \cup {None}]
    /\ legacy \in [Users -> 0..Cardinality(Reports)]
    /\ tally \in [Principals -> 0..Cardinality(Reports)]
    /\ counted \in [Reports -> (0..Horizon) \cup {None}]
    /\ crossed \subseteq Users /\ faults \in 0..MaxFaults

\* Whom an event is about, as its caller names them.
Accused(r) ==
    {<<"agent", SubjectOf[r]>>}
        \cup (IF UserOf[r] = None THEN {} ELSE {<<"user", UserOf[r]>>})
        \cup (IF ActorOf[r] = None THEN {} ELSE {<<"agent", ActorOf[r]>>})

\* Why an event is missing on a row: the write failed, or the one before it on PostgreSQL.
Missed(r, p) ==
    \/ p = <<"agent", SubjectOf[r]>> /\ <<r, "subject">> \in hit
    \/ p # <<"agent", SubjectOf[r]>> /\ p[1] = "agent" /\ <<r, "actor">> \in hit
    \/ p[1] = "user" /\ <<r, "user">> \in hit
    \/ p[1] = "user" /\ <<r, "legacy">> \in hit /\ dialect = "postgresql"

\* Every principal is blamed once for an event that names it, in whichever roles, and
\* never for another; what failed costs no other principal its signal.
CountedOnce ==
    \A p \in Principals :
        LET accusing == {r \in Reports : pc[r] # "count" /\ p \in Accused(r)}
            finished == {r \in accusing : pc[r] = "done" /\ ~ Missed(r, p)}
        IN  Cardinality(finished) <= tally[p] /\ tally[p] <= Cardinality(accusing)
            /\ ((\A r \in Reports : pc[r] = "done") => tally[p] = Cardinality(finished))

\* The events that told the table of users of one.
Told(u) ==
    {r \in Reports :
        /\ UserOf[r] = u /\ pc[r] \in {"user", "actor", "done"}
        /\ <<r, "legacy">> \notin hit}

\* The table of users falls behind that of principals only where a write failed or two
\* events crossed (outside PostgreSQL), and never counts more than it was told.
UsersCounted ==
    \A u \in Users :
        /\ legacy[u] <= Cardinality(Told(u))
        /\ u \notin crossed => legacy[u] = Cardinality(Told(u))
        /\ crossed # {} => dialect # "postgresql"

\* A window shows at least the events of its span, and never more than there were: no event
\* is forgotten early, whoever else is counted, and a silence as long as the key's lifetime
\* clears them all.
Seen(a) == {r \in Reports : SubjectOf[r] = a /\ counted[r] # None}
Shown(a, w) == IF now < key[a][w].until THEN key[a][w].n ELSE 0
WindowsKept ==
    \A a \in Agents, w \in Windows :
        /\ Shown(a, w) >= Cardinality({r \in Seen(a) : counted[r] + w.span > now})
        /\ Shown(a, w) <= Cardinality(Seen(a))
        /\ (\A r \in Seen(a) : counted[r] + w.life <= now) => Shown(a, w) = 0

SignalsKept == CountedOnce /\ UsersCounted /\ WindowsKept
-----------------------------------------------------------------------------
(* What makes it inductive: each counter is the number of the events that  *)
(* wrote it, and those are told by what the events have passed and what    *)
(* they missed.                                                            *)

\* The write about a principal is behind the event.
Passed(r, p) ==
    CASE p = <<"agent", SubjectOf[r]>> -> pc[r] \notin {"count", "subject"}
      [] p[1] = "user" -> pc[r] \in {"actor", "done"}
      [] OTHER -> pc[r] = "done"
Writers(p) == {r \in Reports : p \in Accused(r) /\ Passed(r, p) /\ ~ Missed(r, p)}
TallyWritten == \A p \in Principals : tally[p] = Cardinality(Writers(p))

\* An event is where it is for a reason, and has missed nothing that is ahead of it.
EventsInOrder ==
    \A r \in Reports :
        /\ pc[r] \in {"legacy", "user"} => UserOf[r] # None
        /\ pc[r] = "actor" => Actor(r) # None
        /\ pc[r] = "count" => counted[r] = None
        /\ pc[r] \in {"count", "subject"} => <<r, "subject">> \notin hit
        /\ pc[r] \in {"count", "subject", "legacy"} => <<r, "legacy">> \notin hit
        /\ pc[r] \in {"count", "subject", "legacy", "user"} => <<r, "user">> \notin hit
        /\ pc[r] # "done" => <<r, "actor">> \notin hit
        /\ spoilt[r] <=>
            pc[r] = "user" /\ <<r, "legacy">> \in hit /\ dialect = "postgresql"
        /\ read[r] # None => pc[r] = "legacy" /\ dialect # "postgresql"

\* What was read of a user's count is not more than what it has been told since.
ReadsBehind ==
    \A r \in Reports : read[r] # None => read[r] <= Cardinality(Told(UserOf[r]))

\* A key lives as long as its latest event lets it, and counts an unbroken run of events: a
\* moment is cut off if a silence as long as the lifetime followed it or a later event. As
\* long as the run goes on it also counts what has left the window's span.
CutOff(a, w, t) ==
    \E u \in t..now :
        /\ u + w.life <= now
        /\ \A r \in Seen(a) : counted[r] <= u \/ counted[r] >= u + w.life
        /\ \E r \in Seen(a) : counted[r] = u
Unbroken(a, w) == {r \in Seen(a) : ~ CutOff(a, w, counted[r])}
KeysRenewed ==
    \A a \in Agents, w \in Windows :
        /\ \A r \in Seen(a) : counted[r] <= now /\ counted[r] + w.life <= key[a][w].until
        /\ Seen(a) = {} => key[a][w].until = 0
        /\ Seen(a) # {} => \E r \in Seen(a) : key[a][w].until = counted[r] + w.life
        /\ key[a][w].n <= Cardinality(Seen(a))
        /\ now < key[a][w].until => key[a][w].n = Cardinality(Unbroken(a, w))

SignalsInv ==
    TypeOK /\ TallyWritten /\ EventsInOrder /\ UsersCounted /\ ReadsBehind /\ KeysRenewed
=============================================================================
