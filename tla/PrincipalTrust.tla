--------------------------- MODULE PrincipalTrust ---------------------------
(***************************************************************************)
(* The trust row of one principal (kya/principals.py) or one user          *)
(* (kya/users.py): a score and the counts per kind of signal, read, merged *)
(* in Python and written back.  A signal on a principal holds a row lock   *)
(* (PostgreSQL, MySQL) or a lock of its process (SQLite) meanwhile and is  *)
(* retried; a clean tick holds nothing; a user's row is upserted by one    *)
(* statement on PostgreSQL and read and written back elsewhere.            *)
(***************************************************************************)
EXTENDS Integers, FiniteSets

CONSTANTS
    Calls,         \* the calls on the row
    KindOf,        \* Calls -> {"signal", "clean"}
    ProcessOf,     \* Calls -> the process a call runs in
    Deployments,   \* [table : {"principal", "user"}, dialect : Dialects]
    MaxTrust,      \* MAX_TRUST; MIN_TRUST is 0
    StartingTrust,
    Penalty,       \* what a signal costs
    Attempts       \* attempts of a signal on a principal (10 in the code)

VARIABLES
    deployment,    \* constant: where the row lives
    row,           \* the row, if it exists
    pc,            \* of each call: idle, read, retry (in its backoff), done, raised
    seen,          \* the row as a call read it
    attempt,       \* the attempts a call has used up
    applied,       \* history: the calls whose write was committed
    stale          \* history: those that wrote over a row they had not read

vars == <<deployment, row, pc, seen, attempt, applied, stale>>
-----------------------------------------------------------------------------
Dialects == {"postgresql", "mysql", "sqlite"}
Rows == [exists : BOOLEAN, score : 0..MaxTrust, signal : Nat, clean : Nat]

\* What the constants must satisfy, for any instance.
TrustAssumption ==
    /\ KindOf \in [Calls -> {"signal", "clean"}]
    /\ Deployments \subseteq [table : {"principal", "user"}, dialect : Dialects]
    /\ MaxTrust \in Nat /\ StartingTrust \in 0..MaxTrust /\ Penalty \in Nat
    /\ Attempts \in Nat \ {0}

NoRow == [exists |-> FALSE, score |-> StartingTrust, signal |-> 0, clean |-> 0]

Signals == {c \in Calls : KindOf[c] = "signal"}
OnPrincipal == deployment.table = "principal"

\* Seeded fault: the score is not kept within its bounds.
ScoredUnbounded(kind, score) ==
    IF kind = "clean" THEN score + 1 ELSE score - Penalty

\* A clean tick adds one; a signal costs Penalty and never less than nothing.
Scored(kind, score) ==
    IF kind = "clean" THEN IF score < MaxTrust THEN score + 1 ELSE MaxTrust
    ELSE IF score > Penalty THEN score - Penalty ELSE 0

\* What a call makes of the row it read: the score, and its count merged in.
Merged(c, read) ==
    [exists |-> TRUE,
     score |-> Scored(KindOf[c], read.score),
     signal |-> read.signal + (IF KindOf[c] = "signal" THEN 1 ELSE 0),
     clean |-> read.clean + (IF KindOf[c] = "clean" THEN 1 ELSE 0)]

\* An UPDATE of the ORM leaves out a column whose value did not change.
Written(c) ==
    LET new == Merged(c, seen[c])
    IN IF OnPrincipal /\ new.score = seen[c].score
       THEN [new EXCEPT !.score = row.score] ELSE new

\* Seeded fault: the SELECT forgets FOR UPDATE.
HoldsRowNever(d) == FALSE

\* A signal on a principal holds the row it read (an absent row has no lock).
HoldsRow(d) ==
    /\ OnPrincipal /\ deployment.dialect # "sqlite"
    /\ KindOf[d] = "signal" /\ pc[d] = "read" /\ seen[d].exists

\* On SQLite signals of one process exclude each other, through their retries.
HoldsProcess(c, d) ==
    /\ OnPrincipal /\ deployment.dialect = "sqlite"
    /\ KindOf[d] = "signal" /\ pc[d] \in {"read", "retry"}
    /\ ProcessOf[c] = ProcessOf[d]

\* Only a signal asks for these locks when it reads; every write needs the row's.
MayRead(c) ==
    KindOf[c] = "signal" => \A d \in Calls \ {c} : ~ HoldsRow(d) /\ ~ HoldsProcess(c, d)
Blocked(c) == \E d \in Calls \ {c} : HoldsRow(d)

Init ==
    /\ deployment \in Deployments
    /\ row = NoRow
    /\ pc = [c \in Calls |-> "idle"]
    /\ seen = [c \in Calls |-> NoRow]
    /\ attempt = [c \in Calls |-> 0]
    /\ applied = {} /\ stale = {}

AtomicUpsert == ~ OnPrincipal /\ deployment.dialect = "postgresql"

\* SELECT, FOR UPDATE where a signal on a principal can.
Read(c) ==
    /\ pc[c] \in {"idle", "retry"}
    /\ ~ AtomicUpsert
    /\ MayRead(c)
    /\ pc' = [pc EXCEPT ![c] = "read"]
    /\ seen' = [seen EXCEPT ![c] = row]
    /\ UNCHANGED <<deployment, row, attempt, applied, stale>>

\* allow_create = False: no row is provisioned for a principal of another tenant.
SignalDropped(c) ==
    /\ OnPrincipal /\ KindOf[c] = "signal"
    /\ pc[c] = "read" /\ ~ seen[c].exists
    /\ pc' = [pc EXCEPT ![c] = "done"]
    /\ UNCHANGED <<deployment, row, seen, attempt, applied, stale>>

\* Two first calls on a principal insert the same key.
Conflicts(c) == OnPrincipal /\ ~ seen[c].exists /\ row.exists

Commit(c) ==
    /\ pc[c] = "read"
    /\ ~ Conflicts(c)
    /\ ~ Blocked(c)
    /\ row' = Written(c)
    /\ pc' = [pc EXCEPT ![c] = "done"]
    /\ applied' = applied \cup {c}
    /\ stale' = IF row = seen[c] THEN stale ELSE stale \cup {c}
    /\ UNCHANGED <<deployment, seen, attempt>>

\* The commit raises: the key exists, a deadlock, a locked database.  A signal on a
\* principal starts over, up to Attempts times; any other call raises.
CommitFails(c) ==
    /\ pc[c] = "read"
    /\ attempt' = [attempt EXCEPT ![c] = @ + 1]
    /\ pc' = [pc EXCEPT ![c] =
                IF OnPrincipal /\ KindOf[c] = "signal" /\ attempt[c] + 1 < Attempts
                THEN "retry" ELSE "raised"]
    /\ UNCHANGED <<deployment, row, seen, applied, stale>>

\* A SELECT that raises is not retried.
ReadFails(c) ==
    /\ pc[c] \in {"idle", "retry"}
    /\ pc' = [pc EXCEPT ![c] = "raised"]
    /\ UNCHANGED <<deployment, row, seen, attempt, applied, stale>>

\* INSERT ... ON CONFLICT DO UPDATE with the merge in SQL.
Upsert(c) ==
    /\ pc[c] = "idle" /\ AtomicUpsert
    /\ row' = Merged(c, row)
    /\ pc' = [pc EXCEPT ![c] = "done"]
    /\ applied' = applied \cup {c}
    /\ UNCHANGED <<deployment, seen, attempt, stale>>

Next ==
    \E c \in Calls :
        \/ Read(c) \/ ReadFails(c) \/ SignalDropped(c)
        \/ Commit(c) \/ CommitFails(c) \/ Upsert(c)

Spec == Init /\ [][Next]_vars
-----------------------------------------------------------------------------
TypeOK ==
    /\ deployment \in Deployments
    /\ row \in Rows /\ seen \in [Calls -> Rows]
    /\ pc \in [Calls -> {"idle", "read", "retry", "done", "raised"}]
    /\ attempt \in [Calls -> 0..Attempts]
    /\ applied \subseteq Calls /\ stale \subseteq applied

\* Signals on a principal wait for each other: one writes over a row it has not read
\* only on SQLite, where the lock is its process's own and a clean tick takes none.
SignalsExclude ==
    OnPrincipal =>
        \A c \in stale \cap Signals :
            /\ deployment.dialect = "sqlite"
            /\ \E d \in applied \ {c} :
                  KindOf[d] = "clean" \/ ProcessOf[d] # ProcessOf[c]

\* As long as nothing was written over a row that had changed, every signal that
\* returned is in the counts: no retry drops it or counts it twice.
SignalsCounted ==
    stale = {} => row.signal = Cardinality(applied \cap Signals)

\* ... and none is forgiven: the score is at most what the signals took and the clean
\* ticks gave, or given since it was last at the bottom.
NoPenaltyForgiven ==
    LET ticks == Cardinality(applied \ Signals)
    IN  (stale = {} /\ applied # {}) =>
            \/ row.score + Penalty * Cardinality(applied \cap Signals)
                   <= StartingTrust + ticks
            \/ row.score <= ticks

TrustKept == SignalsExclude /\ SignalsCounted /\ NoPenaltyForgiven
-----------------------------------------------------------------------------
(* The strengthening of TrustKept that is inductive.                       *)

\* Before the first write nothing is in the row; a call counts once it has returned.
Beginnings ==
    /\ ~ row.exists => row = NoRow
    /\ \A c \in Calls :
        /\ ~ seen[c].exists => seen[c] = NoRow
        /\ c \in applied => pc[c] = "done"
        /\ pc[c] \in {"idle", "read", "retry"} => attempt[c] < Attempts
    /\ IsFiniteSet(applied)

\* Nobody writes to a row that a signal on a principal has locked; on SQLite the signals
\* of one process take turns, and what overtakes one is a clean tick or another process.
LocksHold ==
    OnPrincipal =>
        \A c \in Signals :
            /\ (pc[c] = "read" /\ deployment.dialect # "sqlite" /\ seen[c].exists) =>
                    row = seen[c]
            /\ (pc[c] \in {"read", "retry"} /\ deployment.dialect = "sqlite") =>
                    \A d \in Signals \ {c} :
                        pc[d] \in {"read", "retry"} => ProcessOf[d] # ProcessOf[c]
            /\ (pc[c] = "read" /\ deployment.dialect = "sqlite" /\ row # seen[c]) =>
                    \E d \in applied \ {c} :
                        KindOf[d] = "clean" \/ ProcessOf[d] # ProcessOf[c]

\* NoPenaltyForgiven, from the beginning.
PenaltiesStay ==
    LET ticks == Cardinality(applied \ Signals)
    IN  stale = {} =>
            \/ row.score + Penalty * Cardinality(applied \cap Signals)
                   <= StartingTrust + ticks
            \/ row.score <= ticks

TrustInv ==
    TypeOK /\ Beginnings /\ LocksHold /\ SignalsExclude /\ SignalsCounted /\ PenaltiesStay
=============================================================================
