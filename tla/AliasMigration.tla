--------------------------- MODULE AliasMigration ---------------------------
(***************************************************************************)
(* migrate_principals_for_aliases (kya/agent_aliases.py): the trust rows   *)
(* stored under an alias are merged into those of its canonical key and    *)
(* deleted, alias by alias, each in a transaction on PostgreSQL (READ      *)
(* COMMITTED).  The rows are read without a lock and without their kind,   *)
(* and written as absolute values; meanwhile signals are recorded and a    *)
(* second migration may run.                                               *)
(***************************************************************************)
EXTENDS Integers, FiniteSets, FiniteSetsExt

CONSTANTS
    Principals, Kinds,
    Tables,      \* tables of aliases: functions of some principals to principals
    Starts,      \* sets of rows there may be at first, each after one signal
    Signals,
    RowOf,       \* Signals -> the row a signal is recorded in
    Migrations,
    Starting,    \* STARTING_TRUST
    Penalty,     \* what a signal costs
    None

Keys == Principals \X Kinds

TablesAssumption ==
    \A table \in Tables : DOMAIN table \subseteq Principals
                          /\ \A a \in DOMAIN table : table[a] \in Principals
RowsAssumption == (\A s \in Starts : s \subseteq Keys) /\ RowOf \in [Signals -> Keys]
NumbersAssumption == Starting \in Nat /\ Penalty \in Nat

VARIABLES
    aliases,     \* kya_agent_aliases
    rows,        \* kya_principal_trust: Keys -> [score, count], None for no row
    pc,
    todo,        \* aliases a migration has yet to walk
    src, dst,    \* [key, row]: what it read under the alias and the canonical key
    held,        \* keys it has written and not committed
    recorded,    \* history: signals recorded
    worst,       \* history: the lowest score on record
    excused,     \* history: why a merge did not merge what it replaced
    behind       \* history: principals written since a migration dealt with them

vars == <<aliases, rows, pc, todo, src, dst, held, recorded, worst, excused, behind>>

\* The rows of a principal, of any kind.
Of(p) == {r \in Keys : r[1] = p /\ rows[r] # None}

Lower(a, b) == IF a < b THEN a ELSE b

\* What record_principal_signal makes of a row (see PrincipalTrust).
Signalled(row) ==
    IF row = None THEN [score |-> Starting - Penalty, count |-> 1]
    ELSE [score |-> IF row.score > Penalty THEN row.score - Penalty ELSE 0,
          count |-> row.count + 1]

Init ==
    /\ aliases \in Tables
    /\ \E start \in Starts :
        /\ rows = [r \in Keys |-> IF r \in start THEN Signalled(None) ELSE None]
        /\ recorded = Cardinality(start)
        /\ worst = IF start = {} THEN Starting ELSE Starting - Penalty
    /\ pc = [c \in Migrations \cup Signals |-> "idle"]
    /\ todo = [m \in Migrations |-> {}]
    /\ src = [m \in Migrations |-> None] /\ dst = [m \in Migrations |-> None]
    /\ held = [m \in Migrations |-> {}]
    /\ excused = {}
    /\ behind = [m \in Migrations |-> {}]

Go(c, step) == pc' = [pc EXCEPT ![c] = step]
LetGo(m) ==
    /\ held' = [held EXCEPT ![m] = {}]
    /\ src' = [src EXCEPT ![m] = None] /\ dst' = [dst EXCEPT ![m] = None]
Raised(m) == pc[m] = "raised"

\* A writer waits for the one that holds a row, or the key of a row being inserted.
Free(m, keys) == \A other \in Migrations \ {m} : held[other] \cap keys = {}
-----------------------------------------------------------------------------
\* A signal holds its row from its SELECT to its commit.
Signal(s) ==
    LET r == RowOf[s]
    IN  /\ pc[s] = "idle" /\ \A m \in Migrations : r \notin held[m]
        /\ rows' = [rows EXCEPT ![r] = Signalled(@)]
        /\ recorded' = recorded + 1
        /\ worst' = Lower(worst, Signalled(rows[r]).score)
        /\ behind' = [m \in Migrations |-> IF Raised(m) THEN {} ELSE behind[m] \cup {r[1]}]
        /\ Go(s, "done")
        /\ UNCHANGED <<aliases, todo, src, dst, held, excused>>

\* The aliases are read once, in no order.
Begin(m) ==
    /\ pc[m] = "idle"
    /\ todo' = [todo EXCEPT ![m] = DOMAIN aliases]
    /\ Go(m, "next")
    /\ UNCHANGED <<aliases, rows, src, dst, held, recorded, worst, excused, behind>>

\* One of the rows under the alias, whatever its kind; without one there is nothing to do.
ReadSource(m) ==
    /\ pc[m] = "next"
    /\ \E a \in todo[m] :
        /\ todo' = [todo EXCEPT ![m] = @ \ {a}]
        /\ \/ /\ Of(a) = {} /\ behind' = [behind EXCEPT ![m] = @ \ {a}]
              /\ UNCHANGED <<pc, src>>
           \/ /\ \E r \in Of(a) : src' = [src EXCEPT ![m] = [key |-> r, row |-> rows[r]]]
              /\ Go(m, "target") /\ UNCHANGED behind
    /\ UNCHANGED <<aliases, rows, dst, held, recorded, worst, excused>>

Alias(m) == src[m].key[1]
Canonical(m) == aliases[Alias(m)]

ReadTarget(m) ==
    /\ pc[m] = "target"
    /\ dst' \in {[dst EXCEPT ![m] = IF r = None THEN None ELSE [key |-> r, row |-> rows[r]]] :
                    r \in IF Of(Canonical(m)) = {} THEN {None} ELSE Of(Canonical(m))}
    /\ Go(m, "write")
    /\ UNCHANGED <<aliases, rows, todo, src, held, recorded, worst, excused, behind>>

\* Counts are added, the lower trust wins, and a row that is not there has Starting.
Merged(m) ==
    [score |-> Lower(src[m].row.score, IF dst[m] = None THEN Starting ELSE dst[m].row.score),
     count |-> src[m].row.count + (IF dst[m] = None THEN 0 ELSE dst[m].row.count)]

\* UPDATE of every row of the canonical key; others see it at the commit.
UpdateTarget(m) ==
    /\ pc[m] = "write" /\ dst[m] # None
    /\ Free(m, Of(Canonical(m)))
    /\ held' = [held EXCEPT ![m] = Of(Canonical(m))]
    /\ Go(m, "delete")
    /\ UNCHANGED <<aliases, rows, todo, src, dst, recorded, worst, excused, behind>>

\* INSERT with the kind of the alias's row; with a key that exists by now it fails.
InsertTarget(m) ==
    LET key == <<Canonical(m), src[m].key[2]>>
    IN  /\ pc[m] = "write" /\ dst[m] = None
        /\ Free(m, {key})
        /\ rows[key] = None
        /\ held' = [held EXCEPT ![m] = {key}]
        /\ Go(m, "delete")
        /\ UNCHANGED <<aliases, rows, todo, src, dst, recorded, worst, excused, behind>>

\* Why the merge is not of what it replaces.
Excuses(m) ==
    {e \in {"overtaken", "kinds", "self"} :
        \/ /\ e = "overtaken"
           /\ \/ rows[src[m].key] # src[m].row
              \/ /\ dst[m] # None
                 /\ dst[m].key \notin held[m] \/ rows[dst[m].key] # dst[m].row
        \/ e = "kinds" /\ (Cardinality(Of(Alias(m))) > 1 \/ Cardinality(held[m]) > 1)
        \/ e = "self" /\ Alias(m) = Canonical(m)}

\* DELETE of every row of the alias, and the commit of both.
DeleteSource(m) ==
    /\ pc[m] = "delete"
    /\ Free(m, Of(Alias(m)))
    /\ rows' = [r \in Keys |-> IF r[1] = Alias(m) THEN None
                               ELSE IF r \in held[m] THEN Merged(m) ELSE rows[r]]
    /\ excused' = excused \cup Excuses(m)
    /\ behind' = [other \in Migrations |->
                    IF other = m THEN (behind[m] \cup {Canonical(m)}) \ {Alias(m)}
                    ELSE IF Raised(other) THEN {} ELSE behind[other] \cup {Canonical(m)}]
    /\ LetGo(m)
    /\ Go(m, "next")
    /\ UNCHANGED <<aliases, todo, recorded, worst>>

Finish(m) ==
    /\ pc[m] = "next" /\ todo[m] = {} /\ Go(m, "done")
    /\ UNCHANGED <<aliases, rows, todo, src, dst, held, recorded, worst, excused, behind>>

\* A statement fails, or two migrations wait for each other and one is sacrificed: what
\* it had not committed is undone, and the aliases it had merged stay merged.  To fail
\* in a SELECT comes to the same.
Fail(m) ==
    /\ pc[m] \in {"write", "delete"}
    /\ LetGo(m)
    /\ todo' = [todo EXCEPT ![m] = {}] /\ behind' = [behind EXCEPT ![m] = {}]
    /\ Go(m, "raised")
    /\ UNCHANGED <<aliases, rows, recorded, worst, excused>>

Next ==
    \/ \E s \in Signals : Signal(s)
    \/ \E m \in Migrations :
        \/ Begin(m) \/ ReadSource(m) \/ ReadTarget(m) \/ UpdateTarget(m)
        \/ InsertTarget(m) \/ DeleteSource(m) \/ Finish(m) \/ Fail(m)

Spec == Init /\ [][Next]_vars
-----------------------------------------------------------------------------
Rows == [score : 0..Starting, count : Nat]
Readings == [key : Keys, row : Rows] \cup {None}

TypeOK ==
    /\ aliases \in Tables
    /\ \A r \in Keys : rows[r] # None => rows[r] \in Rows
    /\ pc \in [Migrations \cup Signals ->
                {"idle", "next", "target", "write", "delete", "done", "raised"}]
    /\ \A m \in Migrations :
        /\ todo[m] \subseteq DOMAIN aliases /\ src[m] \in Readings /\ dst[m] \in Readings
        /\ held[m] \subseteq Keys /\ behind[m] \subseteq Principals
    /\ recorded \in Nat /\ worst \in 0..Starting

Present == {r \in Keys : rows[r] # None}

\* However often and from wherever it is run, and wherever it fails, a migration neither
\* loses a signal nor counts it twice, unless a row changed between its reading and its
\* writing, a principal had rows of two kinds, or an alias was its own canonical key.
SignalsMerged ==
    excused = {} => FoldSet(LAMBDA r, sum : sum + rows[r].count, 0, Present) = recorded

\* ... and with the same exceptions the lowest trust there was is still on record.
WorstRemembered ==
    (excused = {} /\ recorded > 0) => \E r \in Present : rows[r].score <= worst

\* A finished migration leaves no row under an alias but one written since it dealt with
\* that alias: by a signal, or by a merge where the alias is itself a canonical key.
AliasesEmptied ==
    \A m \in Migrations : pc[m] = "done" =>
        \A a \in DOMAIN aliases : Of(a) # {} => a \in behind[m]

\* No two migrations have written one row at a time.
WritesExclude ==
    \A m \in Migrations, other \in Migrations : m # other => held[m] \cap held[other] = {}

AliasesKept == SignalsMerged /\ WorstRemembered /\ AliasesEmptied /\ WritesExclude
=============================================================================
