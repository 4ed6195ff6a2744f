--------------------------- MODULE AgentVersions ---------------------------
(***************************************************************************)
(* kya/versioning.py and kya_hooks/_snapshot.py: the definitions of one    *)
(* agent, appended as versions when they are first seen.  Every framework  *)
(* hook calls snapshot_once on every run of the agent; a set in the memory *)
(* of its process says whether the agent was seen there, and is written    *)
(* before the database is.  Whoever finds the agent new in the database    *)
(* also gives it a delegation override, if it is risky and has none.       *)
(***************************************************************************)
EXTENDS Integers, Sequences

CONSTANTS
    Calls, ProcessOf,   \* the calls of the hooks, and the process of each
    Definitions, Brought,   \* and the definitions the calls may bring
    Attempts,           \* snapshot_agent's 30
    MaxFailures,        \* the statements that may fail
    None

\* What the constants must satisfy, for any instance.
CallsAssumption ==
    /\ None \notin Calls \cup {"default", "operator"} /\ Brought \subseteq [Calls -> Definitions]
    /\ Attempts \in Nat \ {0} /\ MaxFailures \in Nat

VARIABLES
    def,        \* the definition each call brings: never changes
    versions,   \* the rows, by version_no: [def, by, after], "after" the version looked at
    seen,       \* the processes whose set holds the agent
    pc,
    latest,     \* the newest version_no a call saw
    number,     \* the version_no it computed
    attempt,
    override,   \* whose delegation override the agent has
    checked,    \* a call found no override and has not written its own yet
    operated,   \* an operator set one: "never", "alone" or while a call had checked ("raced")
    failures

vars == <<def, versions, seen, pc, latest, number, attempt, override, checked, operated, failures>>

Processes == {ProcessOf[c] : c \in Calls}
Go(c, step) == pc' = [pc EXCEPT ![c] = step]
-----------------------------------------------------------------------------
Init ==
    /\ def \in Brought
    /\ versions = <<>> /\ seen = {} /\ override = None /\ checked = {} /\ operated = "never"
    /\ pc = [c \in Calls |-> "idle"] /\ latest = [c \in Calls |-> 0]
    /\ number = [c \in Calls |-> 0] /\ attempt = [c \in Calls |-> 0] /\ failures = 0

\* snapshot_once: the agent is marked before the database is asked; if it was, nothing is done.
Mark(c) ==
    /\ pc[c] = "idle"
    /\ Go(c, IF ProcessOf[c] \in seen THEN "skipped" ELSE "look")
    /\ seen' = seen \cup {ProcessOf[c]}
    /\ UNCHANGED <<def, versions, latest, number, attempt, override, checked, operated, failures>>

\* snapshot_on_first_sight: nothing to do if the latest version is this definition.
Look(c) ==
    /\ pc[c] = "look"
    /\ latest' = [latest EXCEPT ![c] = Len(versions)]
    /\ Go(c, IF versions # <<>> /\ versions[Len(versions)].def = def[c] THEN "done" ELSE "number")
    /\ UNCHANGED <<def, versions, seen, number, attempt, override, checked, operated, failures>>

\* snapshot_agent, one attempt: MAX(version_no) + 1, and an INSERT the primary key may refuse.
Number(c) ==
    /\ pc[c] = "number"
    /\ number' = [number EXCEPT ![c] = Len(versions) + 1]
    /\ attempt' = [attempt EXCEPT ![c] = @ + 1]
    /\ Go(c, "insert")
    /\ UNCHANGED <<def, versions, seen, latest, override, checked, operated, failures>>

Row(c) == [def |-> def[c], by |-> c, after |-> latest[c]]

Insert(c) ==
    /\ pc[c] = "insert" /\ number[c] = Len(versions) + 1
    /\ versions' = Append(versions, Row(c))
    /\ Go(c, IF latest[c] = 0 THEN "check" ELSE "done")
    /\ UNCHANGED <<def, seen, latest, number, attempt, override, checked, operated, failures>>

\* A seeded fault, the mutant of VersionsKept: the mark of a failed call stays.
FailMarked(c) == Go(c, "failed") /\ UNCHANGED seen

\* The call gives up: the mark is taken back, so that a later call tries again.
Fail(c) ==
    /\ Go(c, "failed")
    /\ seen' = seen \ {ProcessOf[c]}

InsertRefused(c) ==
    /\ pc[c] = "insert" /\ number[c] # Len(versions) + 1
    /\ IF attempt[c] = Attempts THEN Fail(c) ELSE Go(c, "number") /\ UNCHANGED seen
    /\ UNCHANGED <<def, versions, latest, number, attempt, override, checked, operated, failures>>

DatabaseFails(c) ==
    /\ pc[c] \in {"look", "number", "insert"} /\ failures < MaxFailures
    /\ failures' = failures + 1
    /\ Fail(c)
    /\ UNCHANGED <<def, versions, latest, number, attempt, override, checked, operated>>

\* _maybe_apply_risk_tier_default: only an agent without an override gets one, by two steps.
CheckOverride(c) ==
    /\ pc[c] = "check"
    /\ checked' = IF override = None THEN checked \cup {c} ELSE checked
    /\ Go(c, IF override = None THEN "default" ELSE "done")
    /\ UNCHANGED <<def, versions, seen, latest, number, attempt, override, operated, failures>>

SetDefault(c) ==
    /\ pc[c] = "default"
    /\ override' = "default" /\ checked' = checked \ {c}
    /\ Go(c, "done")
    /\ UNCHANGED <<def, versions, seen, latest, number, attempt, operated, failures>>

\* An operator sets an override.
Operate ==
    /\ override # "operator"
    /\ override' = "operator"
    /\ operated' = IF checked # {} \/ operated = "raced" THEN "raced" ELSE "alone"
    /\ UNCHANGED <<def, versions, seen, pc, latest, number, attempt, checked, failures>>

\* The next run of the agent in the process, which calls again with the same definition.
Again(c) ==
    /\ pc[c] \in {"skipped", "failed"}
    /\ ProcessOf[c] \notin seen
    /\ Go(c, "idle")
    /\ attempt' = [attempt EXCEPT ![c] = 0]
    /\ UNCHANGED <<def, versions, seen, latest, number, override, checked, operated, failures>>

Next ==
    \/ \E c \in Calls :
        \/ Mark(c) \/ Look(c) \/ Number(c) \/ Insert(c) \/ InsertRefused(c)
        \/ DatabaseFails(c) \/ CheckOverride(c) \/ SetDefault(c) \/ Again(c)
    \/ Operate

Spec == Init /\ [][Next]_vars
-----------------------------------------------------------------------------
Steps ==
    {"idle", "skipped", "look", "number", "insert", "check", "default", "failed", "done"}

\* Rows are numbered from one and were written by calls that looked at an earlier state.
TypeOK ==
    /\ def \in [Calls -> Definitions]
    /\ versions \in Seq([def : Definitions, by : Calls, after : Nat])
    /\ \A n \in 1..Len(versions) : versions[n].after < n
    /\ seen \subseteq Processes /\ checked \subseteq Calls
    /\ pc \in [Calls -> Steps] /\ latest \in [Calls -> Nat] /\ number \in [Calls -> Nat]
    /\ attempt \in [Calls -> 0..Attempts] /\ failures \in 0..MaxFailures
    /\ override \in {None, "default", "operator"} /\ operated \in {"never", "alone", "raced"}

\* Two versions in a row have one definition only if the call that wrote the second looked
\* before the first was there (versioning.py:405-415).
NoDuplicates ==
    \A n \in 2..Len(versions) :
        versions[n].def = versions[n - 1].def => versions[n].after < n - 1

\* A process skips an agent it marked; so while no call of it is on its way, whatever failed
\* meanwhile, the agent is on record with a definition that the process brought or found.
InFlight(p) ==
    \E c \in Calls : ProcessOf[c] = p /\ pc[c] \in {"look", "number", "insert"}

SeenIsOnRecord ==
    \A p \in seen : InFlight(p)
        \/ \E c \in Calls, n \in DOMAIN versions : ProcessOf[c] = p /\ versions[n].def = def[c]

\* The default never replaces what the operator set, unless it was set between the check and
\* the write of the default (versioning.py:536-569).
OperatorKept == operated = "alone" => override = "operator"

VersionsKept == NoDuplicates /\ SeenIsOnRecord /\ OperatorKept
-----------------------------------------------------------------------------
(* A strengthening of VersionsKept that every step preserves.              *)

\* A call looked at a version that is there, and inserts only if that is not its own.
OtherSeen ==
    \A c \in Calls :
        /\ latest[c] <= Len(versions)
        /\ (pc[c] \in {"number", "insert"} /\ latest[c] > 0) => versions[latest[c]].def # def[c]
        /\ pc[c] \in {"idle", "look", "number"} => attempt[c] < Attempts

\* In each process one call at a time is on its way, and has left its mark.
OneInFlight ==
    \A c \in Calls : pc[c] \in {"look", "number", "insert"} =>
        /\ ProcessOf[c] \in seen
        /\ \A d \in Calls :
            (pc[d] \in {"look", "number", "insert"} /\ ProcessOf[d] = ProcessOf[c]) => d = c

\* Whoever is about to write the default has checked, and nobody has since the operator
\* came alone.
DefaultChecked ==
    /\ \A c \in Calls : pc[c] = "default" => c \in checked
    /\ operated = "alone" => checked = {}

VersionsInv ==
    TypeOK /\ OtherSeen /\ OneInFlight /\ DefaultChecked /\ VersionsKept
=============================================================================
