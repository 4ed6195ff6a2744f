------------------------------ MODULE Delegation ------------------------------
(***************************************************************************)
(* Delegation between agents: record_invocation of an agent called by      *)
(* another one (kya/invocations.py), the comparison of their definitions   *)
(* (check_delegation), the overrides that say what a violation means       *)
(* (kya/delegation_overrides.py), and the enforcement                      *)
(* (kya/delegation_policy.py).                                             *)
(*                                                                         *)
(* The invocation is committed first, with its caller's outcome.  Each     *)
(* violation is then looked up in the overrides by a query of its own, all *)
(* of them are filed, and only then is the call refused and its row marked *)
(* "blocked".                                                              *)
(***************************************************************************)
EXTENDS Integers, FiniteSets, FiniteSetsExt

CONSTANTS
    Calls,         \* record_invocation calls
    ParentOf,      \* the agent that delegates, by call
    SubOf,         \* the agent that is called, by call
    Snapshots,     \* what the agents' latest snapshots may say, None for no snapshot
    Scopes,        \* scopes of overrides: [parent, sub, kind], None for any
    Dialects,      \* the databases considered
    Modes,         \* of observe, flag and block; only the last one refuses
    Envs,          \* values of KYA_DELEGATION_POLICY considered
    MaxRows,       \* bound: overrides ever set
    MaxFaults,     \* bound: failed statements and deaths
    Horizon,       \* bound: the clock stops here
    None

Agents == {ParentOf[c] : c \in Calls} \cup {SubOf[c] : c \in Calls}

\* check_delegation compares dimension by dimension, in this order.
Kinds == 1..4
Access == 1   Data == 2   Loop == 3   Tools == 4

CallsAssumption ==
    /\ DOMAIN ParentOf = Calls /\ DOMAIN SubOf = Calls
    /\ \A snapshots \in Snapshots : DOMAIN snapshots = Agents
ScopesAssumption ==
    Scopes \subseteq [parent : Agents \cup {None}, sub : Agents \cup {None},
                      kind : Kinds \cup {None}]
ModesAssumption ==
    "block" \in Modes /\ Modes \subseteq {"observe", "flag", "block"} /\ Envs \subseteq Modes
NumbersAssumption == MaxRows \in Nat /\ MaxFaults \in Nat /\ Horizon \in Nat
DefinitionsAssumption ==
    /\ \A snapshots \in Snapshots : \A a \in Agents : snapshots[a] # None =>
        snapshots[a].access \in Int \cup {None} /\ snapshots[a].loop \in Int \cup {None}
    /\ None \notin {"success", "blocked"}

VARIABLES
    dialect,
    env,        \* KYA_DELEGATION_POLICY
    def,        \* latest snapshot of an agent, None if there is none
    now, rows,  \* the clock, and kya_delegation_policy_overrides
    pc, todo,   \* violations whose mode is not resolved yet
    view,       \* the overrides as the call's transaction began, for MySQL
    modes,      \* violations with their resolved mode
    spoilt,     \* the call's transaction is aborted
    outcome,    \* of the invocation, None before it is recorded
    filed,      \* kya_delegation_violations of the call
    excused,    \* violations for which "block" was not in force at some moment
    troubled,   \* calls that met a fault
    faults

config == <<dialect, env, def>>
store == <<now, rows>>
call == <<pc, todo, view, modes, spoilt, outcome, filed, excused, troubled, faults>>
vars == <<config, store, call>>
-----------------------------------------------------------------------------
(* Pure operators.                                                         *)

\* check_delegation: access and oversight are ranks, compared if both are declared; data
\* classes if the parent's are, the sub-agent's counting as empty; of the tools only those
\* that write or administer.
Widens(p, s) ==
    {k \in Kinds :
        \/ k = Access /\ p.access # None /\ s.access # None /\ s.access > p.access
        \/ k = Data /\ p.data # None /\ s.data # None /\ ~ (s.data \subseteq p.data)
        \/ k = Loop /\ p.loop # None /\ s.loop # None /\ s.loop < p.loop
        \/ k = Tools /\ ~ (s.tools \subseteq p.tools)}

Violations(c) ==
    LET p == def[ParentOf[c]]  s == def[SubOf[c]]
    IN  IF p = None \/ s = None THEN {} ELSE Widens(p, s)

Active(r) == r.from <= now /\ (r.until = None \/ r.until > now)
Matches(r, c, k) ==
    /\ r.scope.parent \in {None, ParentOf[c]}
    /\ r.scope.sub \in {None, SubOf[c]}
    /\ r.scope.kind \in {None, k}
Specificity(r) == Cardinality({f \in {"parent", "sub", "kind"} : r.scope[f] # None})
Before(r, q) ==
    \/ Specificity(r) < Specificity(q)
    \/ Specificity(r) = Specificity(q) /\ r.id < q.id

\* resolve_effective_mode: the most specific row in force wins, the newest among equals,
\* and without one the environment.
Mode(c, k, candidates) ==
    LET active == {r \in candidates : Active(r) /\ Matches(r, c, k)}
    IN  IF active = {} THEN env
        ELSE (CHOOSE r \in active : \A q \in active \ {r} : Before(q, r)).mode

\* What the call's queries find: nothing in an aborted transaction, in MySQL what was
\* there when the transaction began.
Visible(c) ==
    IF spoilt[c] THEN {} ELSE IF dialect = "mysql" THEN view[c] ELSE rows
-----------------------------------------------------------------------------
Init ==
    /\ dialect \in Dialects
    /\ env \in Envs
    /\ def \in Snapshots
    /\ now = 0 /\ rows = {}
    /\ pc = [c \in Calls |-> "idle"]
    /\ todo = [c \in Calls |-> {}]
    /\ view = [c \in Calls |-> {}]
    /\ modes = [c \in Calls |-> {}]
    /\ spoilt = [c \in Calls |-> FALSE]
    /\ outcome = [c \in Calls |-> None]
    /\ filed = [c \in Calls |-> {}]
    /\ excused = [c \in Calls |-> {}]
    /\ troubled = {} /\ faults = 0

\* What is in force changes; a call in the middle remembers what was not blocked.
Excuse ==
    excused' = [c \in Calls |->
        excused[c] \cup
            {k \in Violations(c) : pc[c] = "checking" /\ Mode(c, k, rows)' # "block"}]
OverridesChange ==
    /\ UNCHANGED <<config, pc, todo, view, modes, spoilt, outcome, filed, troubled, faults>>
    /\ Excuse

\* set_delegation_override: always a new row; an end is later than its beginning.
SetOverride ==
    /\ Cardinality(rows) < MaxRows
    /\ \E scope \in Scopes, mode \in Modes, from \in now..Horizon :
        \E until \in {None} \cup (from + 1)..Horizon :
            rows' = rows \cup {[id |-> Cardinality(rows) + 1, scope |-> scope, mode |-> mode,
                                from |-> from, until |-> until]}
    /\ UNCHANGED now /\ OverridesChange

\* delete_delegation_override: its end is moved just before now.
DeleteOverride ==
    /\ \E r \in rows :
        /\ r.until # None => r.until > now - 1
        /\ rows' = (rows \ {r}) \cup {[r EXCEPT !.until = now - 1]}
    /\ UNCHANGED now /\ OverridesChange

Tick ==
    /\ now < Horizon /\ now' = now + 1
    /\ UNCHANGED rows /\ OverridesChange

\* The row of the invocation is committed, with the outcome its caller gave, and both
\* definitions are fetched.
Recorded(c, violations) ==
    /\ pc[c] = "idle"
    /\ outcome' = [outcome EXCEPT ![c] = "success"]
    /\ todo' = [todo EXCEPT ![c] = violations]
    /\ pc' = [pc EXCEPT ![c] = IF violations = {} THEN "clean" ELSE "checking"]
    /\ view' = [view EXCEPT ![c] = IF dialect = "mysql" THEN rows ELSE {}]
    /\ excused' = [excused EXCEPT ![c] = {k \in violations : Mode(c, k, rows) # "block"}]
    /\ UNCHANGED <<config, store, modes, spoilt, filed>>

Record(c) == Recorded(c, Violations(c)) /\ UNCHANGED <<troubled, faults>>

\* Seeded fault: one lookup decides for all the violations of a delegation.
ResolveOnce(c) ==
    /\ pc[c] = "checking" /\ todo[c] # {}
    /\ todo' = [todo EXCEPT ![c] = {}]
    /\ modes' = [modes EXCEPT ![c] =
            {[kind |-> k, mode |-> Mode(c, Min(todo[c]), Visible(c))] : k \in todo[c]}]
    /\ UNCHANGED <<config, store, pc, view, spoilt, outcome, filed, excused, troubled, faults>>

Resolved(c, mode) ==
    LET k == Min(todo[c])
    IN  /\ pc[c] = "checking" /\ todo[c] # {}
        /\ todo' = [todo EXCEPT ![c] = @ \ {k}]
        /\ modes' = [modes EXCEPT ![c] = @ \cup {[kind |-> k, mode |-> mode]}]

\* One violation after the other is looked up.
Resolve(c) ==
    /\ Resolved(c, Mode(c, Min(todo[c]), Visible(c)))
    /\ UNCHANGED <<config, store, pc, view, spoilt, outcome, filed, excused, troubled, faults>>

Trouble(c) ==
    /\ faults < MaxFaults
    /\ faults' = faults + 1
    /\ troubled' = troubled \cup {c}

\* A definition that cannot be fetched is a missing one.
RecordUnchecked(c) == Recorded(c, {}) /\ Trouble(c)

\* A failed query counts as no override at all.
ResolveFails(c) ==
    /\ Trouble(c)
    /\ Resolved(c, env)
    /\ spoilt' = [spoilt EXCEPT ![c] = (dialect = "postgresql")]
    /\ UNCHANGED <<config, store, pc, view, outcome, filed, excused>>

Blocking(c) == \E m \in modes[c] : m.mode = "block"
Filed(c, violations) ==
    /\ pc[c] = "checking" /\ todo[c] = {}
    /\ filed' = [filed EXCEPT ![c] = violations]
    /\ pc' = [pc EXCEPT ![c] = IF Blocking(c) THEN "refusing" ELSE "allowed"]
    /\ view' = [view EXCEPT ![c] = {}]
    /\ UNCHANGED <<config, store, todo, modes, outcome, excused>>

\* _persist_violations: a row each, then the commit; of an aborted transaction nothing.
Persist(c) ==
    /\ Filed(c, IF spoilt[c] THEN {} ELSE modes[c])
    /\ spoilt' = [spoilt EXCEPT ![c] = FALSE]
    /\ UNCHANGED <<troubled, faults>>

\* Inserts that fail are skipped one by one, or spoil them all; so does the commit.
PersistFails(c) ==
    /\ \E kept \in SUBSET modes[c] :
        /\ dialect = "postgresql" => kept = {}
        /\ Filed(c, kept)
    /\ Trouble(c)
    /\ spoilt' = [spoilt EXCEPT ![c] = FALSE]

\* DelegationPolicyError: the invocation is marked before the caller hears of it ...
Mark(c) ==
    /\ pc[c] = "refusing"
    /\ outcome' = [outcome EXCEPT ![c] = "blocked"]
    /\ pc' = [pc EXCEPT ![c] = "refused"]
    /\ UNCHANGED <<config, store, todo, view, modes, spoilt, filed, excused, troubled, faults>>

\* ... if that can be written, ...
MarkFails(c) ==
    /\ pc[c] = "refusing"
    /\ Trouble(c)
    /\ pc' = [pc EXCEPT ![c] = "refused"]
    /\ UNCHANGED <<config, store, todo, view, modes, spoilt, outcome, filed, excused>>

\* ... and the process lives.
Die(c) ==
    /\ pc[c] \in {"checking", "refusing"}
    /\ Trouble(c)
    /\ pc' = [pc EXCEPT ![c] = "dead"]
    /\ UNCHANGED <<config, store, todo, view, modes, spoilt, outcome, filed, excused>>

Next ==
    \/ SetOverride \/ DeleteOverride \/ Tick
    \/ \E c \in Calls :
        \/ Record(c) \/ RecordUnchecked(c) \/ Resolve(c) \/ ResolveFails(c) \/ Persist(c) \/ PersistFails(c)
        \/ Mark(c) \/ MarkFails(c) \/ Die(c)

Spec == Init /\ [][Next]_vars
-----------------------------------------------------------------------------
Violation == [kind : Kinds, mode : Modes]
Row == [id : 1..MaxRows, scope : Scopes, mode : Modes, from : 0..Horizon,
        until : (-1)..Horizon \cup {None}]

TypeOK ==
    /\ dialect \in Dialects /\ env \in Modes /\ now \in 0..Horizon
    /\ rows \subseteq Row /\ view \in [Calls -> SUBSET Row]
    /\ pc \in [Calls -> {"idle", "clean", "checking", "allowed", "refusing", "refused", "dead"}]
    /\ todo \in [Calls -> SUBSET Kinds] /\ excused \in [Calls -> SUBSET Kinds]
    /\ modes \in [Calls -> SUBSET Violation] /\ filed \in [Calls -> SUBSET Violation]
    /\ spoilt \in [Calls -> BOOLEAN]
    /\ outcome \in [Calls -> {"success", "blocked", None}]
    /\ troubled \subseteq Calls /\ faults \in 0..MaxFaults

\* A delegation that goes ahead has an excuse for each of its violations: a moment of the
\* call at which "block" was not in force for it, although overrides come and go between
\* the queries. (Unless a query failed, which counts as no override; and not in MySQL,
\* where the rows are those of the beginning and the clock is that of the query.)
BlockStands ==
    \A c \in Calls \ troubled : dialect # "mysql" =>
        (pc[c] = "allowed" => Violations(c) \subseteq excused[c])

\* A refused delegation is on record as such: all of its violations are filed, one of them
\* as blocking, and the invocation says so; and no other invocation does.
RefusalsOnRecord ==
    \A c \in Calls :
        /\ (pc[c] = "refused" /\ c \notin troubled) =>
            /\ {m.kind : m \in filed[c]} = Violations(c)
            /\ \E m \in filed[c] : m.mode = "block"
            /\ outcome[c] = "blocked"
        /\ outcome[c] = "blocked" => pc[c] = "refused" /\ Blocking(c)
        /\ filed[c] \subseteq modes[c]

\* Nothing is gained along a chain of delegations that are each without a violation, as
\* long as every agent on it declares everything.
Declares(d) == d # None /\ d.access # None /\ d.data # None /\ d.loop # None
Within(d, e) ==
    /\ d.access <= e.access /\ d.data \subseteq e.data
    /\ d.loop >= e.loop /\ d.tools \subseteq e.tools
ChainsNarrow ==
    \A c, d \in Calls \ troubled :
        LET top == def[ParentOf[c]]  middle == def[SubOf[c]]  bottom == def[SubOf[d]]
        IN  (/\ SubOf[c] = ParentOf[d] /\ pc[c] = "clean" /\ pc[d] = "clean"
             /\ Declares(top) /\ Declares(middle) /\ Declares(bottom)) => Within(bottom, top)

DelegationKept == BlockStands /\ RefusalsOnRecord /\ ChainsNarrow
-----------------------------------------------------------------------------
(* What makes it inductive.  The override that decides is well defined:    *)
(* rows are numbered in the order in which they were set, in the table and *)
(* in what a transaction saw of it.  A call accounts for each of its       *)
(* violations, looked up or not yet, and whatever it found not to be       *)
(* blocked has its excuse.                                                 *)

Numbered(candidates) == \A r, q \in candidates : r.id = q.id => r = q
RowsNumbered ==
    /\ IsFiniteSet(rows) /\ Cardinality(rows) <= MaxRows
    /\ \A r \in rows : r.id <= Cardinality(rows)
    /\ Numbered(rows) /\ \A c \in Calls : Numbered(view[c])

KindsOf(violations) == {m.kind : m \in violations}
Decided == {"allowed", "refusing", "refused"}
Idle(c) ==
    pc[c] = "idle" =>
        /\ todo[c] = {} /\ modes[c] = {} /\ filed[c] = {}
        /\ ~ spoilt[c] /\ outcome[c] = None /\ c \notin troubled
Accounted(c) ==
    /\ pc[c] = "checking" => KindsOf(modes[c]) \cup todo[c] = Violations(c)
    /\ pc[c] \in Decided => KindsOf(modes[c]) = Violations(c)
    /\ (pc[c] = "clean" /\ c \notin troubled) => Violations(c) = {}
Answered(c) ==
    /\ pc[c] = "allowed" => ~ Blocking(c)
    /\ pc[c] \in {"refusing", "refused"} => Blocking(c)
    /\ outcome[c] = "blocked" => pc[c] = "refused"
    /\ filed[c] \subseteq modes[c]
Untroubled(c) ==
    c \notin troubled =>
        /\ ~ spoilt[c]
        /\ pc[c] \in Decided => filed[c] = modes[c]
        /\ pc[c] = "refused" => outcome[c] = "blocked"
Excused(c) ==
    /\ pc[c] = "checking" =>
        \A k \in Violations(c) : Mode(c, k, rows) # "block" => k \in excused[c]
    /\ (c \notin troubled /\ dialect # "mysql") =>
        \A m \in modes[c] : m.mode # "block" => m.kind \in excused[c]

CallKept(c) == Idle(c) /\ Accounted(c) /\ Answered(c) /\ Untroubled(c) /\ Excused(c)

DelegationInv ==
    /\ TypeOK /\ def \in Snapshots /\ RowsNumbered
    /\ \A c \in Calls : CallKept(c)
=============================================================================
