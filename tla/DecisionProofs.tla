--------------------------- MODULE DecisionProofs ---------------------------
(***************************************************************************)
(* Theorems about what decides on calls and what keeps account of them:    *)
(* delegations, signals, budgets and attack chains, for every value of     *)
(* their constants.  Each part is an instance of a component, and the      *)
(* proof that what its runs check follows from the strengthening its       *)
(* module defines.  No theorem is about two of them: what bears one name   *)
(* in several modules is declared once here, and nothing is assumed of it  *)
(* but what the theorem names.                                             *)
(***************************************************************************)
EXTENDS Integers, Sequences, FiniteSets, FiniteSetTheorems, WellFoundedInduction,
    SequenceTheorems, TLAPS

CONSTANTS
    Calls, ParentOf, SubOf, Snapshots, Scopes, Dialects, Modes, Envs, MaxRows,
    MaxFaults, Horizon, None, Reports, SubjectOf, UserOf, ActorOf, Windows, Caps,
    Events, Cost, Window, Life, MaxChanges, MaxReports, KindOf, Rules, Clocks

VARIABLES
    dialect, env, def, now, rows, pc, todo, view, modes, spoilt, outcome, filed,
    excused, troubled, faults, key, read, legacy, tally, counted, hit, crossed,
    platform, override, checking, edits, counter, dies, ledger, reports, moved,
    missed, capsMoved, peak, seenCap, unchecked, rule, kept, at, store, match, held, taken, ready,
    emitted, order, raced, disturbed

Delegated == INSTANCE Delegation
Signal == INSTANCE RogueSignals
Budget == INSTANCE TenantBudget
Chain == INSTANCE AttackChains
-----------------------------------------------------------------------------
(* Delegation.  The override that decides is well defined, and a call      *)
(* accounts for each violation, looked up or not: what it found not to be  *)
(* blocked has its excuse.                                                 *)

\* Delegation counts sets as the theorems of the library do.
LEMMA DelegatedSets ==
    ASSUME NEW S
    PROVE  /\ Delegated!Cardinality(S) = Cardinality(S)
           /\ (Delegated!IsFiniteSet(S) <=> IsFiniteSet(S))
BY DEF Delegated!Cardinality, Cardinality, Delegated!IsFiniteSet, IsFiniteSet

DelegationAssumption ==
    /\ /\ Delegated!CallsAssumption /\ Delegated!ScopesAssumption
       /\ Delegated!ModesAssumption /\ Delegated!NumbersAssumption
    /\ Delegated!DefinitionsAssumption

\* A set of naturals that is not empty has a least element.
LEMMA LeastNatural ==
    ASSUME NEW S, S \subseteq Nat, S # {}
    PROVE  \E n \in S : \A m \in S : n <= m
<1>1. PICK n \in S : \A m \in S : ~ (<<m, n>> \in OpToRel(<, Nat))
    BY NatLessThanWellFounded, WFMin
<1>2. ASSUME NEW m \in S, m < n PROVE FALSE
    <2>1. <<m, n>> \in Nat \X Nat /\ <<m, n>>[1] < <<m, n>>[2]
        BY <1>2
    <2>2. <<m, n>> \in OpToRel(<, Nat)
        BY <2>1, Zenon DEF OpToRel
    <2> QED
        BY <1>1, <2>2
<1> QED
    BY <1>2

\* The next violation to be looked up is one of those still to do.
LEMMA MinOfKinds ==
    ASSUME NEW S, S \subseteq Delegated!Kinds, S # {}
    PROVE  Delegated!Min(S) \in S
<1>1. S \subseteq Nat
    BY DEF Delegated!Kinds
<1>2. \E n \in S : \A m \in S : n =< m
    BY <1>1, LeastNatural
<1> QED
    BY <1>2 DEF Delegated!Min

\* The most specific row in force, the newest among equals, is one of them.
LEMMA ModeType ==
    ASSUME DelegationAssumption, env \in Modes, NEW candidates,
           candidates \subseteq Delegated!Row, Delegated!Numbered(candidates),
           NEW c \in Calls, NEW k
    PROVE  Delegated!Mode(c, k, candidates) \in Modes
<1> DEFINE fields == {"parent", "sub", "kind"}
           active == {r \in candidates : Delegated!Active(r) /\ Delegated!Matches(r, c, k)}
           bound == Delegated!Cardinality(fields)
<1>1. Delegated!IsFiniteSet(fields) /\ bound \in Nat
    <2>1. Delegated!IsFiniteSet({}) /\ Delegated!IsFiniteSet({} \cup {"parent"})
        BY FS_EmptySet, FS_AddElement, DelegatedSets
    <2>2. Delegated!IsFiniteSet(({} \cup {"parent"}) \cup {"sub"})
        BY <2>1, FS_AddElement, DelegatedSets
    <2>3. Delegated!IsFiniteSet((({} \cup {"parent"}) \cup {"sub"}) \cup {"kind"})
        BY <2>2, FS_AddElement, DelegatedSets
    <2>4. (({} \cup {"parent"}) \cup {"sub"}) \cup {"kind"} = fields
        OBVIOUS
    <2> QED
        BY <2>3, <2>4, FS_CardinalityType, DelegatedSets
<1>2. ASSUME NEW r PROVE Delegated!Specificity(r) \in Nat /\ Delegated!Specificity(r) <= bound
    <2> DEFINE T == {f \in fields : r.scope[f] # None}
    <2>1. T \in SUBSET fields
        OBVIOUS
    <2>2. Delegated!IsFiniteSet(T) /\ Delegated!Cardinality(T) <= Delegated!Cardinality(fields)
        BY <1>1, <2>1, FS_Subset, DelegatedSets
    <2>3. Delegated!Cardinality(T) \in Nat
        BY <2>2, FS_CardinalityType, DelegatedSets
    <2> QED
        BY <2>2, <2>3 DEF Delegated!Specificity
<1>3. CASE active = {}
    BY <1>3 DEF Delegated!Mode
<1>4. CASE active # {}
    <2> DEFINE gaps == {n \in 0..bound : \E r \in active : n = bound - Delegated!Specificity(r)}
    <2>1. gaps \subseteq Nat /\ gaps # {}
        <3>1. PICK r \in active : TRUE
            BY <1>4
        <3>2. bound - Delegated!Specificity(r) \in 0..bound
            BY <1>1, <1>2
        <3> QED
            BY <1>1, <3>2
    <2>2. PICK n \in gaps : \A m \in gaps : n <= m
        BY <2>1, LeastNatural
    <2>3. PICK top \in active : n = bound - Delegated!Specificity(top)
        BY <2>2
    <2>4. ASSUME NEW r \in active PROVE Delegated!Specificity(r) <= Delegated!Specificity(top)
        <3>1. bound - Delegated!Specificity(r) \in gaps
            BY <1>1, <1>2
        <3>2. n <= bound - Delegated!Specificity(r)
            BY <3>1, <2>2
        <3>3. Delegated!Specificity(r) \in Nat /\ Delegated!Specificity(top) \in Nat
            BY <1>2
        <3> QED
            BY <1>1, <2>3, <3>2, <3>3
    <2> DEFINE equals == {r \in active : Delegated!Specificity(r) = Delegated!Specificity(top)}
               ages == {m \in 0..MaxRows : \E r \in equals : m = MaxRows - r.id}
    <2>5. MaxRows \in Nat /\ \A r \in active : r.id \in 1..MaxRows
        BY DEF Delegated!Row, DelegationAssumption, Delegated!NumbersAssumption
    <2>6. ages \subseteq Nat /\ ages # {}
        <3>1. top \in equals /\ MaxRows - top.id \in 0..MaxRows
            BY <2>5
        <3> QED
            BY <2>5, <3>1
    <2>7. PICK a \in ages : \A m \in ages : a <= m
        BY <2>6, LeastNatural
    <2>8. PICK newest \in equals : a = MaxRows - newest.id
        BY <2>7
    <2>9. ASSUME NEW r \in active \ {newest} PROVE Delegated!Before(r, newest)
        <3>1. CASE r \in equals
            <4>1. MaxRows - r.id \in ages
                BY <3>1, <2>5
            <4>2. a <= MaxRows - r.id
                BY <4>1, <2>7
            <4>3. r.id \in 1..MaxRows /\ newest.id \in 1..MaxRows
                BY <2>5
            <4>4. r.id # newest.id
                BY DEF Delegated!Numbered
            <4>5. r.id < newest.id
                BY <2>5, <2>8, <4>2, <4>3, <4>4
            <4> QED
                BY <3>1, <4>5 DEF Delegated!Before
        <3>2. CASE r \notin equals
            <4>1. /\ Delegated!Specificity(r) # Delegated!Specificity(top)
                  /\ Delegated!Specificity(r) <= Delegated!Specificity(top)
                BY <3>2, <2>4
            <4>2. Delegated!Specificity(r) \in Nat /\ Delegated!Specificity(top) \in Nat
                BY <1>2
            <4>3. Delegated!Specificity(newest) = Delegated!Specificity(top)
                OBVIOUS
            <4> QED
                BY <4>1, <4>2, <4>3 DEF Delegated!Before
        <3> QED
            BY <3>1, <3>2
    <2>10. newest \in active /\ \A q \in active \ {newest} : Delegated!Before(q, newest)
        BY <2>9
    <2> DEFINE chosen == CHOOSE r \in active : \A q \in active \ {r} : Delegated!Before(q, r)
    <2>11. chosen \in active
        <3> HIDE DEF active
        <3> QED
            BY <2>10
    <2>12. chosen.mode \in Modes
        BY <2>11 DEF Delegated!Row
    <2>13. Delegated!Mode(c, k, candidates) = chosen.mode
        BY <1>4 DEF Delegated!Mode
    <2> QED
        BY <2>12, <2>13
<1> QED
    BY <1>3, <1>4

\* check_delegation names only the four kinds of violation.
LEMMA ViolationsType ==
    ASSUME NEW c \in Calls
    PROVE  Delegated!Violations(c) \subseteq Delegated!Kinds
BY DEF Delegated!Violations, Delegated!Widens

\* Who changes what: an override, or one call.
OverrideStep == Delegated!SetOverride \/ Delegated!DeleteOverride \/ Delegated!Tick
CallStep(c) ==
    \/ Delegated!Record(c) \/ Delegated!RecordUnchecked(c) \/ Delegated!Resolve(c)
           \/ Delegated!ResolveFails(c) \/ Delegated!Persist(c)
    \/ Delegated!PersistFails(c) \/ Delegated!Mark(c) \/ Delegated!MarkFails(c)
           \/ Delegated!Die(c)

\* What a call's query finds are rows of the table, each with a number of its own.
LEMMA VisibleNumbered ==
    ASSUME Delegated!TypeOK, Delegated!RowsNumbered, NEW c \in Calls
    PROVE  /\ Delegated!Numbered(Delegated!Visible(c))
           /\ Delegated!Visible(c) \subseteq Delegated!Row
BY DEF Delegated!TypeOK, Delegated!RowsNumbered, Delegated!Visible, Delegated!Numbered

\* A step keeps the types, and the definitions are not its business.
LEMMA TypeStep ==
    ASSUME DelegationAssumption, Delegated!DelegationInv, [Delegated!Next]_(Delegated!vars)
    PROVE  Delegated!TypeOK' /\ (def \in Snapshots)'
<1> USE DEF DelegationAssumption, Delegated!DelegationInv
<1>0. Modes \subseteq {"observe", "flag", "block"} /\ MaxFaults \in Nat /\ Horizon \in Nat
    BY DEF Delegated!ModesAssumption, Delegated!NumbersAssumption
<1>1. CASE OverrideStep
    <2>1. UNCHANGED <<Delegated!config, pc, todo, view, modes, spoilt, outcome, filed, troubled,
          faults>>
        BY <1>1
           DEF OverrideStep, Delegated!SetOverride, Delegated!DeleteOverride,
               Delegated!Tick, Delegated!OverridesChange
    <2>2. excused' \in [Calls -> SUBSET Delegated!Kinds]
        <3>1. excused' = [c \in Calls |->
                excused[c] \cup
                    {k \in Delegated!Violations(c) : pc[c]
                        = "checking" /\ Delegated!Mode(c, k, rows)' # "block"}]
            BY <1>1
               DEF OverrideStep, Delegated!SetOverride, Delegated!DeleteOverride,
                   Delegated!Tick, Delegated!OverridesChange, Delegated!Excuse
        <3> QED
            BY <3>1, ViolationsType DEF Delegated!TypeOK
    <2>3. now' \in 0..Horizon
        BY <1>1, <1>0
           DEF OverrideStep, Delegated!SetOverride, Delegated!DeleteOverride,
               Delegated!Tick, Delegated!TypeOK
    <2>4. rows' \subseteq Delegated!Row
        <3>1. CASE Delegated!SetOverride
            <4>1. Delegated!Cardinality(rows) + 1 \in 1..MaxRows
                BY <3>1, FS_CardinalityType, DelegatedSets
                   DEF Delegated!SetOverride, Delegated!RowsNumbered,
                       Delegated!NumbersAssumption
            <4>2. PICK scope \in Scopes, mode \in Modes, from \in now..Horizon :
                    \E until \in {None} \cup (from + 1)..Horizon :
                        rows' = rows
                            \cup {[id |-> Delegated!Cardinality(rows) + 1, scope |-> scope,
                                            mode |-> mode, from |-> from, until |-> until]}
                BY <3>1 DEF Delegated!SetOverride
            <4>3. PICK until \in {None} \cup (from + 1)..Horizon :
                        rows' = rows
                            \cup {[id |-> Delegated!Cardinality(rows) + 1, scope |-> scope,
                                            mode |-> mode, from |-> from, until |-> until]}
                BY <4>2
            <4>4. from \in 0..Horizon /\ until \in (-1)..Horizon \cup {None}
                BY <1>0 DEF Delegated!TypeOK
            <4> QED
                BY <4>1, <4>3, <4>4 DEF Delegated!Row, Delegated!TypeOK
        <3>2. CASE Delegated!DeleteOverride
            <4>1. PICK r \in rows : rows' = (rows \ {r}) \cup {[r EXCEPT !.until = now - 1]}
                BY <3>2 DEF Delegated!DeleteOverride
            <4>2. now - 1 \in (-1)..Horizon
                BY <1>0 DEF Delegated!TypeOK
            <4>3. r \in Delegated!Row
                BY DEF Delegated!TypeOK
            <4>4. [r EXCEPT !.until = now - 1] \in Delegated!Row
                BY <4>2, <4>3 DEF Delegated!Row
            <4> QED
                BY <4>1, <4>4 DEF Delegated!TypeOK
        <3>3. CASE Delegated!Tick
            BY <3>3 DEF Delegated!Tick, Delegated!TypeOK
        <3> QED
            BY <1>1, <3>1, <3>2, <3>3 DEF OverrideStep
    <2> QED
        BY <2>1, <2>2, <2>3, <2>4 DEF Delegated!TypeOK, Delegated!config
<1>2. ASSUME NEW c \in Calls, CallStep(c) PROVE Delegated!TypeOK' /\ (def \in Snapshots)'
    <2>1. UNCHANGED <<Delegated!config, Delegated!store>>
        BY <1>2
           DEF CallStep, Delegated!Record, Delegated!RecordUnchecked, Delegated!Recorded,
               Delegated!Resolve, Delegated!ResolveFails, Delegated!Persist,
               Delegated!PersistFails, Delegated!Filed, Delegated!Mark, Delegated!MarkFails,
               Delegated!Die
    <2>2. faults' \in 0..MaxFaults /\ troubled' \subseteq Calls
        BY <1>2, <1>0
           DEF CallStep, Delegated!Record, Delegated!RecordUnchecked, Delegated!Recorded,
               Delegated!Resolve, Delegated!ResolveFails, Delegated!Persist,
               Delegated!PersistFails, Delegated!Filed, Delegated!Mark, Delegated!MarkFails,
               Delegated!Die, Delegated!Trouble, Delegated!TypeOK
    <2>3. ASSUME todo[c] # {}, NEW m \in Modes
          PROVE  [kind |-> Delegated!Min(todo[c]), mode |-> m] \in Delegated!Violation
        <3>1. Delegated!Min(todo[c]) \in Delegated!Kinds
            BY <2>3, MinOfKinds DEF Delegated!TypeOK
        <3> QED
            BY <3>1 DEF Delegated!Violation
    <2>4. /\ Delegated!Mode(c, Delegated!Min(todo[c]), Delegated!Visible(c)) \in Modes
          /\ env \in Modes
        BY ModeType, VisibleNumbered DEF Delegated!TypeOK
    <2>5. modes' \in [Calls -> SUBSET Delegated!Violation]
        BY <1>2, <2>3, <2>4
           DEF CallStep, Delegated!Record, Delegated!RecordUnchecked, Delegated!Recorded,
               Delegated!Resolve, Delegated!ResolveFails, Delegated!Resolved,
               Delegated!Persist, Delegated!PersistFails, Delegated!Filed, Delegated!Mark,
               Delegated!MarkFails, Delegated!Die, Delegated!TypeOK
    <2>6. filed' \in [Calls -> SUBSET Delegated!Violation]
        BY <1>2
           DEF CallStep, Delegated!Record, Delegated!RecordUnchecked, Delegated!Recorded,
               Delegated!Resolve, Delegated!ResolveFails, Delegated!Resolved,
               Delegated!Persist, Delegated!PersistFails, Delegated!Filed, Delegated!Mark,
               Delegated!MarkFails, Delegated!Die, Delegated!TypeOK
    <2>7. /\ todo' \in [Calls -> SUBSET Delegated!Kinds]
          /\ excused' \in [Calls -> SUBSET Delegated!Kinds]
        BY <1>2, ViolationsType
           DEF CallStep, Delegated!Record, Delegated!RecordUnchecked, Delegated!Recorded,
               Delegated!Resolve, Delegated!ResolveFails, Delegated!Resolved,
               Delegated!Persist, Delegated!PersistFails, Delegated!Filed, Delegated!Mark,
               Delegated!MarkFails, Delegated!Die, Delegated!TypeOK
    <2>8. /\ pc' \in [Calls -> {"idle", "clean", "checking", "allowed", "refusing", "refused",
             "dead"}]
          /\ outcome' \in [Calls -> {"success", "blocked", None}]
        BY <1>2
           DEF CallStep, Delegated!Record, Delegated!RecordUnchecked, Delegated!Recorded,
               Delegated!Resolve, Delegated!ResolveFails, Delegated!Resolved,
               Delegated!Persist, Delegated!PersistFails, Delegated!Filed, Delegated!Mark,
               Delegated!MarkFails, Delegated!Die, Delegated!TypeOK
    <2>9. spoilt' \in [Calls -> BOOLEAN]
        BY <1>2, Zenon
           DEF CallStep, Delegated!Record, Delegated!RecordUnchecked, Delegated!Recorded,
               Delegated!Resolve, Delegated!ResolveFails, Delegated!Resolved,
               Delegated!Persist, Delegated!PersistFails, Delegated!Filed, Delegated!Mark,
               Delegated!MarkFails, Delegated!Die, Delegated!TypeOK
    <2>10. view' \in [Calls -> SUBSET Delegated!Row]
        BY <1>2
           DEF CallStep, Delegated!Record, Delegated!RecordUnchecked, Delegated!Recorded,
               Delegated!Resolve, Delegated!ResolveFails, Delegated!Resolved,
               Delegated!Persist, Delegated!PersistFails, Delegated!Filed, Delegated!Mark,
               Delegated!MarkFails, Delegated!Die, Delegated!TypeOK
    <2> QED
        BY <2>1, <2>2, <2>5, <2>6, <2>7, <2>8, <2>9, <2>10
           DEF Delegated!TypeOK, Delegated!config, Delegated!store
<1>3. CASE UNCHANGED Delegated!vars
    BY <1>3
       DEF Delegated!vars, Delegated!config, Delegated!store, Delegated!call,
           Delegated!TypeOK
<1> QED
    BY <1>1, <1>2, <1>3 DEF Delegated!Next, OverrideStep, CallStep

\* A new override takes a number above every other; an ended one keeps its number.
LEMMA RowsStep ==
    ASSUME DelegationAssumption, Delegated!DelegationInv, [Delegated!Next]_(Delegated!vars)
    PROVE  Delegated!RowsNumbered'
<1> USE DEF DelegationAssumption, Delegated!DelegationInv
<1>0. MaxRows \in Nat /\ Delegated!IsFiniteSet(rows) /\ Delegated!Cardinality(rows) \in Nat
    BY FS_CardinalityType, DelegatedSets DEF Delegated!NumbersAssumption, Delegated!RowsNumbered
<1>1. CASE Delegated!SetOverride
    <2>1. PICK scope \in Scopes, mode \in Modes, from \in now..Horizon :
            \E until \in {None} \cup (from + 1)..Horizon :
                rows' = rows \cup {[id |-> Delegated!Cardinality(rows) + 1, scope |-> scope,
                                    mode |-> mode, from |-> from, until |-> until]}
        BY <1>1 DEF Delegated!SetOverride
    <2>2. PICK until \in {None} \cup (from + 1)..Horizon :
                rows' = rows \cup {[id |-> Delegated!Cardinality(rows) + 1, scope |-> scope,
                                    mode |-> mode, from |-> from, until |-> until]}
        BY <2>1
    <2> DEFINE new == [id |-> Delegated!Cardinality(rows) + 1, scope |-> scope,
                       mode |-> mode, from |-> from, until |-> until]
    <2>3. rows' = rows \cup {new} /\ new.id = Delegated!Cardinality(rows) + 1
        BY <2>2
    <2>4. view' = view
        BY <1>1 DEF Delegated!SetOverride, Delegated!OverridesChange
    <2> HIDE DEF new
    <2>5. \A r \in rows : r.id \in 1..Delegated!Cardinality(rows)
        BY <1>0 DEF Delegated!RowsNumbered, Delegated!TypeOK, Delegated!Row
    <2>6. new \notin rows
        BY <1>0, <2>3, <2>5
    <2>7. /\ Delegated!IsFiniteSet(rows')
          /\ Delegated!Cardinality(rows') = Delegated!Cardinality(rows) + 1
        BY <1>0, <2>3, <2>6, FS_AddElement, DelegatedSets
    <2>8. Delegated!Numbered(rows)'
        <3> SUFFICES ASSUME NEW r \in rows', NEW q \in rows', r.id = q.id PROVE r = q
            BY DEF Delegated!Numbered
        <3>1. (r \in rows \/ r = new) /\ (q \in rows \/ q = new)
            BY <2>3
        <3> QED
            BY <3>1, <2>3, <2>5, <1>0 DEF Delegated!RowsNumbered, Delegated!Numbered
    <2>9. \A r \in rows' : r.id <= Delegated!Cardinality(rows')
        BY <2>3, <2>5, <2>7, <1>0
    <2>10. Delegated!Cardinality(rows') <= MaxRows
        BY <1>0, <1>1, <2>7 DEF Delegated!SetOverride
    <2>11. (\A c \in Calls : Delegated!Numbered(view[c]))'
        BY <2>4 DEF Delegated!RowsNumbered, Delegated!Numbered
    <2> QED
        BY <2>7, <2>8, <2>9, <2>10, <2>11 DEF Delegated!RowsNumbered
<1>2. CASE Delegated!DeleteOverride
    <2>1. PICK r \in rows : rows' = (rows \ {r}) \cup {[r EXCEPT !.until = now - 1]}
        BY <1>2 DEF Delegated!DeleteOverride
    <2> DEFINE new == [r EXCEPT !.until = now - 1]
    <2>2. new.id = r.id
        BY DEF Delegated!TypeOK, Delegated!Row
    <2>3. rows' = (rows \ {r}) \cup {new} /\ view' = view
        BY <1>2, <2>1 DEF Delegated!DeleteOverride, Delegated!OverridesChange
    <2> HIDE DEF new
    <2>4. new \notin rows \ {r}
        BY <2>2 DEF Delegated!RowsNumbered, Delegated!Numbered
    <2>5. /\ Delegated!IsFiniteSet(rows \ {r})
          /\ Delegated!Cardinality(rows \ {r}) = Delegated!Cardinality(rows) - 1
        BY <1>0, FS_RemoveElement, DelegatedSets
    <2>6. /\ Delegated!IsFiniteSet(rows')
          /\ Delegated!Cardinality(rows') = Delegated!Cardinality(rows)
        BY <1>0, <2>3, <2>4, <2>5, FS_AddElement, DelegatedSets
    <2>7. Delegated!Numbered(rows)'
        <3> SUFFICES ASSUME NEW p \in rows', NEW q \in rows', p.id = q.id PROVE p = q
            BY DEF Delegated!Numbered
        <3>1. (p \in rows \ {r} \/ p = new) /\ (q \in rows \ {r} \/ q = new)
            BY <2>3
        <3> QED
            BY <3>1, <2>2 DEF Delegated!RowsNumbered, Delegated!Numbered
    <2>8. \A p \in rows' : p.id <= Delegated!Cardinality(rows')
        BY <2>2, <2>3, <2>6 DEF Delegated!RowsNumbered
    <2>9. (\A c \in Calls : Delegated!Numbered(view[c]))'
        BY <2>3 DEF Delegated!RowsNumbered, Delegated!Numbered
    <2> QED
        BY <2>6, <2>7, <2>8, <2>9 DEF Delegated!RowsNumbered
<1>3. CASE Delegated!Tick
    <2>1. rows' = rows /\ view' = view
        BY <1>3 DEF Delegated!Tick, Delegated!OverridesChange
    <2> QED
        BY <2>1 DEF Delegated!RowsNumbered, Delegated!Numbered
<1>4. ASSUME NEW c \in Calls, CallStep(c) PROVE Delegated!RowsNumbered'
    <2>1. rows' = rows
        BY <1>4
           DEF CallStep, Delegated!Record, Delegated!RecordUnchecked, Delegated!Recorded,
               Delegated!Resolve, Delegated!ResolveFails, Delegated!Persist,
               Delegated!PersistFails, Delegated!Filed, Delegated!Mark, Delegated!MarkFails,
               Delegated!Die, Delegated!store
    <2>2. \A b \in Calls : view'[b] \in {view[b], rows, {}}
        BY <1>4
           DEF CallStep, Delegated!Record, Delegated!RecordUnchecked, Delegated!Recorded,
               Delegated!Resolve, Delegated!ResolveFails, Delegated!Resolved,
               Delegated!Persist, Delegated!PersistFails, Delegated!Filed, Delegated!Mark,
               Delegated!MarkFails, Delegated!Die, Delegated!TypeOK
    <2> QED
        BY <2>1, <2>2 DEF Delegated!RowsNumbered, Delegated!Numbered
<1>5. CASE UNCHANGED Delegated!vars
    BY <1>5
       DEF Delegated!vars, Delegated!store, Delegated!call, Delegated!RowsNumbered,
           Delegated!Numbered
<1> QED
    BY <1>1, <1>2, <1>3, <1>4, <1>5 DEF Delegated!Next, CallStep

\* What decides is the clock, the rows, the environment and the definitions.
LEMMA ModeStays ==
    ASSUME env' = env, UNCHANGED Delegated!store, NEW c \in Calls, NEW k
    PROVE  Delegated!Mode(c, k, rows)' = Delegated!Mode(c, k, rows)
<1>1. now' = now /\ rows' = rows
    BY DEF Delegated!store
<1> DEFINE active == {r \in rows : Delegated!Active(r) /\ Delegated!Matches(r, c, k)}
<1>2. active' = active
    BY <1>1 DEF Delegated!Active, Delegated!Matches
<1> QED
    BY <1>1, <1>2
       DEF Delegated!Mode, Delegated!Active, Delegated!Matches, Delegated!Before,
           Delegated!Specificity

\* While the definitions stay, so does what a delegation violates.
LEMMA ViolationsStay ==
    ASSUME def' = def, NEW c \in Calls
    PROVE  Delegated!Violations(c)' = Delegated!Violations(c)
BY DEF Delegated!Violations, Delegated!Widens

\* A call that nothing happens to.
Same(c) ==
    /\ pc'[c] = pc[c] /\ todo'[c] = todo[c] /\ modes'[c] = modes[c] /\ spoilt'[c] = spoilt[c]
    /\ outcome'[c] = outcome[c] /\ filed'[c] = filed[c] /\ (c \in troubled' <=> c \in troubled)
    /\ UNCHANGED Delegated!config

\* A call that does not move keeps its account, if its excuses grow as they should.
LEMMA SameKept ==
    ASSUME NEW c \in Calls, Delegated!CallKept(c), Same(c), excused[c] \subseteq excused'[c],
           \A k \in Delegated!Violations(c) :
              (pc[c] = "checking" /\ Delegated!Mode(c, k, rows)' # "block") => k \in excused'[c]
    PROVE  Delegated!CallKept(c)'
<1>1. Delegated!Violations(c)' = Delegated!Violations(c) /\ dialect' = dialect
    BY ViolationsStay DEF Same, Delegated!config
<1>2. Delegated!Idle(c)'
    BY DEF Same, Delegated!Idle, Delegated!CallKept
<1>3. Delegated!Accounted(c)'
    BY <1>1
       DEF Same, Delegated!Accounted, Delegated!CallKept, Delegated!KindsOf,
           Delegated!Decided
<1>4. Delegated!Answered(c)'
    BY DEF Same, Delegated!Answered, Delegated!Blocking, Delegated!CallKept
<1>5. Delegated!Untroubled(c)'
    BY DEF Same, Delegated!Untroubled, Delegated!Decided, Delegated!CallKept
<1>6. Delegated!Excused(c)'
    BY <1>1 DEF Same, Delegated!Excused, Delegated!CallKept
<1> QED
    BY <1>2, <1>3, <1>4, <1>5, <1>6 DEF Delegated!CallKept

\* Setting or ending an override, or an hour's passing, leaves every call's account whole.
LEMMA OverrideKept ==
    ASSUME DelegationAssumption, Delegated!DelegationInv, OverrideStep, NEW c \in Calls
    PROVE  Delegated!CallKept(c)'
<1>1. /\ UNCHANGED <<Delegated!config, pc, todo, view, modes, spoilt, outcome, filed, troubled,
         faults>>
      /\ Delegated!Excuse
    BY DEF OverrideStep, Delegated!SetOverride, Delegated!DeleteOverride, Delegated!Tick,
           Delegated!OverridesChange
<1>2. Same(c)
    BY <1>1 DEF Same
<1>3. excused'[c] = excused[c] \cup
            {k \in Delegated!Violations(c) : pc[c]
                = "checking" /\ Delegated!Mode(c, k, rows)' # "block"}
    BY <1>1 DEF Delegated!Excuse
<1> QED
    BY <1>2, <1>3, SameKept DEF Delegated!DelegationInv

\* A step of one call leaves the others' accounts whole.
LEMMA OthersKept ==
    ASSUME DelegationAssumption, Delegated!DelegationInv, NEW c \in Calls, CallStep(c),
           NEW b \in Calls, b # c
    PROVE  Delegated!CallKept(b)'
<1> USE DEF Delegated!DelegationInv
<1>1. UNCHANGED <<Delegated!config, Delegated!store>>
    BY DEF CallStep, Delegated!Record, Delegated!RecordUnchecked, Delegated!Recorded,
           Delegated!Resolve, Delegated!ResolveFails, Delegated!Persist,
           Delegated!PersistFails, Delegated!Filed, Delegated!Mark, Delegated!MarkFails,
           Delegated!Die
<1>2. /\ pc'[b] = pc[b] /\ todo'[b] = todo[b] /\ modes'[b] = modes[b]
      /\ outcome'[b] = outcome[b] /\ filed'[b] = filed[b] /\ excused'[b] = excused[b]
    BY DEF CallStep, Delegated!Record, Delegated!RecordUnchecked, Delegated!Recorded,
           Delegated!Resolve, Delegated!ResolveFails, Delegated!Resolved, Delegated!Persist,
           Delegated!PersistFails, Delegated!Filed, Delegated!Mark, Delegated!MarkFails,
           Delegated!Die, Delegated!TypeOK
<1>3. spoilt'[b] = spoilt[b] /\ (b \in troubled' <=> b \in troubled)
    BY DEF CallStep, Delegated!Record, Delegated!RecordUnchecked, Delegated!Recorded,
           Delegated!Resolve, Delegated!ResolveFails, Delegated!Resolved, Delegated!Persist,
           Delegated!PersistFails, Delegated!Filed, Delegated!Mark, Delegated!MarkFails,
           Delegated!Die, Delegated!Trouble, Delegated!TypeOK
<1>4. Same(b)
    BY <1>1, <1>2, <1>3 DEF Same
<1>5. \A k \in Delegated!Violations(b) :
              (pc[b] = "checking" /\ Delegated!Mode(b, k, rows)' # "block") => k \in excused'[b]
    BY <1>1, <1>2, ModeStays DEF Delegated!config, Delegated!CallKept, Delegated!Excused
<1> QED
    BY <1>2, <1>4, <1>5, SameKept

\* Each step of a call keeps its own account, one case per step.
LEMMA OwnKept ==
    ASSUME DelegationAssumption, Delegated!DelegationInv, NEW c \in Calls, CallStep(c)
    PROVE  Delegated!CallKept(c)'
<1> USE DEF Delegated!DelegationInv
<1>0. Delegated!CallKept(c)
    OBVIOUS
<1>1. UNCHANGED <<Delegated!config, Delegated!store>>
    BY DEF CallStep, Delegated!Record, Delegated!RecordUnchecked, Delegated!Recorded,
           Delegated!Resolve, Delegated!ResolveFails, Delegated!Persist,
           Delegated!PersistFails, Delegated!Filed, Delegated!Mark, Delegated!MarkFails,
           Delegated!Die
<1>2. dialect' = dialect /\ env' = env /\ def' = def
    BY <1>1 DEF Delegated!config
<1>3. Delegated!Violations(c)' = Delegated!Violations(c) /\ \A k : Delegated!Mode(c, k, rows)'
          = Delegated!Mode(c, k, rows)
    BY <1>1, <1>2, ModeStays, ViolationsStay
<1>4. None \notin {"success", "blocked"}
    BY DEF DelegationAssumption, Delegated!DefinitionsAssumption
<1>5. ASSUME NEW violations, Delegated!Recorded(c, violations),
             \/ violations = Delegated!Violations(c) /\ troubled' = troubled
             \/ violations = {} /\ troubled' = troubled \cup {c}
      PROVE  Delegated!CallKept(c)'
    <2>1. /\ pc[c] = "idle" /\ outcome'[c] = "success" /\ todo'[c] = violations
          /\ pc'[c] = IF violations = {} THEN "clean" ELSE "checking"
          /\ excused'[c] = {k \in violations : Delegated!Mode(c, k, rows) # "block"}
        BY <1>5 DEF Delegated!Recorded, Delegated!TypeOK
    <2>2. modes' = modes /\ spoilt' = spoilt /\ filed' = filed
        BY <1>5 DEF Delegated!Recorded
    <2>3. modes[c] = {} /\ filed[c] = {} /\ ~ spoilt[c]
        BY <1>0, <2>1 DEF Delegated!CallKept, Delegated!Idle
    <2>4. Delegated!Idle(c)' /\ Delegated!Answered(c)' /\ Delegated!Untroubled(c)'
        BY <2>1, <2>2, <2>3, <1>4
           DEF Delegated!Idle, Delegated!Answered, Delegated!Untroubled, Delegated!Decided
    <2>5. Delegated!Accounted(c)'
        BY <1>3, <1>5, <2>1, <2>2, <2>3
           DEF Delegated!Accounted, Delegated!KindsOf, Delegated!Decided
    <2>6. Delegated!Excused(c)'
        BY <1>3, <1>5, <2>1, <2>2, <2>3 DEF Delegated!Excused
    <2> QED
        BY <2>4, <2>5, <2>6 DEF Delegated!CallKept
<1>6. CASE Delegated!Record(c) \/ Delegated!RecordUnchecked(c)
    BY <1>5, <1>6 DEF Delegated!Record, Delegated!RecordUnchecked, Delegated!Trouble
<1>7. ASSUME NEW mode \in Modes, Delegated!Resolved(c, mode),
             UNCHANGED <<pc, outcome, filed, excused>>,
             \/ troubled' = troubled /\ spoilt' = spoilt
                /\ mode = Delegated!Mode(c, Delegated!Min(todo[c]), Delegated!Visible(c))
             \/ troubled' = troubled \cup {c}
      PROVE  Delegated!CallKept(c)'
    <2> DEFINE k == Delegated!Min(todo[c])
               new == [kind |-> k, mode |-> mode]
    <2>1. /\ pc[c] = "checking" /\ todo[c] # {} /\ todo'[c] = todo[c] \ {k}
          /\ modes'[c] = modes[c] \cup {new}
        BY <1>7 DEF Delegated!Resolved, Delegated!TypeOK
    <2>2. k \in todo[c]
        BY <2>1, MinOfKinds DEF Delegated!TypeOK
    <2>3. new.kind = k /\ new.mode = mode
        OBVIOUS
    <2>4. Delegated!Idle(c)' /\ Delegated!Answered(c)' /\ Delegated!Untroubled(c)'
        <3> HIDE DEF new, k
        <3> QED
            BY <1>0, <1>7, <2>1
               DEF Delegated!CallKept, Delegated!Idle, Delegated!Answered,
                   Delegated!Untroubled, Delegated!Decided
    <2>5. Delegated!Accounted(c)'
        <3>1. Delegated!KindsOf(modes[c])' = Delegated!KindsOf(modes[c]) \cup {k}
            BY <2>1, <2>3 DEF Delegated!KindsOf
        <3>2. Delegated!KindsOf(modes[c]) \cup todo[c] = Delegated!Violations(c)
            BY <1>0, <2>1 DEF Delegated!CallKept, Delegated!Accounted
        <3>3. pc'[c] = "checking" /\ todo'[c] = todo[c] \ {k}
            BY <1>7, <2>1
        <3> HIDE DEF k
        <3>4. Delegated!KindsOf(modes[c])' \cup todo'[c] = Delegated!Violations(c)
            BY <2>2, <3>1, <3>2, <3>3
        <3> QED
            BY <1>3, <3>3, <3>4 DEF Delegated!Accounted, Delegated!Decided
    <2>6. Delegated!Excused(c)'
        <3>1. (\A j \in Delegated!Violations(c) : Delegated!Mode(c, j, rows) # "block"
                  => j \in excused[c])'
            BY <1>0, <1>3, <1>7, <2>1 DEF Delegated!CallKept, Delegated!Excused
        <3>2. ASSUME (c \notin troubled)', dialect # "mysql"
              PROVE  (\A m \in modes[c] : m.mode # "block" => m.kind \in excused[c])'
            <4>1. c \notin troubled /\ mode = Delegated!Mode(c, k, Delegated!Visible(c))
                BY <1>7, <3>2
            <4>2. Delegated!Visible(c) = rows
                BY <1>0, <3>2, <4>1
                   DEF Delegated!Visible, Delegated!CallKept, Delegated!Untroubled
            <4>3. k \in Delegated!Violations(c)
                BY <1>0, <2>1, <2>2 DEF Delegated!CallKept, Delegated!Accounted
            <4>4. mode # "block" => k \in excused[c]
                BY <1>0, <2>1, <4>1, <4>2, <4>3 DEF Delegated!CallKept, Delegated!Excused
            <4>5. \A m \in modes[c] : m.mode # "block" => m.kind \in excused[c]
                BY <1>0, <3>2, <4>1 DEF Delegated!CallKept, Delegated!Excused
            <4> HIDE DEF new, k
            <4> QED
                BY <1>7, <2>1, <2>3, <4>4, <4>5
        <3> QED
            BY <1>2, <3>1, <3>2 DEF Delegated!Excused
    <2> QED
        BY <2>4, <2>5, <2>6 DEF Delegated!CallKept
<1>8. CASE Delegated!Resolve(c)
    <2>1. Delegated!Mode(c, Delegated!Min(todo[c]), Delegated!Visible(c)) \in Modes
        BY ModeType, VisibleNumbered DEF Delegated!TypeOK
    <2> QED
        BY <1>7, <1>8, <2>1 DEF Delegated!Resolve
<1>9. CASE Delegated!ResolveFails(c)
    <2>1. env \in Modes
        BY DEF Delegated!TypeOK
    <2> QED
        BY <1>7, <1>9, <2>1 DEF Delegated!ResolveFails, Delegated!Trouble
<1>10. ASSUME NEW blocked \in SUBSET modes[c], Delegated!Filed(c, blocked), (~ spoilt[c])',
              \/ troubled' = troubled /\ blocked = (IF spoilt[c] THEN {} ELSE modes[c])
              \/ troubled' = troubled \cup {c}
       PROVE  Delegated!CallKept(c)'
    <2>1. /\ pc[c] = "checking" /\ todo[c] = {} /\ filed'[c] = blocked
          /\ pc'[c] = IF Delegated!Blocking(c) THEN "refusing" ELSE "allowed"
        BY <1>10 DEF Delegated!Filed, Delegated!TypeOK
    <2>2. todo' = todo /\ modes' = modes /\ outcome' = outcome /\ excused' = excused
        BY <1>10 DEF Delegated!Filed
    <2>3. Delegated!Idle(c)' /\ Delegated!Accounted(c)'
        BY <1>0, <1>3, <2>1, <2>2
           DEF Delegated!CallKept, Delegated!Idle, Delegated!Accounted, Delegated!Decided
    <2>4. Delegated!Answered(c)'
        BY <1>0, <2>1, <2>2 DEF Delegated!CallKept, Delegated!Answered, Delegated!Blocking
    <2>5. Delegated!Untroubled(c)'
        BY <1>0, <1>10, <2>1, <2>2
           DEF Delegated!CallKept, Delegated!Untroubled, Delegated!Decided
    <2>6. Delegated!Excused(c)'
        BY <1>0, <1>2, <1>10, <2>1, <2>2 DEF Delegated!CallKept, Delegated!Excused
    <2> QED
        BY <2>3, <2>4, <2>5, <2>6 DEF Delegated!CallKept
<1>11. CASE Delegated!Persist(c)
    <2> DEFINE blocked == IF spoilt[c] THEN {} ELSE modes[c]
    <2>1. blocked \in SUBSET modes[c] /\ Delegated!Filed(c, blocked) /\ troubled' = troubled
        BY <1>11 DEF Delegated!Persist
    <2>2. (~ spoilt[c])'
        BY <1>11 DEF Delegated!Persist, Delegated!TypeOK
    <2> QED
        BY <1>10, <2>1, <2>2
<1>12. CASE Delegated!PersistFails(c)
    <2>1. (~ spoilt[c])' /\ troubled' = troubled \cup {c}
        BY <1>12 DEF Delegated!PersistFails, Delegated!Trouble, Delegated!TypeOK
    <2>2. PICK blocked \in SUBSET modes[c] : Delegated!Filed(c, blocked)
        BY <1>12 DEF Delegated!PersistFails
    <2> QED
        BY <1>10, <2>1, <2>2
<1>13. ASSUME pc'[c] \in {"refused", "dead"}, pc[c] \in {"checking", "refusing"},
              pc'[c] = "refused" => pc[c] = "refusing",
              UNCHANGED <<todo, modes, spoilt, filed, excused>>,
              \/ troubled' = troubled /\ outcome'[c] = "blocked" /\ pc'[c] = "refused"
              \/ troubled' = troubled \cup {c} /\ outcome' = outcome
       PROVE  Delegated!CallKept(c)'
    <2>1. Delegated!Idle(c)'
        BY <1>13 DEF Delegated!Idle
    <2>2. Delegated!Accounted(c)'
        BY <1>0, <1>3, <1>13 DEF Delegated!CallKept, Delegated!Accounted, Delegated!Decided
    <2>3. Delegated!Answered(c)'
        BY <1>0, <1>13 DEF Delegated!CallKept, Delegated!Answered, Delegated!Blocking
    <2>4. Delegated!Untroubled(c)'
        BY <1>0, <1>13 DEF Delegated!CallKept, Delegated!Untroubled, Delegated!Decided
    <2>5. Delegated!Excused(c)'
        BY <1>0, <1>2, <1>13 DEF Delegated!CallKept, Delegated!Excused
    <2> QED
        BY <2>1, <2>2, <2>3, <2>4, <2>5 DEF Delegated!CallKept
<1>14. CASE Delegated!Mark(c)
    <2>1. pc[c] = "refusing" /\ pc'[c] = "refused" /\ outcome'[c] = "blocked"
        BY <1>14 DEF Delegated!Mark, Delegated!TypeOK
    <2> QED
        BY <1>13, <1>14, <2>1 DEF Delegated!Mark
<1>15. CASE Delegated!MarkFails(c) \/ Delegated!Die(c)
    <2>1. /\ pc[c] \in {"checking", "refusing"} /\ pc'[c] \in {"refused", "dead"}
          /\ pc'[c] = "refused" => pc[c] = "refusing"
        BY <1>15 DEF Delegated!MarkFails, Delegated!Die, Delegated!TypeOK
    <2>2. /\ UNCHANGED <<todo, modes, spoilt, filed, excused, outcome>>
          /\ troubled' = troubled \cup {c}
        BY <1>15 DEF Delegated!MarkFails, Delegated!Die, Delegated!Trouble
    <2> QED
        BY <1>13, <2>1, <2>2
<1> QED
    BY <1>6, <1>8, <1>9, <1>11, <1>12, <1>14, <1>15 DEF CallStep

\* No call has begun and no override is set.
LEMMA DelegationInit ==
    ASSUME DelegationAssumption, Delegated!Init
    PROVE  Delegated!DelegationInv
<1>1. Delegated!TypeOK /\ def \in Snapshots
    <2>1. MaxFaults \in Nat /\ Horizon \in Nat /\ env \in Modes
        BY DEF DelegationAssumption, Delegated!NumbersAssumption, Delegated!ModesAssumption,
               Delegated!Init
    <2>2. spoilt \in [Calls -> BOOLEAN]
        BY Zenon DEF Delegated!Init
    <2> QED
        BY <2>1, <2>2 DEF Delegated!Init, Delegated!TypeOK
<1>2. Delegated!RowsNumbered
    <2>1. MaxRows \in Nat
        BY DEF DelegationAssumption, Delegated!NumbersAssumption
    <2> QED
        BY <2>1, FS_EmptySet, DelegatedSets
           DEF Delegated!Init, Delegated!RowsNumbered, Delegated!Numbered
<1>3. ASSUME NEW c \in Calls PROVE Delegated!CallKept(c)
    <2>1. None \notin {"success", "blocked"}
        BY DEF DelegationAssumption, Delegated!DefinitionsAssumption
    <2>2. /\ pc[c] = "idle" /\ todo[c] = {} /\ modes[c] = {} /\ filed[c] = {} /\ ~ spoilt[c]
          /\ outcome[c] = None /\ c \notin troubled
        BY DEF Delegated!Init
    <2> QED
        BY <2>1, <2>2
           DEF Delegated!CallKept, Delegated!Idle, Delegated!Accounted, Delegated!Answered,
               Delegated!Untroubled, Delegated!Excused, Delegated!Decided
<1> QED
    BY <1>1, <1>2, <1>3 DEF Delegated!DelegationInv

\* Two delegations without a violation compose.
LEMMA ChainsCompose ==
    ASSUME DelegationAssumption, Delegated!DelegationInv
    PROVE  Delegated!ChainsNarrow
<1> SUFFICES ASSUME NEW c \in Calls \ troubled, NEW d \in Calls \ troubled,
                    SubOf[c] = ParentOf[d], pc[c] = "clean", pc[d] = "clean",
                    Delegated!Declares(def[ParentOf[c]]), Delegated!Declares(def[SubOf[c]]),
                    Delegated!Declares(def[SubOf[d]])
             PROVE  Delegated!Within(def[SubOf[d]], def[ParentOf[c]])
    BY DEF Delegated!ChainsNarrow
<1> DEFINE top == def[ParentOf[c]]
           middle == def[SubOf[c]]
           bottom == def[SubOf[d]]
<1>1. Delegated!Violations(c) = {} /\ Delegated!Violations(d) = {}
    BY DEF Delegated!DelegationInv, Delegated!CallKept, Delegated!Accounted
<1>2. Delegated!Widens(top, middle) = {} /\ Delegated!Widens(middle, bottom) = {}
    BY <1>1 DEF Delegated!Violations, Delegated!Declares
<1>3. {1, 2, 3, 4} \subseteq Delegated!Kinds
    BY DEF Delegated!Kinds
<1>4. ASSUME NEW p, NEW s, Delegated!Widens(p, s) = {}, Delegated!Declares(p),
             Delegated!Declares(s)
      PROVE  /\ ~ (s.access > p.access) /\ s.data \subseteq p.data
             /\ ~ (s.loop < p.loop) /\ s.tools \subseteq p.tools
    <2>1. /\ 1 \notin Delegated!Widens(p, s) /\ 2 \notin Delegated!Widens(p, s)
          /\ 3 \notin Delegated!Widens(p, s)
          /\ 4 \notin Delegated!Widens(p, s)
        BY <1>4
    <2> QED
        BY <2>1, <1>3, <1>4
           DEF Delegated!Widens, Delegated!Access, Delegated!Data, Delegated!Loop,
               Delegated!Tools, Delegated!Declares
<1>5. /\ ParentOf[c] \in Delegated!Agents /\ SubOf[c] \in Delegated!Agents
      /\ SubOf[d] \in Delegated!Agents
    BY DEF Delegated!Agents
<1>6. \A a \in Delegated!Agents : Delegated!Declares(def[a])
          => def[a].access \in Int /\ def[a].loop \in Int
    BY DEF DelegationAssumption, Delegated!DefinitionsAssumption, Delegated!DelegationInv,
           Delegated!Declares
<1>7. /\ top.access \in Int /\ middle.access \in Int /\ bottom.access \in Int
      /\ top.loop \in Int /\ middle.loop \in Int /\ bottom.loop \in Int
    BY <1>5, <1>6
<1>8. /\ ~ (middle.access > top.access) /\ middle.data \subseteq top.data
      /\ ~ (middle.loop < top.loop) /\ middle.tools \subseteq top.tools
    BY <1>2, <1>4
<1>9. /\ ~ (bottom.access > middle.access) /\ bottom.data \subseteq middle.data
      /\ ~ (bottom.loop < middle.loop) /\ bottom.tools \subseteq middle.tools
    BY <1>2, <1>4
<1> HIDE DEF top, middle, bottom
<1>10. Delegated!Within(bottom, top)
    BY <1>7, <1>8, <1>9 DEF Delegated!Within
<1> QED
    BY <1>10 DEF top, bottom

\* A delegation that goes ahead had, for each violation, a moment at which it was not blocked;
\* a refused one is on record with all its violations; and chains of clean delegations only
\* narrow: whatever overrides come and go between the queries of record_invocation.
THEOREM DelegationKeptHolds ==
    ASSUME DelegationAssumption
    PROVE  Delegated!Spec => []Delegated!DelegationKept
<1>1. Delegated!Init => Delegated!DelegationInv
    BY DelegationInit
<1>2. Delegated!DelegationInv /\ [Delegated!Next]_(Delegated!vars) => Delegated!DelegationInv'
    <2> SUFFICES ASSUME Delegated!DelegationInv, [Delegated!Next]_(Delegated!vars)
                 PROVE  Delegated!DelegationInv'
        OBVIOUS
    <2>1. ASSUME NEW b \in Calls PROVE Delegated!CallKept(b)'
        <3>1. CASE OverrideStep
            BY <3>1, OverrideKept
        <3>2. ASSUME NEW c \in Calls, CallStep(c) PROVE Delegated!CallKept(b)'
            BY <3>2, OwnKept, OthersKept
        <3>3. CASE UNCHANGED Delegated!vars
            <4>1. Delegated!CallKept(b)
                BY DEF Delegated!DelegationInv
            <4>2. Same(b) /\ excused'[b] = excused[b] /\ UNCHANGED Delegated!store
                BY <3>3 DEF Delegated!vars, Delegated!call, Same
            <4>3. \A k : Delegated!Mode(b, k, rows)' = Delegated!Mode(b, k, rows)
                BY <4>2, ModeStays DEF Same, Delegated!config
            <4> QED
                BY <4>1, <4>2, <4>3, SameKept DEF Delegated!CallKept, Delegated!Excused
        <3> QED
            BY <3>1, <3>2, <3>3 DEF Delegated!Next, OverrideStep, CallStep
    <2> QED
        BY <2>1, TypeStep, RowsStep DEF Delegated!DelegationInv
<1>3. Delegated!DelegationInv => Delegated!DelegationKept
    <2> SUFFICES ASSUME Delegated!DelegationInv PROVE Delegated!DelegationKept
        OBVIOUS
    <2>1. Delegated!BlockStands
        <3> SUFFICES ASSUME NEW c \in Calls \ troubled, dialect # "mysql", pc[c] = "allowed",
                            NEW k \in Delegated!Violations(c)
                     PROVE  k \in excused[c]
            BY DEF Delegated!BlockStands
        <3>1. Delegated!CallKept(c)
            BY DEF Delegated!DelegationInv
        <3>2. PICK m \in modes[c] : m.kind = k
            BY <3>1
               DEF Delegated!CallKept, Delegated!Accounted, Delegated!Decided,
                   Delegated!KindsOf
        <3>3. m.mode # "block"
            BY <3>1 DEF Delegated!CallKept, Delegated!Answered, Delegated!Blocking
        <3> QED
            BY <3>1, <3>2, <3>3 DEF Delegated!CallKept, Delegated!Excused
    <2>2. Delegated!RefusalsOnRecord
        <3> SUFFICES ASSUME NEW c \in Calls
                     PROVE  /\ (pc[c] = "refused" /\ c \notin troubled) =>
                                /\ Delegated!KindsOf(filed[c]) = Delegated!Violations(c)
                                /\ \E m \in filed[c] : m.mode = "block"
                                /\ outcome[c] = "blocked"
                            /\ outcome[c] = "blocked"
                                   => pc[c] = "refused" /\ Delegated!Blocking(c)
                            /\ filed[c] \subseteq modes[c]
            BY DEF Delegated!RefusalsOnRecord, Delegated!KindsOf
        <3>1. Delegated!CallKept(c)
            BY DEF Delegated!DelegationInv
        <3> QED
            BY <3>1
               DEF Delegated!CallKept, Delegated!Accounted, Delegated!Answered,
                   Delegated!Untroubled, Delegated!Decided, Delegated!Blocking
    <2> QED
        BY <2>1, <2>2, ChainsCompose DEF Delegated!DelegationKept
<1> QED
    BY <1>1, <1>2, <1>3, PTL DEF Delegated!Spec
-----------------------------------------------------------------------------
(* Rogue events.  Each counter is the number of the events that wrote it,  *)
(* told by what the events have passed and what they missed; a key lives   *)
(* until the latest of its events lets it go.                              *)

\* RogueSignals counts sets as the theorems of the library do.
LEMMA SignalSets ==
    ASSUME NEW S
    PROVE  Signal!Cardinality(S) = Cardinality(S) /\ (Signal!IsFiniteSet(S) <=> IsFiniteSet(S))
BY DEF Signal!Cardinality, Cardinality, Signal!IsFiniteSet, IsFiniteSet

SignalsAssumption == /\ Signal!ReportsAssumption /\ Signal!WindowsAssumption
                     /\ Signal!NumbersAssumption

\* The number of the events that meet a condition.
LEMMA ReportSets ==
    ASSUME SignalsAssumption, NEW S, S \subseteq Reports
    PROVE  Signal!IsFiniteSet(S) /\ Signal!Cardinality(S) \in 0..Signal!Cardinality(Reports)
BY FS_Subset, FS_CardinalityType, SignalSets DEF SignalsAssumption, Signal!ReportsAssumption

\* A part of a set of reports is no larger than it.
LEMMA ReportSubsets ==
    ASSUME SignalsAssumption, NEW T, T \subseteq Reports, NEW S, S \subseteq T
    PROVE  Signal!Cardinality(S) <= Signal!Cardinality(T)
<1>1. Signal!IsFiniteSet(T)
    BY ReportSets
<1> QED
    BY <1>1, FS_Subset, SignalSets

\* Reports are counted one by one.
LEMMA OneReportMore ==
    ASSUME SignalsAssumption, NEW S, S \subseteq Reports, NEW r \in Reports, r \notin S
    PROVE  Signal!Cardinality(S \cup {r}) = Signal!Cardinality(S) + 1
BY ReportSets, FS_AddElement, SignalSets

\* Where the events that wrote a row are.
AgentWrote(q, x) ==
    IF x = SubjectOf[q]
    THEN pc[q] \notin {"count", "subject"} /\ <<q, "subject">> \notin hit
    ELSE /\ ActorOf[q] # None /\ x = ActorOf[q]
         /\ pc[q] = "done" /\ <<q, "actor">> \notin hit
UserWrote(q, x) ==
    /\ UserOf[q] # None /\ x = UserOf[q] /\ pc[q] \in {"actor", "done"}
    /\ <<q, "user">> \notin hit
    /\ ~ (<<q, "legacy">> \in hit /\ dialect = "postgresql")
WritersAre ==
    \A q \in Reports : \A x :
        /\ q \in Signal!Writers(<<"agent", x>>) <=> AgentWrote(q, x)
        /\ q \in Signal!Writers(<<"user", x>>) <=> UserWrote(q, x)

\* Who wrote an agent's row are the reports that wrote it as the agent's.
LEMMA AgentWriter ==
    ASSUME NEW q \in Reports, NEW x
    PROVE  q \in Signal!Writers(<<"agent", x>>) <=> AgentWrote(q, x)
<1> DEFINE p == <<"agent", x>>
<1>1. /\ p[1] = "agent" /\ p[1] # "user"
      /\ \A y : p = <<"agent", y>> <=> x = y
      /\ \A y : p # <<"user", y>>
    OBVIOUS
<1>2. p \in Signal!Accused(q) <=> x = SubjectOf[q] \/ (ActorOf[q] # None /\ x = ActorOf[q])
    BY <1>1 DEF Signal!Accused
<1>3. Signal!Missed(q, p)
          <=> IF x = SubjectOf[q] THEN <<q, "subject">> \in hit ELSE <<q, "actor">> \in hit
    BY <1>1 DEF Signal!Missed
<1>4. Signal!Passed(q, p)
          <=> IF x = SubjectOf[q] THEN pc[q] \notin {"count", "subject"} ELSE pc[q] = "done"
    BY <1>1 DEF Signal!Passed
<1> HIDE DEF p
<1>5. q \in Signal!Writers(p)
          <=> p \in Signal!Accused(q) /\ Signal!Passed(q, p) /\ ~ Signal!Missed(q, p)
    BY DEF Signal!Writers
<1>6. q \in Signal!Writers(p) <=> AgentWrote(q, x)
    BY <1>2, <1>3, <1>4, <1>5 DEF AgentWrote
<1> QED
    BY <1>6 DEF p

\* Who wrote a user's row are the reports that wrote it as the user's.
LEMMA UserWriter ==
    ASSUME NEW q \in Reports, NEW x
    PROVE  q \in Signal!Writers(<<"user", x>>) <=> UserWrote(q, x)
<1> DEFINE p == <<"user", x>>
<1>1. /\ p[1] = "user" /\ p[1] # "agent"
      /\ \A y : p = <<"user", y>> <=> x = y
      /\ \A y : p # <<"agent", y>>
    OBVIOUS
<1>2. p \in Signal!Accused(q) <=> (UserOf[q] # None /\ x = UserOf[q])
    BY <1>1 DEF Signal!Accused
<1>3. Signal!Missed(q, p)
          <=> <<q, "user">> \in hit \/ (<<q, "legacy">> \in hit /\ dialect = "postgresql")
    BY <1>1 DEF Signal!Missed
<1>4. Signal!Passed(q, p) <=> pc[q] \in {"actor", "done"}
    BY <1>1 DEF Signal!Passed
<1> HIDE DEF p
<1>5. q \in Signal!Writers(p)
          <=> p \in Signal!Accused(q) /\ Signal!Passed(q, p) /\ ~ Signal!Missed(q, p)
    BY DEF Signal!Writers
<1>6. q \in Signal!Writers(p) <=> UserWrote(q, x)
    BY <1>2, <1>3, <1>4, <1>5 DEF UserWrote
<1> QED
    BY <1>6 DEF p

\* Both, of every report and principal at once, in this state ...
LEMMA WritersNow == WritersAre
BY AgentWriter, UserWriter DEF WritersAre

\* ... and in the next.
LEMMA WritersNext == WritersAre'
BY WritersNow, PTL

\* An event's step: everything about the others stays.
ReportStep(r) ==
    \/ Signal!Count(r) \/ Signal!CountFails(r) \/ Signal!Mirror(r) \/ Signal!MirrorFails(r)
    \/ Signal!UserUpsert(r) \/ Signal!UserRead(r) \/ Signal!UserWrite(r) \/ Signal!UserFails(r)

\* A step of a report moves that report and no other, and can only miss the write it is at.
LEMMA OneMoves ==
    ASSUME Signal!SignalsInv, NEW r \in Reports, ReportStep(r)
    PROVE  /\ \A q \in Reports \ {r} : /\ pc'[q] = pc[q] /\ counted'[q] = counted[q]
                                       /\ spoilt'[q] = spoilt[q] /\ read'[q] = read[q]
           /\ hit' \in {hit, hit \cup {<<r, pc[r]>>}}
           /\ dialect' = dialect /\ now' = now
<1>1. hit' \in {hit, hit \cup {<<r, pc[r]>>}}
    BY DEF ReportStep, Signal!Count, Signal!CountFails, Signal!Mirror, Signal!MirrorFails,
           Signal!UserUpsert, Signal!UserRead, Signal!UserWrite, Signal!UserFails,
           Signal!Fault, Signal!NoFault
<1>2. dialect' = dialect /\ now' = now
    BY DEF ReportStep, Signal!Count, Signal!CountFails, Signal!Mirror, Signal!MirrorFails,
           Signal!Mirrored, Signal!UserUpsert, Signal!UserRead, Signal!UserWrite,
           Signal!UserFails, Signal!counters
<1> QED
    BY <1>1, <1>2
       DEF ReportStep, Signal!Count, Signal!CountFails, Signal!Mirror, Signal!MirrorFails,
           Signal!Mirrored, Signal!UserUpsert, Signal!UserRead, Signal!UserWrite,
           Signal!UserFails, Signal!counters, Signal!SignalsInv, Signal!TypeOK

\* So the other reports wrote to a principal what they had written.
LEMMA OthersWriters ==
    ASSUME Signal!SignalsInv, NEW r \in Reports, ReportStep(r), NEW q \in Reports \ {r},
           NEW p \in Signal!Principals
    PROVE  (q \in Signal!Writers(p))' <=> q \in Signal!Writers(p)
<1>1. pc'[q] = pc[q] /\ dialect' = dialect
    BY OneMoves
<1>2. \A w : <<q, w>> \in hit' <=> <<q, w>> \in hit
    BY OneMoves
<1>3. Signal!Passed(q, p)' <=> Signal!Passed(q, p)
    BY <1>1 DEF Signal!Passed
<1>4. Signal!Missed(q, p)' <=> Signal!Missed(q, p)
    BY <1>1, <1>2 DEF Signal!Missed
<1> QED
    BY <1>3, <1>4 DEF Signal!Writers, Signal!Accused

\* A principal is an agent or a user.
LEMMA Principal ==
    ASSUME NEW p \in Signal!Principals
    PROVE  \E x : p = <<"agent", x>> \/ (x \in Signal!Users /\ p = <<"user", x>>)
BY DEF Signal!Principals

\* Of its own writes a report changes only the one it is about to make.
LEMMA OwnWrote ==
    ASSUME Signal!SignalsInv, NEW r \in Reports, ReportStep(r), NEW x
    PROVE  /\ (Signal!Mirror(r) /\ ~ spoilt[r] /\ Signal!Blamed(r) = <<"agent", x>>)
                \/ (AgentWrote(r, x)' <=> AgentWrote(r, x))
           /\ (Signal!Mirror(r) /\ ~ spoilt[r] /\ Signal!Blamed(r) = <<"user", x>>)
                \/ (UserWrote(r, x)' <=> UserWrote(r, x))
<1> USE DEF Signal!SignalsInv
<1>0. dialect' = dialect
    BY OneMoves
<1>1. CASE Signal!Count(r) \/ Signal!CountFails(r)
    <2>1. pc[r] = "count" /\ pc'[r] = "subject" /\ hit' \subseteq hit \cup {<<r, "count">>}
          /\ hit \subseteq hit'
        BY <1>1 DEF Signal!Count, Signal!CountFails, Signal!Fault, Signal!NoFault, Signal!TypeOK
    <2> QED
        BY <1>0, <2>1 DEF AgentWrote, UserWrote
<1>2. CASE Signal!UserUpsert(r) \/ Signal!UserWrite(r) \/ Signal!UserFails(r)
    <2>1. pc[r] = "legacy" /\ pc'[r] = "user" /\ hit' \subseteq hit \cup {<<r, "legacy">>}
          /\ hit \subseteq hit'
        BY <1>2
           DEF Signal!UserUpsert, Signal!UserWrite, Signal!UserFails, Signal!Fault,
               Signal!NoFault, Signal!TypeOK
    <2> QED
        BY <1>0, <2>1 DEF AgentWrote, UserWrote
<1>3. CASE Signal!UserRead(r)
    <2>1. pc' = pc /\ hit' = hit
        BY <1>3 DEF Signal!UserRead, Signal!NoFault
    <2> QED
        BY <1>0, <2>1 DEF AgentWrote, UserWrote
<1>4. CASE Signal!MirrorFails(r)
    <2>1. hit' = hit \cup {<<r, pc[r]>>}
        BY <1>4 DEF Signal!MirrorFails, Signal!Fault
    <2>2. CASE pc[r] = "subject"
        <3>1. pc'[r] = Signal!AfterSubject(r)
            BY <1>4, <2>2 DEF Signal!MirrorFails, Signal!Mirrored, Signal!TypeOK
        <3> QED
            BY <1>0, <2>1, <2>2, <3>1
               DEF AgentWrote, UserWrote, Signal!AfterSubject, Signal!Actor
    <2>3. CASE pc[r] = "user"
        <3>1. pc'[r] = Signal!AfterUser(r)
            BY <1>4, <2>3 DEF Signal!MirrorFails, Signal!Mirrored, Signal!TypeOK
        <3> QED
            BY <1>0, <2>1, <2>3, <3>1 DEF AgentWrote, UserWrote, Signal!AfterUser, Signal!Actor
    <2>4. CASE pc[r] = "actor"
        <3>1. pc'[r] = "done"
            BY <1>4, <2>4 DEF Signal!MirrorFails, Signal!Mirrored, Signal!TypeOK
        <3> QED
            BY <1>0, <2>1, <2>4, <3>1 DEF AgentWrote, UserWrote
    <2> QED
        BY <1>4, <2>2, <2>3, <2>4 DEF Signal!MirrorFails, Signal!Mirrored
<1>5. CASE Signal!Mirror(r)
    <2>1. hit' = hit
        BY <1>5 DEF Signal!Mirror, Signal!NoFault
    <2>2. CASE pc[r] = "subject"
        <3>1. /\ pc'[r] = Signal!AfterSubject(r) /\ ~ spoilt[r]
              /\ Signal!Blamed(r) = <<"agent", SubjectOf[r]>>
            BY <1>5, <2>2
               DEF Signal!Mirror, Signal!Mirrored, Signal!TypeOK, Signal!EventsInOrder,
                   Signal!Blamed
        <3> QED
            BY <1>0, <1>5, <2>1, <2>2, <3>1
               DEF AgentWrote, UserWrote, Signal!AfterSubject, Signal!Actor
    <2>3. CASE pc[r] = "user"
        <3>1. pc'[r] = Signal!AfterUser(r)
            BY <1>5, <2>3 DEF Signal!Mirror, Signal!Mirrored, Signal!TypeOK
        <3>2. /\ Signal!Blamed(r) = <<"user", UserOf[r]>>
              /\ ~ spoilt[r] \/ (<<r, "legacy">> \in hit /\ dialect = "postgresql")
            BY <1>5, <2>3 DEF Signal!EventsInOrder, Signal!Blamed
        <3> QED
            BY <1>0, <1>5, <2>1, <2>3, <3>1, <3>2
               DEF AgentWrote, UserWrote, Signal!AfterUser, Signal!Actor
    <2>4. CASE pc[r] = "actor"
        <3>1. /\ pc'[r] = "done" /\ ~ spoilt[r]
              /\ Signal!Blamed(r) = <<"agent", Signal!Actor(r)>> /\ Signal!Actor(r) # None
            BY <1>5, <2>4
               DEF Signal!Mirror, Signal!Mirrored, Signal!TypeOK, Signal!EventsInOrder,
                   Signal!Blamed
        <3> QED
            BY <1>0, <1>5, <2>1, <2>4, <3>1 DEF AgentWrote, UserWrote, Signal!Actor
    <2> QED
        BY <1>5, <2>2, <2>3, <2>4 DEF Signal!Mirror, Signal!Mirrored
<1> QED
    BY <1>1, <1>2, <1>3, <1>4, <1>5 DEF ReportStep

\* It becomes a writer of no principal but the one it blames.
LEMMA OwnWriter ==
    ASSUME Signal!SignalsInv, NEW r \in Reports, ReportStep(r), NEW p \in Signal!Principals,
           ~ (Signal!Mirror(r) /\ ~ spoilt[r] /\ p = Signal!Blamed(r))
    PROVE  (r \in Signal!Writers(p))' <=> r \in Signal!Writers(p)
<1>1. CASE \E x : p = <<"agent", x>>
    <2>1. PICK x : p = <<"agent", x>>
        BY <1>1
    <2>2. AgentWrote(r, x)' <=> AgentWrote(r, x)
        BY <2>1, OwnWrote
    <2> QED
        BY <2>1, <2>2, WritersNow, WritersNext DEF WritersAre
<1>2. CASE \E x \in Signal!Users : p = <<"user", x>>
    <2>1. PICK x \in Signal!Users : p = <<"user", x>>
        BY <1>2
    <2>2. UserWrote(r, x)' <=> UserWrote(r, x)
        BY <2>1, OwnWrote
    <2> QED
        BY <2>1, <2>2, WritersNow, WritersNext DEF WritersAre
<1> QED
    BY <1>1, <1>2, Principal

\* Mirroring makes it a writer of the principal it blames, which it was not before.
LEMMA BlamedWriter ==
    ASSUME Signal!SignalsInv, NEW r \in Reports, Signal!Mirror(r), ~ spoilt[r], NEW p,
           p = Signal!Blamed(r)
    PROVE  /\ p \in Signal!Principals
           /\ r \notin Signal!Writers(p) /\ (r \in Signal!Writers(p))'
<1> USE DEF Signal!SignalsInv
<1>0. dialect' = dialect /\ hit' = hit
    BY OneMoves DEF ReportStep, Signal!Mirror, Signal!NoFault
<1>1. CASE pc[r] = "subject"
    <2>1. /\ pc'[r] \notin {"count", "subject"} /\ p = <<"agent", SubjectOf[r]>>
          /\ <<r, "subject">> \notin hit
        BY <1>1
           DEF Signal!Mirror, Signal!Mirrored, Signal!TypeOK, Signal!AfterSubject,
               Signal!Blamed, Signal!EventsInOrder
    <2>2. AgentWrote(r, SubjectOf[r])' /\ ~ AgentWrote(r, SubjectOf[r])
        BY <1>0, <1>1, <2>1 DEF AgentWrote
    <2>3. <<"agent", SubjectOf[r]>> \in Signal!Principals
        BY <2>1 DEF Signal!Principals, Signal!Agents
    <2>4. /\ r \notin Signal!Writers(<<"agent", SubjectOf[r]>>)
          /\ (r \in Signal!Writers(<<"agent", SubjectOf[r]>>))'
        BY <2>2, WritersNow, WritersNext DEF WritersAre
    <2> QED
        BY <2>1, <2>3, <2>4
<1>2. CASE pc[r] = "user"
    <2>1. /\ pc'[r] \in {"actor", "done"} /\ p = <<"user", UserOf[r]>> /\ UserOf[r] # None
          /\ <<r, "user">> \notin hit /\ ~ (<<r, "legacy">> \in hit /\ dialect = "postgresql")
        BY <1>2
           DEF Signal!Mirror, Signal!Mirrored, Signal!TypeOK, Signal!AfterUser,
               Signal!Blamed, Signal!EventsInOrder
    <2>2. UserWrote(r, UserOf[r])' /\ ~ UserWrote(r, UserOf[r])
        BY <1>0, <1>2, <2>1 DEF UserWrote
    <2>3. <<"user", UserOf[r]>> \in Signal!Principals
        BY <2>1 DEF Signal!Principals, Signal!Users
    <2>4. /\ r \notin Signal!Writers(<<"user", UserOf[r]>>)
          /\ (r \in Signal!Writers(<<"user", UserOf[r]>>))'
        BY <2>2, WritersNow, WritersNext DEF WritersAre
    <2> QED
        BY <2>1, <2>3, <2>4
<1>3. CASE pc[r] = "actor"
    <2>1. /\ pc'[r] = "done" /\ p = <<"agent", ActorOf[r]>> /\ ActorOf[r] # None
          /\ ActorOf[r] # SubjectOf[r] /\ <<r, "actor">> \notin hit
        BY <1>3
           DEF Signal!Mirror, Signal!Mirrored, Signal!TypeOK, Signal!Actor, Signal!Blamed,
               Signal!EventsInOrder
    <2>2. AgentWrote(r, ActorOf[r])' /\ ~ AgentWrote(r, ActorOf[r])
        BY <1>0, <1>3, <2>1 DEF AgentWrote
    <2>3. <<"agent", ActorOf[r]>> \in Signal!Principals
        BY <2>1 DEF Signal!Principals
    <2>4. /\ r \notin Signal!Writers(<<"agent", ActorOf[r]>>)
          /\ (r \in Signal!Writers(<<"agent", ActorOf[r]>>))'
        BY <2>2, WritersNow, WritersNext DEF WritersAre
    <2> QED
        BY <2>1, <2>3, <2>4
<1> QED
    BY <1>1, <1>2, <1>3 DEF Signal!Mirror, Signal!Mirrored

\* A principal's tally grows by one with each report that is written to it.
LEMMA TallyStep ==
    ASSUME SignalsAssumption, Signal!SignalsInv, [Signal!Next]_(Signal!vars)
    PROVE  Signal!TallyWritten'
<1> SUFFICES ASSUME NEW p \in Signal!Principals
             PROVE  tally'[p] = Signal!Cardinality(Signal!Writers(p))'
    BY DEF Signal!TallyWritten
<1>0. /\ tally[p] = Signal!Cardinality(Signal!Writers(p))
      /\ Signal!Writers(p) \subseteq Reports /\ Signal!Writers(p)' \subseteq Reports
    BY DEF Signal!SignalsInv, Signal!TallyWritten, Signal!Writers
<1>1. CASE Signal!Tick \/ UNCHANGED Signal!vars
    <2>1. tally' = tally /\ Signal!Writers(p)' = Signal!Writers(p)
        BY <1>1
           DEF Signal!Tick, Signal!vars, Signal!rows, Signal!Writers, Signal!Accused,
               Signal!Passed, Signal!Missed
    <2> QED
        BY <1>0, <2>1
<1>2. ASSUME NEW r \in Reports, ReportStep(r)
      PROVE  tally'[p] = Signal!Cardinality(Signal!Writers(p))'
    <2>1. CASE Signal!Mirror(r) /\ ~ spoilt[r] /\ p = Signal!Blamed(r)
        <3>1. r \notin Signal!Writers(p) /\ Signal!Writers(p)' = Signal!Writers(p) \cup {r}
            BY <1>0, <1>2, <2>1, BlamedWriter, OthersWriters
        <3>2. tally'[p] = tally[p] + 1
            BY <2>1 DEF Signal!Mirror, Signal!SignalsInv, Signal!TypeOK
        <3> QED
            BY <1>0, <3>1, <3>2, OneReportMore
    <2>2. CASE ~ (Signal!Mirror(r) /\ ~ spoilt[r] /\ p = Signal!Blamed(r))
        <3>1. Signal!Writers(p)' = Signal!Writers(p)
            BY <1>0, <1>2, <2>2, OwnWriter, OthersWriters
        <3>2. tally'[p] = tally[p]
            <4>1. CASE Signal!Mirror(r)
                BY <2>2, <4>1 DEF Signal!Mirror, Signal!SignalsInv, Signal!TypeOK
            <4>2. CASE ~ Signal!Mirror(r)
                BY <1>2, <4>2
                   DEF ReportStep, Signal!Count, Signal!CountFails, Signal!MirrorFails,
                       Signal!UserUpsert, Signal!UserRead, Signal!UserWrite,
                       Signal!UserFails, Signal!rows
            <4> QED
                BY <4>1, <4>2
        <3> QED
            BY <1>0, <3>1, <3>2
    <2> QED
        BY <2>1, <2>2
<1> QED
    BY <1>1, <1>2 DEF Signal!Next, ReportStep

\* A report is where it is for a reason, and has missed nothing that is ahead of it.
LEMMA OrderStep ==
    ASSUME SignalsAssumption, Signal!SignalsInv, [Signal!Next]_(Signal!vars)
    PROVE  Signal!EventsInOrder'
<1> USE DEF Signal!SignalsInv
<1>1. CASE Signal!Tick \/ UNCHANGED Signal!vars
    <2>1. UNCHANGED <<dialect, pc, spoilt, read, hit, counted>>
        BY <1>1 DEF Signal!Tick, Signal!vars, Signal!counters
    <2> QED
        BY <2>1 DEF Signal!EventsInOrder
<1>2. ASSUME NEW r \in Reports, ReportStep(r), NEW q \in Reports
      PROVE  /\ (pc[q] \in {"legacy", "user"} => UserOf[q] # None)'
             /\ (pc[q] = "actor" => Signal!Actor(q) # None)'
             /\ (pc[q] = "count" => counted[q] = None)'
             /\ (pc[q] \in {"count", "subject"} => <<q, "subject">> \notin hit)'
             /\ (pc[q] \in {"count", "subject", "legacy"} => <<q, "legacy">> \notin hit)'
             /\ (pc[q] \in {"count", "subject", "legacy", "user"} => <<q, "user">> \notin hit)'
             /\ (pc[q] # "done" => <<q, "actor">> \notin hit)'
             /\ (spoilt[q] <=>
                    pc[q] = "user" /\ <<q, "legacy">> \in hit /\ dialect = "postgresql")'
             /\ (read[q] # None => pc[q] = "legacy" /\ dialect # "postgresql")'
    <2>0. Signal!Actor(q)' = Signal!Actor(q) /\ dialect' = dialect
        BY <1>2, OneMoves DEF Signal!Actor
    <2>1. CASE q # r
        <3>1. /\ pc'[q] = pc[q] /\ counted'[q] = counted[q] /\ spoilt'[q] = spoilt[q]
              /\ read'[q] = read[q]
            BY <1>2, <2>1, OneMoves
        <3>2. \A w : <<q, w>> \in hit' <=> <<q, w>> \in hit
            BY <1>2, <2>1, OneMoves
        <3> QED
            BY <2>0, <3>1, <3>2 DEF Signal!EventsInOrder
    <2>2. CASE q = r /\ (Signal!Count(r) \/ Signal!CountFails(r))
        <3>1. /\ pc[q] = "count" /\ pc'[q] = "subject" /\ spoilt' = spoilt /\ read' = read
              /\ hit' = hit \/ hit' = hit \cup {<<q, "count">>}
            BY <2>2
               DEF Signal!Count, Signal!CountFails, Signal!Fault, Signal!NoFault,
                   Signal!TypeOK
        <3> QED
            BY <2>0, <3>1 DEF Signal!EventsInOrder
    <2>3. CASE q = r /\ (Signal!Mirror(r) \/ Signal!MirrorFails(r))
        <3>1. /\ pc[q] \in {"subject", "user", "actor"} /\ ~ spoilt'[q] /\ read' = read
              /\ hit' = hit \/ hit' = hit \cup {<<q, pc[q]>>}
            BY <2>3
               DEF Signal!Mirror, Signal!MirrorFails, Signal!Mirrored, Signal!Fault,
                   Signal!NoFault, Signal!TypeOK
        <3>2. pc'[q] = CASE pc[q] = "subject" -> Signal!AfterSubject(q)
                         [] pc[q] = "user" -> Signal!AfterUser(q)
                         [] OTHER -> "done"
            BY <2>3 DEF Signal!Mirror, Signal!MirrorFails, Signal!Mirrored, Signal!TypeOK
        <3>3. /\ pc[q] = "subject" => pc'[q] = Signal!AfterSubject(q)
              /\ pc[q] = "user" => pc'[q] = Signal!AfterUser(q)
              /\ pc[q] = "actor" => pc'[q] = "done"
            BY <3>1, <3>2
        <3> QED
            BY <2>0, <3>1, <3>3 DEF Signal!EventsInOrder, Signal!AfterSubject, Signal!AfterUser
    <2>4. CASE q = r /\ (Signal!UserUpsert(r) \/ Signal!UserWrite(r))
        <3>1. /\ pc[q] = "legacy" /\ pc'[q] = "user" /\ spoilt' = spoilt /\ hit' = hit
              /\ counted' = counted
            BY <2>4
               DEF Signal!UserUpsert, Signal!UserWrite, Signal!NoFault, Signal!TypeOK,
                   Signal!counters
        <3>2. read'[q] = None
            BY <2>4 DEF Signal!UserUpsert, Signal!UserWrite, Signal!TypeOK, Signal!EventsInOrder
        <3> QED
            BY <2>0, <3>1, <3>2 DEF Signal!EventsInOrder
    <2>5. CASE q = r /\ Signal!UserRead(r)
        <3>1. /\ pc[q] = "legacy" /\ UNCHANGED <<pc, spoilt, hit, counted>>
              /\ dialect # "postgresql"
            BY <2>5 DEF Signal!UserRead, Signal!NoFault, Signal!counters
        <3> QED
            BY <2>0, <3>1 DEF Signal!EventsInOrder
    <2>6. CASE q = r /\ Signal!UserFails(r)
        <3>1. /\ pc[q] = "legacy" /\ pc'[q] = "user" /\ hit' = hit \cup {<<q, "legacy">>}
              /\ counted' = counted /\ read'[q] = None
            BY <2>6 DEF Signal!UserFails, Signal!Fault, Signal!TypeOK, Signal!counters
        <3>2. spoilt'[q] <=> dialect = "postgresql"
            BY <2>6 DEF Signal!UserFails, Signal!TypeOK
        <3> QED
            BY <2>0, <3>1, <3>2 DEF Signal!EventsInOrder
    <2> QED
        BY <1>2, <2>1, <2>2, <2>3, <2>4, <2>5, <2>6 DEF ReportStep
<1>3. ASSUME NEW r \in Reports, ReportStep(r) PROVE Signal!EventsInOrder'
    BY <1>2, <1>3, Zenon DEF Signal!EventsInOrder
<1> QED
    BY <1>1, <1>3 DEF Signal!Next, ReportStep

\* Who has told the table of users, after a step.
LEMMA ToldMoves ==
    ASSUME Signal!SignalsInv, NEW r \in Reports, ReportStep(r), NEW u \in Signal!Users
    PROVE  IF (Signal!UserUpsert(r) \/ Signal!UserWrite(r)) /\ UserOf[r] = u
           THEN Signal!Told(u)' = Signal!Told(u) \cup {r} /\ r \notin Signal!Told(u)
           ELSE Signal!Told(u)' = Signal!Told(u)
<1> USE DEF Signal!SignalsInv
<1>0. u # None
    BY DEF Signal!Users
<1>1. ASSUME NEW q \in Reports, q # r PROVE (q \in Signal!Told(u))' <=> q \in Signal!Told(u)
    <2>1. pc'[q] = pc[q] /\ (<<q, "legacy">> \in hit' <=> <<q, "legacy">> \in hit)
        BY <1>1, OneMoves
    <2> QED
        BY <2>1 DEF Signal!Told
<1>2. CASE Signal!UserUpsert(r) \/ Signal!UserWrite(r)
    <2>1. pc[r] = "legacy" /\ pc'[r] = "user" /\ hit' = hit /\ <<r, "legacy">> \notin hit
        BY <1>2
           DEF Signal!UserUpsert, Signal!UserWrite, Signal!NoFault, Signal!TypeOK,
               Signal!EventsInOrder
    <2>2. r \notin Signal!Told(u) /\ ((r \in Signal!Told(u))' <=> UserOf[r] = u)
        BY <2>1 DEF Signal!Told
    <2>3. Signal!Told(u) \subseteq Reports /\ Signal!Told(u)' \subseteq Reports
        BY DEF Signal!Told
    <2> QED
        BY <1>1, <1>2, <2>2, <2>3
<1>3. CASE ~ (Signal!UserUpsert(r) \/ Signal!UserWrite(r))
    <2>1. (r \in Signal!Told(u))' <=> r \in Signal!Told(u)
        <3>1. CASE Signal!Count(r) \/ Signal!CountFails(r)
            BY <3>1 DEF Signal!Count, Signal!CountFails, Signal!TypeOK, Signal!Told
        <3>2. CASE Signal!Mirror(r) \/ Signal!MirrorFails(r)
            <4>1. /\ pc[r] \in {"subject", "user", "actor"}
                  /\ <<r, "legacy">> \in hit' <=> <<r, "legacy">> \in hit
                BY <3>2
                   DEF Signal!Mirror, Signal!MirrorFails, Signal!Mirrored, Signal!Fault,
                       Signal!NoFault
            <4>2. /\ pc[r] = "subject" => pc'[r] = Signal!AfterSubject(r)
                  /\ pc[r] = "user" => pc'[r] = Signal!AfterUser(r)
                  /\ pc[r] = "actor" => pc'[r] = "done"
                BY <3>2 DEF Signal!Mirror, Signal!MirrorFails, Signal!Mirrored, Signal!TypeOK
            <4> QED
                BY <1>0, <4>1, <4>2 DEF Signal!Told, Signal!AfterSubject, Signal!AfterUser
        <3>3. CASE Signal!UserRead(r)
            BY <3>3 DEF Signal!UserRead, Signal!NoFault, Signal!Told
        <3>4. CASE Signal!UserFails(r)
            BY <3>4 DEF Signal!UserFails, Signal!Fault, Signal!TypeOK, Signal!Told
        <3> QED
            BY <1>3, <3>1, <3>2, <3>3, <3>4 DEF ReportStep
    <2>2. Signal!Told(u) \subseteq Reports /\ Signal!Told(u)' \subseteq Reports
        BY DEF Signal!Told
    <2> QED
        BY <1>1, <1>3, <2>1, <2>2
<1> QED
    BY <1>2, <1>3

\* Those that told the table of users of one are some of the reports.
LEMMA ToldType ==
    ASSUME SignalsAssumption, NEW u
    PROVE  /\ Signal!Told(u) \subseteq Reports /\ Signal!IsFiniteSet(Signal!Told(u))
           /\ Signal!Cardinality(Signal!Told(u)) \in 0..Signal!Cardinality(Reports)
BY ReportSets DEF Signal!Told

\* The table of users follows the reports that told it, and no read is ahead of them.
LEMMA ToldStep ==
    ASSUME SignalsAssumption, Signal!SignalsInv, [Signal!Next]_(Signal!vars)
    PROVE  Signal!UsersCounted' /\ Signal!ReadsBehind'
<1> USE DEF Signal!SignalsInv
<1>0. None \notin Nat /\ Signal!Cardinality(Reports) \in Nat
    BY FS_CardinalityType, SignalSets
       DEF SignalsAssumption, Signal!NumbersAssumption, Signal!ReportsAssumption
<1>1. CASE Signal!Tick \/ UNCHANGED Signal!vars
    <2>1. UNCHANGED <<dialect, legacy, crossed, read, hit, pc>>
        BY <1>1 DEF Signal!Tick, Signal!vars, Signal!rows
    <2>2. ASSUME NEW u PROVE Signal!Told(u)' = Signal!Told(u)
        BY <2>1 DEF Signal!Told
    <2> QED
        BY <2>1, <2>2 DEF Signal!UsersCounted, Signal!ReadsBehind
<1>2. ASSUME NEW r \in Reports, ReportStep(r)
      PROVE  Signal!UsersCounted' /\ Signal!ReadsBehind'
    <2> DEFINE told == (Signal!UserUpsert(r) \/ Signal!UserWrite(r))
    <2>0. dialect' = dialect
        BY <1>2, OneMoves
    <2>1. ASSUME NEW u \in Signal!Users
          PROVE  /\ Signal!Cardinality(Signal!Told(u)) \in Nat
                 /\ Signal!Cardinality(Signal!Told(u))' =
                        IF told /\ UserOf[r]
                            = u THEN Signal!Cardinality(Signal!Told(u)) + 1
                                ELSE Signal!Cardinality(Signal!Told(u))
        BY <1>2, ToldMoves, ToldType, OneReportMore
    <2>2. ASSUME NEW q \in Reports, read[q] # None
          PROVE  /\ UserOf[q] \in Signal!Users /\ read[q] \in Nat
                 /\ read[q] <= Signal!Cardinality(Signal!Told(UserOf[q]))
        <3>1. pc[q] = "legacy"
            BY <2>2 DEF Signal!EventsInOrder
        <3>2. UserOf[q] # None
            BY <3>1 DEF Signal!EventsInOrder
        <3>3. UserOf[q] \in Signal!Users
            BY <3>2 DEF Signal!Users
        <3>4. read[q] \in 0..Signal!Cardinality(Reports)
            BY <2>2 DEF Signal!TypeOK
        <3>5. read[q] <= Signal!Cardinality(Signal!Told(UserOf[q]))
            BY <2>2 DEF Signal!ReadsBehind
        <3> QED
            BY <1>0, <3>3, <3>4, <3>5
    <2>3. Signal!ReadsBehind'
        <3> SUFFICES ASSUME NEW q \in Reports, read'[q] # None
                     PROVE  read'[q] <= Signal!Cardinality(Signal!Told(UserOf[q]))'
            BY DEF Signal!ReadsBehind
        <3>1. CASE q = r /\ Signal!UserRead(r)
            <4>1. read'[q] = legacy[UserOf[q]] /\ UserOf[q] \in Signal!Users
                BY <3>1 DEF Signal!UserRead, Signal!TypeOK, Signal!EventsInOrder, Signal!Users
            <4>2. /\ legacy[UserOf[q]] <= Signal!Cardinality(Signal!Told(UserOf[q]))
                  /\ legacy[UserOf[q]] \in Nat
                BY <4>1, <1>0 DEF Signal!UsersCounted, Signal!TypeOK
            <4> QED
                BY <2>1, <4>1, <4>2
        <3>2. CASE ~ (q = r /\ Signal!UserRead(r))
            <4>1. read'[q] \in {read[q], None}
                BY <1>2, <3>2, OneMoves
                   DEF ReportStep, Signal!Count, Signal!CountFails, Signal!Mirror,
                       Signal!MirrorFails, Signal!Mirrored, Signal!UserUpsert,
                       Signal!UserWrite, Signal!UserFails, Signal!TypeOK
            <4>2. read'[q] = read[q] /\ read[q] # None
                BY <4>1
            <4> QED
                BY <2>1, <2>2, <4>2
        <3> QED
            BY <3>1, <3>2
    <2>4. Signal!UsersCounted'
        <3> SUFFICES ASSUME NEW u \in Signal!Users
                     PROVE  /\ legacy'[u] <= Signal!Cardinality(Signal!Told(u))'
                            /\ u \notin crossed'
                                   => legacy'[u] = Signal!Cardinality(Signal!Told(u))'
                            /\ crossed' # {} => dialect' # "postgresql"
            BY DEF Signal!UsersCounted
        <3>0. /\ legacy[u] <= Signal!Cardinality(Signal!Told(u)) /\ legacy[u] \in Nat
              /\ u \notin crossed => legacy[u] = Signal!Cardinality(Signal!Told(u))
              /\ crossed # {} => dialect # "postgresql"
            BY <1>0 DEF Signal!UsersCounted, Signal!TypeOK
        <3>1. CASE Signal!UserUpsert(r)
            <4>1. crossed' = crossed
                BY <3>1 DEF Signal!UserUpsert
            <4>2. legacy'[u] = IF u = UserOf[r] THEN legacy[u] + 1 ELSE legacy[u]
                BY <3>1 DEF Signal!UserUpsert, Signal!TypeOK
            <4> QED
                BY <2>0, <2>1, <3>0, <3>1, <4>1, <4>2
        <3>2. CASE Signal!UserWrite(r)
            <4>1. /\ legacy'[u] = IF u = UserOf[r] THEN read[r] + 1 ELSE legacy[u]
                  /\ read[r] # None
                  /\ crossed' = IF read[r]
                         = legacy[UserOf[r]] THEN crossed ELSE crossed \cup {UserOf[r]}
                BY <3>2 DEF Signal!UserWrite, Signal!TypeOK
            <4>2. /\ dialect # "postgresql" /\ read[r] \in Nat
                  /\ read[r] <= Signal!Cardinality(Signal!Told(UserOf[r]))
                BY <2>2, <4>1 DEF Signal!EventsInOrder
            <4> QED
                BY <2>0, <2>1, <3>0, <3>2, <4>1, <4>2
        <3>3. CASE ~ told
            <4>1. legacy' = legacy /\ crossed' = crossed
                BY <1>2, <3>3
                   DEF ReportStep, Signal!Count, Signal!CountFails, Signal!Mirror,
                       Signal!MirrorFails, Signal!Mirrored, Signal!UserRead,
                       Signal!UserFails, Signal!rows
            <4> QED
                BY <2>0, <2>1, <3>0, <3>3, <4>1
        <3> QED
            BY <3>1, <3>2, <3>3
    <2> QED
        BY <2>3, <2>4
<1> QED
    BY <1>1, <1>2 DEF Signal!Next, ReportStep

\* Those counted for an agent, and those since the last gap, are some of the reports.
LEMMA SeenType ==
    ASSUME SignalsAssumption, NEW a, NEW w
    PROVE  /\ Signal!Seen(a) \subseteq Reports /\ Signal!IsFiniteSet(Signal!Seen(a))
           /\ Signal!Cardinality(Signal!Seen(a)) \in 0..Signal!Cardinality(Reports)
           /\ /\ Signal!Unbroken(a, w) \subseteq Signal!Seen(a)
              /\ Signal!IsFiniteSet(Signal!Unbroken(a, w))
           /\ Signal!Cardinality(Signal!Unbroken(a, w)) \in 0..Signal!Cardinality(Reports)
<1>1. Signal!Seen(a) \subseteq Reports /\ Signal!Unbroken(a, w) \subseteq Signal!Seen(a)
    BY DEF Signal!Seen, Signal!Unbroken
<1>2. Signal!Unbroken(a, w) \subseteq Reports
    BY <1>1
<1> QED
    BY <1>1, <1>2, ReportSets

\* They were counted at times not later than now, and a window spans a positive time.
LEMMA SeenTimes ==
    ASSUME SignalsAssumption, Signal!SignalsInv, NEW a \in Signal!Agents, NEW w \in Windows
    PROVE  /\ \A r \in Signal!Seen(a) : counted[r] \in Nat /\ counted[r] <= now
           /\ now \in Nat /\ w.life \in Nat /\ w.life > 0 /\ w.span \in Nat /\ w.life >= w.span
           /\ key[a][w] \in [n : 0..Signal!Cardinality(Reports), until : Nat]
           /\ key[a][w].n \in Nat /\ key[a][w].until \in Nat
<1>1. Horizon \in Nat /\ Signal!Cardinality(Reports) \in Nat
    BY FS_CardinalityType, SignalSets
       DEF SignalsAssumption, Signal!NumbersAssumption, Signal!ReportsAssumption
<1>2. \A r \in Signal!Seen(a) : counted[r] \in Nat /\ counted[r] <= now
    <2> SUFFICES ASSUME NEW r \in Signal!Seen(a) PROVE counted[r] \in Nat /\ counted[r] <= now
        OBVIOUS
    <2>1. r \in Reports /\ counted[r] # None
        BY DEF Signal!Seen
    <2>2. counted[r] \in 0..Horizon
        BY <2>1 DEF Signal!SignalsInv, Signal!TypeOK
    <2> QED
        BY <1>1, <2>2 DEF Signal!SignalsInv, Signal!KeysRenewed
<1>3. w.life \in Nat /\ w.life > 0 /\ w.span \in Nat /\ w.life >= w.span
    BY DEF SignalsAssumption, Signal!WindowsAssumption
<1>4. now \in Nat
    BY <1>1 DEF Signal!SignalsInv, Signal!TypeOK
<1>5. key[a][w] \in [n : 0..Signal!Cardinality(Reports), until : Nat]
    BY DEF Signal!SignalsInv, Signal!TypeOK
<1> QED
    BY <1>1, <1>2, <1>3, <1>4, <1>5

\* What a key of a window promises.
Renewed(a, w) ==
    /\ \A r \in Signal!Seen(a) : counted[r] <= now /\ counted[r] + w.life <= key[a][w].until
    /\ Signal!Seen(a) = {} => key[a][w].until = 0
    /\ Signal!Seen(a) # {} => \E r \in Signal!Seen(a) : key[a][w].until = counted[r] + w.life
    /\ key[a][w].n <= Signal!Cardinality(Signal!Seen(a))
    /\ now < key[a][w].until => key[a][w].n = Signal!Cardinality(Signal!Unbroken(a, w))

\* A key stays renewed while neither it, nor the clock, nor its reports change.
LEMMA StillRenewed ==
    ASSUME Signal!SignalsInv, NEW a \in Signal!Agents, NEW w \in Windows, key'[a] = key[a],
           now' = now,
           \A r \in Reports : SubjectOf[r] = a => counted'[r] = counted[r]
    PROVE  Renewed(a, w)'
<1>1. Renewed(a, w)
    BY DEF Signal!SignalsInv, Signal!KeysRenewed, Renewed
<1>2. Signal!Seen(a)' = Signal!Seen(a) /\ \A r \in Signal!Seen(a) : counted'[r] = counted[r]
    BY DEF Signal!Seen
<1>3. ASSUME NEW r \in Signal!Seen(a)
      PROVE  Signal!CutOff(a, w, counted[r])' <=> Signal!CutOff(a, w, counted[r])
    BY <1>2 DEF Signal!CutOff
<1>4. Signal!Unbroken(a, w)' = Signal!Unbroken(a, w)
    BY <1>2, <1>3 DEF Signal!Unbroken
<1> QED
    BY <1>1, <1>2, <1>4 DEF Renewed

\* It stays so when time passes: what expires has not been renewed for its whole life.
LEMMA TickRenewed ==
    ASSUME SignalsAssumption, Signal!SignalsInv, Signal!Tick, NEW a \in Signal!Agents,
           NEW w \in Windows
    PROVE  Renewed(a, w)'
<1>1. Renewed(a, w)
    BY DEF Signal!SignalsInv, Signal!KeysRenewed, Renewed
<1>2. now' = now + 1 /\ key' = key /\ counted' = counted
    BY DEF Signal!Tick
<1>3. Signal!Seen(a)' = Signal!Seen(a)
    BY <1>2 DEF Signal!Seen
<1>4. ASSUME now' < key[a][w].until, NEW r \in Signal!Seen(a)
      PROVE Signal!CutOff(a, w, counted[r])' <=> Signal!CutOff(a, w, counted[r])
    <2>1. PICK last \in Signal!Seen(a) : key[a][w].until = counted[last] + w.life
        BY <1>1 DEF Renewed
    <2>2. Signal!CutOff(a, w, counted[r]) => Signal!CutOff(a, w, counted[r])'
        BY <1>2, <1>3, SeenTimes DEF Signal!CutOff
    <2>3. ASSUME Signal!CutOff(a, w, counted[r])' PROVE Signal!CutOff(a, w, counted[r])
        <3>1. PICK u \in counted[r]..(now + 1) :
                /\ u + w.life <= now + 1
                /\ \A q \in Signal!Seen(a) : counted[q] <= u \/ counted[q] >= u + w.life
                /\ \E q \in Signal!Seen(a) : counted[q] = u
            BY <1>2, <1>3, <2>3 DEF Signal!CutOff
        <3>2. u \in Nat /\ counted[last] \in Nat /\ now \in Nat /\ w.life \in Nat /\ w.life > 0
            BY <3>1, SeenTimes
        <3>3. counted[last] >= u + w.life
            BY <1>2, <1>4, <2>1, <3>1, <3>2
        <3>4. counted[last] <= now
            BY SeenTimes
        <3>5. u + w.life <= now /\ u \in counted[r]..now
            BY <3>1, <3>2, <3>3, <3>4, SeenTimes
        <3> QED
            BY <3>1, <3>5 DEF Signal!CutOff
    <2> QED
        BY <2>2, <2>3
<1>5. now' < key[a][w].until => Signal!Unbroken(a, w)' = Signal!Unbroken(a, w)
    BY <1>2, <1>3, <1>4 DEF Signal!Unbroken
<1>6. now < now' /\ now \in Nat /\ key[a][w].until \in Nat
    BY <1>2, SeenTimes
<1>7. now' < key[a][w].until => now < key[a][w].until
    BY <1>2, <1>6
<1>8. \A r \in Signal!Seen(a) : counted[r] <= now'
    BY <1>2, SeenTimes
<1> QED
    BY <1>1, <1>2, <1>3, <1>5, <1>7, <1>8 DEF Renewed

\* Counting a report renews the key, or begins it again after a gap.
LEMMA CountRenewed ==
    ASSUME SignalsAssumption, Signal!SignalsInv, NEW r \in Reports, Signal!Count(r),
           NEW w \in Windows,
           NEW a, a = SubjectOf[r]
    PROVE  Renewed(a, w)'
<1>0. a \in Signal!Agents
    BY DEF Signal!Agents
<1>1. Renewed(a, w)
    BY <1>0 DEF Signal!SignalsInv, Signal!KeysRenewed, Renewed
<1>2. /\ now' = now /\ pc[r] = "count" /\ counted[r] = None /\ counted'[r] = now
      /\ \A q \in Reports \ {r} : counted'[q] = counted[q]
    BY DEF Signal!Count, Signal!SignalsInv, Signal!TypeOK, Signal!EventsInOrder
<1>3. key'[a] = [v \in Windows |-> Signal!Bumped(key[a][v], v)]
    BY <1>0 DEF Signal!Count, Signal!SignalsInv, Signal!TypeOK
<1>4. key'[a][w] = [n |-> IF now < key[a][w].until THEN key[a][w].n + 1 ELSE 1,
      until |-> now + w.life]
    BY <1>3 DEF Signal!Bumped
<1>5. /\ key'[a][w].until = now + w.life
      /\ key'[a][w].n = IF now < key[a][w].until THEN key[a][w].n + 1 ELSE 1
    BY <1>4
<1>6. /\ now \in Nat /\ w.life \in Nat /\ w.life > 0 /\ key[a][w].n \in Nat
      /\ key[a][w].until \in Nat
      /\ \A q \in Signal!Seen(a) : counted[q] \in Nat /\ counted[q] <= now
    BY <1>0, SeenTimes
<1>7. now # None
    BY <1>6 DEF SignalsAssumption, Signal!NumbersAssumption
<1>8. r \notin Signal!Seen(a) /\ Signal!Seen(a)' = Signal!Seen(a) \cup {r} /\ \A q
          \in Signal!Seen(a) : counted'[q] = counted[q]
    BY <1>2, <1>7 DEF Signal!Seen
<1>9. /\ Signal!Cardinality(Signal!Seen(a))' = Signal!Cardinality(Signal!Seen(a)) + 1
      /\ Signal!Cardinality(Signal!Seen(a)) \in Nat
    <2>1. /\ Signal!Seen(a) \subseteq Reports
          /\ Signal!Cardinality(Signal!Seen(a)) \in 0..Signal!Cardinality(Reports)
        BY SeenType
    <2>2. Signal!Cardinality(Signal!Seen(a) \cup {r}) = Signal!Cardinality(Signal!Seen(a)) + 1
        BY <1>8, <2>1, OneReportMore
    <2> QED
        BY <1>8, <2>1, <2>2
<1>10. ~ Signal!CutOff(a, w, counted[r])'
    <2>1. \A u \in now..now : ~ (u + w.life <= now)
        BY <1>6
    <2> QED
        BY <1>2, <2>1 DEF Signal!CutOff
<1>11. CASE now < key[a][w].until
    <2>1. ASSUME NEW q \in Signal!Seen(a)
          PROVE  Signal!CutOff(a, w, counted[q])' <=> Signal!CutOff(a, w, counted[q])
        <3>1. ASSUME Signal!CutOff(a, w, counted[q]) PROVE Signal!CutOff(a, w, counted[q])'
            <4>1. PICK u \in counted[q]..now :
                /\ u + w.life <= now
                /\ \A p \in Signal!Seen(a) : counted[p] <= u \/ counted[p] >= u + w.life
                /\ \E p \in Signal!Seen(a) : counted[p] = u
                BY <3>1 DEF Signal!CutOff
            <4>2. \A p \in Signal!Seen(a)' : counted'[p] <= u \/ counted'[p] >= u + w.life
                BY <1>2, <1>8, <4>1
            <4>3. \E p \in Signal!Seen(a)' : counted'[p] = u
                BY <1>8, <4>1
            <4>4. u \in counted'[q]..now'
                BY <1>2, <1>8, <4>1
            <4> QED
                BY <1>2, <4>1, <4>2, <4>3, <4>4 DEF Signal!CutOff
        <3>2. ASSUME Signal!CutOff(a, w, counted[q])' PROVE Signal!CutOff(a, w, counted[q])
            <4>1. PICK u \in counted[q]..now :
                /\ u + w.life <= now
                /\ \A p \in Signal!Seen(a)' : counted'[p] <= u \/ counted'[p] >= u + w.life
                /\ \E p \in Signal!Seen(a)' : counted'[p] = u
                BY <1>2, <1>8, <3>2 DEF Signal!CutOff
            <4>2. \A p \in Signal!Seen(a) : counted[p] <= u \/ counted[p] >= u + w.life
                BY <1>8, <4>1
            <4>3. \E p \in Signal!Seen(a) : counted[p] = u
                BY <1>2, <1>6, <1>8, <4>1
            <4> QED
                BY <4>1, <4>2, <4>3 DEF Signal!CutOff
        <3> QED
            BY <3>1, <3>2
    <2>2. /\ Signal!Unbroken(a, w)' = Signal!Unbroken(a, w) \cup {r}
          /\ r \notin Signal!Unbroken(a, w)
        BY <1>8, <1>10, <2>1 DEF Signal!Unbroken
    <2>3. Signal!Cardinality(Signal!Unbroken(a, w))'
              = Signal!Cardinality(Signal!Unbroken(a, w)) + 1
        BY <2>2, SeenType, OneReportMore
    <2>4. (\A q \in Signal!Seen(a) : counted[q] <= now /\ counted[q] + w.life <= key[a][w].until)'
        BY <1>2, <1>5, <1>6, <1>8
    <2>5. r \in Signal!Seen(a)' /\ key'[a][w].until = counted'[r] + w.life
        BY <1>2, <1>5, <1>8
    <2>6. key'[a][w].n = key[a][w].n + 1
        BY <1>5, <1>11
    <2> QED
        BY <1>1, <1>6, <1>9, <1>11, <2>3, <2>4, <2>5, <2>6 DEF Renewed
<1>12. CASE ~ (now < key[a][w].until)
    <2>1. ASSUME NEW q \in Signal!Seen(a) PROVE Signal!CutOff(a, w, counted[q])'
        <3>1. PICK last \in Signal!Seen(a) : key[a][w].until = counted[last] + w.life
            BY <1>1 DEF Renewed
        <3>2. counted[last] + w.life <= now /\ counted[last] \in counted[q]..now
            BY <1>1, <1>6, <1>12, <3>1 DEF Renewed
        <3>3. \A p \in Signal!Seen(a) : counted[p] <= counted[last]
            BY <1>1, <1>6, <3>1 DEF Renewed
        <3>4. \A p \in Signal!Seen(a)' : counted'[p] <= counted[last]
                  \/ counted'[p] >= counted[last] + w.life
            BY <1>2, <1>8, <3>2, <3>3
        <3>5. \E p \in Signal!Seen(a)' : counted'[p] = counted[last]
            BY <1>8
        <3>6. counted[last] \in counted'[q]..now'
            BY <1>2, <1>8, <3>2
        <3> QED
            BY <1>2, <3>2, <3>4, <3>5, <3>6 DEF Signal!CutOff
    <2>2. Signal!Unbroken(a, w)' = {r}
        BY <1>8, <1>10, <2>1 DEF Signal!Unbroken
    <2>3. Signal!Cardinality(Signal!Unbroken(a, w))' = 1 /\ key'[a][w].n = 1
        BY <1>5, <1>12, <2>2, FS_Singleton, SignalSets
    <2>4. (\A q \in Signal!Seen(a) : counted[q] <= now /\ counted[q] + w.life <= key[a][w].until)'
        BY <1>2, <1>5, <1>6, <1>8
    <2>5. r \in Signal!Seen(a)' /\ key'[a][w].until = counted'[r] + w.life
        BY <1>2, <1>5, <1>8
    <2> QED
        BY <1>9, <2>3, <2>4, <2>5 DEF Renewed
<1> QED
    BY <1>11, <1>12

\* Every step keeps the keys renewed.
LEMMA KeysStep ==
    ASSUME SignalsAssumption, Signal!SignalsInv, [Signal!Next]_(Signal!vars)
    PROVE  Signal!KeysRenewed'
<1> SUFFICES ASSUME NEW a \in Signal!Agents, NEW w \in Windows PROVE Renewed(a, w)'
    BY Zenon DEF Signal!KeysRenewed, Renewed
<1>1. CASE Signal!Tick
    BY <1>1, TickRenewed
<1>2. CASE UNCHANGED Signal!vars
    BY <1>2, StillRenewed DEF Signal!vars, Signal!counters
<1>3. ASSUME NEW r \in Reports, ReportStep(r) PROVE Renewed(a, w)'
    <2>1. CASE Signal!Count(r) /\ a = SubjectOf[r]
        BY <2>1, CountRenewed
    <2>2. CASE Signal!Count(r) /\ a # SubjectOf[r]
        <3>1. /\ key'[a] = key[a] /\ now' = now
              /\ \A q \in Reports : SubjectOf[q] = a => counted'[q] = counted[q]
            BY <2>2 DEF Signal!Count, Signal!SignalsInv, Signal!TypeOK
        <3> QED
            BY <3>1, StillRenewed
    <2>3. CASE ~ Signal!Count(r)
        <3>1. UNCHANGED Signal!counters
            BY <1>3, <2>3
               DEF ReportStep, Signal!CountFails, Signal!Mirror, Signal!MirrorFails,
                   Signal!Mirrored, Signal!UserUpsert, Signal!UserRead, Signal!UserWrite,
                   Signal!UserFails
        <3> QED
            BY <3>1, StillRenewed DEF Signal!counters
    <2> QED
        BY <2>1, <2>2, <2>3
<1> QED
    BY <1>1, <1>2, <1>3 DEF Signal!Next, ReportStep

\* A step keeps the types; the counters stay within the number of reports.
LEMMA SignalsTypeStep ==
    ASSUME SignalsAssumption, Signal!SignalsInv, [Signal!Next]_(Signal!vars),
           Signal!TallyWritten', Signal!UsersCounted', Signal!KeysRenewed'
    PROVE  Signal!TypeOK'
<1> DEFINE N == Signal!Cardinality(Reports)
<1>0. N \in Nat /\ Horizon \in Nat /\ MaxFaults \in Nat /\ None \notin Nat
    BY FS_CardinalityType, SignalSets
       DEF SignalsAssumption, Signal!NumbersAssumption, Signal!ReportsAssumption
<1>1. CASE UNCHANGED Signal!vars
    BY <1>1 DEF Signal!vars, Signal!counters, Signal!rows, Signal!SignalsInv, Signal!TypeOK
<1>2. CASE Signal!Tick
    <2>1. now' \in 0..Horizon
        BY <1>0, <1>2 DEF Signal!Tick, Signal!SignalsInv, Signal!TypeOK
    <2> QED
        BY <1>2, <2>1 DEF Signal!Tick, Signal!rows, Signal!SignalsInv, Signal!TypeOK
<1>3. ASSUME NEW r \in Reports, ReportStep(r) PROVE Signal!TypeOK'
    <2>1. dialect' \in Dialects /\ now' \in 0..Horizon
        BY <1>3, OneMoves DEF Signal!SignalsInv, Signal!TypeOK
    <2>2. pc' \in [Reports -> {"count", "subject", "legacy", "user", "actor", "done"}]
        BY <1>3
           DEF ReportStep, Signal!Count, Signal!CountFails, Signal!Mirror,
               Signal!MirrorFails, Signal!Mirrored, Signal!AfterSubject, Signal!AfterUser,
               Signal!UserUpsert, Signal!UserRead, Signal!UserWrite, Signal!UserFails,
               Signal!SignalsInv, Signal!TypeOK
    <2>3. spoilt' \in [Reports -> BOOLEAN]
        <3>1. CASE Signal!UserFails(r)
            <4>1. (dialect = "postgresql") \in BOOLEAN
                OBVIOUS
            <4> QED
                BY <3>1, <4>1, Zenon DEF Signal!UserFails, Signal!SignalsInv, Signal!TypeOK
        <3>2. CASE Signal!Mirror(r) \/ Signal!MirrorFails(r)
            BY <3>2, Zenon
               DEF Signal!Mirror, Signal!MirrorFails, Signal!Mirrored, Signal!SignalsInv,
                   Signal!TypeOK
        <3> QED
            BY <1>3, <3>1, <3>2, Zenon
               DEF ReportStep, Signal!Count, Signal!CountFails, Signal!UserUpsert,
                   Signal!UserRead, Signal!UserWrite, Signal!SignalsInv, Signal!TypeOK
    <2>4. read' \in [Reports -> 0..N \cup {None}]
        <3>1. CASE Signal!UserRead(r)
            <4>1. UserOf[r] \in Signal!Users
                BY <3>1
                   DEF Signal!UserRead, Signal!SignalsInv, Signal!EventsInOrder,
                       Signal!Users
            <4> QED
                BY <3>1, <4>1 DEF Signal!UserRead, Signal!SignalsInv, Signal!TypeOK
        <3> QED
            BY <1>3, <3>1
               DEF ReportStep, Signal!Count, Signal!CountFails, Signal!Mirror,
                   Signal!MirrorFails, Signal!Mirrored, Signal!UserUpsert, Signal!UserWrite,
                   Signal!UserFails, Signal!SignalsInv, Signal!TypeOK
    <2>5. counted' \in [Reports -> 0..Horizon \cup {None}]
        BY <1>3
           DEF ReportStep, Signal!Count, Signal!CountFails, Signal!Mirror,
               Signal!MirrorFails, Signal!Mirrored, Signal!UserUpsert, Signal!UserRead,
               Signal!UserWrite, Signal!UserFails, Signal!counters, Signal!SignalsInv,
               Signal!TypeOK
    <2>6. tally' \in [Signal!Principals -> 0..N]
        <3>1. tally' = [p \in Signal!Principals |-> tally'[p]]
            BY <1>3
               DEF ReportStep, Signal!Count, Signal!CountFails, Signal!Mirror,
                   Signal!MirrorFails, Signal!Mirrored, Signal!UserUpsert, Signal!UserRead,
                   Signal!UserWrite, Signal!UserFails, Signal!rows, Signal!SignalsInv,
                   Signal!TypeOK
        <3>2. ASSUME NEW p \in Signal!Principals PROVE tally'[p] \in 0..N
            <4>1. Signal!Writers(p)' \subseteq Reports
                BY DEF Signal!Writers
            <4>2. tally'[p] = Signal!Cardinality(Signal!Writers(p)')
                BY DEF Signal!TallyWritten
            <4> QED
                BY <4>1, <4>2, ReportSets
        <3> QED
            BY <3>1, <3>2
    <2>7. legacy' \in [Signal!Users -> 0..N]
        <3>1. legacy' = [u \in Signal!Users |-> legacy'[u]]
            BY <1>3
               DEF ReportStep, Signal!Count, Signal!CountFails, Signal!Mirror,
                   Signal!MirrorFails, Signal!Mirrored, Signal!UserUpsert, Signal!UserRead,
                   Signal!UserWrite, Signal!UserFails, Signal!rows, Signal!SignalsInv,
                   Signal!TypeOK
        <3>2. ASSUME NEW u \in Signal!Users PROVE legacy'[u] \in 0..N
            <4>1. Signal!Told(u)' \subseteq Reports
                BY DEF Signal!Told
            <4>2. legacy'[u] <= Signal!Cardinality(Signal!Told(u)')
                BY DEF Signal!UsersCounted
            <4>3. Signal!Cardinality(Signal!Told(u)') \in 0..N
                BY <4>1, ReportSets
            <4>4. legacy[u] \in Nat
                BY <1>0 DEF Signal!SignalsInv, Signal!TypeOK
            <4>5. legacy'[u] \in Nat
                <5>1. CASE Signal!UserWrite(r)
                    <6>1. read[r] \in 0..N
                        BY <5>1 DEF Signal!UserWrite, Signal!SignalsInv, Signal!TypeOK
                    <6> QED
                        BY <1>0, <4>4, <5>1, <6>1
                           DEF Signal!UserWrite, Signal!SignalsInv, Signal!TypeOK
                <5> QED
                    BY <1>3, <4>4, <5>1
                       DEF ReportStep, Signal!Count, Signal!CountFails, Signal!Mirror,
                           Signal!MirrorFails, Signal!Mirrored, Signal!UserUpsert,
                           Signal!UserRead, Signal!UserFails, Signal!rows,
                           Signal!SignalsInv, Signal!TypeOK
            <4> QED
                BY <1>0, <4>2, <4>3, <4>5
        <3> QED
            BY <3>1, <3>2
    <2>8. key' \in [Signal!Agents -> [Windows -> [n : 0..N, until : Nat]]]
        <3>1. CASE Signal!Count(r)
            <4> DEFINE a == SubjectOf[r]
                       new == [w \in Windows |-> Signal!Bumped(key[a][w], w)]
            <4>1. a \in Signal!Agents /\ key' = [key EXCEPT ![a] = new]
                BY <3>1 DEF Signal!Count, Signal!Agents, Signal!SignalsInv, Signal!TypeOK
            <4>2. ASSUME NEW w \in Windows PROVE new[w] \in [n : 0..N, until : Nat]
                <5>1. key'[a][w] = new[w]
                    BY <4>1 DEF Signal!SignalsInv, Signal!TypeOK
                <5>2. key'[a][w].n <= Signal!Cardinality(Signal!Seen(a)')
                    BY <4>1 DEF Signal!KeysRenewed
                <5>3. Signal!Seen(a)' \subseteq Reports
                    BY DEF Signal!Seen
                <5>4. Signal!Cardinality(Signal!Seen(a)') \in 0..N
                    BY <5>3, ReportSets
                <5>5. /\ key[a][w].n \in Nat /\ key[a][w].until \in Nat
                      /\ now \in Nat /\ w.life \in Nat
                    BY <4>1, SeenTimes
                <5>6. new[w] = [n |-> IF now < key[a][w].until THEN key[a][w].n + 1 ELSE 1,
                                until |-> now + w.life]
                    BY DEF Signal!Bumped
                <5>7. new[w].n \in Nat /\ new[w].until \in Nat
                    BY <5>5, <5>6
                <5>8. new[w].n \in 0..N
                    BY <1>0, <5>1, <5>2, <5>4, <5>7
                <5> QED
                    BY <5>6, <5>7, <5>8
            <4>3. new \in [Windows -> [n : 0..N, until : Nat]]
                BY <4>2
            <4> HIDE DEF new
            <4> QED
                BY <4>1, <4>3 DEF Signal!SignalsInv, Signal!TypeOK
        <3>2. CASE ~ Signal!Count(r)
            BY <1>3, <3>2
               DEF ReportStep, Signal!CountFails, Signal!Mirror, Signal!MirrorFails,
                   Signal!Mirrored, Signal!UserUpsert, Signal!UserRead, Signal!UserWrite,
                   Signal!UserFails, Signal!counters, Signal!SignalsInv, Signal!TypeOK
        <3> QED
            BY <3>1, <3>2
    <2>9. crossed' \subseteq Signal!Users
        <3>1. CASE Signal!UserWrite(r)
            <4>1. UserOf[r] \in Signal!Users
                BY <3>1
                   DEF Signal!UserWrite, Signal!SignalsInv, Signal!EventsInOrder,
                       Signal!Users
            <4> QED
                BY <3>1, <4>1 DEF Signal!UserWrite, Signal!SignalsInv, Signal!TypeOK
        <3> QED
            BY <1>3, <3>1
               DEF ReportStep, Signal!Count, Signal!CountFails, Signal!Mirror,
                   Signal!MirrorFails, Signal!Mirrored, Signal!UserUpsert, Signal!UserRead,
                   Signal!UserFails, Signal!SignalsInv, Signal!TypeOK
    <2>10. faults' \in 0..MaxFaults
        BY <1>0, <1>3
           DEF ReportStep, Signal!Count, Signal!CountFails, Signal!Mirror,
               Signal!MirrorFails, Signal!UserUpsert, Signal!UserRead, Signal!UserWrite,
               Signal!UserFails, Signal!Fault, Signal!NoFault, Signal!SignalsInv,
               Signal!TypeOK
    <2> QED
        BY <2>1, <2>2, <2>3, <2>4, <2>5, <2>6, <2>7, <2>8, <2>9, <2>10 DEF Signal!TypeOK
<1> QED
    BY <1>1, <1>2, <1>3 DEF Signal!Next, ReportStep

\* At the beginning nothing is reported and nothing counted.
LEMMA SignalsInit == ASSUME SignalsAssumption, Signal!Init PROVE Signal!SignalsInv
<1>0. /\ Signal!Cardinality(Reports) \in Nat /\ Horizon \in Nat /\ MaxFaults \in Nat
      /\ None \notin Nat
      /\ Signal!Cardinality({}) = 0
    BY FS_CardinalityType, FS_EmptySet, SignalSets
       DEF SignalsAssumption, Signal!NumbersAssumption, Signal!ReportsAssumption
<1>1. Signal!TypeOK
    <2>1. spoilt \in [Reports -> BOOLEAN]
        BY Zenon DEF Signal!Init
    <2> QED
        BY <1>0, <2>1 DEF Signal!Init, Signal!TypeOK
<1>2. ASSUME NEW p \in Signal!Principals PROVE tally[p] = Signal!Cardinality(Signal!Writers(p))
    <2>1. ASSUME NEW r \in Reports PROVE r \notin Signal!Writers(p)
        BY Principal, WritersNow DEF Signal!Init, WritersAre, AgentWrote, UserWrote
    <2>2. Signal!Writers(p) = {}
        BY <2>1 DEF Signal!Writers
    <2> QED
        BY <1>0, <2>2 DEF Signal!Init
<1>3. Signal!EventsInOrder
    BY DEF Signal!Init, Signal!EventsInOrder
<1>4. ASSUME NEW u PROVE Signal!Told(u) = {}
    BY DEF Signal!Init, Signal!Told
<1>5. Signal!UsersCounted /\ Signal!ReadsBehind
    <2>1. \A u \in Signal!Users : legacy[u] = 0 /\ Signal!Cardinality(Signal!Told(u)) = 0
        BY <1>0, <1>4 DEF Signal!Init
    <2> QED
        BY <2>1 DEF Signal!Init, Signal!UsersCounted, Signal!ReadsBehind
<1>6. ASSUME NEW a \in Signal!Agents, NEW w \in Windows PROVE Renewed(a, w)
    <2>1. Signal!Seen(a) = {}
        BY DEF Signal!Init, Signal!Seen
    <2>2. key[a][w].n = 0 /\ key[a][w].until = 0 /\ now = 0
        BY DEF Signal!Init
    <2> QED
        BY <1>0, <2>1, <2>2 DEF Renewed
<1>7. Signal!KeysRenewed
    BY <1>6, Zenon DEF Signal!KeysRenewed, Renewed
<1> QED
    BY <1>1, <1>2, <1>3, <1>5, <1>7 DEF Signal!SignalsInv, Signal!TallyWritten

\* What the writers of a row say of the events about it.
LEMMA CountedFollows ==
    ASSUME SignalsAssumption, Signal!SignalsInv
    PROVE  Signal!CountedOnce
<1> SUFFICES ASSUME NEW p \in Signal!Principals
             PROVE  LET accusing == {r \in Reports : pc[r] # "count" /\ p \in Signal!Accused(r)}
                        finished == {r \in accusing : pc[r] = "done" /\ ~ Signal!Missed(r, p)}
                    IN  Signal!Cardinality(finished) <= tally[p] /\ tally[p]
                        <= Signal!Cardinality(accusing)
                        /\ ((\A r \in Reports : pc[r] = "done")
                               => tally[p] = Signal!Cardinality(finished))
    BY DEF Signal!CountedOnce
<1> DEFINE accusing == {r \in Reports : pc[r] # "count" /\ p \in Signal!Accused(r)}
           finished == {r \in accusing : pc[r] = "done" /\ ~ Signal!Missed(r, p)}
<1>1. /\ tally[p] = Signal!Cardinality(Signal!Writers(p))
      /\ Signal!Writers(p) \subseteq Reports /\ accusing \subseteq Reports
    BY DEF Signal!SignalsInv, Signal!TallyWritten, Signal!Writers
<1>2. ASSUME NEW r \in Reports
      PROVE  /\ pc[r] = "done" => Signal!Passed(r, p)
             /\ Signal!Passed(r, p) => pc[r] # "count"
    BY DEF Signal!Passed
<1>3. finished \subseteq Signal!Writers(p) /\ Signal!Writers(p) \subseteq accusing
    BY <1>2 DEF Signal!Writers
<1>4. (\A r \in Reports : pc[r] = "done") => finished = Signal!Writers(p)
    BY <1>3 DEF Signal!Writers
<1> HIDE DEF accusing, finished
<1>5. Signal!Cardinality(finished) <= tally[p] /\ tally[p] <= Signal!Cardinality(accusing)
    BY <1>1, <1>3, ReportSubsets
<1>6. (\A r \in Reports : pc[r] = "done") => tally[p] = Signal!Cardinality(finished)
    BY <1>1, <1>4
<1> QED
    BY <1>5, <1>6 DEF accusing, finished

\* A key counts an unbroken run of events, never fewer than those of the window's span, and
\* none after a silence.
LEMMA WindowsFollow ==
    ASSUME SignalsAssumption, Signal!SignalsInv
    PROVE  Signal!WindowsKept
<1> SUFFICES ASSUME NEW a \in Signal!Agents, NEW w \in Windows
             PROVE  /\ Signal!Shown(a, w)
                           >= Signal!Cardinality({r
                               \in Signal!Seen(a) : counted[r] + w.span > now})
                    /\ Signal!Shown(a, w) <= Signal!Cardinality(Signal!Seen(a))
                    /\ (\A r \in Signal!Seen(a) : counted[r] + w.life <= now)
                           => Signal!Shown(a, w) = 0
    BY DEF Signal!WindowsKept
<1>0. Renewed(a, w)
    BY DEF Signal!SignalsInv, Signal!KeysRenewed, Renewed
<1>1. /\ now \in Nat /\ w.life \in Nat /\ w.life > 0 /\ w.span \in Nat /\ w.life >= w.span
      /\ key[a][w].until \in Nat
      /\ \A q \in Signal!Seen(a) : counted[q] \in Nat /\ counted[q] <= now
    BY SeenTimes
<1>2. Signal!Shown(a, w) = Signal!Cardinality(Signal!Unbroken(a, w))
    <2>1. CASE now < key[a][w].until
        BY <1>0, <2>1 DEF Renewed, Signal!Shown
    <2>2. CASE ~ (now < key[a][w].until)
        <3>1. ASSUME NEW q \in Signal!Seen(a) PROVE Signal!CutOff(a, w, counted[q])
            <4>1. PICK last \in Signal!Seen(a) : key[a][w].until = counted[last] + w.life
                BY <1>0 DEF Renewed
            <4>2. counted[last] + w.life <= now /\ counted[last] \in counted[q]..now
                BY <1>0, <1>1, <2>2, <4>1 DEF Renewed
            <4>3. \A p \in Signal!Seen(a) : counted[p] <= counted[last]
                BY <1>0, <1>1, <4>1 DEF Renewed
            <4> QED
                BY <4>2, <4>3 DEF Signal!CutOff
        <3>2. Signal!Unbroken(a, w) = {}
            BY <3>1 DEF Signal!Unbroken
        <3> QED
            BY <2>2, <3>2, FS_EmptySet, SignalSets DEF Signal!Shown
    <2> QED
        BY <2>1, <2>2
<1>3. {r \in Signal!Seen(a) : counted[r] + w.span > now} \subseteq Signal!Unbroken(a, w)
    <2> SUFFICES ASSUME NEW r \in Signal!Seen(a), counted[r] + w.span > now
                 PROVE  ~ Signal!CutOff(a, w, counted[r])
        BY DEF Signal!Unbroken
    <2>1. \A u \in counted[r]..now : ~ (u + w.life <= now)
        BY <1>1
    <2> QED
        BY <2>1 DEF Signal!CutOff
<1>4. Signal!Unbroken(a, w) \subseteq Reports
    BY DEF Signal!Unbroken, Signal!Seen
<1>5. Signal!Cardinality({r \in Signal!Seen(a) : counted[r] + w.span > now})
          <= Signal!Cardinality(Signal!Unbroken(a, w))
    BY <1>3, <1>4, ReportSubsets
<1>6. /\ Signal!Cardinality({r \in Signal!Seen(a) : counted[r] + w.span > now}) \in Nat
      /\ Signal!Cardinality(Signal!Unbroken(a, w)) \in Nat
    <2>1. {r \in Signal!Seen(a) : counted[r] + w.span > now} \subseteq Reports
        BY <1>3, <1>4
    <2>2. Signal!Cardinality({r \in Signal!Seen(a) : counted[r] + w.span > now})
              \in 0..Signal!Cardinality(Reports)
        BY <2>1, ReportSets
    <2> QED
        BY <1>4, <2>2, ReportSets
<1>7. Signal!Shown(a, w) <= Signal!Cardinality(Signal!Seen(a))
    <2>1. Signal!Unbroken(a, w) \subseteq Signal!Seen(a) /\ Signal!Seen(a) \subseteq Reports
        BY DEF Signal!Unbroken, Signal!Seen
    <2> QED
        BY <1>2, <2>1, ReportSubsets
<1>8. ASSUME \A r \in Signal!Seen(a) : counted[r] + w.life <= now
      PROVE  Signal!Shown(a, w) = 0
    <2>1. key[a][w].until <= now
        BY <1>0, <1>1, <1>8 DEF Renewed
    <2> QED
        BY <1>1, <2>1 DEF Signal!Shown
<1> QED
    BY <1>2, <1>5, <1>6, <1>7, <1>8

\* However rogue events interleave, fail and cross: the tally of a principal counts those
\* written to its row, the table of users falls behind only where a write failed or two of
\* them crossed, and a window shows no fewer events than those of its span, no more than there
\* were, and none after a silence (record_data_leak and its like).
THEOREM SignalsKeptHolds == ASSUME SignalsAssumption PROVE Signal!Spec => []Signal!SignalsKept
<1>1. Signal!Init => Signal!SignalsInv
    BY SignalsInit
<1>2. Signal!SignalsInv /\ [Signal!Next]_(Signal!vars) => Signal!SignalsInv'
    BY TallyStep, OrderStep, ToldStep, KeysStep, SignalsTypeStep DEF Signal!SignalsInv
<1>3. Signal!SignalsInv => Signal!SignalsKept
    BY CountedFollows, WindowsFollow DEF Signal!SignalsInv, Signal!SignalsKept
<1> QED
    BY <1>1, <1>2, <1>3, PTL DEF Signal!Spec
-----------------------------------------------------------------------------
(* Budgets.  What the ledger holds the counter shows, with what is about to *)
(* be booked, until a lifetime after; and what is in flight was below the  *)
(* cap when the last call asked.                                           *)

\* TenantBudget counts sets as the theorems of the library do.
LEMMA BudgetSets ==
    ASSUME NEW S
    PROVE  Budget!Cardinality(S) = Cardinality(S) /\ (Budget!IsFiniteSet(S) <=> IsFiniteSet(S))
BY DEF Budget!Cardinality, Cardinality, Budget!IsFiniteSet, IsFiniteSet

BudgetAssumption ==
    /\ Budget!CapsAssumption /\ Budget!EventsAssumption /\ Budget!WindowAssumption
    /\ Budget!NumbersAssumption

\* Sets of events are finite, and no larger than all of them.
LEMMA EventSets ==
    ASSUME BudgetAssumption, NEW S, S \subseteq Events
    PROVE  /\ Budget!IsFiniteSet(S) /\ Budget!Cardinality(S) \in Nat
           /\ Budget!Cardinality(S) <= Budget!Cardinality(Events)
BY FS_Subset, FS_CardinalityType, BudgetSets DEF BudgetAssumption, Budget!EventsAssumption

\* A part of a set of events is no larger than it.
LEMMA EventSubsets ==
    ASSUME BudgetAssumption, NEW T, T \subseteq Events, NEW S, S \subseteq T
    PROVE  /\ Budget!Cardinality(S) <= Budget!Cardinality(T)
           /\ Budget!Cardinality(S) \in Nat /\ Budget!Cardinality(T) \in Nat
<1>1. Budget!IsFiniteSet(T) /\ Budget!Cardinality(S) \in Nat /\ Budget!Cardinality(T) \in Nat
    BY EventSets
<1> QED
    BY <1>1, FS_Subset, BudgetSets

\* Events are counted one by one, upwards ...
LEMMA OneEventMore ==
    ASSUME BudgetAssumption, NEW S, S \subseteq Events, NEW e \in Events
    PROVE  /\ e \notin S => Budget!Cardinality(S \cup {e}) = Budget!Cardinality(S) + 1
           /\ Budget!Cardinality(S \cup {e}) <= Budget!Cardinality(S) + 1
<1>1. Budget!IsFiniteSet(S) /\ Budget!Cardinality(S) \in Nat
    BY EventSets
<1>2. Budget!Cardinality(S \cup {e}) = IF e
          \in S THEN Budget!Cardinality(S) ELSE Budget!Cardinality(S) + 1
    BY <1>1, FS_AddElement, BudgetSets
<1> QED
    BY <1>1, <1>2

\* ... and downwards.
LEMMA OneEventLess ==
    ASSUME BudgetAssumption, NEW S, S \subseteq Events, NEW e \in S
    PROVE  Budget!Cardinality(S \ {e}) = Budget!Cardinality(S) - 1
BY EventSets, FS_RemoveElement, BudgetSets

\* What several events cost.
LEMMA Costs ==
    ASSUME BudgetAssumption, NEW m \in Int, NEW n \in Int
    PROVE  /\ Cost * m \in Int /\ Cost * (n + 1) = Cost * n + Cost
           /\ Cost * (n - 1) = Cost * n - Cost
           /\ m <= n => Cost * m <= Cost * n
           /\ n >= 0 => Cost * n >= 0
<1>1. Cost \in Nat
    BY DEF BudgetAssumption, Budget!EventsAssumption
<1>2. Cost * m \in Int /\ Cost * (n + 1) = Cost * n + Cost /\ Cost * (n - 1) = Cost * n - Cost
    BY <1>1
<1>3. m <= n => Cost * m <= Cost * n
    BY <1>1
<1>4. n >= 0 => Cost * n >= 0
    BY <1>1
<1> QED
    BY <1>2, <1>3, <1>4

\* What the arithmetic of the proofs is about are numbers.
LEMMA Numbers ==
    ASSUME BudgetAssumption, Budget!BudgetInv
    PROVE  /\ now \in Nat /\ dies \in Nat /\ counter \in Nat /\ reports \in Nat /\ peak \in Nat
           /\ Cost \in Nat /\ Life \in Nat /\ Window \in Nat /\ Window < Life /\ Horizon \in Nat
           /\ MaxChanges \in Nat /\ MaxReports \in Nat /\ Budget!Cardinality(Events) \in Nat
           /\ Budget!Spend \in Nat /\ None \notin Nat
           /\ \A e \in Events : ledger[e] # None => ledger[e] \in Nat
<1>1. /\ Cost \in Nat /\ Life \in Nat /\ Window \in Nat /\ Window < Life /\ Horizon \in Nat
      /\ /\ MaxChanges \in Nat /\ MaxReports \in Nat /\ Budget!Cardinality(Events) \in Nat
         /\ None \notin Nat
    BY FS_CardinalityType, BudgetSets
       DEF BudgetAssumption, Budget!CapsAssumption, Budget!EventsAssumption,
           Budget!WindowAssumption, Budget!NumbersAssumption
<1>2. now \in Nat /\ dies \in Nat /\ counter \in Nat /\ reports \in Nat /\ peak \in Nat
    BY <1>1 DEF Budget!BudgetInv, Budget!TypeOK
<1>3. \A e \in Events : ledger[e] # None => ledger[e] \in Nat
    BY <1>1 DEF Budget!BudgetInv, Budget!TypeOK
<1> QED
    BY <1>1, <1>2, <1>3 DEF Budget!Spend

\* What a cap may be passed by is a number.
LEMMA ExcessNumber ==
    ASSUME BudgetAssumption, Budget!BudgetInv
    PROVE  Budget!Excess \in Int
<1>1. unchecked \subseteq Events
    BY DEF Budget!BudgetInv, Budget!TypeOK
<1>2. peak - 1 + Budget!Cardinality(unchecked) \in Int
    BY <1>1, EventSets, Numbers
<1> QED
    BY <1>2, Costs DEF Budget!Excess

\* A change of caps, and a step of an event.
CapStep ==
    \/ \E cap \in Caps : Budget!SetDefault(cap) \/ Budget!CheckOnlyTighten(cap)
    \/ Budget!SetOverride \/ Budget!DeleteDefault \/ Budget!DeleteOverride
EventStep(e) ==
    Budget!ReadCaps(e) \/ Budget!ShouldRefuse(e) \/ Budget!IncrementWindows(e) \/ Budget!IncrementFails(e)
        \/ Budget!BookEvent(e) \/ Budget!ReportAgain(e)

\* A change of the caps spends nothing, and events that are on their way have seen it.
LEMMA CapsOnly ==
    ASSUME CapStep
    PROVE  /\ UNCHANGED Budget!spending /\ now' = now
           /\ \/ capsMoved' = capsMoved /\ Budget!EffectiveCaps' = Budget!EffectiveCaps
              \/ capsMoved' = (capsMoved \/ \E e \in Events : pc[e] # "idle")
BY DEF CapStep, Budget!SetDefault, Budget!CheckOnlyTighten, Budget!SetOverride,
       Budget!DeleteDefault, Budget!DeleteOverride, Budget!Changed, Budget!EffectiveCaps,
       Budget!Defaults

\* An event changes no cap.
LEMMA EventsOnly ==
    ASSUME NEW e \in Events, EventStep(e)
    PROVE  UNCHANGED Budget!config /\ now' = now /\ Budget!EffectiveCaps' = Budget!EffectiveCaps
BY DEF EventStep, Budget!ReadCaps, Budget!Admit, Budget!ShouldRefuse, Budget!IncrementWindows, Budget!IncrementFails,
       Budget!BookEvent, Budget!ReportAgain, Budget!config, Budget!EffectiveCaps,
       Budget!Defaults

\* The caps in force are among those that may be set.
LEMMA CapsTyped ==
    ASSUME BudgetAssumption, Budget!BudgetInv
    PROVE  Budget!EffectiveCaps \subseteq Caps
<1>1. platform \in Seq(Caps) /\ override \in Caps \cup {None}
    BY DEF Budget!BudgetInv, Budget!TypeOK
<1>2. Budget!Defaults \subseteq Caps
    BY <1>1 DEF Budget!Defaults, Budget!Range
<1> QED
    BY <1>1, <1>2 DEF Budget!EffectiveCaps

\* A step keeps the types.
LEMMA BudgetTypeStep ==
    ASSUME BudgetAssumption, Budget!BudgetInv, [Budget!Next]_(Budget!vars)
    PROVE  Budget!TypeOK'
<1> USE DEF Budget!BudgetInv
<1>1. CASE CapStep
    <2>1. UNCHANGED Budget!spending /\ now' = now
        BY <1>1, CapsOnly
    <2>2. platform' \in Seq(Caps)
        <3>1. ASSUME NEW cap \in Caps PROVE Append(platform, cap) \in Seq(Caps)
            BY DEF Budget!TypeOK
        <3>2. platform \in Seq(Caps) /\ <<>> \in Seq(Caps)
            BY DEF Budget!TypeOK
        <3> QED
            BY <1>1, <3>1, <3>2
               DEF CapStep, Budget!SetDefault, Budget!CheckOnlyTighten, Budget!SetOverride,
                   Budget!DeleteDefault, Budget!DeleteOverride
    <2>3. override' \in Caps \cup {None} /\ checking' \in Caps \cup {None}
        <3>1. /\ checking' \in Caps \cup {None, checking}
              /\ override' \in {override, checking, None}
            BY <1>1
               DEF CapStep, Budget!SetDefault, Budget!CheckOnlyTighten, Budget!SetOverride,
                   Budget!DeleteDefault, Budget!DeleteOverride
        <3>2. override \in Caps \cup {None} /\ checking \in Caps \cup {None}
            BY DEF Budget!TypeOK
        <3> QED
            BY <3>1, <3>2
    <2>4. edits' \in 0..MaxChanges
        <3>1. edits' = edits \/ (edits < MaxChanges /\ edits' = edits + 1)
            BY <1>1
               DEF CapStep, Budget!SetDefault, Budget!CheckOnlyTighten, Budget!SetOverride,
                   Budget!DeleteDefault, Budget!DeleteOverride, Budget!Changed
        <3>2. edits \in 0..MaxChanges
            BY DEF Budget!TypeOK
        <3> QED
            BY <3>1, <3>2, Numbers
    <2> QED
        BY <2>1, <2>2, <2>3, <2>4 DEF Budget!TypeOK, Budget!spending
<1>2. ASSUME NEW e \in Events, EventStep(e) PROVE Budget!TypeOK'
    <2>1. UNCHANGED Budget!config /\ now' = now
        BY <1>2, EventsOnly
    <2>2. pc' \in [Events -> {"idle", "asking", "admitted", "counted", "done", "refused"}]
        BY <1>2
           DEF EventStep, Budget!ReadCaps, Budget!Admit, Budget!ShouldRefuse, Budget!IncrementWindows,
               Budget!IncrementFails, Budget!BookEvent, Budget!ReportAgain, Budget!TypeOK
    <2>3. ledger' \in [Events -> 0..Horizon \cup {None}]
        BY <1>2
           DEF EventStep, Budget!ReadCaps, Budget!Admit, Budget!ShouldRefuse, Budget!IncrementWindows,
               Budget!IncrementFails, Budget!BookEvent, Budget!ReportAgain, Budget!TypeOK
    <2>4. counter' \in Nat /\ dies' \in 0..(Horizon + Life) /\ reports' \in 0..MaxReports
        <3>1. now + Life \in 0..(Horizon + Life) /\ dies \in 0..(Horizon + Life)
            <4>1. now \in 0..Horizon /\ dies \in 0..(Horizon + Life)
                BY Zenon DEF Budget!TypeOK
            <4>2. Horizon \in Nat /\ Life \in Nat
                BY Numbers
            <4> QED
                BY <4>1, <4>2
        <3>2. Budget!Spend + Cost \in Nat /\ counter \in Nat
            BY Numbers
        <3>3. /\ reports \in 0..MaxReports
              /\ (reports < MaxReports => reports + 1 \in 0..MaxReports)
            BY Numbers DEF Budget!TypeOK
        <3>4. counter' \in {counter, Budget!Spend + Cost}
            BY <1>2
               DEF EventStep, Budget!ReadCaps, Budget!Admit, Budget!ShouldRefuse, Budget!IncrementWindows,
                   Budget!IncrementFails, Budget!BookEvent, Budget!ReportAgain
        <3>5. dies' \in {dies, now + Life}
            BY <1>2
               DEF EventStep, Budget!ReadCaps, Budget!Admit, Budget!ShouldRefuse, Budget!IncrementWindows,
                   Budget!IncrementFails, Budget!BookEvent, Budget!ReportAgain
        <3>6. reports' = reports \/ (reports < MaxReports /\ reports' = reports + 1)
            BY <1>2
               DEF EventStep, Budget!ReadCaps, Budget!Admit, Budget!ShouldRefuse, Budget!IncrementWindows,
                   Budget!IncrementFails, Budget!BookEvent, Budget!ReportAgain
        <3> QED
            BY <3>1, <3>2, <3>3, <3>4, <3>5, <3>6
    <2>5. peak' \in 0..Budget!Cardinality(Events)
        <3>1. CASE peak' = peak
            BY <3>1 DEF Budget!TypeOK
        <3>2. CASE peak' # peak
            <4>1. e \notin Budget!InFlight /\ peak' = Budget!Cardinality(Budget!InFlight) + 1
                BY <1>2, <3>2
                   DEF EventStep, Budget!ReadCaps, Budget!Admit, Budget!ShouldRefuse, Budget!IncrementWindows,
                       Budget!IncrementFails, Budget!BookEvent, Budget!ReportAgain,
                       Budget!InFlight
            <4>2. Budget!InFlight \subseteq Events /\ Budget!InFlight \cup {e} \subseteq Events
                BY DEF Budget!InFlight
            <4>3. Budget!Cardinality(Budget!InFlight \cup {e})
                      = Budget!Cardinality(Budget!InFlight) + 1
                BY <4>1, <4>2, OneEventMore
            <4>4. Budget!Cardinality(Budget!InFlight \cup {e}) \in Nat
                  /\ Budget!Cardinality(Budget!InFlight \cup {e}) <= Budget!Cardinality(Events)
                BY <4>2, EventSets
            <4> QED
                BY <4>1, <4>3, <4>4, Numbers
        <3> QED
            BY <3>1, <3>2
    <2>6. seenCap' \in [Events -> Caps \cup {None}]
        <3>1. seenCap \in [Events -> Caps \cup {None}]
            BY DEF Budget!TypeOK
        <3>2. CASE Budget!ReadCaps(e)
            <4>1. PICK cap \in Budget!EffectiveCaps \cup {seenCap[e]} :
                      seenCap' = [seenCap EXCEPT ![e] = cap]
                BY <3>1, <3>2 DEF Budget!ReadCaps
            <4>2. cap \in Caps \cup {None}
                BY <3>1, <4>1, CapsTyped
            <4> QED
                BY <3>1, <4>1, <4>2
        <3>3. CASE ~ Budget!ReadCaps(e)
            BY <1>2, <3>1, <3>3
               DEF EventStep, Budget!ShouldRefuse, Budget!IncrementWindows,
                   Budget!IncrementFails, Budget!BookEvent, Budget!ReportAgain
        <3> QED
            BY <3>2, <3>3
    <2>7. unchecked' \subseteq Events
        <3>1. unchecked' \in {unchecked, unchecked \cup {e}}
            BY <1>2
               DEF EventStep, Budget!ReadCaps, Budget!ShouldRefuse, Budget!IncrementWindows,
                   Budget!IncrementFails, Budget!BookEvent, Budget!ReportAgain
        <3> QED
            BY <3>1 DEF Budget!TypeOK
    <2> QED
        BY <2>1, <2>2, <2>3, <2>4, <2>5, <2>6, <2>7 DEF Budget!TypeOK, Budget!config
<1>3. CASE Budget!Tick
    BY <1>3, Numbers DEF Budget!Tick, Budget!TypeOK, Budget!config, Budget!spending
<1>4. CASE UNCHANGED Budget!vars
    BY <1>4 DEF Budget!vars, Budget!TypeOK, Budget!config, Budget!spending
<1> QED
    BY <1>1, <1>2, <1>3, <1>4 DEF Budget!Next, CapStep, EventStep

\* A cap of the tenant was compared with the default that is there, unless that one moved.
LEMMA ComparedStep ==
    ASSUME BudgetAssumption, Budget!BudgetInv, [Budget!Next]_(Budget!vars)
    PROVE  Budget!ComparedCaps'
<1>0. Budget!ComparedCaps
    BY DEF Budget!BudgetInv
<1>1. CASE CapStep
    <2>1. CASE moved'
        BY <2>1 DEF Budget!ComparedCaps
    <2>2. CASE ~ moved'
        <3>1. platform' = platform
            BY <1>1, <2>2
               DEF CapStep, Budget!SetDefault, Budget!CheckOnlyTighten, Budget!SetOverride,
                   Budget!DeleteDefault, Budget!DeleteOverride
        <3>2. \A cap : Budget!Tight(cap)' <=> Budget!Tight(cap)
            BY <3>1 DEF Budget!Tight, Budget!Defaults
        <3>3. CASE \E cap \in Caps : Budget!CheckOnlyTighten(cap)
            <4>1. PICK cap \in Caps : Budget!CheckOnlyTighten(cap)
                BY <3>3
            <4>2. Budget!Tight(cap) /\ checking' = cap /\ platform' = platform
                BY <4>1 DEF Budget!CheckOnlyTighten, Budget!Tight
            <4>3. Budget!Tight(checking)'
                BY <4>2 DEF Budget!Tight, Budget!Defaults
            <4>4. cap # None
                BY DEF BudgetAssumption, Budget!CapsAssumption
            <4> QED
                BY <4>2, <4>3, <4>4 DEF Budget!ComparedCaps
        <3>4. CASE Budget!SetOverride \/ Budget!DeleteOverride
            BY <1>0, <3>2, <3>4
               DEF Budget!SetOverride, Budget!DeleteOverride, Budget!ComparedCaps
        <3> QED
            BY <1>1, <2>2, <3>3, <3>4 DEF CapStep, Budget!SetDefault, Budget!DeleteDefault
    <2> QED
        BY <2>1, <2>2
<1>2. CASE UNCHANGED Budget!config
    BY <1>0, <1>2 DEF Budget!config, Budget!ComparedCaps, Budget!Tight, Budget!Defaults
<1> QED
    BY <1>1, <1>2, EventsOnly DEF Budget!Next, Budget!vars, CapStep, EventStep, Budget!Tick

\* A call that is asking has read a cap in force, and those that asked are the ones let through.
LEMMA LimitsStep ==
    ASSUME BudgetAssumption, Budget!BudgetInv, [Budget!Next]_(Budget!vars)
    PROVE  Budget!LimitsInForce'
<1>0. Budget!LimitsInForce /\ Budget!TypeOK
    BY DEF Budget!BudgetInv
<1>1. CASE CapStep
    <2>1. UNCHANGED Budget!spending
        BY <1>1, CapsOnly
    <2>2. CASE capsMoved' = capsMoved /\ Budget!EffectiveCaps' = Budget!EffectiveCaps
        BY <1>0, <2>1, <2>2 DEF Budget!spending, Budget!LimitsInForce, Budget!Asked
    <2>3. CASE capsMoved' = (capsMoved \/ \E e \in Events : pc[e] # "idle")
        <3>1. \A e \in Events : pc'[e] = "asking" => capsMoved'
            BY <2>1, <2>3 DEF Budget!spending
        <3> QED
            BY <1>0, <2>1, <3>1 DEF Budget!spending, Budget!LimitsInForce, Budget!Asked
    <2> QED
        BY <1>1, <2>2, <2>3, CapsOnly
<1>2. ASSUME NEW e \in Events, EventStep(e) PROVE Budget!LimitsInForce'
    <2>1. capsMoved' = capsMoved /\ Budget!EffectiveCaps' = Budget!EffectiveCaps
        BY <1>2, EventsOnly DEF Budget!config
    <2>2. /\ \A f \in Events \ {e} : pc'[f] = pc[f] /\ seenCap'[f] = seenCap[f]
          /\ pc[e] \in {"admitted", "counted", "done"}
                => pc'[e] \in {"admitted", "counted", "done"}
          /\ unchecked' # unchecked
                => unchecked' = unchecked \cup {e} /\ pc'[e] = "admitted"
          /\ counter' # counter => pc'[e] = "counted"
        BY <1>0, <1>2
           DEF EventStep, Budget!ReadCaps, Budget!Admit, Budget!ShouldRefuse,
               Budget!IncrementWindows, Budget!IncrementFails, Budget!BookEvent,
               Budget!ReportAgain, Budget!TypeOK
    <2>3. pc'[e] = "asking" => seenCap'[e] \in Budget!EffectiveCaps
        BY <1>0, <1>2
           DEF EventStep, Budget!ReadCaps, Budget!Admit, Budget!ShouldRefuse,
               Budget!IncrementWindows, Budget!IncrementFails, Budget!BookEvent,
               Budget!ReportAgain, Budget!TypeOK
    <2>4. None \notin Budget!EffectiveCaps
        BY CapsTyped DEF BudgetAssumption, Budget!CapsAssumption
    <2>5. Budget!Asked \subseteq Budget!Asked'
        BY <2>2 DEF Budget!Asked
    <2>6. unchecked' \subseteq Budget!Asked'
        BY <1>0, <2>2, <2>5 DEF Budget!LimitsInForce, Budget!Asked
    <2>7. Budget!Asked' = {} => counter' = 0
        BY <1>0, <2>2, <2>5 DEF Budget!LimitsInForce, Budget!Asked
    <2> QED
        BY <1>0, <2>1, <2>2, <2>3, <2>4, <2>6, <2>7 DEF Budget!LimitsInForce
<1>3. CASE Budget!Tick \/ UNCHANGED Budget!vars
    BY <1>0, <1>3
       DEF Budget!Tick, Budget!vars, Budget!config, Budget!spending, Budget!LimitsInForce,
           Budget!Asked, Budget!EffectiveCaps, Budget!Defaults
<1> QED
    BY <1>1, <1>2, <1>3 DEF Budget!Next, CapStep, EventStep

\* The counter shows what the ledger holds and what is about to be booked.
LEMMA CounterStep ==
    ASSUME BudgetAssumption, Budget!BudgetInv, [Budget!Next]_(Budget!vars)
    PROVE  Budget!CounterAhead' /\ Budget!LedgerBehind'
<1> USE DEF Budget!BudgetInv
<1>0. /\ \A e \in Events : ledger[e] # None => ledger[e] <= now
      /\ dies <= now + Life
    BY DEF Budget!LedgerBehind
<1>1. CASE CapStep \/ UNCHANGED Budget!vars
    <2>1. UNCHANGED Budget!spending /\ now' = now
        BY <1>1, CapsOnly DEF Budget!vars
    <2>2. /\ Budget!Booked' = Budget!Booked /\ Budget!Counted' = Budget!Counted
          /\ Budget!Spend' = Budget!Spend
        BY <2>1 DEF Budget!spending, Budget!Booked, Budget!Counted, Budget!Spend
    <2> QED
        BY <2>1, <2>2 DEF Budget!spending, Budget!CounterAhead, Budget!LedgerBehind
<1>2. CASE Budget!Tick
    <2>1. /\ now' = now + 1 /\ UNCHANGED Budget!spending /\ Budget!Counted = {}
          /\ Budget!Counted' = {}
        BY <1>2 DEF Budget!Tick, Budget!Counted, Budget!spending
    <2>2. Budget!LedgerBehind'
        <3>1. now' = now + 1 /\ dies' = dies /\ ledger' = ledger /\ pc' = pc
            BY <2>1 DEF Budget!spending
        <3>2. dies' <= now' + Life
            BY <1>0, <3>1, Numbers
        <3>3. \A e \in Events : ledger[e] # None => ledger[e] <= now + 1
            BY <1>0, Numbers
        <3> QED
            BY <3>1, <3>2, <3>3 DEF Budget!LedgerBehind
    <2>3. ASSUME ~ missed PROVE Cost * Budget!Cardinality(Budget!Booked')  <= Budget!Spend'
        <3>1. CASE now' < dies
            <4>1. Budget!Spend' = counter /\ Budget!Spend = counter
                BY <2>1, <3>1, Numbers DEF Budget!Spend, Budget!spending
            <4>2. /\ Budget!Booked' \subseteq Budget!Booked
                  /\ Budget!Booked \subseteq Budget!Booked \cup Budget!Counted
                <5> SUFFICES ASSUME NEW e \in Budget!Booked' PROVE e \in Budget!Booked
                    OBVIOUS
                <5>1. e \in Events /\ ledger[e] # None /\ (now + 1) - ledger[e] <= Window
                    BY <2>1 DEF Budget!Booked, Budget!spending
                <5>2. ledger[e] \in Nat /\ now \in Nat /\ Window \in Nat
                    BY <5>1, Numbers
                <5>3. now - ledger[e] <= Window
                    BY <5>1, <5>2
                <5> QED
                    BY <5>1, <5>3 DEF Budget!Booked
            <4>3. /\ Budget!Booked \cup Budget!Counted \subseteq Events
                  /\ Budget!Booked' \subseteq Budget!Booked \cup Budget!Counted
                BY <4>2 DEF Budget!Booked, Budget!Counted
            <4>4. Budget!Cardinality(Budget!Booked')
                      <= Budget!Cardinality(Budget!Booked \cup Budget!Counted)
                  /\ /\ Budget!Cardinality(Budget!Booked') \in Nat
                     /\ Budget!Cardinality(Budget!Booked \cup Budget!Counted) \in Nat
                BY <4>3, EventSubsets
            <4>5. Cost * Budget!Cardinality(Budget!Booked')
                      <= Cost * Budget!Cardinality(Budget!Booked \cup Budget!Counted)
                  /\ /\ Cost * Budget!Cardinality(Budget!Booked') \in Int
                     /\ Cost * Budget!Cardinality(Budget!Booked \cup Budget!Counted) \in Int
                BY <4>4, Costs
            <4>6. Cost * Budget!Cardinality(Budget!Booked \cup Budget!Counted) <= counter
                BY <2>3, <4>1 DEF Budget!CounterAhead
            <4> QED
                BY <4>1, <4>5, <4>6, Numbers
        <3>2. CASE ~ (now' < dies)
            <4>1. Budget!Spend' = 0
                BY <2>1, <3>2 DEF Budget!Spend, Budget!spending
            <4>2. Budget!Booked' = {}
                <5> SUFFICES ASSUME NEW e \in Budget!Booked' PROVE FALSE
                    OBVIOUS
                <5>1. e \in Events /\ ledger[e] # None /\ (now + 1) - ledger[e] <= Window
                    BY <2>1 DEF Budget!Booked, Budget!spending
                <5>2. ledger[e] + Life <= dies
                    BY <2>3, <5>1 DEF Budget!CounterAhead
                <5> QED
                    BY <2>1, <3>2, <5>1, <5>2, Numbers
            <4>3. Budget!Cardinality(Budget!Booked') = 0
                BY <4>2, FS_EmptySet, BudgetSets
            <4> QED
                BY <4>1, <4>3, Numbers
        <3> QED
            BY <3>1, <3>2
    <2>4. Budget!CounterAhead'
        <3>1. Budget!Booked' \cup Budget!Counted' = Budget!Booked'
            BY <2>1
        <3> QED
            BY <2>1, <2>3, <3>1 DEF Budget!CounterAhead, Budget!spending
    <2> QED
        BY <2>2, <2>4
<1>3. ASSUME NEW e \in Events, EventStep(e) PROVE Budget!CounterAhead' /\ Budget!LedgerBehind'
    <2>1. now' = now
        BY <1>3, EventsOnly
    <2>2. CASE Budget!ReadCaps(e) \/ Budget!ShouldRefuse(e) \/ Budget!ReportAgain(e)
        <3>1. /\ UNCHANGED <<counter, dies, ledger, missed>>
              /\ pc[e] \in {"idle", "asking", "done"}
              /\ pc'[e] \in {"asking", "admitted", "refused"}
              /\ pc[e] = "done" => pc'[e] = "admitted"
              /\ \A f \in Events \ {e} : pc'[f] = pc[f]
            BY <2>2
               DEF Budget!ReadCaps, Budget!Admit, Budget!ShouldRefuse, Budget!ReportAgain,
                   Budget!TypeOK
        <3>2. Budget!Counted' = Budget!Counted
            BY <3>1 DEF Budget!Counted
        <3>3. Budget!Booked' = Budget!Booked /\ Budget!Spend' = Budget!Spend
            BY <2>1, <3>1 DEF Budget!Booked, Budget!Spend
        <3>4. \A f \in Events : ledger[f] # None => pc'[f] \in {"admitted", "counted", "done"}
            BY <3>1 DEF Budget!LedgerBehind
        <3> QED
            BY <2>1, <3>1, <3>2, <3>3, <3>4 DEF Budget!CounterAhead, Budget!LedgerBehind
    <2>3. CASE Budget!IncrementWindows(e)
        <3>1. /\ counter' = Budget!Spend + Cost /\ dies' = now + Life
              /\ UNCHANGED <<ledger, missed>>
              /\ pc'[e] = "counted" /\ \A f \in Events \ {e} : pc'[f] = pc[f]
            BY <2>3 DEF Budget!IncrementWindows, Budget!TypeOK
        <3>2. /\ Budget!Booked' = Budget!Booked /\ Budget!Counted' = Budget!Counted \cup {e}
              /\ Budget!Booked \cup Budget!Counted \subseteq Events
            BY <2>1, <3>1 DEF Budget!Booked, Budget!Counted
        <3>3. Budget!Spend' = Budget!Spend + Cost
            BY <2>1, <3>1, Numbers DEF Budget!Spend
        <3>4. \A f \in Events : ledger'[f] # None => ledger'[f] + Life <= dies'
            BY <1>0, <3>1, Numbers
        <3>5. ASSUME ~ missed
              PROVE  Cost * Budget!Cardinality(Budget!Booked' \cup Budget!Counted')
                         <= Budget!Spend'
            <4>1. Budget!Booked' \cup Budget!Counted'
                      = (Budget!Booked \cup Budget!Counted) \cup {e}
                BY <3>2
            <4>2. Budget!Cardinality(Budget!Booked' \cup Budget!Counted')
                      <= Budget!Cardinality(Budget!Booked \cup Budget!Counted) + 1
                BY <3>2, <4>1, OneEventMore
            <4>3. /\ Budget!Cardinality(Budget!Booked' \cup Budget!Counted') \in Nat
                  /\ Budget!Cardinality(Budget!Booked \cup Budget!Counted) \in Nat
                BY <3>2, <4>1, EventSets
            <4>4. Cost * Budget!Cardinality(Budget!Booked' \cup Budget!Counted')
                      <= Cost * (Budget!Cardinality(Budget!Booked \cup Budget!Counted) + 1)
                BY <4>2, <4>3, Costs
            <4>5. Cost * (Budget!Cardinality(Budget!Booked \cup Budget!Counted) + 1)
                      = Cost * Budget!Cardinality(Budget!Booked \cup Budget!Counted) + Cost
                BY <4>3, Costs
            <4>6. /\ Cost * Budget!Cardinality(Budget!Booked' \cup Budget!Counted') \in Int
                  /\ Cost * Budget!Cardinality(Budget!Booked \cup Budget!Counted) \in Int
                BY <4>3, Costs
            <4>7. Cost * Budget!Cardinality(Budget!Booked \cup Budget!Counted) <= Budget!Spend
                BY <3>5 DEF Budget!CounterAhead
            <4> QED
                BY <3>3, <4>4, <4>5, <4>6, <4>7, Numbers
        <3>6. \A f \in Events : ledger[f] # None => pc'[f] \in {"admitted", "counted", "done"}
            BY <3>1 DEF Budget!LedgerBehind
        <3>7. Budget!CounterAhead'
            BY <2>1, <3>1, <3>4, <3>5 DEF Budget!CounterAhead
        <3>8. Budget!LedgerBehind'
            BY <1>0, <2>1, <3>1, <3>6, Numbers DEF Budget!LedgerBehind
        <3> QED
            BY <3>7, <3>8
    <2>4. CASE Budget!IncrementFails(e)
        <3>1. /\ missed' /\ UNCHANGED <<ledger, dies>>
              /\ pc'[e] = "counted" /\ \A f \in Events \ {e} : pc'[f] = pc[f]
            BY <2>4 DEF Budget!IncrementFails, Budget!TypeOK
        <3> QED
            BY <1>0, <2>1, <3>1 DEF Budget!CounterAhead, Budget!LedgerBehind
    <2>5. CASE Budget!BookEvent(e)
        <3>1. /\ UNCHANGED <<counter, dies, missed>> /\ pc[e] = "counted" /\ pc'[e] = "done"
              /\ \A f \in Events \ {e} : pc'[f] = pc[f] /\ ledger'[f] = ledger[f]
              /\ ledger'[e] \in {ledger[e], now}
            BY <2>5 DEF Budget!BookEvent, Budget!TypeOK
        <3>2. /\ e \in Budget!Counted /\ Budget!Counted' = Budget!Counted \ {e}
              /\ Budget!Spend' = Budget!Spend
            BY <2>1, <3>1 DEF Budget!Counted, Budget!Spend
        <3>3. Budget!Booked' \subseteq Budget!Booked \cup {e}
            BY <2>1, <3>1 DEF Budget!Booked
        <3>4. /\ Budget!Booked' \cup Budget!Counted' \subseteq Budget!Booked \cup Budget!Counted
              /\ Budget!Booked \cup Budget!Counted \subseteq Events
            BY <3>2, <3>3 DEF Budget!Booked, Budget!Counted
        <3>5. ASSUME ~ missed
              PROVE  Cost * Budget!Cardinality(Budget!Booked' \cup Budget!Counted')
                         <= Budget!Spend'
            <4>1. Budget!Cardinality(Budget!Booked' \cup Budget!Counted')
                      <= Budget!Cardinality(Budget!Booked \cup Budget!Counted)
                  /\ /\ Budget!Cardinality(Budget!Booked' \cup Budget!Counted') \in Nat
                     /\ Budget!Cardinality(Budget!Booked \cup Budget!Counted) \in Nat
                BY <3>4, EventSubsets
            <4>2. Cost * Budget!Cardinality(Budget!Booked' \cup Budget!Counted')
                      <= Cost * Budget!Cardinality(Budget!Booked \cup Budget!Counted)
                  /\ /\ Cost * Budget!Cardinality(Budget!Booked' \cup Budget!Counted') \in Int
                     /\ Cost * Budget!Cardinality(Budget!Booked \cup Budget!Counted) \in Int
                BY <4>1, Costs
            <4>3. Cost * Budget!Cardinality(Budget!Booked \cup Budget!Counted) <= Budget!Spend
                BY <3>5 DEF Budget!CounterAhead
            <4> QED
                BY <3>2, <4>2, <4>3, Numbers
        <3>6. ASSUME ~ missed
              PROVE  \A f \in Events : ledger'[f] # None => ledger'[f] + Life <= dies'
            <4>1. dies = now + Life
                BY <3>2, <3>6 DEF Budget!CounterAhead
            <4>2. ledger[e] # None => ledger[e] + Life <= dies
                BY <3>6 DEF Budget!CounterAhead
            <4>3. ledger'[e] # None => ledger'[e] + Life <= dies
                BY <3>1, <4>1, <4>2, Numbers
            <4> QED
                BY <3>1, <3>6, <4>3 DEF Budget!CounterAhead
        <3>7. ~ missed => (Budget!Counted' # {} => dies = now + Life)
            BY <3>2 DEF Budget!CounterAhead
        <3>8. Budget!LedgerBehind'
            <4>1. ledger'[e] # None => ledger'[e] <= now
                BY <1>0, <3>1, Numbers
            <4> QED
                BY <1>0, <2>1, <3>1, <4>1 DEF Budget!LedgerBehind
        <3> QED
            BY <2>1, <3>1, <3>5, <3>6, <3>7, <3>8 DEF Budget!CounterAhead
    <2> QED
        BY <1>3, <2>2, <2>3, <2>4, <2>5 DEF EventStep
<1> QED
    BY <1>1, <1>2, <1>3 DEF Budget!Next, CapStep, EventStep

\* A report is one of an event, and one that is repeated is counted in vain for good.
LEMMA ReportsStep ==
    ASSUME BudgetAssumption, Budget!BudgetInv, NEW e \in Events, EventStep(e)
    PROVE  /\ Budget!Cardinality(Budget!Reported)' <= reports'
           /\ Budget!ReportedOnce' => Budget!ReportedOnce /\ ~ Budget!ReportAgain(e)
<1> USE DEF Budget!BudgetInv
<1>0. /\ Budget!Reported \subseteq Events /\ Budget!Cardinality(Budget!Reported) \in Nat
      /\ Budget!Cardinality(Budget!Reported) <= reports
    BY EventSets DEF Budget!Reported
<1>1. CASE Budget!ReadCaps(e) \/ Budget!ShouldRefuse(e)
    <2>1. /\ reports' = reports /\ pc[e] \in {"idle", "asking"}
          /\ pc'[e] \in {"asking", "admitted", "refused"}
          /\ \A f \in Events \ {e} : pc'[f] = pc[f]
        BY <1>1 DEF Budget!ReadCaps, Budget!Admit, Budget!ShouldRefuse, Budget!TypeOK
    <2>2. Budget!Reported' = Budget!Reported
        BY <2>1 DEF Budget!Reported
    <2>3. ~ Budget!ReportAgain(e)
        BY <2>1 DEF Budget!ReportAgain
    <2> QED
        BY <1>0, <2>1, <2>2, <2>3 DEF Budget!ReportedOnce
<1>2. CASE Budget!IncrementWindows(e) \/ Budget!IncrementFails(e)
    <2>1. /\ reports' = reports + 1 /\ pc[e] = "admitted" /\ pc'[e] = "counted"
          /\ \A f \in Events \ {e} : pc'[f] = pc[f]
        BY <1>2 DEF Budget!IncrementWindows, Budget!IncrementFails, Budget!TypeOK
    <2>2. Budget!Reported' = Budget!Reported \cup {e} /\ e \notin Budget!Reported
        BY <2>1 DEF Budget!Reported
    <2>3. Budget!Cardinality(Budget!Reported \cup {e}) = Budget!Cardinality(Budget!Reported) + 1
        BY <1>0, <2>2, OneEventMore
    <2>4. ~ Budget!ReportAgain(e)
        BY <2>1 DEF Budget!ReportAgain
    <2> QED
        BY <1>0, <2>1, <2>2, <2>3, <2>4, Numbers DEF Budget!ReportedOnce
<1>3. CASE Budget!BookEvent(e)
    <2>1. /\ reports' = reports /\ pc[e] = "counted" /\ pc'[e] = "done"
          /\ \A f \in Events \ {e} : pc'[f] = pc[f]
        BY <1>3 DEF Budget!BookEvent, Budget!TypeOK
    <2>2. Budget!Reported' = Budget!Reported
        BY <2>1 DEF Budget!Reported
    <2>3. ~ Budget!ReportAgain(e)
        BY <2>1 DEF Budget!ReportAgain
    <2> QED
        BY <1>0, <2>1, <2>2, <2>3 DEF Budget!ReportedOnce
<1>4. CASE Budget!ReportAgain(e)
    <2>1. /\ reports' = reports /\ pc[e] = "done" /\ pc'[e] = "admitted"
          /\ \A f \in Events \ {e} : pc'[f] = pc[f]
        BY <1>4 DEF Budget!ReportAgain, Budget!Admit, Budget!TypeOK
    <2>2. Budget!Reported' = Budget!Reported \ {e} /\ e \in Budget!Reported
        BY <2>1 DEF Budget!Reported
    <2>3. Budget!Cardinality(Budget!Reported \ {e}) = Budget!Cardinality(Budget!Reported) - 1
        BY <1>0, <2>2, OneEventLess
    <2> QED
        BY <1>0, <2>1, <2>2, <2>3, Numbers DEF Budget!ReportedOnce
<1> QED
    BY <1>1, <1>2, <1>3, <1>4 DEF EventStep

\* Who is in flight after a step, and what has been spent.
LEMMA FlightStep ==
    ASSUME BudgetAssumption, Budget!BudgetInv, NEW e \in Events, EventStep(e),
           ~ Budget!ReportAgain(e), ~ capsMoved,
           NEW cap \in Caps, Budget!EffectiveCaps = {cap}, Budget!Asked' # {},
           Budget!Asked # {}
               => Budget!Spend + Cost * Budget!Cardinality(Budget!InFlight)
                   < cap + Budget!Excess
    PROVE  Budget!Spend' + Cost * Budget!Cardinality(Budget!InFlight') < cap + Budget!Excess'
<1> USE DEF Budget!BudgetInv
<1> DEFINE flights == Budget!Cardinality(Budget!InFlight)
           blind == Budget!Cardinality(unchecked)
<1>0. /\ Budget!InFlight \subseteq Events /\ flights \in Nat
      /\ cap \in Nat \ {0} /\ now' = now
      /\ unchecked \subseteq Events /\ blind \in Nat
    BY EventSets, EventsOnly
       DEF Budget!InFlight, BudgetAssumption, Budget!CapsAssumption, Budget!TypeOK
<1>1. Cost * flights \in Int /\ Budget!Excess \in Int
    <2>1. peak - 1 + blind \in Int
        BY <1>0, Numbers
    <2> QED
        BY <1>0, <2>1, Costs DEF Budget!Excess
<1>2. CASE (Budget!ReadCaps(e) \/ Budget!ShouldRefuse(e)) /\ pc'[e] = "admitted"
    <2>1. /\ UNCHANGED <<counter, dies>> /\ pc[e] \in {"idle", "asking"}
          /\ \A f \in Events \ {e} : pc'[f] = pc[f]
          /\ peak' = IF flights >= peak THEN flights + 1 ELSE peak
        BY <1>2 DEF Budget!ReadCaps, Budget!Admit, Budget!ShouldRefuse, Budget!TypeOK
    <2>2. \/ unchecked' = unchecked /\ Budget!Spend + Cost < cap
          \/ unchecked' = unchecked \cup {e}
        <3>1. CASE Budget!ReadCaps(e)
            BY <1>2, <3>1 DEF Budget!ReadCaps, Budget!TypeOK
        <3>2. CASE Budget!ShouldRefuse(e)
            <4>1. seenCap[e] = cap
                BY <3>2 DEF Budget!ShouldRefuse, Budget!LimitsInForce
            <4> QED
                BY <1>2, <3>2, <4>1 DEF Budget!ShouldRefuse, Budget!TypeOK
        <3> QED
            BY <1>2, <3>1, <3>2
    <2>3. /\ Budget!InFlight' = Budget!InFlight \cup {e} /\ e \notin Budget!InFlight
          /\ e \notin unchecked
        BY <1>2, <2>1 DEF Budget!InFlight, Budget!LimitsInForce, Budget!Asked
    <2>4. Budget!Cardinality(Budget!InFlight') = flights + 1
        BY <1>0, <2>3, OneEventMore
    <2>5. peak' \in Nat /\ flights <= peak' - 1 /\ peak <= peak'
        BY <1>0, <2>1, Numbers
    <2>6. Cost * (flights + 1) = Cost * flights + Cost
        BY <1>0, Costs
    <2>7. Budget!Spend' = Budget!Spend
        BY <1>0, <2>1 DEF Budget!Spend
    <2>8. CASE unchecked' = unchecked /\ Budget!Spend + Cost < cap
        <3>1. flights <= peak' - 1 + blind /\ peak' - 1 + blind \in Int
            BY <1>0, <2>5
        <3>2. Cost * flights <= Cost * (peak' - 1 + blind) /\ Cost * (peak' - 1 + blind) \in Int
            BY <1>0, <3>1, Costs
        <3>3. Budget!Excess' = Cost * (peak' - 1 + blind)
            BY <2>8 DEF Budget!Excess
        <3> QED
            BY <1>0, <1>1, <2>4, <2>6, <2>7, <2>8, <3>2, <3>3, Numbers
    <2>9. CASE unchecked' = unchecked \cup {e}
        <3>1. Budget!Cardinality(unchecked') = blind + 1
            BY <1>0, <2>3, <2>9, OneEventMore
        <3>2. Budget!Excess' = Cost * ((peak' - 1 + blind) + 1)
            BY <1>0, <2>5, <3>1 DEF Budget!Excess
        <3>3. /\ peak - 1 + blind \in Int /\ peak' - 1 + blind \in Int
              /\ peak - 1 + blind <= peak' - 1 + blind /\ flights <= peak' - 1 + blind
            BY <1>0, <2>5, Numbers
        <3>4. /\ Budget!Excess' = Cost * (peak' - 1 + blind) + Cost
              /\ Cost * flights <= Cost * (peak' - 1 + blind)
              /\ Cost * (peak' - 1 + blind) \in Int
              /\ Budget!Excess <= Cost * (peak' - 1 + blind)
            BY <1>0, <3>2, <3>3, Costs DEF Budget!Excess
        <3>5. CASE Budget!Asked = {}
            <4>1. Budget!Spend = 0
                BY <3>5 DEF Budget!LimitsInForce, Budget!Spend
            <4> QED
                BY <1>0, <1>1, <2>4, <2>6, <2>7, <3>4, <4>1, Numbers
        <3>6. CASE Budget!Asked # {}
            BY <1>0, <1>1, <2>4, <2>6, <2>7, <3>4, <3>6, Numbers
        <3> QED
            BY <3>5, <3>6
    <2> QED
        BY <2>2, <2>8, <2>9
<1>3. CASE (Budget!ReadCaps(e) \/ Budget!ShouldRefuse(e)) /\ pc'[e] # "admitted"
    <2>1. /\ UNCHANGED <<counter, dies>> /\ pc[e] \in {"idle", "asking"}
          /\ pc'[e] \in {"asking", "refused"}
          /\ \A f \in Events \ {e} : pc'[f] = pc[f]
          /\ peak' = peak /\ unchecked' = unchecked
        BY <1>3 DEF Budget!ReadCaps, Budget!Admit, Budget!ShouldRefuse, Budget!TypeOK
    <2>2. /\ Budget!InFlight' = Budget!InFlight /\ Budget!Asked' = Budget!Asked
          /\ Budget!Spend' = Budget!Spend /\ Budget!Excess' = Budget!Excess
        BY <1>0, <2>1 DEF Budget!InFlight, Budget!Asked, Budget!Spend, Budget!Excess
    <2> QED
        BY <2>1, <2>2
<1>4. CASE Budget!IncrementWindows(e) \/ Budget!IncrementFails(e)
    <2>1. /\ pc[e] = "admitted" /\ pc'[e] = "counted" /\ Budget!Excess' = Budget!Excess
          /\ \A f \in Events \ {e} : pc'[f] = pc[f]
        BY <1>4
           DEF Budget!IncrementWindows, Budget!IncrementFails, Budget!TypeOK, Budget!Excess
    <2>2. /\ Budget!InFlight' = Budget!InFlight \ {e} /\ e \in Budget!InFlight
          /\ e \in Budget!Asked
        BY <2>1 DEF Budget!InFlight, Budget!Asked
    <2>3. Budget!Cardinality(Budget!InFlight') = Budget!Cardinality(Budget!InFlight) - 1
        BY <1>0, <2>2, OneEventLess
    <2>4. Cost * (Budget!Cardinality(Budget!InFlight) - 1)
              = Cost * Budget!Cardinality(Budget!InFlight) - Cost
        BY <1>0, Costs
    <2>5. Budget!Spend' \in Nat /\ Budget!Spend' <= Budget!Spend + Cost
        <3>1. CASE Budget!IncrementWindows(e)
            BY <1>0, <3>1, Numbers DEF Budget!IncrementWindows, Budget!Spend
        <3>2. CASE Budget!IncrementFails(e)
            BY <1>0, <3>2, Numbers DEF Budget!IncrementFails, Budget!Spend
        <3> QED
            BY <1>4, <3>1, <3>2
    <2>6. Budget!Spend + Cost * Budget!Cardinality(Budget!InFlight) < cap + Budget!Excess
        BY <2>2
    <2> QED
        BY <1>0, <1>1, <2>1, <2>3, <2>4, <2>5, <2>6, Numbers
<1>5. CASE Budget!BookEvent(e)
    <2>1. /\ UNCHANGED <<counter, dies>> /\ pc[e] = "counted" /\ pc'[e] = "done"
          /\ Budget!Excess' = Budget!Excess /\ \A f \in Events \ {e} : pc'[f] = pc[f]
        BY <1>5 DEF Budget!BookEvent, Budget!TypeOK, Budget!Excess
    <2>2. /\ Budget!InFlight' = Budget!InFlight /\ Budget!Asked' = Budget!Asked
          /\ Budget!Spend' = Budget!Spend
        BY <1>0, <2>1 DEF Budget!InFlight, Budget!Asked, Budget!Spend
    <2> QED
        BY <2>1, <2>2
<1> QED
    BY <1>2, <1>3, <1>4, <1>5 DEF EventStep

\* What is spent and in flight stays below the cap, by all of the flights but one.
LEMMA BoundStep ==
    ASSUME BudgetAssumption, Budget!BudgetInv, [Budget!Next]_(Budget!vars)
    PROVE  Budget!FlightsBounded' /\ Budget!Cardinality(Budget!Reported)' <= reports'
<1> USE DEF Budget!BudgetInv
<1>1. CASE CapStep
    <2>1. UNCHANGED Budget!spending /\ now' = now
        BY <1>1, CapsOnly
    <2>2. /\ Budget!Reported' = Budget!Reported /\ reports' = reports
          /\ Budget!Asked' = Budget!Asked /\ Budget!InFlight' = Budget!InFlight
          /\ /\ Budget!Spend' = Budget!Spend /\ Budget!Excess' = Budget!Excess
             /\ (Budget!ReportedOnce' <=> Budget!ReportedOnce)
        BY <2>1
           DEF Budget!spending, Budget!Reported, Budget!Asked, Budget!InFlight,
               Budget!Spend, Budget!ReportedOnce, Budget!Excess
    <2>3. CASE capsMoved' = capsMoved /\ Budget!EffectiveCaps' = Budget!EffectiveCaps
        BY <2>2, <2>3 DEF Budget!FlightsBounded
    <2>4. CASE capsMoved' = (capsMoved \/ \E e \in Events : pc[e] # "idle")
        <3>1. ~ capsMoved' => Budget!Asked = {}
            BY <2>4 DEF Budget!Asked
        <3> QED
            BY <2>2, <3>1 DEF Budget!FlightsBounded
    <2> QED
        BY <1>1, <2>3, <2>4, CapsOnly
<1>2. ASSUME NEW e \in Events, EventStep(e)
      PROVE  Budget!FlightsBounded' /\ Budget!Cardinality(Budget!Reported)' <= reports'
    <2>1. capsMoved' = capsMoved /\ Budget!EffectiveCaps' = Budget!EffectiveCaps
        BY <1>2, EventsOnly DEF Budget!config
    <2>2. /\ Budget!Cardinality(Budget!Reported)' <= reports'
          /\ Budget!ReportedOnce' => Budget!ReportedOnce /\ ~ Budget!ReportAgain(e)
        BY <1>2, ReportsStep
    <2>3. Budget!FlightsBounded'
        <3> SUFFICES ASSUME ~ capsMoved', Budget!ReportedOnce', NEW cap \in Caps,
                            Budget!EffectiveCaps' = {cap}, Budget!Asked' # {}
                     PROVE  Budget!Spend' + Cost * Budget!Cardinality(Budget!InFlight')
                                < cap + Budget!Excess'
            BY DEF Budget!FlightsBounded
        <3>1. Budget!Asked # {}
                  => Budget!Spend + Cost * Budget!Cardinality(Budget!InFlight)
                      < cap + Budget!Excess
            BY <2>1, <2>2 DEF Budget!FlightsBounded
        <3> QED
            BY <1>2, <2>1, <2>2, <3>1, FlightStep
    <2> QED
        BY <2>2, <2>3
<1>3. CASE Budget!Tick \/ UNCHANGED Budget!vars
    <2>1. /\ UNCHANGED <<Budget!config, Budget!spending>> /\ (now' = now + 1 \/ now' = now)
        BY <1>3 DEF Budget!Tick, Budget!vars
    <2>2. /\ Budget!Reported' = Budget!Reported /\ reports' = reports
          /\ Budget!Asked' = Budget!Asked /\ Budget!InFlight' = Budget!InFlight
          /\ /\ Budget!Excess' = Budget!Excess /\ (Budget!ReportedOnce' <=> Budget!ReportedOnce)
             /\ capsMoved' = capsMoved
          /\ Budget!EffectiveCaps' = Budget!EffectiveCaps
        BY <2>1
           DEF Budget!spending, Budget!config, Budget!Reported, Budget!Asked,
               Budget!InFlight, Budget!ReportedOnce, Budget!EffectiveCaps, Budget!Defaults,
               Budget!Excess
    <2>3. Budget!Spend' \in Nat /\ Budget!Spend' <= Budget!Spend
        BY <2>1, Numbers DEF Budget!spending, Budget!Spend
    <2>4. Budget!InFlight \subseteq Events
        BY DEF Budget!InFlight
    <2>5. Cost * Budget!Cardinality(Budget!InFlight) \in Int /\ Budget!Excess \in Int
        BY <2>4, EventSets, ExcessNumber, Costs
    <2>6. Budget!FlightsBounded'
        <3> SUFFICES ASSUME ~ capsMoved', Budget!ReportedOnce', NEW cap \in Caps,
                            Budget!EffectiveCaps' = {cap}, Budget!Asked' # {}
                     PROVE  Budget!Spend' + Cost * Budget!Cardinality(Budget!InFlight')
                                < cap + Budget!Excess'
            BY DEF Budget!FlightsBounded
        <3>1. Budget!Spend + Cost * Budget!Cardinality(Budget!InFlight) < cap + Budget!Excess
            BY <2>2 DEF Budget!FlightsBounded
        <3>2. cap \in Nat
            BY DEF BudgetAssumption, Budget!CapsAssumption
        <3> QED
            BY <2>2, <2>3, <2>5, <3>1, <3>2, Numbers
    <2> QED
        BY <2>2, <2>6
<1> QED
    BY <1>1, <1>2, <1>3 DEF Budget!Next, CapStep, EventStep

\* Nothing is spent at the beginning.
LEMMA BudgetInit == ASSUME BudgetAssumption, Budget!Init PROVE Budget!BudgetInv
<1>0. /\ Cost \in Nat /\ Life \in Nat /\ Horizon \in Nat /\ MaxChanges \in Nat
      /\ MaxReports \in Nat
      /\ Budget!Cardinality(Events) \in Nat /\ None \notin Nat /\ Budget!Cardinality({}) = 0
    BY FS_CardinalityType, FS_EmptySet, BudgetSets
       DEF BudgetAssumption, Budget!CapsAssumption, Budget!EventsAssumption,
           Budget!WindowAssumption, Budget!NumbersAssumption
<1>1. Budget!Booked = {} /\ Budget!Counted = {} /\ Budget!Asked = {} /\ Budget!Reported = {}
    BY DEF Budget!Init, Budget!Booked, Budget!Counted, Budget!Asked, Budget!Reported
<1>2. Budget!TypeOK
    <2>1. platform \in Seq(Caps)
        BY DEF Budget!Init
    <2>2. now \in 0..Horizon /\ dies \in 0..(Horizon + Life)
        BY <1>0 DEF Budget!Init
    <2> QED
        BY <1>0, <2>1, <2>2 DEF Budget!Init, Budget!TypeOK
<1>3. Budget!ComparedCaps
    BY DEF Budget!Init, Budget!ComparedCaps
<1>4. Budget!CounterAhead
    <2>1. Cost * 0 = 0
        BY <1>0
    <2>2. Budget!Spend = 0
        BY DEF Budget!Init, Budget!Spend
    <2>3. Budget!Booked \cup Budget!Counted = {}
        BY <1>1
    <2> QED
        BY <1>0, <1>1, <2>1, <2>2, <2>3 DEF Budget!Init, Budget!CounterAhead
<1>5. Budget!LedgerBehind
    BY <1>0 DEF Budget!Init, Budget!LedgerBehind
<1>6. Budget!LimitsInForce
    BY DEF Budget!Init, Budget!LimitsInForce
<1>7. Budget!FlightsBounded
    BY <1>1 DEF Budget!FlightsBounded
<1>8. Budget!Cardinality(Budget!Reported) <= reports
    BY <1>0, <1>1 DEF Budget!Init
<1> QED
    BY <1>2, <1>3, <1>4, <1>5, <1>6, <1>7, <1>8 DEF Budget!BudgetInv

\* The invariant gives the three parts of the property.
LEMMA BudgetFollows ==
    ASSUME BudgetAssumption, Budget!BudgetInv
    PROVE  Budget!BudgetKept
<1> USE DEF Budget!BudgetInv
<1>1. Budget!TightUnlessDefaultMoved
    <2> SUFFICES ASSUME override # None, checking = None, ~ moved, Len(platform) = 1
                 PROVE  override <= platform[1]
        BY DEF Budget!TightUnlessDefaultMoved
    <2>10. platform \in Seq(Caps) /\ DOMAIN platform = 1..Len(platform) /\ Len(platform) = 1
        BY DEF Budget!TypeOK
    <2>11. DOMAIN platform = {1} /\ platform[1] \in Caps
        BY <2>10
    <2>12. Budget!Range(platform) = {platform[1]}
        BY <2>11 DEF Budget!Range
    <2>13. platform # <<>>
        <3>1. ASSUME platform = <<>> PROVE FALSE
            <4>1. DOMAIN platform = {}
                BY <3>1
            <4> QED
                BY <2>11, <4>1
        <3> QED
            BY <3>1
    <2>2. Budget!Defaults = {platform[1]}
        BY <2>12, <2>13 DEF Budget!Defaults
    <2>3. Budget!Tight(override)
        BY DEF Budget!ComparedCaps
    <2> QED
        BY <2>2, <2>3 DEF Budget!Tight
<1>2. /\ Budget!Booked \subseteq Budget!Booked \cup Budget!Counted
      /\ Budget!Booked \cup Budget!Counted \subseteq Events
      /\ Budget!InFlight \subseteq Events
    BY DEF Budget!Booked, Budget!Counted, Budget!InFlight
<1>3. Budget!NeverUnderCounted
    <2> SUFFICES ASSUME ~ missed PROVE Cost * Budget!Cardinality(Budget!Booked) <= Budget!Spend
        BY DEF Budget!NeverUnderCounted
    <2>1. Budget!Cardinality(Budget!Booked)
              <= Budget!Cardinality(Budget!Booked \cup Budget!Counted)
          /\ /\ Budget!Cardinality(Budget!Booked) \in Nat
             /\ Budget!Cardinality(Budget!Booked \cup Budget!Counted) \in Nat
        BY <1>2, EventSubsets
    <2>2. Cost * Budget!Cardinality(Budget!Booked)
              <= Cost * Budget!Cardinality(Budget!Booked \cup Budget!Counted)
          /\ /\ Cost * Budget!Cardinality(Budget!Booked) \in Int
             /\ Cost * Budget!Cardinality(Budget!Booked \cup Budget!Counted) \in Int
        BY <2>1, Costs
    <2>3. Cost * Budget!Cardinality(Budget!Booked \cup Budget!Counted) <= Budget!Spend
        BY DEF Budget!CounterAhead
    <2> QED
        BY <2>2, <2>3, Numbers
<1>4. Budget!OvershootBounded
    <2> SUFFICES ASSUME ~ missed, ~ capsMoved, Budget!ReportedOnce, NEW cap \in Caps,
                        Budget!EffectiveCaps = {cap}, Budget!Booked # {}
                 PROVE  Cost * Budget!Cardinality(Budget!Booked) < cap + Budget!Excess
        BY DEF Budget!OvershootBounded
    <2>1. Budget!Asked # {}
        BY DEF Budget!Booked, Budget!LedgerBehind, Budget!Asked
    <2>2. Budget!Spend + Cost * Budget!Cardinality(Budget!InFlight) < cap + Budget!Excess
        BY <2>1 DEF Budget!FlightsBounded
    <2>3. Cost * Budget!Cardinality(Budget!Booked) <= Budget!Spend
        BY <1>3 DEF Budget!NeverUnderCounted
    <2>4. /\ Budget!Cardinality(Budget!InFlight) \in Nat
          /\ Budget!Cardinality(Budget!Booked) \in Nat
        BY <1>2, EventSets, Numbers
    <2>5. /\ Cost * Budget!Cardinality(Budget!InFlight) \in Int
          /\ Cost * Budget!Cardinality(Budget!InFlight) >= 0
          /\ Cost * Budget!Cardinality(Budget!Booked) \in Int /\ Budget!Excess \in Int
        BY <2>4, Costs, ExcessNumber
    <2>6. cap \in Nat
        BY DEF BudgetAssumption, Budget!CapsAssumption
    <2> QED
        BY <2>2, <2>3, <2>5, <2>6, Numbers
<1> QED
    BY <1>1, <1>3, <1>4 DEF Budget!BudgetKept

\* Whatever the order in which caps are set and calls ask, are counted, booked and repeated,
\* and whenever the counter expires: the counter never shows less than the ledger booked
\* within the window; spending passes a cap by no more than the cost of all calls but one that
\* were in flight together, and of each call that a failing read let through; and a cap of
\* the tenant is looser than the default only if the default moved (should_refuse,
\* record_cost_event, set_budget).
THEOREM BudgetKeptHolds == ASSUME BudgetAssumption PROVE Budget!Spec => []Budget!BudgetKept
<1>1. Budget!Init => Budget!BudgetInv
    BY BudgetInit
<1>2. Budget!BudgetInv /\ [Budget!Next]_(Budget!vars) => Budget!BudgetInv'
    BY BudgetTypeStep, ComparedStep, LimitsStep, CounterStep, BoundStep DEF Budget!BudgetInv
<1>3. Budget!BudgetInv => Budget!BudgetKept
    BY BudgetFollows
<1> QED
    BY <1>1, <1>2, <1>3, PTL DEF Budget!Spec
-----------------------------------------------------------------------------
(* Attack chains.  The entries of a match are justified by what was there  *)
(* when they were made; and where events come one at a time, the match that *)
(* is stored misses no step of what was seen.                              *)

ChainsAssumption == Chain!RulesAssumption /\ Chain!EventsAssumption

\* Of numbers under a bound one is the greatest.
LEMMA GreatestBelow ==
    ASSUME NEW n \in Nat, NEW S \in SUBSET (0..n), S # {}
    PROVE  \E x \in S : \A y \in S : y <= x
<1> DEFINE T == {n - x : x \in S}
<1>1. T \subseteq Nat /\ T # {}
    <2>1. PICK y \in S : y \in 0..n
        OBVIOUS
    <2>2. n - y \in T
        BY <2>1
    <2>3. \A x \in S : n - x \in Nat
        OBVIOUS
    <2> QED
        BY <2>2, <2>3
<1> HIDE DEF T
<1>2. PICK t \in T : \A u \in T : t <= u
    BY <1>1, LeastNatural
<1>3. PICK x \in S : t = n - x
    BY <1>2 DEF T
<1>4. ASSUME NEW y \in S PROVE y <= x
    <2>1. n - y \in T
        BY DEF T
    <2> QED
        BY <2>1, <1>2, <1>3
<1> QED
    BY <1>4

\* One of the first entries has the greatest value: the shortest list without one, cut by
\* its last entry, has one, too.
LEMMA GreatestValue ==
    ASSUME NEW n \in Nat, NEW f \in [1..n -> Nat], NEW D \in SUBSET (1..n), D # {}
    PROVE  \E i \in D : \A j \in D : f[j] <= f[i]
<1> DEFINE Best(C) == \E i \in C : \A j \in C : f[j] <= f[i]
           Bad == {k \in 0..n : \E C \in SUBSET D : C \subseteq 1..k /\ C # {} /\ ~ Best(C)}
<1>1. SUFFICES ASSUME Bad # {} PROVE FALSE
    <2>1. n \in 0..n /\ D \in SUBSET D /\ D \subseteq 1..n
        OBVIOUS
    <2>2. Best(D) \/ n \in Bad
        BY <2>1
    <2> QED
        BY <2>2
<1>2. Bad \subseteq Nat
    OBVIOUS
<1>3. PICK k \in Bad : \A l \in Bad : k <= l
    <2> HIDE DEF Bad
    <2> QED
        BY <1>1, <1>2, LeastNatural
<1>4. PICK C \in SUBSET D : C \subseteq 1..k /\ C # {} /\ ~ Best(C)
    OBVIOUS
<1>5. k \in 1..n
    <2>1. k \in 0..n
        OBVIOUS
    <2>2. PICK x \in C : x \in 1..k
        BY <1>4
    <2> QED
        BY <2>1, <2>2
<1>6. ASSUME NEW B \in SUBSET D, B \subseteq 1..(k - 1), B # {} PROVE Best(B)
    <2>1. k - 1 \in 0..n /\ ~ (k <= k - 1)
        BY <1>5
    <2>2. k - 1 \notin Bad
        BY <2>1, <1>3
    <2> QED
        BY <2>1, <2>2, <1>6
<1>7. k \in C
    <2>1. SUFFICES ASSUME k \notin C PROVE FALSE
        OBVIOUS
    <2>2. C \subseteq 1..(k - 1)
        <3>1. \A x \in C : x \in 1..k /\ x # k
            BY <2>1, <1>4
        <3> HIDE DEF Bad, Best
        <3>2. \A x \in C : x \in 1..(k - 1)
            BY <3>1, <1>5
        <3> QED
            BY <3>2
    <2> QED
        BY <2>2, <1>4, <1>6
<1> DEFINE B == C \ {k}
<1>8. B \subseteq 1..(k - 1) /\ B \subseteq D
    BY <1>4, <1>5
<1>9. CASE B = {}
    <2>1. \A j \in C : j = k
        BY <1>9
    <2>2. f[k] \in Nat
        BY <1>5
    <2>3. Best(C)
        BY <2>1, <2>2, <1>7
    <2> QED
        BY <2>3, <1>4
<1>10. CASE B # {}
    <2>1. PICK i \in B : \A j \in B : f[j] <= f[i]
        BY <1>10, <1>8, <1>6
    <2>2. /\ i \in C /\ f[i] \in Nat /\ f[k] \in Nat
          /\ \A j \in C : f[j] \in Nat /\ (j = k \/ j \in B)
        BY <2>1, <1>4, <1>5, <1>8
    <2>3. CASE f[i] <= f[k]
        <3>1. \A j \in C : f[j] <= f[k]
            BY <2>1, <2>2, <2>3
        <3> QED
            BY <3>1, <1>7, <1>4
    <2>4. CASE ~ (f[i] <= f[k])
        <3>1. \A j \in C : f[j] <= f[i]
            BY <2>1, <2>2, <2>4
        <3> QED
            BY <3>1, <2>2, <1>4
    <2> QED
        BY <2>3, <2>4
<1> QED
    BY <1>9, <1>10

\* The steps of a rule are numbered, and come after steps before them.
LEMMA StepsAre ==
    ASSUME Chain!RulesAssumption, rule \in Rules
    PROVE  /\ rule.mode \in {"linear", "dag"} /\ rule.window \in Nat
           /\ Len(rule.steps) \in Nat /\ Len(rule.steps) > 1 /\ Chain!Steps = 1..Len(rule.steps)
           /\ \A s \in Chain!Steps : /\ rule.steps[s].after \subseteq 1..(s - 1)
                                     /\ rule.steps[s].after \subseteq Chain!Steps
                                     /\ rule.steps[s].within \in Nat
                                     /\ rule.steps[s].within > 0 => rule.steps[s].after # {}
<1>1. /\ rule.mode \in {"linear", "dag"} /\ rule.window \in Nat
      /\ rule.steps \in Seq({rule.steps[s] : s \in DOMAIN rule.steps})
      /\ Len(rule.steps) > 1
      /\ \A s \in DOMAIN rule.steps :
            /\ rule.steps[s].after \subseteq 1..(s - 1) /\ rule.steps[s].within \in Nat
            /\ rule.steps[s].within > 0 => rule.steps[s].after # {}
    BY DEF Chain!RulesAssumption
<1>2. Len(rule.steps) \in Nat /\ DOMAIN rule.steps = 1..Len(rule.steps)
    BY <1>1
<1>3. Chain!Steps = 1..Len(rule.steps)
    BY <1>2 DEF Chain!Steps
<1>4. ASSUME NEW s \in Chain!Steps
      PROVE  /\ rule.steps[s].after \subseteq 1..(s - 1)
             /\ rule.steps[s].after \subseteq Chain!Steps
             /\ rule.steps[s].within \in Nat
             /\ rule.steps[s].within > 0 => rule.steps[s].after # {}
    <2>1. rule.steps[s].after \subseteq 1..(s - 1)
        BY <1>1, <1>2, <1>3
    <2>2. \A x \in 1..(s - 1) : x \in Chain!Steps
        BY <1>2, <1>3
    <2> QED
        BY <2>1, <2>2, <1>1, <1>2, <1>3
<1> QED
    BY <1>1, <1>2, <1>3, <1>4

\* What a match is made of.
Entries == [step : Nat \ {0}, event : Events]

\* What an event that is not too late relies on.
LEMMA InTime ==
    ASSUME ChainsAssumption, rule \in Rules, at \in Clocks,
           NEW e \in Events, NEW s \in Chain!Steps, NEW m \in Seq(Entries),
           rule.steps[s].within > 0, rule.steps[s].after \subseteq Chain!Filled(m),
           ~ Chain!TooLate(e, s, m)
    PROVE  \E j \in DOMAIN m :
                /\ m[j].step \in rule.steps[s].after
                /\ at[e] - at[m[j].event] <= rule.steps[s].within
<1> DEFINE after == rule.steps[s].after
           n == Len(m)
           D == Chain!Preds(s, m)
           f == [i \in 1..n |-> at[m[i].event]]
           preds == {at[m[i].event] : i \in D}
<1>1. after # {} /\ rule.steps[s].within \in Nat
    BY StepsAre DEF ChainsAssumption
<1>2. n \in Nat /\ DOMAIN m = 1..n /\ \A i \in 1..n : m[i].event \in Events /\ m[i].step \in Nat
    <2>1. n \in Nat /\ DOMAIN m = 1..n
        OBVIOUS
    <2>2. ASSUME NEW i \in 1..n PROVE m[i] \in Entries
        BY <2>1, ElementOfSeq
    <2> QED
        BY <2>1, <2>2 DEF Entries
<1>3. at \in [Events -> Nat]
    BY DEF ChainsAssumption, Chain!EventsAssumption
<1>4. D \in SUBSET (1..n) /\ \A i \in D : m[i].step \in after
    BY <1>2 DEF Chain!Preds
<1>5. D # {}
    <2>1. PICK p \in after : TRUE
        BY <1>1
    <2> DEFINE T == {i \in 1..n : m[i].step = p}
    <2>2. T \in SUBSET (0..n) /\ T # {}
        <3>1. p \in Chain!Filled(m)
            BY <2>1
        <3> QED
            BY <3>1, <1>2 DEF Chain!Filled
    <2>3. PICK i \in T : \A j \in T : j <= i
        <3> HIDE DEF T
        <3> QED
            BY <2>2, <1>2, GreatestBelow
    <2>4. i \in Chain!Preds(s, m)
        BY <2>1, <2>3, <1>2 DEF Chain!Preds
    <2> QED
        BY <2>4
<1>6. f \in [1..n -> Nat]
    BY <1>2, <1>3
<1>7. PICK i \in D : \A j \in D : f[j] <= f[i]
    <2> HIDE DEF f, D, n
    <2> QED
        BY <1>2, <1>4, <1>5, <1>6, GreatestValue
<1>8. \A x \in preds : x <= f[i] /\ f[i] >= x /\ x \in Nat
    BY <1>2, <1>3, <1>4, <1>6, <1>7
<1>9. f[i] \in preds /\ f[i] \in Nat
    BY <1>2, <1>4, <1>6, <1>7
<1>10. Chain!Max(preds) = f[i]
    <2> HIDE DEF preds, f, D
    <2>1. \E x \in preds : \A y \in preds : x >= y
        BY <1>8, <1>9
    <2>2. Chain!Max(preds) \in preds /\ \A y \in preds : Chain!Max(preds) >= y
        BY <2>1 DEF Chain!Max
    <2> QED
        BY <2>2, <1>8, <1>9
<1>11. ~ (at[e] - Chain!Max(preds) > rule.steps[s].within)
    <2>1. Chain!TooLate(e, s, m) <=> (rule.steps[s].within > 0 /\ preds # {}
                                /\ at[e] - Chain!Max(preds) > rule.steps[s].within)
        BY DEF Chain!TooLate
    <2> QED
        BY <2>1, <1>9
<1>12. f[i] = at[m[i].event] /\ i \in DOMAIN m
    BY <1>2, <1>4, <1>7
<1>13. at[e] \in Nat
    BY <1>3
<1> HIDE DEF f, D, preds
<1> QED
    BY <1>1, <1>4, <1>7, <1>9, <1>10, <1>11, <1>12, <1>13

\* Step s is one that event e may fill next.
Fits(e, m, s) ==
    /\ s \in Chain!Steps /\ Chain!Matches(e, s)
    /\ IF Chain!Linear THEN s = Len(m) + 1
       ELSE s \notin Chain!Filled(m) /\ rule.steps[s].after \subseteq Chain!Filled(m)

\* NextStep finds a step that fits if there is one.
LEMMA NextStepFits ==
    ASSUME ChainsAssumption, rule \in Rules, NEW e, NEW m \in Seq(Entries)
    PROVE  /\ Chain!NextStep(e, m) \in Nat
           /\ Chain!NextStep(e, m) = 0 => \A s : ~ Fits(e, m, s)
           /\ Chain!NextStep(e, m) # 0 => Fits(e, m, Chain!NextStep(e, m))
<1> DEFINE fitting == {s \in Chain!Steps : Fits(e, m, s)}
<1>1. Chain!NextStep(e, m) = IF fitting = {} THEN 0 ELSE Chain!Min(fitting)
    <2>1. CASE Chain!Linear
        <3>1. fitting = {s \in Chain!Steps \cap {Len(m) + 1} : Chain!Matches(e, s)}
            BY <2>1 DEF Fits
        <3> HIDE DEF fitting
        <3> QED
            BY <3>1, <2>1 DEF Chain!NextStep, Chain!Linear
    <2>2. CASE ~ Chain!Linear
        <3>1. fitting = {s
                  \in {s \in Chain!Steps \ Chain!Filled(m) : rule.steps[s].after
                      \subseteq Chain!Filled(m)} :
                            Chain!Matches(e, s)}
            BY <2>2 DEF Fits
        <3> HIDE DEF fitting
        <3> QED
            BY <3>1, <2>2 DEF Chain!NextStep, Chain!Linear
    <2> QED
        BY <2>1, <2>2
<1>2. Chain!Steps \subseteq Nat \ {0}
    <2>1. Len(rule.steps) \in Nat /\ Chain!Steps = 1..Len(rule.steps)
        BY StepsAre DEF ChainsAssumption
    <2> QED
        BY <2>1
<1>3. fitting \subseteq Nat \ {0} /\ \A s : Fits(e, m, s) <=> s \in fitting
    BY <1>2 DEF Fits
<1>4. ASSUME fitting # {} PROVE Chain!Min(fitting) \in fitting
    <2> HIDE DEF fitting
    <2>1. \E x \in fitting : \A y \in fitting : x <= y
        BY <1>3, <1>4, LeastNatural
    <2> QED
        BY <2>1 DEF Chain!Min
<1> HIDE DEF fitting
<1>5. CASE fitting = {}
    <2>1. Chain!NextStep(e, m) = 0
        BY <1>1, <1>5
    <2> QED
        BY <2>1, <1>3, <1>5
<1>6. CASE fitting # {}
    <2>1. Chain!NextStep(e, m) = Chain!Min(fitting)
        BY <1>1, <1>6
    <2>2. Chain!Min(fitting) \in Nat /\ Chain!Min(fitting) # 0 /\ Fits(e, m, Chain!Min(fitting))
        BY <1>3, <1>4, <1>6
    <2> QED
        BY <2>1, <2>2
<1> QED
    BY <1>5, <1>6

\* A match with one more entry.
LEMMA OneMore ==
    ASSUME NEW m \in Seq(Entries), NEW x \in Entries
    PROVE  LET q == Append(m, x)
           IN  /\ q \in Seq(Entries) /\ Len(q) = Len(m) + 1 /\ Len(m) \in Nat /\ q # <<>>
               /\ DOMAIN m = 1..Len(m) /\ DOMAIN q = DOMAIN m \cup {Len(m) + 1}
               /\ q[Len(m) + 1] = x /\ \A i \in DOMAIN m : q[i] = m[i]
               /\ Chain!Filled(q) = Chain!Filled(m) \cup {x.step}
<1> DEFINE q == Append(m, x)
<1>1. /\ q \in Seq(Entries) /\ Len(q) = Len(m) + 1 /\ Len(m) \in Nat /\ q # <<>>
      /\ q[Len(m) + 1] = x /\ \A i \in 1..Len(m) : q[i] = m[i]
    BY AppendProperties
<1>2. DOMAIN m = 1..Len(m) /\ DOMAIN q = 1..Len(q)
    BY <1>1
<1> HIDE DEF q
<1>3. DOMAIN q = DOMAIN m \cup {Len(m) + 1}
    BY <1>1, <1>2
<1>4. Chain!Filled(q) = Chain!Filled(m) \cup {x.step}
    BY <1>1, <1>2, <1>3 DEF Chain!Filled
<1> QED
    BY <1>1, <1>2, <1>3, <1>4 DEF q

\* What justifies an entry stays when others follow, ...
LEMMA JustifiedLonger ==
    ASSUME NEW m \in Seq(Entries), NEW x \in Entries, NEW i \in DOMAIN m, NEW s,
           Chain!Justified(m, i, s)
    PROVE  Chain!Justified(Append(m, x), i, s)
<1> DEFINE q == Append(m, x)
<1>1. \A j \in DOMAIN m : q[j] = m[j]
    BY OneMore
<1>2. \A j \in 1..(i - 1) : j \in DOMAIN m
    OBVIOUS
<1> HIDE DEF q
<1>3. q[i] = m[i] /\ \A j \in 1..(i - 1) : q[j] = m[j]
    BY <1>1, <1>2
<1>4. Chain!Justified(q, i, s)
    BY <1>3 DEF Chain!Justified
<1> QED
    BY <1>4 DEF q

\* ... and in what follows.
LEMMA JustifiedStays ==
    ASSUME rule' = rule, at' = at, NEW e, NEW i,
           Chain!Justified(match'[e], i, match'[e][i].step)
    PROVE  Chain!Justified(match[e], i, match[e][i].step)'
BY DEF Chain!Justified, Chain!Matches

\* The steps an event adds to those that are present: one at most, whose predecessors were
\* there before.
LEMMA OneStepMore ==
    ASSUME ChainsAssumption, rule \in Rules, rule' = rule, NEW e \in Events,
           order \in Seq(Events), order' = Append(order, e), NEW F, NEW D \in SUBSET Chain!Steps,
           Chain!Present(D, Len(order))',
           \A C \in SUBSET Chain!Steps : Chain!Present(C, Len(order)) => C \subseteq F
    PROVE  \/ D \subseteq F
           \/ \E s \in D : /\ D \subseteq F \cup {s} /\ s \notin F /\ Chain!Before(s) \subseteq F
                           /\ Chain!Matches(e, s)
<1> DEFINE n == Len(order)
<1>1. /\ n \in Nat /\ Len(order') = n + 1 /\ order'[n + 1] = e
      /\ \A k \in 1..n : order'[k] = order[k]
    BY AppendProperties
<1>2. PICK f \in [D -> 1..(n + 1)] :
        \A s \in D :
            /\ KindOf[order'[f[s]]] = rule.steps[s].kind
            /\ \A p \in D \ {s} : f[p] # f[s]
            /\ \A p \in Chain!Before(s) : p \in D /\ f[p] < f[s]
    BY <1>1 DEF Chain!Present, Chain!Matches, Chain!Before
<1> DEFINE Earlier(C) ==
    /\ C \subseteq D /\ \A s \in C : f[s] \in 1..n /\ \A p \in Chain!Before(s) : p \in C
<1> HIDE DEF n
<1>3. ASSUME NEW C \in SUBSET Chain!Steps, Earlier(C) PROVE C \subseteq F
    <2> DEFINE g == [s \in C |-> f[s]]
    <2>1. g \in [C -> 1..n] /\ \A s \in C : g[s] = f[s] /\ s \in D
        BY <1>3
    <2>2. ASSUME NEW s \in C
          PROVE  /\ Chain!Matches(order[g[s]], s)
                 /\ \A p \in C \ {s} : g[p] # g[s]
                 /\ \A p \in Chain!Before(s) : p \in C /\ g[p] < g[s]
        <3> HIDE DEF g
        <3>1. s \in D /\ g[s] = f[s] /\ f[s] \in 1..n
            BY <2>1, <1>3
        <3>2. Chain!Matches(order[g[s]], s)
            BY <3>1, <1>1, <1>2 DEF Chain!Matches
        <3>3. \A p \in C \ {s} : g[p] # g[s]
            BY <3>1, <2>1, <1>2
        <3>4. \A p \in Chain!Before(s) : p \in C /\ g[p] < g[s]
            BY <3>1, <2>1, <1>2, <1>3
        <3> QED
            BY <3>2, <3>3, <3>4
    <2>3. Chain!Present(C, n)
        <3> HIDE DEF g
        <3> QED
            BY <2>1, <2>2 DEF Chain!Present
    <2> QED
        BY <2>3 DEF n
<1>4. CASE \A s \in D : f[s] # n + 1
    <2>1. \A s \in D : f[s] \in 1..n
        BY <1>4, <1>1
    <2>2. Earlier(D)
        BY <2>1, <1>2
    <2> QED
        BY <2>2, <1>3
<1>5. CASE \E s \in D : f[s] = n + 1
    <2>1. PICK s \in D : f[s] = n + 1
        BY <1>5
    <2> DEFINE C == D \ {s}
    <2>2. \A p \in C : f[p] \in 1..n
        <3>1. ASSUME NEW p \in C PROVE f[p] \in 1..n
            <4>1. f[p] \in 1..(n + 1) /\ f[p] # n + 1
                BY <2>1, <1>2
            <4> QED
                BY <4>1, <1>1
        <3> QED
            BY <3>1
    <2>3. ASSUME NEW t \in D, NEW p \in Chain!Before(t) PROVE p \in C
        <3>1. p \in D /\ f[p] < f[t] /\ f[t] \in 1..(n + 1) /\ f[p] \in 1..(n + 1)
            BY <1>2
        <3>2. f[p] # n + 1
            BY <3>1, <1>1
        <3> QED
            BY <3>1, <3>2, <2>1
    <2>4. C \subseteq F
        <3>1. Earlier(C)
            BY <2>2, <2>3
        <3> QED
            BY <3>1, <1>3
    <2>5. Chain!Before(s) \subseteq F /\ D \subseteq F \cup {s}
        BY <2>3, <2>4
    <2>6. Chain!Matches(e, s)
        BY <2>1, <1>1, <1>2 DEF Chain!Matches
    <2> QED
        BY <2>4, <2>5, <2>6
<1> QED
    BY <1>4, <1>5

\* So the first match there is misses none of them.
LEMMA FirstMatchMissesNone ==
    ASSUME ChainsAssumption, rule \in Rules, rule' = rule, NEW e \in Events,
           order \in Seq(Events), order' = Append(order, e), NEW D \in SUBSET Chain!Steps,
           Chain!Present(D, Len(order))', NEW m \in Seq(Entries),
           \A C \in SUBSET Chain!Steps : Chain!Present(C, Len(order))
               => C \subseteq Chain!Filled(m),
           Chain!Distinct, Chain!Linear => \A i \in DOMAIN m : m[i].step = i
    PROVE  \A s \in D : s \in Chain!Filled(m)
               \/ (Chain!NextStep(e, m) # 0 /\ s = Chain!NextStep(e, m))
<1>1. SUFFICES ASSUME NEW s \in D, D \subseteq Chain!Filled(m) \cup {s}, s \notin Chain!Filled(m),
                      Chain!Before(s) \subseteq Chain!Filled(m), Chain!Matches(e, s)
               PROVE  Chain!NextStep(e, m) # 0 /\ s = Chain!NextStep(e, m)
    <2>1. \/ D \subseteq Chain!Filled(m)
          \/ \E s \in D : /\ D \subseteq Chain!Filled(m) \cup {s} /\ s \notin Chain!Filled(m)
                          /\ Chain!Before(s) \subseteq Chain!Filled(m) /\ Chain!Matches(e, s)
        BY OneStepMore
    <2> QED
        BY <2>1, <1>1
<1>2. Fits(e, m, s)
    <2>1. CASE Chain!Linear
        <3>1. Len(m) \in Nat /\ DOMAIN m = 1..Len(m)
            OBVIOUS
        <3>2. Chain!Filled(m) = 1..Len(m)
            BY <3>1, <2>1 DEF Chain!Filled
        <3>3. s \in Nat /\ s > 0
            BY StepsAre DEF ChainsAssumption
        <3>4. 1..(s - 1) \subseteq 1..Len(m)
            BY <1>1, <2>1, <3>2 DEF Chain!Before, Chain!Linear
        <3>5. s = Len(m) + 1
            <4>1. s > Len(m)
                BY <3>1, <3>2, <3>3, <1>1
            <4>2. s - 1 = 0 \/ s - 1 \in 1..Len(m)
                BY <3>3, <3>4
            <4> QED
                BY <4>1, <4>2, <3>1, <3>3
        <3> QED
            BY <3>5, <2>1, <1>1 DEF Fits
    <2>2. CASE ~ Chain!Linear
        BY <2>2, <1>1 DEF Fits, Chain!Before
    <2> QED
        BY <2>1, <2>2
<1>3. Chain!NextStep(e, m) # 0 /\ Fits(e, m, Chain!NextStep(e, m))
    BY <1>2, NextStepFits
<1>4. CASE Chain!Linear
    BY <1>2, <1>3, <1>4 DEF Fits
<1>5. CASE ~ Chain!Linear
    <2>1. rule.mode = "dag"
        BY <1>5, StepsAre DEF ChainsAssumption, Chain!Linear
    <2> QED
        BY <2>1, <1>2, <1>3 DEF Fits, Chain!Matches, Chain!Distinct
<1> QED
    BY <1>3, <1>4, <1>5

\* What an event finds, and what it makes of it.
Finds(e, m) ==
    /\ m \in {Chain!Current, <<>>} /\ (~ disturbed' => m = Chain!Current)
    /\ m = <<>> \/ (store \in Events /\ m = match[store])
    /\ match' \in [Events -> Seq(Entries)]
    /\ held' \in [Events -> Events \cup {None}] /\ held'[e] \in {e, store} \cap Events
    /\ match'[held'[e]] = m /\ match'[e] \in {m, <<>>} /\ Chain!Current' = Chain!Current
    /\ \A x \in Events \ {e} : /\ match'[x] = match[x] /\ held'[x] = held[x]
                               /\ taken'[x] = taken[x] /\ ready'[x] = ready[x]
                               /\ pc'[x] = pc[x]
    /\ taken' = [taken EXCEPT ![e] = Len(m)]
    /\ ready' = [ready EXCEPT ![e] = Chain!NextStep(e, m)]
    /\ pc' = [pc EXCEPT ![e] = Chain!Decided(e, m)]
    /\ taken'[e] = Len(m) /\ ready'[e] = Chain!NextStep(e, m)
    /\ pc'[e] = Chain!Decided(e, m) /\ Chain!Decided(e, m) \in {"clear", "done", "advance"}
    /\ store' = store /\ store # e

\* A read finds the match that is stored or none, and goes by that.
LEMMA ReadFinds ==
    ASSUME ChainsAssumption, Chain!TypeOK, Chain!HandsKnown, NEW e \in Events, Chain!Read(e)
    PROVE  \E m \in Seq(Entries) : Finds(e, m)
<1> DEFINE own == store = None \/ kept = "valkey"
<1>1. PICK m \in Chain!Found :
      /\ pc[e] = "idle" /\ held' = [held EXCEPT ![e] = IF own THEN e ELSE store]
      /\ match' = IF own THEN [match EXCEPT ![e] = m] ELSE match
      /\ /\ taken' = [taken EXCEPT ![e] = Len(m)]
         /\ ready' = [ready EXCEPT ![e] = Chain!NextStep(e, m)]
      /\ pc' = [pc EXCEPT ![e] = Chain!Decided(e, m)] /\ store' = store
      /\ disturbed' = (disturbed \/ m # Chain!Current \/ \E f \in Events : Chain!Active(f))
    BY DEF Chain!Read
<1>2. /\ m \in {Chain!Current, <<>>} /\ (~ disturbed' => m = Chain!Current)
      /\ ~ own => m = Chain!Current
    BY <1>1 DEF Chain!Found
<1>3. /\ store \in Events \cup {None} /\ match \in [Events -> Seq(Entries)]
      /\ held \in [Events -> Events \cup {None}] /\ taken \in [Events -> Nat]
      /\ ready \in [Events -> Nat] /\ DOMAIN pc = Events /\ None \notin Events
    BY DEF Chain!TypeOK, Entries, ChainsAssumption, Chain!EventsAssumption
<1>4. store # e /\ match[e] = <<>>
    BY <1>1 DEF Chain!HandsKnown
<1>5. m \in Seq(Entries) /\ (m = <<>> \/ (store \in Events /\ m = match[store]))
    <2>1. m = <<>> \/ (store \in Events /\ m = match[store])
        BY <1>2, <1>3 DEF Chain!Current
    <2>2. CASE m = <<>>
        BY <2>2, EmptySeq
    <2>3. CASE store \in Events /\ m = match[store]
        BY <2>3, <1>3
    <2> QED
        BY <2>1, <2>2, <2>3
<1>6. match' \in [Events -> Seq(Entries)] /\ \A x \in Events \ {e} : match'[x] = match[x]
    BY <1>1, <1>3, <1>5
<1>7. held'[e] = (IF own THEN e ELSE store) /\ held' \in [Events -> Events \cup {None}]
    BY <1>1, <1>3
<1>8. match'[held'[e]] = m /\ match'[e] \in {m, <<>>}
    <2>1. CASE own
        BY <2>1, <1>1, <1>3, <1>7
    <2>2. CASE ~ own
        <3>1. match' = match /\ held'[e] = store /\ store # None
            BY <2>2, <1>1, <1>7
        <3> QED
            BY <2>2, <3>1, <1>2, <1>4 DEF Chain!Current
    <2> QED
        BY <2>1, <2>2
<1>9. Chain!Current' = Chain!Current
    <2>1. CASE store = None
        BY <2>1, <1>1 DEF Chain!Current
    <2>2. CASE store # None
        <3>1. store \in Events \ {e}
            BY <2>2, <1>3, <1>4
        <3> QED
            BY <3>1, <2>2, <1>1, <1>6 DEF Chain!Current
    <2> QED
        BY <2>1, <2>2
<1>10. \A x \in Events \ {e} : /\ held'[x] = held[x] /\ taken'[x] = taken[x]
                               /\ ready'[x] = ready[x] /\ pc'[x] = pc[x]
    BY <1>1, <1>3
<1>11. taken'[e] = Len(m) /\ ready'[e] = Chain!NextStep(e, m) /\ pc'[e] = Chain!Decided(e, m)
    BY <1>1, <1>3
<1>12. Chain!Decided(e, m) \in {"clear", "done", "advance"}
    BY DEF Chain!Decided
<1>13. held'[e] \in {e, store} \cap Events /\ store' = store
    BY <1>1, <1>3, <1>7
<1> HIDE DEF own
<1> QED
    BY <1>1, <1>2, <1>4, <1>5, <1>6, <1>8, <1>7, <1>9, <1>10, <1>11, <1>12, <1>13 DEF Finds

\* What a write leaves in the store: what it should, or what was there.
LEMMA PutLeaves ==
    ASSUME NEW m, Chain!Put(m), disturbed \in BOOLEAN
    PROVE  /\ store' \in {m, store} /\ disturbed' \in BOOLEAN
           /\ ~ disturbed' => store' = m /\ ~ disturbed
<1>1. CASE store' = m /\ disturbed' = disturbed
    BY <1>1
<1>2. CASE store' = store /\ disturbed' = TRUE
    BY <1>2
<1> QED
    BY <1>1, <1>2 DEF Chain!Put

\* The entry an event makes.
LEMMA AdvanceMakes ==
    ASSUME ChainsAssumption, Chain!TypeOK, Chain!HandsKnown, Chain!EntriesJustified,
           NEW e \in Events, Chain!Advance(e)
    PROVE  /\ held[e] \in Events /\ match[held[e]] \in Seq(Entries)
           /\ \E s \in Nat \ {0} :
                /\ s = IF Chain!Linear THEN Len(match[held[e]]) + 1 ELSE ready[e]
                /\ [step |-> s, event |-> e] \in Entries
                /\ match' = [match EXCEPT ![held[e]] =
                                Append(match[held[e]], [step |-> s, event |-> e])]
           /\ pc[e] = "advance" /\ pc' = [pc EXCEPT ![e] = "finish"]
<1>1. /\ pc[e] = "advance" /\ pc' = [pc EXCEPT ![e] = "finish"]
      /\ match' = [match EXCEPT ![held[e]] = Append(@,
                    [step |-> IF Chain!Linear THEN Len(match[held[e]]) + 1 ELSE ready[e],
                     event |-> e])]
    BY DEF Chain!Advance, Chain!Linear
<1>2. held[e] \in Events /\ match \in [Events -> Seq(Entries)] /\ ready[e] \in Nat
    BY <1>1 DEF Chain!HandsKnown, Chain!Active, Chain!TypeOK, Entries
<1>3. ~ Chain!Linear => ready[e] # 0
    <2>1. ~ Chain!Linear => ready[e] \in Chain!Steps
        BY <1>1 DEF Chain!EntriesJustified, Chain!EntryReady
    <2>2. 0 \notin Chain!Steps
        BY StepsAre DEF ChainsAssumption, Chain!TypeOK
    <2> QED
        BY <2>1, <2>2
<1> DEFINE s == IF Chain!Linear THEN Len(match[held[e]]) + 1 ELSE ready[e]
<1>4. s \in Nat \ {0} /\ match[held[e]] \in Seq(Entries)
    <2>1. match[held[e]] \in Seq(Entries)
        BY <1>2
    <2>2. Len(match[held[e]]) \in Nat
        BY <2>1
    <2> QED
        BY <2>1, <2>2, <1>2, <1>3
<1>5. match' = [match EXCEPT ![held[e]] = Append(match[held[e]], [step |-> s, event |-> e])]
    BY <1>1, <1>2
<1> HIDE DEF s
<1> QED
    BY <1>1, <1>2, <1>4, <1>5 DEF s, Entries

\* Types are kept, ...
LEMMA ChainsTypeStep ==
    ASSUME ChainsAssumption, Chain!ChainsInv, Chain!Next
    PROVE  Chain!TypeOK'
<1> USE DEF Chain!ChainsInv
<1>0. None \notin Events
    BY DEF ChainsAssumption, Chain!EventsAssumption
<1>1. ASSUME NEW e \in Events, Chain!Read(e) PROVE Chain!TypeOK'
    <2>1. /\ UNCHANGED <<rule, kept, at, store, emitted, raced>> /\ order' = Append(order, e)
          /\ disturbed' \in BOOLEAN
        BY <1>1 DEF Chain!Read
    <2>0. PICK m \in Seq(Entries) : Finds(e, m)
        BY <1>1, ReadFinds
    <2>2. /\ match' \in [Events -> Seq(Entries)] /\ held' \in [Events -> Events \cup {None}]
          /\ match'[e] \in {m, <<>>} /\ \A x \in Events \ {e} : match'[x] = match[x]
          /\ taken' = [taken EXCEPT ![e] = Len(m)]
          /\ ready' = [ready EXCEPT ![e] = Chain!NextStep(e, m)]
          /\ pc' = [pc EXCEPT ![e] = Chain!Decided(e, m)]
          /\ Chain!Decided(e, m) \in {"clear", "done", "advance"} /\ store # e
          /\ m = <<>> \/ (store \in Events /\ m = match[store])
        BY <2>0 DEF Finds
    <2>3. Chain!NextStep(e, m) \in Nat /\ Len(m) \in Nat
        <3>1. rule \in Rules
            BY DEF Chain!TypeOK
        <3>2. Len(m) \in Nat
            OBVIOUS
        <3> QED
            BY <3>1, <3>2, NextStepFits
    <2>4. taken' \in [Events -> Nat] /\ ready' \in [Events -> Nat]
          /\ pc' \in [Events -> {"idle", "advance", "finish", "clear", "done"}]
        BY <2>2, <2>3 DEF Chain!TypeOK
    <2>5. /\ order' \in Seq(Events) /\ \A k \in DOMAIN order : k \in DOMAIN order' /\ order'[k]
                 = order[k]
        <3>1. order \in Seq(Events)
            BY DEF Chain!TypeOK
        <3> QED
            BY <3>1, <2>1, AppendProperties
    <2>6. store' # None => match'[store'] # <<>>
        BY <2>1, <2>2 DEF Chain!TypeOK
    <2>7. ASSUME NEW x \in Events, NEW i \in DOMAIN match'[x]
          PROVE  match'[x][i].event \in {order'[k] : k \in DOMAIN order'}
        <3>1. PICK y \in Events : match'[x] = match[y] \/ match'[x] = <<>>
            BY <2>2
        <3>2. match'[x] = match[y]
            BY <3>1
        <3>3. PICK k \in DOMAIN order : match[y][i].event = order[k]
            BY <3>2 DEF Chain!TypeOK
        <3> QED
            BY <3>2, <3>3, <2>5
    <2>8. \A x \in emitted' : Chain!Complete(x)'
        BY <2>1 DEF Chain!TypeOK, Chain!Complete, Chain!Steps, Chain!Filled
    <2>9. raced' \in BOOLEAN /\ disturbed' \in BOOLEAN
        BY <2>1 DEF Chain!TypeOK
    <2> QED
        BY <2>1, <2>2, <2>4, <2>5, <2>6, <2>7, <2>8, <2>9 DEF Chain!TypeOK, Entries
<1>2. ASSUME NEW e \in Events, Chain!Advance(e) PROVE Chain!TypeOK'
    <2>1. /\ UNCHANGED <<rule, kept, at, held, taken, ready, emitted, order>>
          /\ store' \in {held[e], store} /\ disturbed' \in BOOLEAN
          /\ raced' = (raced \/ Len(match[held[e]]) # taken[e])
        BY <1>2, PutLeaves DEF Chain!Advance, Chain!Keep, Chain!TypeOK
    <2> DEFINE h == held[e]  m == match[h]
    <2>2. PICK s \in Nat \ {0} :
            /\ [step |-> s, event |-> e] \in Entries
            /\ match' = [match EXCEPT ![h] = Append(m, [step |-> s, event |-> e])]
        BY <1>2, AdvanceMakes
    <2>3. /\ h \in Events /\ m \in Seq(Entries) /\ pc[e] = "advance"
          /\ pc' = [pc EXCEPT ![e] = "finish"]
        BY <1>2, AdvanceMakes
    <2> DEFINE q == Append(m, [step |-> s, event |-> e])
    <2>4. /\ q \in Seq(Entries) /\ q # <<>> /\ DOMAIN q = DOMAIN m \cup {Len(m) + 1}
          /\ q[Len(m) + 1].event = e /\ \A i \in DOMAIN m : q[i] = m[i]
        BY <2>2, <2>3, OneMore
    <2>5. match \in [Events -> Seq(Entries)]
        BY DEF Chain!TypeOK, Entries
    <2> HIDE DEF q, m
    <2>6. match' \in [Events -> Seq(Entries)] /\ match'[h] = q
          /\ \A x \in Events \ {h} : match'[x] = match[x]
        BY <2>2, <2>3, <2>4, <2>5 DEF q
    <2>7. store' # None => match'[store'] # <<>>
        BY <2>1, <2>3, <2>4, <2>6 DEF Chain!TypeOK
    <2>8. store' \in Events \cup {None}
        BY <2>1, <2>3 DEF Chain!TypeOK
    <2>9. ASSUME NEW x \in Events, NEW i \in DOMAIN match'[x]
          PROVE  match'[x][i].event \in {order'[k] : k \in DOMAIN order'}
        <3>1. \E k \in DOMAIN order : order[k] = e
            BY <2>3 DEF Chain!HandsKnown
        <3>2. CASE x # h
            <4>1. match'[x] = match[x] /\ order' = order /\ i \in DOMAIN match[x]
                BY <3>2, <2>1, <2>6
            <4>2. match[x][i].event \in {order[k] : k \in DOMAIN order}
                BY <4>1 DEF Chain!TypeOK
            <4> QED
                BY <4>1, <4>2
        <3>3. CASE x = h /\ i \in DOMAIN m
            <4>1. match'[x][i] = m[i]
                BY <3>3, <2>4, <2>6
            <4>2. m[i].event \in {order[k] : k \in DOMAIN order}
                BY <3>3, <2>3 DEF Chain!TypeOK, m
            <4> QED
                BY <4>1, <4>2, <2>1
        <3>4. CASE x = h /\ i = Len(m) + 1
            BY <3>1, <3>4, <2>1, <2>4, <2>6
        <3> QED
            BY <3>2, <3>3, <3>4, <2>4, <2>6
    <2>10. \A n \in emitted' : Chain!Complete(n)'
        BY <2>1 DEF Chain!TypeOK, Chain!Complete, Chain!Steps, Chain!Filled
    <2>11. /\ raced' \in BOOLEAN
           /\ pc' \in [Events -> {"idle", "advance", "finish", "clear", "done"}]
        BY <2>1, <2>3 DEF Chain!TypeOK
    <2> QED
        BY <2>1, <2>6, <2>7, <2>8, <2>9, <2>10, <2>11 DEF Chain!TypeOK, Entries
<1>3. ASSUME NEW e \in Events, Chain!Finish(e) PROVE Chain!TypeOK'
    <2> DEFINE m == match[held[e]]
    <2>1. /\ UNCHANGED <<rule, kept, at, match, held, taken, ready, order, raced>>
          /\ pc[e] = "finish"
          /\ emitted' = IF Chain!Complete(m) THEN emitted \cup {m} ELSE emitted
          /\ store' \in {held[e], store} /\ disturbed' \in BOOLEAN
          /\ pc' = [pc EXCEPT ![e] = IF Chain!Complete(m) THEN "clear" ELSE "done"]
        BY <1>3, PutLeaves DEF Chain!Finish, Chain!Keep, Chain!TypeOK
    <2>2. held[e] \in Events /\ m # <<>>
        BY <2>1 DEF Chain!HandsKnown, Chain!Active
    <2>3. store' \in Events \cup {None} /\ (store' # None => match'[store'] # <<>>)
        BY <2>1, <2>2 DEF Chain!TypeOK
    <2>4. pc' \in [Events -> {"idle", "advance", "finish", "clear", "done"}]
        BY <2>1 DEF Chain!TypeOK
    <2>5. \A n \in emitted' : Chain!Complete(n)
        BY <2>1 DEF Chain!TypeOK
    <2>6. \A n \in emitted' : Chain!Complete(n)'
        BY <2>1, <2>5 DEF Chain!Complete, Chain!Steps, Chain!Filled
    <2>7. \A x \in Events : \A i \in DOMAIN match'[x] :
            match'[x][i].event \in {order'[k] : k \in DOMAIN order'}
        BY <2>1 DEF Chain!TypeOK
    <2> QED
        BY <2>1, <2>3, <2>4, <2>6, <2>7 DEF Chain!TypeOK
<1>4. ASSUME NEW e \in Events, Chain!Clear(e) PROVE Chain!TypeOK'
    <2>1. /\ UNCHANGED <<rule, kept, at, match, held, taken, ready, emitted, order, raced>>
          /\ store' \in {None, store} /\ disturbed' \in BOOLEAN
          /\ pc' = [pc EXCEPT ![e] = "done"]
        BY <1>4, PutLeaves DEF Chain!Clear, Chain!TypeOK
    <2>2. \A n \in emitted' : Chain!Complete(n)'
        BY <2>1 DEF Chain!TypeOK, Chain!Complete, Chain!Steps, Chain!Filled
    <2>3. \A x \in Events : \A i \in DOMAIN match'[x] :
            match'[x][i].event \in {order'[k] : k \in DOMAIN order'}
        BY <2>1 DEF Chain!TypeOK
    <2>4. pc' \in [Events -> {"idle", "advance", "finish", "clear", "done"}]
        BY <2>1 DEF Chain!TypeOK
    <2> QED
        BY <2>1, <2>2, <2>3, <2>4 DEF Chain!TypeOK
<1>5. ASSUME Chain!Expire PROVE Chain!TypeOK'
    <2>1. /\ UNCHANGED <<rule, kept, at, match, held, taken, ready, pc, emitted, order, raced>>
          /\ store' = None /\ disturbed' = TRUE
        BY <1>5 DEF Chain!Expire
    <2>2. \A n \in emitted' : Chain!Complete(n)'
        BY <2>1 DEF Chain!TypeOK, Chain!Complete, Chain!Steps, Chain!Filled
    <2>3. \A x \in Events : \A i \in DOMAIN match'[x] :
            match'[x][i].event \in {order'[k] : k \in DOMAIN order'}
        BY <2>1 DEF Chain!TypeOK
    <2> QED
        BY <2>1, <2>2, <2>3 DEF Chain!TypeOK
<1> QED
    BY <1>1, <1>2, <1>3, <1>4, <1>5 DEF Chain!Next

\* ... nobody has anything of an event that has not read, ...
LEMMA HandsStep ==
    ASSUME ChainsAssumption, Chain!ChainsInv, Chain!Next
    PROVE  Chain!HandsKnown'
<1> USE DEF Chain!ChainsInv
<1>0. None \notin Events
    BY DEF ChainsAssumption, Chain!EventsAssumption
<1>1. ASSUME NEW e \in Events, Chain!Read(e) PROVE Chain!HandsKnown'
    <2>1. order' = Append(order, e)
        BY <1>1 DEF Chain!Read
    <2>2. /\ held'[e] \in {e, store} \cap Events /\ match'[e] \in {Chain!Current, <<>>}
          /\ \A x \in Events \ {e} : /\ match'[x] = match[x] /\ held'[x] = held[x]
                                     /\ pc'[x] = pc[x]
          /\ pc'[e] \in {"clear", "done", "advance"} /\ store' = store /\ store # e
        BY <1>1, ReadFinds DEF Finds
    <2>3. \E k \in DOMAIN order' : order'[k] = e
        <3>1. order \in Seq(Events)
            BY DEF Chain!TypeOK
        <3> QED
            BY <3>1, <2>1, AppendProperties
    <2>4. \A k \in DOMAIN order : k \in DOMAIN order' /\ order'[k] = order[k]
        <3>1. order \in Seq(Events)
            BY DEF Chain!TypeOK
        <3> QED
            BY <3>1, <2>1, AppendProperties
    <2>5. ASSUME NEW x \in Events
          PROVE  /\ pc'[x] = "idle" => /\ store' # x /\ match'[x] = <<>>
                                       /\ \A f \in Events : held'[f] # x
                 /\ pc'[x] # "idle" => \E k \in DOMAIN order' : order'[k] = x
                 /\ pc'[x] \in {"advance", "finish", "clear"} => held'[x] \in Events
                 /\ pc'[x] = "finish" => match'[held'[x]] # <<>>
        <3>1. CASE x = e
            BY <3>1, <2>2, <2>3
        <3>2. CASE x # e
            <4>1. pc'[x] = pc[x] /\ match'[x] = match[x] /\ held'[x] = held[x]
                BY <3>2, <2>2
            <4>2. pc[x] = "idle" => \A f \in Events : held'[f] # x
                BY <3>2, <2>2 DEF Chain!HandsKnown
            <4>3. pc[x] # "idle" => \E k \in DOMAIN order' : order'[k] = x
                BY <2>4 DEF Chain!HandsKnown
            <4>4. pc[x] \in {"advance", "finish", "clear"} => held[x] \in Events
                BY DEF Chain!HandsKnown, Chain!Active
            <4>5. pc[x] = "finish" => match[held[x]] # <<>> /\ held[x] # e
                BY <1>1 DEF Chain!HandsKnown, Chain!Read
            <4>6. pc[x] = "idle" => store' # x /\ match[x] = <<>>
                BY <2>2 DEF Chain!HandsKnown
            <4>7. pc[x] = "finish" => match'[held'[x]] # <<>>
                BY <4>1, <4>4, <4>5, <2>2
            <4> QED
                BY <4>1, <4>2, <4>3, <4>4, <4>6, <4>7
        <3> QED
            BY <3>1, <3>2
    <2> QED
        BY <2>5 DEF Chain!HandsKnown, Chain!Active
<1>2. ASSUME NEW e \in Events, Chain!Advance(e) PROVE Chain!HandsKnown'
    <2>1. held' = held /\ order' = order /\ store' \in {held[e], store}
        BY <1>2, PutLeaves DEF Chain!Advance, Chain!Keep, Chain!TypeOK
    <2> DEFINE h == held[e]  m == match[h]
    <2>2. PICK s \in Nat \ {0} :
            /\ [step |-> s, event |-> e] \in Entries
            /\ match' = [match EXCEPT ![h] = Append(m, [step |-> s, event |-> e])]
        BY <1>2, AdvanceMakes
    <2>3. /\ h \in Events /\ m \in Seq(Entries) /\ pc[e] = "advance"
          /\ pc' = [pc EXCEPT ![e] = "finish"]
        BY <1>2, AdvanceMakes
    <2> DEFINE q == Append(m, [step |-> s, event |-> e])
    <2>4. q # <<>>
        BY <2>2, <2>3, OneMore
    <2>5. match \in [Events -> Seq(Entries)] /\ DOMAIN pc = Events
        BY DEF Chain!TypeOK, Entries
    <2> HIDE DEF q, m
    <2>6. match'[h] = q /\ \A x \in Events \ {h} : match'[x] = match[x]
        BY <2>2, <2>3, <2>5 DEF q
    <2>7. pc[h] # "idle" /\ \A x \in Events : pc'[x] = IF x = e THEN "finish" ELSE pc[x]
        BY <2>3, <2>5 DEF Chain!HandsKnown
    <2>8. ASSUME NEW x \in Events
          PROVE  /\ pc'[x] = "idle"
                        => store' # x /\ match'[x] = <<>> /\ \A f \in Events : held'[f] # x
                 /\ pc'[x] # "idle" => \E k \in DOMAIN order' : order'[k] = x
                 /\ pc'[x] \in {"advance", "finish", "clear"} => held'[x] \in Events
                 /\ pc'[x] = "finish" => match'[held'[x]] # <<>>
        <3>1. pc'[x] = "idle" => store' # x /\ match'[x] = <<>> /\ \A f \in Events : held'[f] # x
            <4>1. SUFFICES ASSUME pc'[x] = "idle"
                           PROVE  store' # x /\ match'[x] = <<>> /\ \A f \in Events : held'[f] # x
                OBVIOUS
            <4>2. pc[x] = "idle" /\ x # h
                BY <4>1, <2>7
            <4> QED
                BY <4>2, <2>1, <2>6, <2>7 DEF Chain!HandsKnown
        <3>2. pc'[x] # "idle" => \E k \in DOMAIN order' : order'[k] = x
            BY <2>1, <2>3, <2>7 DEF Chain!HandsKnown
        <3>3. pc'[x] \in {"advance", "finish", "clear"} => held'[x] \in Events
            BY <2>1, <2>3, <2>7 DEF Chain!HandsKnown, Chain!Active
        <3>4. pc'[x] = "finish" => match'[held'[x]] # <<>>
            <4>1. CASE held[x] = h
                BY <4>1, <2>1, <2>4, <2>6
            <4>2. CASE held[x] # h
                <5>1. pc'[x] = "finish" => pc[x] = "finish"
                    BY <4>2, <2>7
                <5>2. pc[x] = "finish" => match[held[x]] # <<>> /\ held[x] \in Events
                    BY DEF Chain!HandsKnown, Chain!Active
                <5> QED
                    BY <5>1, <5>2, <4>2, <2>1, <2>6
            <4> QED
                BY <4>1, <4>2
        <3> QED
            BY <3>1, <3>2, <3>3, <3>4
    <2> QED
        BY <2>8 DEF Chain!HandsKnown, Chain!Active
<1>3. ASSUME NEW e \in Events, Chain!Finish(e) \/ Chain!Clear(e) PROVE Chain!HandsKnown'
    <2>1. /\ match' = match /\ held' = held /\ order' = order
          /\ pc[e] \in {"finish", "clear"} /\ store' \in {held[e], store, None}
          /\ \E then \in {"clear", "done"} : pc' = [pc EXCEPT ![e] = then]
        BY <1>3, PutLeaves DEF Chain!Finish, Chain!Clear, Chain!Keep, Chain!TypeOK
    <2>2. /\ \A x \in Events : x # e => pc'[x] = pc[x]
          /\ pc'[e] \in {"clear", "done"} /\ pc[e] \in {"finish", "clear"}
        BY <2>1 DEF Chain!TypeOK
    <2>3. \A x \in Events : pc[x] = "idle" => store' # x
        BY <2>1, <1>0 DEF Chain!HandsKnown
    <2> QED
        BY <2>1, <2>2, <2>3 DEF Chain!HandsKnown, Chain!Active
<1>4. ASSUME Chain!Expire PROVE Chain!HandsKnown'
    BY <1>4, <1>0 DEF Chain!Expire, Chain!HandsKnown, Chain!Active
<1> QED
    BY <1>1, <1>2, <1>3, <1>4 DEF Chain!Next

\* Who reads the store finds an entry ready that is justified.
LEMMA ReadReadies ==
    ASSUME ChainsAssumption, Chain!ChainsInv, NEW e \in Events, Chain!Read(e),
           pc'[e] = "advance",
           ~ (raced /\ Chain!Linear)
    PROVE  Chain!EntryReady(e)'
<1> USE DEF Chain!ChainsInv
<1>0. PICK m \in Seq(Entries) : Finds(e, m)
    BY ReadFinds
<1>1. /\ match'[held'[e]] = m /\ taken'[e] = Len(m) /\ ready'[e] = Chain!NextStep(e, m)
      /\ pc'[e] = Chain!Decided(e, m) /\ (m = <<>> \/ (store \in Events /\ m = match[store]))
    BY <1>0 DEF Finds
<1> DEFINE s == Chain!NextStep(e, m)
<1>2. rule' = rule /\ at' = at
    BY DEF Chain!Read
<1>3. s # 0 /\ ~ Chain!TooLate(e, s, m)
    <2>1. Chain!Decided(e, m) = "advance"
        BY <1>1
    <2> QED
        BY <2>1 DEF Chain!Decided
<1>4. Fits(e, m, s)
    BY <1>1, <1>3, NextStepFits DEF Chain!TypeOK
<1>5. rule.steps[s].after \subseteq Chain!Filled(m)
    <2>1. CASE Chain!Linear
        <3>1. \A i \in DOMAIN m : m[i].step = i
            BY <1>1, <2>1 DEF Chain!EntriesJustified
        <3>2. DOMAIN m = 1..Len(m) /\ Len(m) \in Nat /\ s = Len(m) + 1 /\ s \in Chain!Steps
            BY <1>1, <1>4, <2>1 DEF Fits
        <3>3. rule.steps[s].after \subseteq 1..(s - 1)
            BY <3>2, StepsAre DEF ChainsAssumption, Chain!TypeOK
        <3> QED
            BY <3>1, <3>2, <3>3 DEF Chain!Filled
    <2>2. CASE ~ Chain!Linear
        BY <2>2, <1>4 DEF Fits
    <2> QED
        BY <2>1, <2>2
<1>6. rule.steps[s].within > 0 =>
        \E j \in DOMAIN m :
            m[j].step \in rule.steps[s].after /\ at[e] - at[m[j].event] <= rule.steps[s].within
    BY <1>1, <1>3, <1>4, <1>5, InTime DEF Fits, Chain!TypeOK
<1>7. \A p \in rule.steps[s].after : \E j \in DOMAIN m : m[j].step = p
    BY <1>5 DEF Chain!Filled
<1>8. s \in Chain!Steps /\ Chain!Matches(e, s) /\ (Chain!Linear => s = Len(m) + 1)
    BY <1>4 DEF Fits
<1>9. ready'[e] = s
    BY <1>1
<1> HIDE DEF s
<1> QED
    BY <1>1, <1>2, <1>6, <1>7, <1>8, <1>9
       DEF Chain!EntryReady, Chain!Linear, Chain!Matches, Chain!Steps

\* ... what is ready stays so when others add to the match, ...
LEMMA ReadyStays ==
    ASSUME ChainsAssumption, NEW f \in Events, Chain!EntryReady(f), rule' = rule, at' = at,
           held'[f] = held[f], taken'[f] = taken[f], ready'[f] = ready[f],
           \A j \in DOMAIN match[held[f]] :
                j \in DOMAIN match'[held[f]] /\ match'[held[f]][j] = match[held[f]][j]
    PROVE  Chain!EntryReady(f)'
<1> DEFINE m == match[held[f]]  q == match'[held[f]]  s == ready[f]
<1>1. /\ s \in Chain!Steps /\ Chain!Matches(f, s) /\ (Chain!Linear => s = taken[f] + 1)
      /\ \A p \in rule.steps[s].after : \E j \in DOMAIN m : m[j].step = p
      /\ rule.steps[s].within > 0 => \E j \in DOMAIN m :
            m[j].step \in rule.steps[s].after /\ at[f] - at[m[j].event] <= rule.steps[s].within
    BY DEF Chain!EntryReady
<1>2. \A j \in DOMAIN m : j \in DOMAIN q /\ q[j] = m[j]
    OBVIOUS
<1> HIDE DEF m, q, s
<1>3. /\ \A p \in rule.steps[s].after : \E j \in DOMAIN q : q[j].step = p
      /\ rule.steps[s].within > 0 => \E j \in DOMAIN q :
            q[j].step \in rule.steps[s].after /\ at[f] - at[q[j].event] <= rule.steps[s].within
    BY <1>1, <1>2
<1>4. s = ready'[f] /\ q = match'[held'[f]]
    BY DEF s, q
<1> QED
    BY <1>1, <1>3, <1>4 DEF Chain!EntryReady, Chain!Linear, Chain!Matches, Chain!Steps

\* ... so that every entry is justified when it is made, ...
LEMMA EntriesStep ==
    ASSUME ChainsAssumption, Chain!ChainsInv, Chain!Next
    PROVE  Chain!EntriesJustified'
<1> USE DEF Chain!ChainsInv
<1>0. rule' = rule /\ at' = at /\ (raced => raced')
    <2>1. ASSUME NEW e \in Events, Chain!Read(e)
          PROVE  rule' = rule /\ at' = at /\ raced' = raced
        BY <2>1 DEF Chain!Read
    <2>2. ASSUME NEW e \in Events, Chain!Advance(e)
          PROVE  rule' = rule /\ at' = at /\ (raced => raced')
        BY <2>2 DEF Chain!Advance
    <2>3. ASSUME NEW e \in Events, Chain!Finish(e) \/ Chain!Clear(e)
          PROVE  rule' = rule /\ at' = at /\ raced' = raced
        BY <2>3 DEF Chain!Finish, Chain!Clear
    <2>4. ASSUME Chain!Expire PROVE rule' = rule /\ at' = at /\ raced' = raced
        BY <2>4 DEF Chain!Expire
    <2> QED
        BY <2>1, <2>2, <2>3, <2>4 DEF Chain!Next
<1>1. SUFFICES ASSUME ~ (raced /\ Chain!Linear)', ~ (raced /\ Chain!Linear)
               PROVE  /\ \A f \in Events : pc'[f] = "advance" => Chain!EntryReady(f)'
                      /\ \A x \in Events : \A i \in DOMAIN match'[x] :
                            /\ match'[x][i].step \in Chain!Steps
                            /\ Chain!Justified(match'[x], i, match'[x][i].step)
                            /\ Chain!Linear => match'[x][i].step = i
    <2>1. Chain!Linear' = Chain!Linear /\ Chain!Steps' = Chain!Steps
        BY <1>0 DEF Chain!Linear, Chain!Steps
    <2>2. (raced /\ Chain!Linear) => (raced /\ Chain!Linear)'
        BY <2>1, <1>0
    <2>3. ASSUME \A x \in Events : \A i \in DOMAIN match'[x] :
                    /\ match'[x][i].step \in Chain!Steps
                    /\ Chain!Justified(match'[x], i, match'[x][i].step)
                    /\ Chain!Linear => match'[x][i].step = i
          PROVE  (\A e \in Events : \A i \in DOMAIN match[e] :
                    /\ match[e][i].step \in Chain!Steps
                    /\ Chain!Justified(match[e], i, match[e][i].step)
                    /\ Chain!Linear => match[e][i].step = i)'
        BY <2>1, <2>3, <1>0, JustifiedStays
    <2> QED
        BY <2>2, <2>3, <1>1 DEF Chain!EntriesJustified
<1>2. /\ \A f \in Events : pc[f] = "advance" => Chain!EntryReady(f)
      /\ \A x \in Events : \A i \in DOMAIN match[x] :
            /\ /\ match[x][i].step \in Chain!Steps
               /\ Chain!Justified(match[x], i, match[x][i].step)
            /\ Chain!Linear => match[x][i].step = i
    BY <1>1 DEF Chain!EntriesJustified
<1>3. ASSUME NEW e \in Events, Chain!Read(e)
      PROVE  /\ \A f \in Events : pc'[f] = "advance" => Chain!EntryReady(f)'
             /\ \A x \in Events : \A i \in DOMAIN match'[x] :
                    /\ match'[x][i].step \in Chain!Steps
                    /\ Chain!Justified(match'[x], i, match'[x][i].step)
                    /\ Chain!Linear => match'[x][i].step = i
    <2>1. /\ match'[e] = <<>> \/ (store \in Events /\ match'[e] = match[store])
          /\ \A x \in Events \ {e} : match'[x] = match[x]
          /\ \A x \in Events \ {e} : /\ held'[x] = held[x] /\ taken'[x] = taken[x]
                                     /\ ready'[x] = ready[x] /\ pc'[x] = pc[x]
        BY <1>3, ReadFinds DEF Finds
    <2>2. ASSUME NEW f \in Events, pc'[f] = "advance" PROVE Chain!EntryReady(f)'
        <3>1. CASE f = e
            BY <3>1, <2>2, <1>1, <1>3, ReadReadies
        <3>2. CASE f # e
            <4>1. pc[f] = "advance" /\ Chain!EntryReady(f)
                BY <3>2, <2>1, <2>2, <1>2
            <4>2. held[f] \in Events /\ held[f] # e
                BY <4>1, <1>3 DEF Chain!HandsKnown, Chain!Active, Chain!Read
            <4>3. match'[held[f]] = match[held[f]]
                BY <4>2, <2>1
            <4> QED
                BY <3>2, <4>1, <4>3, <2>1, <1>0, ReadyStays
        <3> QED
            BY <3>1, <3>2
    <2>3. ASSUME NEW x \in Events, NEW i \in DOMAIN match'[x]
          PROVE  /\ match'[x][i].step \in Chain!Steps
                 /\ Chain!Justified(match'[x], i, match'[x][i].step)
                 /\ Chain!Linear => match'[x][i].step = i
        <3>1. PICK y \in Events : match'[x] = match[y] \/ match'[x] = <<>>
            BY <2>1
        <3>2. match'[x] = match[y]
            BY <3>1
        <3> QED
            BY <3>2, <1>2
    <2> QED
        BY <2>2, <2>3
<1>4. ASSUME NEW e \in Events, Chain!Advance(e)
      PROVE  /\ \A f \in Events : pc'[f] = "advance" => Chain!EntryReady(f)'
             /\ \A x \in Events : \A i \in DOMAIN match'[x] :
                    /\ match'[x][i].step \in Chain!Steps
                    /\ Chain!Justified(match'[x], i, match'[x][i].step)
                    /\ Chain!Linear => match'[x][i].step = i
    <2>1. /\ held' = held /\ taken' = taken /\ ready' = ready
          /\ raced' = (raced \/ Len(match[held[e]]) # taken[e])
        BY <1>4 DEF Chain!Advance
    <2> DEFINE h == held[e]  m == match[h]
    <2>2. PICK s \in Nat \ {0} :
            /\ s = IF Chain!Linear THEN Len(m) + 1 ELSE ready[e]
            /\ [step |-> s, event |-> e] \in Entries
            /\ match' = [match EXCEPT ![h] = Append(m, [step |-> s, event |-> e])]
        BY <1>4, AdvanceMakes
    <2>3. /\ h \in Events /\ m \in Seq(Entries) /\ pc[e] = "advance"
          /\ pc' = [pc EXCEPT ![e] = "finish"]
        BY <1>4, AdvanceMakes
    <2> DEFINE x0 == [step |-> s, event |-> e]
               q == Append(m, x0)
    <2>4. /\ DOMAIN m = 1..Len(m) /\ DOMAIN q = DOMAIN m \cup {Len(m) + 1} /\ Len(m) \in Nat
          /\ q[Len(m) + 1] = x0 /\ \A i \in DOMAIN m : q[i] = m[i]
        BY <2>2, <2>3, OneMore
    <2>5. match \in [Events -> Seq(Entries)] /\ DOMAIN pc = Events
        BY DEF Chain!TypeOK, Entries
    <2>6. match'[h] = q /\ \A x \in Events \ {h} : match'[x] = match[x]
        <3> HIDE DEF q, m
        <3> QED
            BY <2>2, <2>3, <2>5 DEF q
    <2>7. Chain!EntryReady(e)
        BY <2>3, <1>2
    <2>8. s = ready[e] /\ s \in Chain!Steps /\ (Chain!Linear => s = Len(m) + 1)
        <3>1. CASE Chain!Linear
            <4>1. ~ raced'
                BY <3>1, <1>0, <1>1 DEF Chain!Linear
            <4>2. Len(m) = taken[e]
                BY <4>1, <2>1
            <4> QED
                BY <3>1, <4>2, <2>2, <2>7 DEF Chain!EntryReady
        <3>2. CASE ~ Chain!Linear
            BY <3>2, <2>2, <2>7 DEF Chain!EntryReady
        <3> QED
            BY <3>1, <3>2
    <2>9. Chain!Justified(q, Len(m) + 1, s)
        <3>1. /\ Chain!Matches(e, s) /\ \A p \in rule.steps[s].after : \E j
                     \in DOMAIN m : m[j].step = p
              /\ rule.steps[s].within > 0 => \E j \in DOMAIN m :
                    /\ m[j].step \in rule.steps[s].after
                    /\ at[e] - at[m[j].event] <= rule.steps[s].within
            BY <2>7, <2>8 DEF Chain!EntryReady
        <3> DEFINE k == Len(m) + 1
        <3>2. q[k].event = e /\ DOMAIN m = 1..(k - 1)
            BY <2>4
        <3> HIDE DEF q, m, k, x0
        <3> QED
            BY <3>1, <3>2, <2>4 DEF Chain!Justified, k
    <2>10. ASSUME NEW f \in Events, pc'[f] = "advance" PROVE Chain!EntryReady(f)'
        <3>1. pc[f] = "advance" /\ Chain!EntryReady(f) /\ held[f] \in Events
            BY <2>3, <2>5, <2>10, <1>2 DEF Chain!HandsKnown, Chain!Active
        <3>2. \A j \in DOMAIN match[held[f]] :
                j \in DOMAIN match'[held[f]] /\ match'[held[f]][j] = match[held[f]][j]
            BY <3>1, <2>4, <2>6
        <3> QED
            BY <3>1, <3>2, <2>1, <1>0, ReadyStays
    <2>11. ASSUME NEW x \in Events, NEW i \in DOMAIN match'[x]
           PROVE  /\ match'[x][i].step \in Chain!Steps
                  /\ Chain!Justified(match'[x], i, match'[x][i].step)
                  /\ Chain!Linear => match'[x][i].step = i
        <3>1. CASE x # h
            BY <3>1, <2>6, <1>2
        <3>2. CASE x = h /\ i = Len(m) + 1
            BY <3>2, <2>4, <2>6, <2>8, <2>9
        <3>3. CASE x = h /\ i \in DOMAIN m
            <4>1. q[i] = m[i] /\ m[i].step \in Chain!Steps /\ Chain!Justified(m, i, m[i].step)
                  /\ (Chain!Linear => m[i].step = i)
                BY <3>3, <2>3, <2>4, <1>2
            <4>2. Chain!Justified(q, i, m[i].step)
                BY <3>3, <4>1, <2>2, <2>3, JustifiedLonger
            <4> QED
                BY <3>3, <4>1, <4>2, <2>6
        <3> QED
            BY <3>1, <3>2, <3>3, <2>4, <2>6
    <2> QED
        BY <2>10, <2>11
<1>5. ASSUME \/ \E e \in Events : Chain!Finish(e) \/ Chain!Clear(e)
             \/ Chain!Expire
      PROVE  /\ \A f \in Events : pc'[f] = "advance" => Chain!EntryReady(f)'
             /\ \A x \in Events : \A i \in DOMAIN match'[x] :
                    /\ match'[x][i].step \in Chain!Steps
                    /\ Chain!Justified(match'[x], i, match'[x][i].step)
                    /\ Chain!Linear => match'[x][i].step = i
    <2>1. /\ match' = match /\ held' = held /\ taken' = taken /\ ready' = ready
          /\ \A f \in Events : pc'[f] = "advance" => pc[f] = "advance"
        BY <1>5 DEF Chain!Finish, Chain!Clear, Chain!Expire, Chain!TypeOK
    <2> QED
        BY <2>1, <1>0, <1>2, ReadyStays
<1> QED
    BY <1>3, <1>4, <1>5 DEF Chain!Next

\* ... and what is reported has every step.
LEMMA HonestStep ==
    ASSUME ChainsAssumption, Chain!ChainsInv, Chain!Next
    PROVE  Chain!ChainsHonest'
<1> USE DEF Chain!ChainsInv
<1>0. \A m : rule' = rule /\ at' = at /\ (Chain!Genuine(m) => Chain!Genuine(m)')
    <2>1. rule' = rule /\ at' = at
        BY DEF Chain!Next, Chain!Read, Chain!Advance, Chain!Finish, Chain!Clear, Chain!Expire
    <2> QED
        BY <2>1 DEF Chain!Genuine, Chain!Justified, Chain!Matches, Chain!Steps
<1>1. ASSUME NEW e \in Events, Chain!Finish(e) PROVE Chain!ChainsHonest'
    <2> DEFINE m == match[held[e]]
    <2>1. raced' = raced /\ pc[e] = "finish" /\ emitted'
              = IF Chain!Complete(m) THEN emitted \cup {m} ELSE emitted
        BY <1>1 DEF Chain!Finish
    <2>2. held[e] \in Events /\ m \in Seq(Entries)
        BY <2>1 DEF Chain!HandsKnown, Chain!Active, Chain!TypeOK, Entries
    <2>3. ASSUME Chain!Complete(m), ~ (raced /\ Chain!Linear) PROVE Chain!Genuine(m)
        <3>1. \A i \in DOMAIN m : /\ m[i].step \in Chain!Steps /\ Chain!Justified(m, i, m[i].step)
                                  /\ Chain!Linear => m[i].step = i
            BY <2>2, <2>3 DEF Chain!EntriesJustified
        <3>2. ASSUME NEW s \in Chain!Steps PROVE \E i \in DOMAIN m : m[i].step = s
            <4>1. CASE Chain!Linear
                <5>1. Len(m) >= Len(rule.steps) /\ DOMAIN m = 1..Len(m) /\ Len(m) \in Nat
                    BY <4>1, <2>2, <2>3 DEF Chain!Complete, Chain!Linear
                <5>2. s \in 1..Len(rule.steps) /\ Len(rule.steps) \in Nat
                    BY StepsAre DEF ChainsAssumption, Chain!TypeOK
                <5>3. s \in DOMAIN m
                    BY <5>1, <5>2
                <5> QED
                    BY <5>3, <4>1, <3>1
            <4>2. CASE ~ Chain!Linear
                BY <4>2, <2>3 DEF Chain!Complete, Chain!Linear, Chain!Filled
            <4> QED
                BY <4>1, <4>2
        <3> HIDE DEF m
        <3>3. ASSUME NEW s \in Chain!Steps
              PROVE  \E i \in DOMAIN m : m[i].step = s /\ Chain!Justified(m, i, s)
            <4>1. PICK i \in DOMAIN m : m[i].step = s
                BY <3>2
            <4> QED
                BY <4>1, <3>1
        <3> QED
            BY <3>3 DEF Chain!Genuine
    <2>4. ASSUME NEW n \in emitted' PROVE (raced' /\ rule'.mode = "linear") \/ Chain!Genuine(n)'
        <3>1. (raced /\ rule.mode = "linear") \/ Chain!Genuine(n)
            <4>1. CASE n \in emitted
                BY <4>1 DEF Chain!ChainsHonest
            <4>2. CASE n \notin emitted
                <5>1. n = m /\ Chain!Complete(m)
                    BY <4>2, <2>1, <2>4
                <5> QED
                    BY <5>1, <2>3 DEF Chain!Linear
            <4> QED
                BY <4>1, <4>2
        <3> QED
            BY <3>1, <2>1, <1>0
    <2> QED
        BY <2>4 DEF Chain!ChainsHonest
<1>2. ASSUME emitted' = emitted, raced => raced' PROVE Chain!ChainsHonest'
    BY <1>2, <1>0 DEF Chain!ChainsHonest
<1>3. ASSUME NEW e \in Events, Chain!Read(e) \/ Chain!Clear(e)
      PROVE  emitted' = emitted /\ raced' = raced
    BY <1>3 DEF Chain!Read, Chain!Clear
<1>4. ASSUME NEW e \in Events, Chain!Advance(e) PROVE emitted' = emitted /\ (raced => raced')
    BY <1>4 DEF Chain!Advance
<1>5. ASSUME Chain!Expire PROVE emitted' = emitted /\ raced' = raced
    BY <1>5 DEF Chain!Expire
<1> QED
    BY <1>1, <1>2, <1>3, <1>4, <1>5 DEF Chain!Next

\* Where nothing disturbs them, events are processed one at a time, ...
LEMMA OneAtATimeStep ==
    ASSUME ChainsAssumption, Chain!ChainsInv, Chain!Next
    PROVE  Chain!OneAtATime'
<1> USE DEF Chain!ChainsInv
<1>0. Chain!Linear' = Chain!Linear /\ (~ disturbed' => ~ disturbed)
    <2>1. ASSUME NEW e \in Events, Chain!Read(e)
          PROVE  rule' = rule /\ (~ disturbed' => ~ disturbed)
        BY <2>1 DEF Chain!Read
    <2>2. ASSUME NEW e \in Events, Chain!Advance(e) \/ Chain!Finish(e) \/ Chain!Clear(e)
          PROVE  rule' = rule /\ (~ disturbed' => ~ disturbed)
        BY <2>2, PutLeaves DEF Chain!Advance, Chain!Finish, Chain!Clear, Chain!Keep, Chain!TypeOK
    <2>3. ASSUME Chain!Expire PROVE rule' = rule /\ (~ disturbed' => ~ disturbed)
        BY <2>3 DEF Chain!Expire
    <2> QED
        BY <2>1, <2>2, <2>3 DEF Chain!Next, Chain!Linear
<1>1. SUFFICES ASSUME ~ disturbed', ~ disturbed
               PROVE  /\ \A e, f \in Events :
                            (/\ pc'[e] \in {"advance", "finish", "clear"}
                             /\ pc'[f] \in {"advance", "finish", "clear"}) => e = f
                      /\ \A e \in Events :
                            /\ pc'[e] = "advance" => Len(match'[held'[e]]) = taken'[e]
                            /\ pc'[e] = "finish" /\ Chain!Linear => store' = held'[e]
                      /\ ~ raced'
    BY <1>0 DEF Chain!OneAtATime, Chain!Active
<1>2. /\ \A e, f \in Events : Chain!Active(e) /\ Chain!Active(f) => e = f
      /\ \A e \in Events :
            /\ pc[e] = "advance" => Len(match[held[e]]) = taken[e]
            /\ pc[e] = "finish" /\ Chain!Linear => store = held[e]
      /\ ~ raced
    BY <1>1 DEF Chain!OneAtATime
<1>3. ASSUME NEW e \in Events, Chain!Read(e)
      PROVE  /\ \A d, f \in Events :
                    (/\ pc'[d] \in {"advance", "finish", "clear"}
                     /\ pc'[f] \in {"advance", "finish", "clear"}) => d = f
             /\ \A f \in Events :
                    /\ pc'[f] = "advance" => Len(match'[held'[f]]) = taken'[f]
                    /\ pc'[f] = "finish" /\ Chain!Linear => store' = held'[f]
             /\ ~ raced'
    <2>1. raced' = raced /\ \A f \in Events : ~ Chain!Active(f)
        BY <1>1, <1>3 DEF Chain!Read
    <2>2. /\ Len(match'[held'[e]]) = taken'[e]
          /\ \A x \in Events \ {e} : pc'[x] = pc[x]
          /\ pc'[e] \in {"clear", "done", "advance"}
        BY <1>3, ReadFinds DEF Finds
    <2>3. \A x \in Events : pc'[x] \in {"advance", "finish", "clear"} => x = e
        BY <2>1, <2>2 DEF Chain!Active
    <2> QED
        BY <2>1, <2>2, <2>3, <1>2
<1>4. ASSUME NEW e \in Events, Chain!Advance(e)
      PROVE  /\ \A d, f \in Events :
                    (/\ pc'[d] \in {"advance", "finish", "clear"}
                     /\ pc'[f] \in {"advance", "finish", "clear"}) => d = f
             /\ \A f \in Events :
                    /\ pc'[f] = "advance" => Len(match'[held'[f]]) = taken'[f]
                    /\ pc'[f] = "finish" /\ Chain!Linear => store' = held'[f]
             /\ ~ raced'
    <2>1. /\ pc[e] = "advance" /\ pc' = [pc EXCEPT ![e] = "finish"] /\ held' = held
          /\ Chain!Linear => store' = held[e]
          /\ raced' = (raced \/ Len(match[held[e]]) # taken[e])
        BY <1>1, <1>4, PutLeaves DEF Chain!Advance, Chain!Linear, Chain!TypeOK
    <2>2. pc'[e] = "finish" /\ \A x \in Events \ {e} : pc'[x] = pc[x] /\ ~ Chain!Active(x)
        BY <2>1, <1>2 DEF Chain!TypeOK, Chain!Active
    <2> QED
        BY <2>1, <2>2, <1>2 DEF Chain!Active
<1>5. ASSUME NEW e \in Events, Chain!Finish(e) \/ Chain!Clear(e)
      PROVE  /\ \A d, f \in Events :
                    (/\ pc'[d] \in {"advance", "finish", "clear"}
                     /\ pc'[f] \in {"advance", "finish", "clear"}) => d = f
             /\ \A f \in Events :
                    /\ pc'[f] = "advance" => Len(match'[held'[f]]) = taken'[f]
                    /\ pc'[f] = "finish" /\ Chain!Linear => store' = held'[f]
             /\ ~ raced'
    <2>1. /\ pc[e] \in {"finish", "clear"} /\ raced' = raced
          /\ \E then \in {"clear", "done"} : pc' = [pc EXCEPT ![e] = then]
        BY <1>5 DEF Chain!Finish, Chain!Clear
    <2>2. /\ pc'[e] \in {"clear", "done"}
          /\ \A x \in Events \ {e} : pc'[x] = pc[x] /\ ~ Chain!Active(x)
        BY <2>1, <1>2 DEF Chain!TypeOK, Chain!Active
    <2> QED
        BY <2>1, <2>2, <1>2 DEF Chain!Active
<1>6. ~ Chain!Expire
    BY <1>1 DEF Chain!Expire
<1> QED
    BY <1>3, <1>4, <1>5, <1>6 DEF Chain!Next

\* What is present stays so unless an event is read.
LEMMA PresentSame ==
    ASSUME rule' = rule, order' = order, NEW D
    PROVE  Chain!Present(D, Len(order))' <=> Chain!Present(D, Len(order))
BY DEF Chain!Present, Chain!Matches, Chain!Before

\* ... and the match in hand misses no step that is present.
LEMMA MissedStep ==
    ASSUME ChainsAssumption, Chain!ChainsInv, Chain!Next
    PROVE  Chain!NothingMissed'
<1> USE DEF Chain!ChainsInv
<1>1. SUFFICES ASSUME Chain!Sound', Chain!Sound, rule' = rule
               PROVE  /\ Chain!Quiet' => /\ ~ Chain!Complete(Chain!Current)'
                                         /\ \A D \in SUBSET Chain!Steps :
                                              Chain!Present(D, Len(order))'
                                                  => D \subseteq Chain!Filled(Chain!Current')
                      /\ \A e \in Events :
                            /\ pc'[e] # "clear"
                            /\ pc'[e] \in {"advance", "finish"} => \A D \in SUBSET Chain!Steps :
                                Chain!Present(D, Len(order))' =>
                                    D \subseteq Chain!Filled(match'[held'[e]])
                                        \cup (IF pc'[e] = "advance" THEN {ready'[e]} ELSE {})
    <2>1. rule' = rule /\ (~ disturbed' => ~ disturbed) /\ (emitted' = {} => emitted = {})
        <3>1. ASSUME NEW e \in Events, Chain!Read(e)
              PROVE  rule' = rule /\ (~ disturbed' => ~ disturbed) /\ emitted' = emitted
            BY <3>1 DEF Chain!Read
        <3>2. ASSUME NEW e \in Events, Chain!Advance(e)
              PROVE  rule' = rule /\ (~ disturbed' => ~ disturbed) /\ emitted' = emitted
            BY <3>2, PutLeaves DEF Chain!Advance, Chain!Keep, Chain!TypeOK
        <3>3. ASSUME NEW e \in Events, Chain!Finish(e)
              PROVE  /\ rule' = rule /\ (~ disturbed' => ~ disturbed)
                     /\ emitted' = {} => emitted = {}
            BY <3>3, PutLeaves DEF Chain!Finish, Chain!Keep, Chain!TypeOK
        <3>4. ASSUME NEW e \in Events, Chain!Clear(e)
              PROVE  rule' = rule /\ (~ disturbed' => ~ disturbed) /\ emitted' = emitted
            BY <3>4, PutLeaves DEF Chain!Clear, Chain!TypeOK
        <3>5. ASSUME Chain!Expire PROVE rule' = rule /\ disturbed' = TRUE /\ emitted' = emitted
            BY <3>5 DEF Chain!Expire
        <3> QED
            BY <3>1, <3>2, <3>3, <3>4, <3>5 DEF Chain!Next
    <2>2. Chain!Sound' => Chain!Sound
        BY <2>1 DEF Chain!Sound, Chain!Unlimited, Chain!Distinct, Chain!Steps
    <2>3. Chain!Steps' = Chain!Steps /\ \A m : Chain!Filled(m)' = Chain!Filled(m)
        BY <2>1 DEF Chain!Steps, Chain!Filled
    <2> QED
        BY <2>1, <2>2, <2>3, <1>1 DEF Chain!NothingMissed, Chain!Filled
<1>2. /\ Chain!Unlimited /\ Chain!Distinct /\ ~ disturbed /\ emitted = {} /\ ~ disturbed'
      /\ emitted' = {}
      /\ Chain!Quiet => /\ ~ Chain!Complete(Chain!Current)
                        /\ \A D \in SUBSET Chain!Steps :
                              Chain!Present(D, Len(order))
                                  => D \subseteq Chain!Filled(Chain!Current)
      /\ \A e \in Events :
            /\ pc[e] # "clear"
            /\ pc[e] \in {"advance", "finish"} => \A D \in SUBSET Chain!Steps :
                Chain!Present(D, Len(order)) =>
                    D \subseteq Chain!Filled(match[held[e]])
                        \cup (IF pc[e] = "advance" THEN {ready[e]} ELSE {})
    BY <1>1 DEF Chain!NothingMissed, Chain!Sound
<1>3. /\ \A e, f \in Events : Chain!Active(e) /\ Chain!Active(f) => e = f
      /\ \A e \in Events :
            /\ pc[e] = "advance" => Len(match[held[e]]) = taken[e]
            /\ pc[e] = "finish" /\ Chain!Linear => store = held[e]
      /\ ~ raced
    BY <1>2 DEF Chain!OneAtATime
<1>4. /\ \A e \in Events : pc[e] = "advance" => Chain!EntryReady(e)
      /\ \A e \in Events : \A i \in DOMAIN match[e] :
            /\ /\ match[e][i].step \in Chain!Steps
               /\ Chain!Justified(match[e], i, match[e][i].step)
            /\ Chain!Linear => match[e][i].step = i
    BY <1>3 DEF Chain!EntriesJustified
<1>5. ASSUME NEW e \in Events, Chain!Read(e)
      PROVE  /\ Chain!Quiet' => /\ ~ Chain!Complete(Chain!Current)'
                                /\ \A D \in SUBSET Chain!Steps :
                                      Chain!Present(D, Len(order))'
                                          => D \subseteq Chain!Filled(Chain!Current')
             /\ \A f \in Events :
                    /\ pc'[f] # "clear"
                    /\ pc'[f] \in {"advance", "finish"} => \A D \in SUBSET Chain!Steps :
                        Chain!Present(D, Len(order))' =>
                            D \subseteq Chain!Filled(match'[held'[f]])
                                \cup (IF pc'[f] = "advance" THEN {ready'[f]} ELSE {})
    <2> DEFINE s == Chain!NextStep(e, Chain!Current)
    <2>1. Chain!Quiet /\ order' = Append(order, e)
        BY <1>2, <1>5 DEF Chain!Read, Chain!Quiet
    <2>2. /\ Chain!Current \in Seq(Entries) /\ match'[held'[e]] = Chain!Current
          /\ Chain!Current' = Chain!Current
          /\ \A x \in Events \ {e} : pc'[x] = pc[x]
          /\ ready'[e] = s /\ pc'[e] = Chain!Decided(e, Chain!Current)
          /\ Chain!Current = <<>> \/ (store \in Events /\ Chain!Current = match[store])
        BY <1>2, <1>5, ReadFinds DEF Finds
    <2>3. Chain!Linear => \A i \in DOMAIN Chain!Current : Chain!Current[i].step = i
        BY <2>2, <1>4
    <2>4. ASSUME NEW D \in SUBSET Chain!Steps, Chain!Present(D, Len(order))'
          PROVE  \A t \in D : t \in Chain!Filled(Chain!Current) \/ (s # 0 /\ t = s)
        <3>1. rule \in Rules /\ order \in Seq(Events)
            BY DEF Chain!TypeOK
        <3>2. \A C \in SUBSET Chain!Steps : Chain!Present(C, Len(order))
                  => C \subseteq Chain!Filled(Chain!Current)
            BY <2>1, <1>2
        <3> QED
            BY <3>1, <3>2, <2>1, <2>2, <2>3, <2>4, <1>1, <1>2, FirstMatchMissesNone
    <2>5. Chain!Decided(e, Chain!Current) = IF s = 0 THEN "done" ELSE "advance"
        <3>1. ~ (rule.mode = "linear" /\ Len(Chain!Current) >= Len(rule.steps))
            BY <2>1, <1>2 DEF Chain!Complete
        <3>2. ~ Chain!Outlived(e, Chain!Current)
            BY <1>2 DEF Chain!Unlimited, Chain!Outlived
        <3>3. s # 0 => ~ Chain!TooLate(e, s, Chain!Current)
            <4>1. s # 0 => s \in Chain!Steps
                BY <2>2, NextStepFits DEF Fits, Chain!TypeOK
            <4> HIDE DEF s
            <4>2. \A t \in Chain!Steps : ~ (rule.steps[t].within > 0)
                BY <1>2 DEF Chain!Unlimited
            <4> QED
                BY <4>1, <4>2 DEF Chain!TooLate
        <3> QED
            BY <3>1, <3>2, <3>3 DEF Chain!Decided
    <2>6. Chain!Complete(Chain!Current)' <=> Chain!Complete(Chain!Current)
        BY <2>2, <1>1 DEF Chain!Complete, Chain!Steps, Chain!Filled
    <2> HIDE DEF s
    <2>7. ASSUME Chain!Quiet'
          PROVE  /\ ~ Chain!Complete(Chain!Current)'
                 /\ \A D \in SUBSET Chain!Steps :
                        Chain!Present(D, Len(order))' => D \subseteq Chain!Filled(Chain!Current')
        <3>1. s = 0
            BY <2>2, <2>5, <2>7 DEF Chain!Quiet, Chain!Active
        <3> QED
            BY <3>1, <2>1, <2>2, <2>4, <2>6, <1>2
    <2>8. ASSUME NEW f \in Events
          PROVE  /\ pc'[f] # "clear"
                 /\ pc'[f] \in {"advance", "finish"} => \A D \in SUBSET Chain!Steps :
                    Chain!Present(D, Len(order))' =>
                        D \subseteq Chain!Filled(match'[held'[f]])
                            \cup (IF pc'[f] = "advance" THEN {ready'[f]} ELSE {})
        <3>1. CASE f = e
            BY <3>1, <2>2, <2>4, <2>5
        <3>2. CASE f # e
            BY <3>2, <2>1, <2>2 DEF Chain!Quiet, Chain!Active
        <3> QED
            BY <3>1, <3>2
    <2> QED
        BY <2>7, <2>8
<1>6. ASSUME NEW e \in Events, Chain!Advance(e)
      PROVE  /\ Chain!Quiet' => /\ ~ Chain!Complete(Chain!Current)'
                                /\ \A D \in SUBSET Chain!Steps :
                                      Chain!Present(D, Len(order))'
                                          => D \subseteq Chain!Filled(Chain!Current')
             /\ \A f \in Events :
                    /\ pc'[f] # "clear"
                    /\ pc'[f] \in {"advance", "finish"} => \A D \in SUBSET Chain!Steps :
                        Chain!Present(D, Len(order))' =>
                            D \subseteq Chain!Filled(match'[held'[f]])
                                \cup (IF pc'[f] = "advance" THEN {ready'[f]} ELSE {})
    <2> DEFINE h == held[e]  m == match[h]
    <2>1. held' = held /\ order' = order
        BY <1>6 DEF Chain!Advance
    <2>2. PICK s \in Nat \ {0} :
            /\ s = IF Chain!Linear THEN Len(m) + 1 ELSE ready[e]
            /\ [step |-> s, event |-> e] \in Entries
            /\ match' = [match EXCEPT ![h] = Append(m, [step |-> s, event |-> e])]
        BY <1>6, AdvanceMakes
    <2>3. /\ h \in Events /\ m \in Seq(Entries) /\ pc[e] = "advance"
          /\ pc' = [pc EXCEPT ![e] = "finish"]
        BY <1>6, AdvanceMakes
    <2>4. s = ready[e]
        <3>1. Chain!EntryReady(e) /\ Len(m) = taken[e]
            BY <2>3, <1>3, <1>4
        <3> QED
            BY <3>1, <2>2 DEF Chain!EntryReady
    <2>5. match'[h] = Append(m, [step |-> s, event |-> e])
        BY <2>2, <2>3 DEF Chain!TypeOK
    <2>6. Chain!Filled(match'[h]) = Chain!Filled(m) \cup {s}
        <3>1. Chain!Filled(Append(m, [step |-> s, event |-> e]))
                  = Chain!Filled(m) \cup {[step |-> s, event |-> e].step}
            BY <2>2, <2>3, OneMore
        <3> QED
            BY <3>1, <2>5
    <2>7. pc'[e] = "finish" /\ \A x \in Events \ {e} : pc'[x] = pc[x] /\ ~ Chain!Active(x)
        BY <2>3, <1>3 DEF Chain!TypeOK, Chain!Active
    <2>8. ~ Chain!Quiet'
        BY <2>7 DEF Chain!Quiet, Chain!Active
    <2>9. \A D \in SUBSET Chain!Steps : Chain!Present(D, Len(order))'
              => D \subseteq Chain!Filled(m) \cup {s}
        BY <2>1, <2>3, <2>4, <1>1, <1>2, PresentSame
    <2> HIDE DEF m, h
    <2>10. held'[e] = h
        BY <2>1 DEF h
    <2>11. ASSUME NEW f \in Events
           PROVE  /\ pc'[f] # "clear"
                  /\ pc'[f] \in {"advance", "finish"} => \A D \in SUBSET Chain!Steps :
                    Chain!Present(D, Len(order))' =>
                        D \subseteq Chain!Filled(match'[held'[f]])
                            \cup (IF pc'[f] = "advance" THEN {ready'[f]} ELSE {})
        <3>1. CASE f = e
            BY <3>1, <2>6, <2>7, <2>9, <2>10
        <3>2. CASE f # e
            BY <3>2, <2>7 DEF Chain!Active
        <3> QED
            BY <3>1, <3>2
    <2> QED
        BY <2>8, <2>11
<1>7. ASSUME NEW e \in Events, Chain!Finish(e)
      PROVE  /\ Chain!Quiet' => /\ ~ Chain!Complete(Chain!Current)'
                                /\ \A D \in SUBSET Chain!Steps :
                                      Chain!Present(D, Len(order))'
                                          => D \subseteq Chain!Filled(Chain!Current')
             /\ \A f \in Events :
                    /\ pc'[f] # "clear"
                    /\ pc'[f] \in {"advance", "finish"} => \A D \in SUBSET Chain!Steps :
                        Chain!Present(D, Len(order))' =>
                            D \subseteq Chain!Filled(match'[held'[f]])
                                \cup (IF pc'[f] = "advance" THEN {ready'[f]} ELSE {})
    <2> DEFINE m == match[held[e]]
    <2>1. /\ match' = match /\ order' = order /\ pc[e] = "finish"
          /\ emitted' = IF Chain!Complete(m) THEN emitted \cup {m} ELSE emitted
          /\ store' = IF rule.mode = "dag" /\ ~ Chain!Complete(m) THEN held[e] ELSE store
          /\ pc' = [pc EXCEPT ![e] = IF Chain!Complete(m) THEN "clear" ELSE "done"]
        BY <1>2, <1>7, PutLeaves DEF Chain!Finish, Chain!Keep, Chain!TypeOK
    <2>2. ~ Chain!Complete(m)
        BY <2>1, <1>2
    <2>3. held[e] \in Events /\ held[e] # None
        BY <2>1 DEF Chain!HandsKnown, Chain!Active, ChainsAssumption, Chain!EventsAssumption
    <2>4. store' = held[e]
        <3>1. rule.mode = "dag" \/ Chain!Linear
            BY StepsAre DEF ChainsAssumption, Chain!TypeOK, Chain!Linear
        <3> QED
            BY <3>1, <2>1, <2>2, <1>3
    <2>5. Chain!Current' = m
        BY <2>1, <2>3, <2>4 DEF Chain!Current
    <2>6. \A D \in SUBSET Chain!Steps : Chain!Present(D, Len(order))'
              => D \subseteq Chain!Filled(m)
        BY <2>1, <1>1, <1>2, PresentSame
    <2>7. ~ Chain!Complete(Chain!Current)'
        BY <2>2, <2>5, <1>1 DEF Chain!Complete, Chain!Steps, Chain!Filled
    <2>8. pc'[e] = "done" /\ \A x \in Events \ {e} : pc'[x] = pc[x] /\ ~ Chain!Active(x)
        BY <2>1, <2>2, <1>3 DEF Chain!TypeOK, Chain!Active
    <2>9. \A f \in Events : pc'[f] \notin {"clear", "advance", "finish"}
        BY <2>8 DEF Chain!Active
    <2> QED
        BY <2>5, <2>6, <2>7, <2>9
<1>8. ASSUME NEW e \in Events PROVE ~ Chain!Clear(e)
    BY <1>2 DEF Chain!Clear
<1>9. ~ Chain!Expire
    BY <1>2 DEF Chain!Expire
<1> QED
    BY <1>5, <1>6, <1>7, <1>8, <1>9 DEF Chain!Next

\* The strengthening holds at first, ...
LEMMA ChainsInit ==
    ASSUME ChainsAssumption, Chain!Init
    PROVE  Chain!ChainsInv
<1>1. /\ rule \in Rules /\ kept \in {"memory", "valkey"} /\ at \in Clocks
      /\ store = None /\ emitted = {} /\ order = <<>> /\ raced = FALSE /\ disturbed = FALSE
      /\ match = [e \in Events |-> <<>>] /\ held = [e \in Events |-> None]
      /\ taken = [e \in Events |-> 0] /\ ready = [e \in Events |-> 0]
      /\ pc = [e \in Events |-> "idle"]
    BY DEF Chain!Init
<1>2. None \notin Events
    BY DEF ChainsAssumption, Chain!EventsAssumption
<1>3. <<>> \in Seq(Entries) /\ <<>> \in Seq(Events) /\ Len(<<>>) = 0 /\ DOMAIN <<>> = {}
    BY EmptySeq
<1>4. Chain!TypeOK
    <2>1. match \in [Events -> Seq(Entries)]
        BY <1>1, <1>3
    <2>2. \A e \in Events : \A i \in DOMAIN match[e] :
            match[e][i].event \in {order[k] : k \in DOMAIN order}
        BY <1>1, <1>3
    <2> QED
        BY <2>1, <2>2, <1>1, <1>3 DEF Chain!TypeOK, Entries
<1>5. Chain!HandsKnown
    BY <1>1, <1>2 DEF Chain!HandsKnown, Chain!Active
<1>6. Chain!EntriesJustified
    BY <1>1, <1>3 DEF Chain!EntriesJustified
<1>7. Chain!ChainsHonest /\ Chain!OneAtATime
    BY <1>1 DEF Chain!ChainsHonest, Chain!OneAtATime, Chain!Active
<1>8. Chain!NothingMissed
    <2>1. Len(rule.steps) \in Nat /\ Len(rule.steps) > 1 /\ Chain!Steps = 1..Len(rule.steps)
        BY <1>1, StepsAre DEF ChainsAssumption
    <2>2. Chain!Current = <<>> /\ Len(order) = 0
        BY <1>1, <1>3 DEF Chain!Current
    <2>3. Chain!Filled(Chain!Current) = {}
        BY <2>2, <1>3 DEF Chain!Filled
    <2>4. ~ Chain!Complete(Chain!Current)
        <3>1. 1 \in Chain!Steps
            BY <2>1
        <3> QED
            BY <3>1, <2>1, <2>2, <2>3, <1>3 DEF Chain!Complete
    <2>5. ASSUME NEW D \in SUBSET Chain!Steps, Chain!Present(D, Len(order)) PROVE D = {}
        <3>1. PICK f \in [D -> 1..0] : TRUE
            BY <2>2, <2>5 DEF Chain!Present
        <3>2. 1..0 = {}
            OBVIOUS
        <3> QED
            BY <3>1, <3>2
    <2> QED
        BY <2>3, <2>4, <2>5, <1>1 DEF Chain!NothingMissed
<1> QED
    BY <1>4, <1>5, <1>6, <1>7, <1>8 DEF Chain!ChainsInv

\* ... in each step, ...
LEMMA ChainsStep ==
    ASSUME ChainsAssumption, Chain!ChainsInv, [Chain!Next]_(Chain!vars)
    PROVE  Chain!ChainsInv'
<1>1. CASE Chain!Next
    BY <1>1, ChainsTypeStep, HandsStep, EntriesStep, HonestStep, OneAtATimeStep, MissedStep
       DEF Chain!ChainsInv
<1>2. CASE UNCHANGED Chain!vars
    <2>1. /\ rule' = rule /\ kept' = kept /\ at' = at /\ store' = store /\ match' = match
          /\ held' = held /\ taken' = taken /\ ready' = ready /\ pc' = pc /\ emitted' = emitted
          /\ order' = order /\ raced' = raced /\ disturbed' = disturbed
        BY <1>2 DEF Chain!vars
    <2>2. Chain!TypeOK'
        <3>1. \A m : Chain!Complete(m)' <=> Chain!Complete(m)
            BY <2>1 DEF Chain!Complete, Chain!Steps, Chain!Filled
        <3>2. \A m \in emitted' : Chain!Complete(m)'
            BY <3>1, <2>1 DEF Chain!ChainsInv, Chain!TypeOK
        <3> QED
            BY <3>2, <2>1 DEF Chain!ChainsInv, Chain!TypeOK
    <2>3. Chain!HandsKnown' /\ Chain!OneAtATime' /\ Chain!ChainsHonest'
        <3>1. Chain!HandsKnown' /\ Chain!OneAtATime'
            BY <2>1
               DEF Chain!ChainsInv, Chain!HandsKnown, Chain!OneAtATime, Chain!Active,
                   Chain!Linear
        <3>2. \A m : Chain!Genuine(m)' <=> Chain!Genuine(m)
            BY <2>1 DEF Chain!Genuine, Chain!Justified, Chain!Matches, Chain!Steps
        <3>3. \A m \in emitted' : (raced /\ rule.mode = "linear")' \/ Chain!Genuine(m)'
            BY <3>2, <2>1 DEF Chain!ChainsInv, Chain!ChainsHonest
        <3> QED
            BY <3>1, <3>3 DEF Chain!ChainsHonest
    <2>4. Chain!EntriesJustified'
        <3>1. Chain!Linear' = Chain!Linear /\ Chain!Steps' = Chain!Steps
            BY <2>1 DEF Chain!Linear, Chain!Steps
        <3>2. CASE raced /\ Chain!Linear
            BY <3>1, <3>2, <2>1 DEF Chain!EntriesJustified
        <3>3. CASE ~ (raced /\ Chain!Linear)
            <4>1. \A e \in Events : pc'[e] = "advance" => Chain!EntryReady(e)'
                BY <3>3, <2>1, ReadyStays DEF Chain!ChainsInv, Chain!EntriesJustified
            <4>2. \A e \in Events : \A i \in DOMAIN match'[e] :
                    /\ match'[e][i].step \in Chain!Steps
                    /\ Chain!Justified(match'[e], i, match'[e][i].step)
                    /\ Chain!Linear => match'[e][i].step = i
                BY <3>3, <2>1 DEF Chain!ChainsInv, Chain!EntriesJustified
            <4>3. (\A e \in Events : \A i \in DOMAIN match[e] :
                    /\ match[e][i].step \in Chain!Steps
                    /\ Chain!Justified(match[e], i, match[e][i].step)
                    /\ Chain!Linear => match[e][i].step = i)'
                BY <4>2, <3>1, <2>1, JustifiedStays
            <4> QED
                BY <4>1, <4>3 DEF Chain!EntriesJustified
        <3> QED
            BY <3>2, <3>3
    <2>5. Chain!NothingMissed'
        BY <2>1
           DEF Chain!ChainsInv, Chain!NothingMissed, Chain!Sound, Chain!Unlimited,
               Chain!Distinct, Chain!Quiet, Chain!Active, Chain!Complete, Chain!Current,
               Chain!Filled, Chain!Steps, Chain!Present, Chain!Before, Chain!Matches
    <2> QED
        BY <2>2, <2>3, <2>4, <2>5 DEF Chain!ChainsInv
<1> QED
    BY <1>1, <1>2

\* ... and implies that nothing is missed.
LEMMA DetectedFollows ==
    ASSUME ChainsAssumption, Chain!ChainsInv
    PROVE  Chain!ChainsDetected
<1>1. SUFFICES ASSUME Chain!Sound, Chain!Quiet, Chain!Present(Chain!Steps, Len(order))
               PROVE  FALSE
    BY DEF Chain!ChainsDetected, Chain!Sound
<1>2. ~ Chain!Complete(Chain!Current) /\ Chain!Steps \subseteq Chain!Filled(Chain!Current)
    BY <1>1 DEF Chain!ChainsInv, Chain!NothingMissed
<1>3. CASE Chain!Linear
    <2>1. Len(rule.steps) \in Nat /\ Len(rule.steps) > 1 /\ Chain!Steps = 1..Len(rule.steps)
        BY StepsAre DEF ChainsAssumption, Chain!ChainsInv, Chain!TypeOK
    <2>2. Chain!Current \in Seq(Entries) /\ \A i \in DOMAIN Chain!Current : Chain!Current[i].step
              = i
        <3>1. CASE store = None
            BY <3>1, EmptySeq DEF Chain!Current
        <3>2. CASE store # None
            <4>1. ~ raced
                BY <1>1 DEF Chain!ChainsInv, Chain!OneAtATime, Chain!Sound
            <4>2. store \in Events /\ Chain!Current = match[store]
                BY <3>2 DEF Chain!ChainsInv, Chain!TypeOK, Chain!Current
            <4> QED
                BY <4>1, <4>2, <1>3
                   DEF Chain!ChainsInv, Chain!TypeOK, Chain!EntriesJustified, Entries
        <3> QED
            BY <3>1, <3>2
    <2>3. Len(Chain!Current) \in Nat /\ DOMAIN Chain!Current = 1..Len(Chain!Current)
        BY <2>2
    <2>4. Len(rule.steps) \in Chain!Filled(Chain!Current)
        BY <2>1, <1>2
    <2>5. Len(rule.steps) \in 1..Len(Chain!Current)
        BY <2>2, <2>3, <2>4 DEF Chain!Filled
    <2>6. Len(Chain!Current) >= Len(rule.steps)
        BY <2>1, <2>3, <2>5
    <2> QED
        BY <2>6, <1>2, <1>3 DEF Chain!Complete, Chain!Linear
<1>4. CASE ~ Chain!Linear
    BY <1>2, <1>4 DEF Chain!Complete, Chain!Linear
<1> QED
    BY <1>3, <1>4

\* For any rule, whether its steps are in order or joined, any events with any timestamps,
\* and a store in memory or in Valkey: what fires the rule has every step of it, and events
\* that are processed one at a time miss none of its chains.
THEOREM ChainsKeptHolds ==
    ASSUME ChainsAssumption
    PROVE  Chain!Spec => [](Chain!TypeOK /\ Chain!ChainsHonest /\ Chain!ChainsDetected)
<1>1. Chain!Init => Chain!ChainsInv
    BY ChainsInit
<1>2. Chain!ChainsInv /\ [Chain!Next]_(Chain!vars) => Chain!ChainsInv'
    BY ChainsStep
<1>3. Chain!ChainsInv => Chain!TypeOK /\ Chain!ChainsHonest /\ Chain!ChainsDetected
    BY DetectedFollows DEF Chain!ChainsInv
<1> QED
    BY <1>1, <1>2, <1>3, PTL DEF Chain!Spec
=============================================================================
