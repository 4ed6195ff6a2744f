--------------------------- MODULE AnchorMigration ---------------------------
(***************************************************************************)
(* The upgrade that brings the anchor of the evidence chain (kya/          *)
(* invocations.py): ensure_invocations_table adds the columns              *)
(* evidence_row_count and evidence_row_count_signature where they are      *)
(* missing and, with the second one, signs the counts that are there.  It  *)
(* runs in the transaction of whoever calls it, several processes may boot *)
(* at once, and record_evidence and verify_chain (kya/evidence.py) meet    *)
(* one chain in every state of the schema.                                 *)
(*                                                                         *)
(* PostgreSQL keeps an ALTER, and its lock of the table, to the end of the *)
(* transaction; in MySQL an ALTER is there at once.                        *)
(***************************************************************************)
EXTENDS Integers, TLAPS

CONSTANTS
    Boots,      \* calls of ensure_invocations_table
    Dialects,   \* of postgresql and mysql
    MaxRows,    \* bound: rows of the chain
    MaxFaults,  \* bound: steps that fail, transactions that are not committed
    None

DialectsAssumption == Dialects \subseteq {"postgresql", "mysql"}
BoundsAssumption == MaxRows \in Nat /\ MaxFaults \in Nat /\ None \notin Nat \cup Boots

VARIABLES
    dialect,
    cols,       \* of "count" and "sig", those that everybody sees
    added,      \* those a boot's open transaction has added
    lock,       \* the boot whose ALTER locks the table
    pc,         \* where each boot is in ensure_invocations_table
    picked,     \* the count its backfill has read
    rows,       \* of the chain
    headed,     \* the first of them is a genesis row
    count,      \* evidence_row_count
    sig,        \* the count that evidence_row_count_signature signs
    adopted,    \* a chain without an anchor was written to under the new schema
    behind,     \* a row was written that the counter does not know
    skipped,    \* a count was left without its signature by a fault
    crossed,    \* a row was written between the backfill's SELECT and its UPDATE
    nulled,     \* the signature was set to NULL by hand, after the backfill has looked at
                \* it, and no row came after
    faults

schema == <<dialect, cols, added, lock>>
boots == <<pc, picked>>
chain == <<rows, headed, count, sig>>
history == <<adopted, behind, skipped, crossed, nulled, faults>>
vars == <<schema, boots, chain, history>>

Has(c) == c \in cols

\* A chain that old code has begun: before there were counts, or with them.
Begun ==
    \/ rows = 0 /\ ~ headed /\ count = None
    \/ rows = 2 /\ ~ headed /\ count = None
    \/ rows = 2 /\ headed /\ Has("count") /\ count = 2

Init ==
    /\ dialect \in Dialects
    /\ cols \in {{}, {"count"}, {"count", "sig"}}
    /\ rows \in 0..MaxRows /\ headed \in BOOLEAN /\ count \in 0..MaxRows \cup {None}
    /\ Begun
    /\ sig = IF Has("sig") THEN count ELSE None
    /\ added = [b \in Boots |-> {}]
    /\ lock = None
    /\ pc = [b \in Boots |-> "idle"]
    /\ picked = [b \in Boots |-> None]
    /\ adopted = FALSE /\ behind = FALSE /\ skipped = FALSE
    /\ crossed = FALSE /\ nulled = FALSE
    /\ faults = 0
-----------------------------------------------------------------------------
(* ensure_invocations_table                                                *)

Sees(b, c) == c \in cols \cup added[b]
Goto(b, step) == pc' = [pc EXCEPT ![b] = step]
Fault == faults < MaxFaults /\ faults' = faults + 1

\* The catalog is read without waiting for a lock; a column that is there is left alone.
ProbeCount(b) ==
    /\ pc[b] = "idle"
    /\ Goto(b, IF Sees(b, "count") THEN "probe" ELSE "add_count")
    /\ UNCHANGED <<schema, picked, chain, history>>

\* Seeded fault: whoever finds the column there signs what has no signature.
ProbeSigHeals(b) ==
    /\ pc[b] = "probe"
    /\ Goto(b, IF Sees(b, "sig") THEN "select" ELSE "add_sig")
    /\ UNCHANGED <<schema, picked, chain, history>>

ProbeSig(b) ==
    /\ pc[b] = "probe"
    /\ Goto(b, IF Sees(b, "sig") THEN "commit" ELSE "add_sig")
    /\ UNCHANGED <<schema, picked, chain, history>>

\* ALTER TABLE ADD COLUMN, if nobody else holds the table and nobody has added it since.
Alter(b, c, next, otherwise) ==
    /\ lock \in {None, b}
    /\ IF Has(c)
       THEN Goto(b, otherwise) /\ UNCHANGED <<cols, added, lock>>
       ELSE /\ Goto(b, next)
            /\ IF dialect = "mysql"
               THEN cols' = cols \cup {c} /\ UNCHANGED <<added, lock>>
               ELSE /\ added' = [added EXCEPT ![b] = @ \cup {c}]
                    /\ lock' = b
                    /\ UNCHANGED cols
    /\ UNCHANGED <<dialect, picked, chain>>

AddCount(b) == pc[b] = "add_count" /\ Alter(b, "count", "probe", "probe") /\ UNCHANGED history
AddSig(b) == pc[b] = "add_sig" /\ Alter(b, "sig", "select", "commit") /\ UNCHANGED history

\* Each step has its SAVEPOINT: one that fails is logged, and the next one is taken.
StepFails(b) ==
    /\ pc[b] \in {"add_count", "add_sig", "select"}
    /\ Fault
    /\ Goto(b, IF pc[b] = "add_count" THEN "probe" ELSE "commit")
    /\ skipped' = (skipped \/ (pc[b] = "select" /\ count # None /\ sig = None))
    /\ UNCHANGED <<schema, picked, chain, adopted, behind, crossed, nulled>>

\* The backfill, run only by who has added the column: what it reads first ...
BackfillSelect(b) ==
    /\ pc[b] = "select"
    /\ picked' = [picked EXCEPT ![b] = IF sig = None THEN count ELSE None]
    /\ Goto(b, "update")
    /\ UNCHANGED <<schema, chain, history>>

Ended(b) ==
    /\ added' = [added EXCEPT ![b] = {}]
    /\ lock' = IF lock = b THEN None ELSE lock

\* ... it signs afterwards, whatever the row holds by then; nobody meets the row before
\* the caller has committed, with its own write.
BackfillUpdate(b) ==
    /\ pc[b] = "update"
    /\ sig' = IF picked[b] = None THEN sig ELSE picked[b]
    /\ picked' = [picked EXCEPT ![b] = None]
    /\ cols' = cols \cup added[b]
    /\ Ended(b)
    /\ Goto(b, "done")
    /\ UNCHANGED <<dialect, rows, headed, count, adopted, behind, skipped, crossed, nulled,
                    faults>>

\* Without a backfill.
BootCommit(b) ==
    /\ pc[b] = "commit"
    /\ cols' = cols \cup added[b]
    /\ Ended(b)
    /\ Goto(b, "done")
    /\ UNCHANGED <<dialect, picked, chain, history>>

\* Or it rolls back or dies, and PostgreSQL with it; it may come again.
BootAborts(b) ==
    /\ pc[b] \notin {"idle", "done"}
    /\ Fault
    /\ skipped' = (skipped \/ (dialect = "mysql" /\ pc[b] \in {"select", "update"}
                                /\ count # None /\ sig = None))
    /\ Ended(b)
    /\ Goto(b, "idle")
    /\ picked' = [picked EXCEPT ![b] = None]
    /\ UNCHANGED <<dialect, cols, chain, adopted, behind, crossed, nulled>>
-----------------------------------------------------------------------------
(* record_evidence and verify_chain                                        *)

\* COALESCE(evidence_row_count, 0) + 1
Bump == IF count = None THEN 1 ELSE count + 1

\* One transaction of record_evidence: the genesis row if the chain is empty, else a row,
\* and the counter with its signature; where a column is missing only the row is kept.
RecordEvidence ==
    /\ rows < MaxRows /\ lock = None
    /\ rows' = rows + 1
    /\ headed' = (headed \/ rows = 0)
    /\ IF cols = {"count", "sig"}
       THEN /\ count' = Bump /\ sig' = Bump
            /\ adopted' = (adopted \/ (count = None /\ rows > 0))
            /\ crossed' = (\E b \in Boots : picked[b] # None)
            /\ skipped' = FALSE /\ nulled' = FALSE
            /\ UNCHANGED behind
       ELSE /\ behind' = TRUE
            /\ UNCHANGED <<count, sig, adopted, crossed, skipped, nulled>>
    /\ UNCHANGED <<schema, boots, faults>>

\* A boot has its backfill before it.
Signing == \E b \in Boots : pc[b] = "select" \/ picked[b] # None

\* A signature is set to NULL in the table; in MySQL that can be before the backfill, which
\* cannot tell it from one that was never there.
NullSignature ==
    /\ Has("sig") /\ sig # None
    /\ sig' = None /\ nulled' = (nulled \/ ~ Signing)
    /\ UNCHANGED <<schema, boots, rows, headed, count, adopted, behind, skipped, crossed, faults>>

\* verify_chain of an untouched chain.  A column that is missing aborts PostgreSQL's
\* transaction; elsewhere the count is read alone.
Verdict ==
    IF ~ Has("sig") /\ dialect = "postgresql" THEN "raises"
    ELSE IF ~ Has("count") \/ count = None THEN "valid"
    ELSE IF sig = None THEN "signature missing"
    ELSE IF sig # count THEN "signature invalid"
    ELSE IF rows # count THEN "rows deleted"
    ELSE IF ~ headed THEN "no genesis"
    ELSE "valid"

Next ==
    \/ \E b \in Boots :
        \/ ProbeCount(b) \/ AddCount(b) \/ ProbeSig(b) \/ AddSig(b) \/ StepFails(b)
        \/ BackfillSelect(b) \/ BackfillUpdate(b) \/ BootCommit(b) \/ BootAborts(b)
    \/ RecordEvidence \/ NullSignature

Spec == Init /\ [][Next]_vars
-----------------------------------------------------------------------------
TypeOK ==
    /\ dialect \in Dialects /\ cols \subseteq {"count", "sig"}
    /\ added \in [Boots -> SUBSET {"count", "sig"}] /\ lock \in Boots \cup {None}
    /\ pc \in [Boots -> {"idle", "add_count", "probe", "add_sig", "select", "update",
                         "commit", "done"}]
    /\ picked \in [Boots -> Nat \cup {None}]
    /\ rows \in 0..MaxRows /\ headed \in BOOLEAN
    /\ count \in 0..MaxRows \cup {None} /\ sig \in 0..MaxRows \cup {None}
    /\ {adopted, behind, skipped, crossed, nulled} \subseteq BOOLEAN
    /\ faults \in 0..MaxFaults

\* Once both columns are there, verify_chain refuses a chain nobody has touched only if it
\* was begun before the anchor and has grown since, if it has grown while a column was
\* missing, if a signature was nulled, and in MySQL while or because the backfill was cut
\* short or overtaken: neither boots that race nor one that rolls back do harm.
AlarmsExplained ==
    (cols = {"count", "sig"} /\ Verdict # "valid") =>
        \/ adopted \/ behind \/ nulled
        \/ skipped
        \/ dialect = "mysql" /\ (crossed \/ \E b \in Boots : pc[b] \in {"select", "update"})

\* No boot ever gives back a signature that was nulled once the backfill had looked at it,
\* whoever boots again and whatever failed before; only the next record_evidence does.
NulledStays == nulled => sig = None

AnchorKept == AlarmsExplained /\ NulledStays

\* verify_chain's docstring: legacy chains leave the count NULL and fall back to the walk.
LegacyFallsBack == (adopted /\ ~ behind /\ ~ nulled) => Verdict = "valid"
-----------------------------------------------------------------------------
(* Why it is kept, for any number of boots, rows and faults.               *)

\* No count is ahead of the rows, neither signed nor picked.
CountsFit ==
    /\ count = None \/ count <= rows
    /\ sig = None \/ sig <= rows
    /\ \A b \in Boots : picked[b] = None \/ (picked[b] <= rows /\ pc[b] = "update")

\* A column that a transaction has added is its own until it commits; the backfill is run
\* by who has added the second one, and by nobody else.
Signs(b) == pc[b] \in {"select", "update"}
OneSigner ==
    /\ \A b \in Boots : added[b] # {} => lock = b /\ dialect # "mysql"
    /\ \A b \in Boots : "sig" \in added[b] =>
        ~ Has("sig") /\ (Signs(b) \/ pc[b] = "commit")
    /\ \A b \in Boots : Signs(b) =>
        IF dialect = "mysql" THEN Has("sig") ELSE "sig" \in added[b]
    /\ \A b, o \in Boots : Signs(b) /\ Signs(o) => b = o
    /\ ~ Has("sig") => sig = None

\* A chain with a count is as long as its count, and has its genesis row.
CountMatches == count = None \/ adopted \/ behind \/ (rows = count /\ headed)

\* What a backfill has read is the count, unless MySQL let a row overtake it; a
\* transaction that keeps the column and has left the count unsigned is known.
PickedFits ==
    \A b \in Boots :
        /\ picked[b] # None => picked[b] = count \/ (dialect = "mysql" /\ crossed)
        /\ (pc[b] = "update" /\ picked[b] = None /\ dialect # "mysql") => count = None
        /\ ("sig" \in added[b] /\ pc[b] = "commit") => (skipped \/ count = None)

\* A signature that was nulled stays so: no backfill is left that could read the count.
NulledUnsigned ==
    nulled => Has("sig") /\ sig = None /\ \A b \in Boots : pc[b] # "select" /\ picked[b] = None

\* A count without its signature is accounted for, or a backfill is about to sign it.
Pending(b) == sig = None /\ (pc[b] = "select" \/ picked[b] # None)
SignatureMatches ==
    (Has("sig") /\ count # None /\ sig # count) =>
        \/ nulled \/ skipped
        \/ dialect = "mysql" /\ (crossed \/ \E b \in Boots : Pending(b))

AnchorMigrationInv ==
    /\ CountsFit /\ OneSigner /\ CountMatches
    /\ PickedFits /\ NulledUnsigned /\ SignatureMatches
-----------------------------------------------------------------------------

\* What a row adds: where both columns are there it is counted and the count signed.
IsCounted ==
    /\ Has("sig") /\ count' = Bump /\ sig' = Bump
    /\ adopted' = (adopted \/ (count = None /\ rows > 0))
    /\ crossed' = (\E b \in Boots : picked[b] # None)
    /\ skipped' = FALSE /\ nulled' = FALSE /\ behind' = behind
IsUncounted ==
    /\ behind' = TRUE /\ count' = count /\ sig' = sig /\ adopted' = adopted
    /\ crossed' = crossed /\ skipped' = skipped /\ nulled' = nulled

LEMMA Counted ==
    ASSUME BoundsAssumption, TypeOK, CountsFit, RecordEvidence
    PROVE  /\ rows' = rows + 1 /\ rows' \in 0..MaxRows /\ headed' = (headed \/ rows = 0)
           /\ lock = None /\ dialect' = dialect /\ cols' = cols /\ added' = added
           /\ lock' = lock /\ pc' = pc /\ picked' = picked /\ faults' = faults
           /\ Bump \in 0..rows'
           /\ IsCounted \/ IsUncounted
<1>1. /\ rows' = rows + 1 /\ rows' \in 0..MaxRows /\ headed' = (headed \/ rows = 0)
      /\ lock = None /\ dialect' = dialect /\ cols' = cols /\ added' = added
      /\ lock' = lock /\ pc' = pc /\ picked' = picked /\ faults' = faults
  BY DEF RecordEvidence, TypeOK, BoundsAssumption, schema, boots
<1>2. Bump \in 0..rows'
  BY <1>1 DEF Bump, CountsFit, TypeOK, BoundsAssumption
<1>3. CASE cols = {"count", "sig"}
  <2>1. Has("sig")
    BY <1>3 DEF Has
  <2>2. IsCounted
    BY <1>3, <2>1 DEF RecordEvidence, IsCounted
  <2>3. QED
    BY <1>1, <1>2, <2>2
<1>4. CASE cols # {"count", "sig"}
  <2>1. IsUncounted
    BY <1>4 DEF RecordEvidence, IsUncounted
  <2>2. QED
    BY <1>1, <1>2, <2>1
<1>5. QED
  BY <1>3, <1>4

\* The types are kept.
LEMMA AnchorTypeStep ==
    ASSUME BoundsAssumption, TypeOK, AnchorMigrationInv, [Next]_vars
    PROVE  TypeOK'
<1> USE DEF BoundsAssumption, TypeOK, AnchorMigrationInv, CountsFit,
            Has, Signs, vars, schema, boots, chain, history
<1>1. ASSUME NEW b \in Boots,
             \/ ProbeCount(b) \/ AddCount(b) \/ ProbeSig(b) \/ AddSig(b) \/ StepFails(b)
             \/ BackfillSelect(b) \/ BackfillUpdate(b) \/ BootCommit(b) \/ BootAborts(b)
      PROVE  TypeOK'
  <2>1. CASE ProbeCount(b)
    BY <2>1 DEF ProbeCount, Goto, Sees
  <2>2. CASE AddCount(b)
    <3>1. added' \in [Boots -> SUBSET {"count", "sig"}]
      <4>1. added' = added \/ added' = [added EXCEPT ![b] = @ \cup {"count"}]
        BY <2>2 DEF AddCount, Alter
      <4>2. QED
        BY <4>1
    <3>2. cols' \subseteq {"count", "sig"} /\ lock' \in Boots \cup {None}
      BY <2>2 DEF AddCount, Alter
    <3>3. pc' \in [Boots -> {"idle", "add_count", "probe", "add_sig", "select", "update",
                              "commit", "done"}]
      BY <2>2 DEF AddCount, Alter, Goto
    <3>4. QED
      BY <2>2, <3>1, <3>2, <3>3 DEF AddCount, Alter
  <2>3. CASE ProbeSig(b)
    BY <2>3 DEF ProbeSig, Goto, Sees
  <2>4. CASE AddSig(b)
    <3>1. added' \in [Boots -> SUBSET {"count", "sig"}]
      <4>1. added' = added \/ added' = [added EXCEPT ![b] = @ \cup {"sig"}]
        BY <2>4 DEF AddSig, Alter
      <4>2. QED
        BY <4>1
    <3>2. cols' \subseteq {"count", "sig"} /\ lock' \in Boots \cup {None}
      BY <2>4 DEF AddSig, Alter
    <3>3. pc' \in [Boots -> {"idle", "add_count", "probe", "add_sig", "select", "update",
                              "commit", "done"}]
      BY <2>4 DEF AddSig, Alter, Goto
    <3>4. QED
      BY <2>4, <3>1, <3>2, <3>3 DEF AddSig, Alter
  <2>5. CASE StepFails(b)
    BY <2>5 DEF StepFails, Fault, Goto
  <2>6. CASE BackfillSelect(b)
    BY <2>6 DEF BackfillSelect, Goto
  <2>7. CASE BackfillUpdate(b)
    <3>1. sig' \in 0..MaxRows \cup {None}
      BY <2>7 DEF BackfillUpdate
    <3>2. cols' \subseteq {"count", "sig"}
      BY <2>7 DEF BackfillUpdate
    <3>3. QED
      BY <2>7, <3>1, <3>2 DEF BackfillUpdate, Ended, Goto
  <2>8. CASE BootCommit(b)
    BY <2>8 DEF BootCommit, Ended, Goto
  <2>9. CASE BootAborts(b)
    BY <2>9 DEF BootAborts, Fault, Ended, Goto
  <2>10. QED
    BY <1>1, <2>1, <2>2, <2>3, <2>4, <2>5, <2>6, <2>7, <2>8, <2>9
<1>2. CASE RecordEvidence
  <2>1. rows' \in 0..MaxRows
    BY <1>2, Counted
  <2>2. count' \in 0..MaxRows \cup {None} /\ sig' \in 0..MaxRows \cup {None}
    <3>1. Bump \in 0..MaxRows
      BY <1>2, <2>1, Counted
    <3>2. QED
      BY <1>2, <3>1, Counted DEF IsCounted, IsUncounted
  <2>3. {adopted, behind, skipped, crossed, nulled}' \subseteq BOOLEAN
    BY <1>2, Counted DEF IsCounted, IsUncounted
  <2>4. headed' \in BOOLEAN
    BY <1>2, Counted
  <2>5. QED
    BY <1>2, <2>1, <2>2, <2>3, <2>4, Counted
<1>3. CASE NullSignature
  BY <1>3 DEF NullSignature, Signing
<1>4. CASE UNCHANGED vars
  BY <1>4
<1>5. QED
  BY <1>1, <1>2, <1>3, <1>4 DEF Next

\* Counts stay within the rows.
LEMMA CountsFitStep ==
    ASSUME BoundsAssumption, TypeOK, AnchorMigrationInv, [Next]_vars
    PROVE  CountsFit'
<1> USE DEF BoundsAssumption, TypeOK, AnchorMigrationInv, CountsFit,
            Has, Signs, vars, schema, boots, chain, history
<1>1. ASSUME NEW b \in Boots,
             \/ ProbeCount(b) \/ AddCount(b) \/ ProbeSig(b) \/ AddSig(b) \/ StepFails(b)
             \/ BackfillSelect(b) \/ BackfillUpdate(b) \/ BootCommit(b) \/ BootAborts(b)
      PROVE  CountsFit'
  <2>1. CASE ProbeCount(b)
    BY <2>1 DEF ProbeCount, Goto, Sees
  <2>2. CASE AddCount(b)
    BY <2>2 DEF AddCount, Alter, Goto
  <2>3. CASE ProbeSig(b)
    BY <2>3 DEF ProbeSig, Goto, Sees
  <2>4. CASE AddSig(b)
    BY <2>4 DEF AddSig, Alter, Goto
  <2>5. CASE StepFails(b)
    BY <2>5 DEF StepFails, Fault, Goto
  <2>6. CASE BackfillSelect(b)
    BY <2>6 DEF BackfillSelect, Goto
  <2>7. CASE BackfillUpdate(b)
    BY <2>7 DEF BackfillUpdate, Ended, Goto
  <2>8. CASE BootCommit(b)
    BY <2>8 DEF BootCommit, Ended, Goto
  <2>9. CASE BootAborts(b)
    BY <2>9 DEF BootAborts, Fault, Ended, Goto
  <2>10. QED
    BY <1>1, <2>1, <2>2, <2>3, <2>4, <2>5, <2>6, <2>7, <2>8, <2>9
<1>2. CASE RecordEvidence
  <2>1. CASE IsCounted
    <3>1. count' <= rows' /\ sig' <= rows'
      <4>1. Bump \in 0..rows'
        BY <1>2, Counted
      <4>2. Bump <= rows'
        BY <4>1
      <4>3. QED
        BY <2>1, <4>2 DEF IsCounted
    <3>2. ASSUME NEW b \in Boots, picked[b] # None
          PROVE  picked'[b] <= rows' /\ pc'[b] = "update"
      <4>1. picked[b] <= rows /\ pc[b] = "update" /\ picked[b] \in Nat /\ rows \in Nat
        BY <3>2
      <4>2. QED
        BY <1>2, <4>1, Counted
    <3>3. picked' = picked
      BY <1>2, Counted
    <3>4. QED
      BY <3>1, <3>2, <3>3
  <2>2. CASE IsUncounted
    BY <1>2, <2>2, Counted DEF IsUncounted
  <2>3. QED
    BY <1>2, <2>1, <2>2, Counted
<1>3. CASE NullSignature
  BY <1>3 DEF NullSignature, Signing
<1>4. CASE UNCHANGED vars
  BY <1>4
<1>5. QED
  BY <1>1, <1>2, <1>3, <1>4 DEF Next

\* At most one boot has the backfill before it.
LEMMA OneSignerStep ==
    ASSUME BoundsAssumption, TypeOK, AnchorMigrationInv, [Next]_vars
    PROVE  OneSigner'
<1> USE DEF BoundsAssumption, TypeOK, AnchorMigrationInv, OneSigner,
            Has, Signs, vars, schema, boots, chain, history
<1>1. ASSUME NEW b \in Boots,
             \/ ProbeCount(b) \/ AddCount(b) \/ ProbeSig(b) \/ AddSig(b) \/ StepFails(b)
             \/ BackfillSelect(b) \/ BackfillUpdate(b) \/ BootCommit(b) \/ BootAborts(b)
      PROVE  OneSigner'
  <2>1. CASE ProbeCount(b)
    BY <2>1 DEF ProbeCount, Goto, Sees
  <2>2. CASE AddCount(b)
    BY <2>2 DEF AddCount, Alter, Goto
  <2>3. CASE ProbeSig(b)
    BY <2>3 DEF ProbeSig, Goto, Sees
  <2>4. CASE AddSig(b)
    BY <2>4 DEF AddSig, Alter, Goto
  <2>5. CASE StepFails(b)
    BY <2>5 DEF StepFails, Fault, Goto
  <2>6. CASE BackfillSelect(b)
    BY <2>6 DEF BackfillSelect, Goto
  <2>7. CASE BackfillUpdate(b)
    BY <2>7 DEF BackfillUpdate, Ended, Goto
  <2>8. CASE BootCommit(b)
    BY <2>8 DEF BootCommit, Ended, Goto
  <2>9. CASE BootAborts(b)
    BY <2>9 DEF BootAborts, Fault, Ended, Goto
  <2>10. QED
    BY <1>1, <2>1, <2>2, <2>3, <2>4, <2>5, <2>6, <2>7, <2>8, <2>9
<1>2. CASE RecordEvidence
  <2>1. CASE IsCounted
    BY <1>2, <2>1, Counted DEF IsCounted, Bump
  <2>2. CASE IsUncounted
    BY <1>2, <2>2, Counted DEF IsUncounted
  <2>3. QED
    BY <1>2, <2>1, <2>2, Counted
<1>3. CASE NullSignature
  BY <1>3 DEF NullSignature, Signing
<1>4. CASE UNCHANGED vars
  BY <1>4
<1>5. QED
  BY <1>1, <1>2, <1>3, <1>4 DEF Next

\* The count keeps up with the rows.
LEMMA CountMatchesStep ==
    ASSUME BoundsAssumption, TypeOK, AnchorMigrationInv, [Next]_vars
    PROVE  CountMatches'
<1> USE DEF BoundsAssumption, TypeOK, AnchorMigrationInv, CountMatches,
            Has, Signs, vars, schema, boots, chain, history
<1>1. ASSUME NEW b \in Boots,
             \/ ProbeCount(b) \/ AddCount(b) \/ ProbeSig(b) \/ AddSig(b) \/ StepFails(b)
             \/ BackfillSelect(b) \/ BackfillUpdate(b) \/ BootCommit(b) \/ BootAborts(b)
      PROVE  CountMatches'
  <2>1. CASE ProbeCount(b)
    BY <2>1 DEF ProbeCount, Goto, Sees
  <2>2. CASE AddCount(b)
    BY <2>2 DEF AddCount, Alter, Goto
  <2>3. CASE ProbeSig(b)
    BY <2>3 DEF ProbeSig, Goto, Sees
  <2>4. CASE AddSig(b)
    BY <2>4 DEF AddSig, Alter, Goto
  <2>5. CASE StepFails(b)
    BY <2>5 DEF StepFails, Fault, Goto
  <2>6. CASE BackfillSelect(b)
    BY <2>6 DEF BackfillSelect, Goto
  <2>7. CASE BackfillUpdate(b)
    BY <2>7 DEF BackfillUpdate, Ended, Goto
  <2>8. CASE BootCommit(b)
    BY <2>8 DEF BootCommit, Ended, Goto
  <2>9. CASE BootAborts(b)
    BY <2>9 DEF BootAborts, Fault, Ended, Goto
  <2>10. QED
    BY <1>1, <2>1, <2>2, <2>3, <2>4, <2>5, <2>6, <2>7, <2>8, <2>9
<1>2. CASE RecordEvidence
  <2>1. CASE IsCounted
    <3>1. rows \in Nat /\ count \in Nat \cup {None}
      OBVIOUS
    <3>2. CASE count = None
      <4>1. Bump = 1 /\ rows' = rows + 1 /\ headed' = (headed \/ rows = 0)
        BY <1>2, <3>2, Counted DEF Bump
      <4>2. CASE rows = 0
        <5>1. rows' = 1 /\ count' = 1
          BY <2>1, <4>1, <4>2 DEF IsCounted
        <5>2. headed' = TRUE
          BY <4>1, <4>2
        <5>3. QED
          BY <5>1, <5>2
      <4>3. CASE rows # 0
        <5>1. adopted'
          <6>1. rows > 0
            BY <3>1, <4>3
          <6>2. QED
            BY <2>1, <3>2, <6>1, Zenon DEF IsCounted
        <5>2. QED
          BY <5>1
      <4>4. QED
        BY <4>2, <4>3
    <3>3. CASE count # None
      BY <1>2, <2>1, <3>1, <3>3, Counted DEF IsCounted, Bump
    <3>4. QED
      BY <3>2, <3>3
  <2>2. CASE IsUncounted
    BY <1>2, <2>2, Counted DEF IsUncounted
  <2>3. QED
    BY <1>2, <2>1, <2>2, Counted
<1>3. CASE NullSignature
  BY <1>3 DEF NullSignature, Signing
<1>4. CASE UNCHANGED vars
  BY <1>4
<1>5. QED
  BY <1>1, <1>2, <1>3, <1>4 DEF Next

\* What a backfill has read stays the count.
LEMMA PickedFitsStep ==
    ASSUME BoundsAssumption, TypeOK, AnchorMigrationInv, [Next]_vars
    PROVE  PickedFits'
<1> USE DEF BoundsAssumption, TypeOK, AnchorMigrationInv, CountsFit, OneSigner, PickedFits,
            Has, Signs, vars, schema, boots, chain, history
<1>1. ASSUME NEW b \in Boots,
             \/ ProbeCount(b) \/ AddCount(b) \/ ProbeSig(b) \/ AddSig(b) \/ StepFails(b)
             \/ BackfillSelect(b) \/ BackfillUpdate(b) \/ BootCommit(b) \/ BootAborts(b)
      PROVE  PickedFits'
  <2>1. CASE ProbeCount(b)
    BY <2>1 DEF ProbeCount, Goto, Sees
  <2>2. CASE AddCount(b)
    BY <2>2 DEF AddCount, Alter, Goto
  <2>3. CASE ProbeSig(b)
    BY <2>3 DEF ProbeSig, Goto, Sees
  <2>4. CASE AddSig(b)
    BY <2>4 DEF AddSig, Alter, Goto
  <2>5. CASE StepFails(b)
    BY <2>5 DEF StepFails, Fault, Goto
  <2>6. CASE BackfillSelect(b)
    BY <2>6 DEF BackfillSelect, Goto
  <2>7. CASE BackfillUpdate(b)
    BY <2>7 DEF BackfillUpdate, Ended, Goto
  <2>8. CASE BootCommit(b)
    BY <2>8 DEF BootCommit, Ended, Goto
  <2>9. CASE BootAborts(b)
    BY <2>9 DEF BootAborts, Fault, Ended, Goto
  <2>10. QED
    BY <1>1, <2>1, <2>2, <2>3, <2>4, <2>5, <2>6, <2>7, <2>8, <2>9
<1>2. CASE RecordEvidence
  <2>0. \A b \in Boots : Signs(b) \/ "sig" \in added[b] => dialect = "mysql"
    BY <1>2, Counted
  <2>1. CASE IsCounted
    BY <1>2, <2>0, <2>1, Counted DEF IsCounted
  <2>2. CASE IsUncounted
    BY <1>2, <2>2, Counted DEF IsUncounted
  <2>3. QED
    BY <1>2, <2>1, <2>2, Counted
<1>3. CASE NullSignature
  BY <1>3 DEF NullSignature, Signing
<1>4. CASE UNCHANGED vars
  BY <1>4
<1>5. QED
  BY <1>1, <1>2, <1>3, <1>4 DEF Next

\* A nulled signature stays NULL.
LEMMA NulledStep ==
    ASSUME BoundsAssumption, TypeOK, AnchorMigrationInv, [Next]_vars
    PROVE  NulledUnsigned'
<1> USE DEF BoundsAssumption, TypeOK, AnchorMigrationInv, CountsFit, OneSigner, NulledUnsigned,
            Has, Signs, vars, schema, boots, chain, history
<1>1. ASSUME NEW b \in Boots,
             \/ ProbeCount(b) \/ AddCount(b) \/ ProbeSig(b) \/ AddSig(b) \/ StepFails(b)
             \/ BackfillSelect(b) \/ BackfillUpdate(b) \/ BootCommit(b) \/ BootAborts(b)
      PROVE  NulledUnsigned'
  <2>1. CASE ProbeCount(b)
    BY <2>1 DEF ProbeCount, Goto, Sees
  <2>2. CASE AddCount(b)
    BY <2>2 DEF AddCount, Alter, Goto
  <2>3. CASE ProbeSig(b)
    BY <2>3 DEF ProbeSig, Goto, Sees
  <2>4. CASE AddSig(b)
    BY <2>4 DEF AddSig, Alter, Goto
  <2>5. CASE StepFails(b)
    BY <2>5 DEF StepFails, Fault, Goto
  <2>6. CASE BackfillSelect(b)
    BY <2>6 DEF BackfillSelect, Goto
  <2>7. CASE BackfillUpdate(b)
    BY <2>7 DEF BackfillUpdate, Ended, Goto
  <2>8. CASE BootCommit(b)
    BY <2>8 DEF BootCommit, Ended, Goto
  <2>9. CASE BootAborts(b)
    BY <2>9 DEF BootAborts, Fault, Ended, Goto
  <2>10. QED
    BY <1>1, <2>1, <2>2, <2>3, <2>4, <2>5, <2>6, <2>7, <2>8, <2>9
<1>2. CASE RecordEvidence
  <2>1. CASE IsCounted
    BY <1>2, <2>1, Counted DEF IsCounted, Bump
  <2>2. CASE IsUncounted
    BY <1>2, <2>2, Counted DEF IsUncounted
  <2>3. QED
    BY <1>2, <2>1, <2>2, Counted
<1>3. CASE NullSignature
  BY <1>3 DEF NullSignature, Signing
<1>4. CASE UNCHANGED vars
  BY <1>4
<1>5. QED
  BY <1>1, <1>2, <1>3, <1>4 DEF Next

\* A count stays signed, or accounted for.
LEMMA SignatureStep ==
    ASSUME BoundsAssumption, TypeOK, AnchorMigrationInv, [Next]_vars
    PROVE  SignatureMatches'
<1> USE DEF BoundsAssumption, TypeOK, AnchorMigrationInv, CountsFit, OneSigner, PickedFits, NulledUnsigned, SignatureMatches, Pending,
            Has, Signs, vars, schema, boots, chain, history
<1>1. ASSUME NEW b \in Boots,
             \/ ProbeCount(b) \/ AddCount(b) \/ ProbeSig(b) \/ AddSig(b) \/ StepFails(b)
             \/ BackfillSelect(b) \/ BackfillUpdate(b) \/ BootCommit(b) \/ BootAborts(b)
      PROVE  SignatureMatches'
  <2>1. CASE ProbeCount(b)
    BY <2>1 DEF ProbeCount, Goto, Sees
  <2>2. CASE AddCount(b)
    BY <2>2 DEF AddCount, Alter, Goto
  <2>3. CASE ProbeSig(b)
    BY <2>3 DEF ProbeSig, Goto, Sees
  <2>4. CASE AddSig(b)
    BY <2>4 DEF AddSig, Alter, Goto
  <2>5. CASE StepFails(b)
    BY <2>5 DEF StepFails, Fault, Goto
  <2>6. CASE BackfillSelect(b)
    BY <2>6 DEF BackfillSelect, Goto
  <2>7. CASE BackfillUpdate(b)
    BY <2>7 DEF BackfillUpdate, Ended, Goto
  <2>8. CASE BootCommit(b)
    BY <2>8 DEF BootCommit, Ended, Goto
  <2>9. CASE BootAborts(b)
    <3>1. dialect' = dialect /\ cols' = cols /\ count' = count /\ sig' = sig
      BY <2>9 DEF BootAborts
    <3>2. nulled' = nulled /\ crossed' = crossed
          /\ skipped' = (skipped \/ (dialect = "mysql" /\ pc[b] \in {"select", "update"}
                                       /\ count # None /\ sig = None))
      BY <2>9 DEF BootAborts
    <3>3. \A o \in Boots \ {b} : pc'[o] = pc[o] /\ picked'[o] = picked[o]
      BY <2>9 DEF BootAborts, Goto
    <3>4. QED
      BY <3>1, <3>2, <3>3
  <2>10. QED
    BY <1>1, <2>1, <2>2, <2>3, <2>4, <2>5, <2>6, <2>7, <2>8, <2>9
<1>2. CASE RecordEvidence
  <2>1. CASE IsCounted
    BY <1>2, <2>1, Counted DEF IsCounted, Bump
  <2>2. CASE IsUncounted
    BY <1>2, <2>2, Counted DEF IsUncounted
  <2>3. QED
    BY <1>2, <2>1, <2>2, Counted
<1>3. CASE NullSignature
  BY <1>3 DEF NullSignature, Signing
<1>4. CASE UNCHANGED vars
  BY <1>4
<1>5. QED
  BY <1>1, <1>2, <1>3, <1>4 DEF Next

\* AnchorKept holds for any number of boots, rows and faults: ...
THEOREM AnchorKeptHolds ==
    ASSUME DialectsAssumption, BoundsAssumption
    PROVE  Spec => []AnchorKept
<1>1. Init => TypeOK /\ AnchorMigrationInv
  <2> SUFFICES ASSUME Init PROVE TypeOK /\ AnchorMigrationInv
    OBVIOUS
  <2>1. TypeOK
    <3>1. sig \in 0..MaxRows \cup {None} /\ cols \subseteq {"count", "sig"}
      BY DEF Init
    <3>2. /\ added \in [Boots -> SUBSET {"count", "sig"}] /\ lock \in Boots \cup {None}
          /\ pc \in [Boots -> {"idle", "add_count", "probe", "add_sig", "select",
                               "update", "commit", "done"}]
          /\ picked \in [Boots -> Nat \cup {None}]
      BY DEF Init
    <3>3. {adopted, behind, skipped, crossed, nulled} \subseteq BOOLEAN
      BY DEF Init
    <3>4. faults \in 0..MaxFaults
      BY BoundsAssumption DEF Init, BoundsAssumption
    <3>5. QED
      BY <3>1, <3>2, <3>3, <3>4 DEF Init, TypeOK
  <2>2. CountsFit /\ CountMatches
    BY BoundsAssumption DEF Init, Begun, BoundsAssumption, CountsFit, CountMatches
  <2>3. OneSigner
    BY DEF Init, OneSigner, Signs, Has
  <2>4. PickedFits /\ NulledUnsigned
    BY DEF Init, PickedFits, NulledUnsigned
  <2>5. SignatureMatches
    BY DEF Init, SignatureMatches, Has
  <2>6. QED
    BY <2>1, <2>2, <2>3, <2>4, <2>5 DEF AnchorMigrationInv
<1>2. TypeOK /\ AnchorMigrationInv /\ [Next]_vars => (TypeOK /\ AnchorMigrationInv)'
  BY AnchorTypeStep, CountsFitStep, OneSignerStep, CountMatchesStep, PickedFitsStep,
     NulledStep, SignatureStep DEF AnchorMigrationInv
<1>3. TypeOK /\ AnchorMigrationInv => AnchorKept
  <2> SUFFICES ASSUME TypeOK, AnchorMigrationInv PROVE AnchorKept
    OBVIOUS
  <2>1. AlarmsExplained
    BY DialectsAssumption DEF DialectsAssumption, TypeOK, AnchorMigrationInv, AlarmsExplained, Verdict,
       Has, Signs, Pending, CountsFit, CountMatches, SignatureMatches
  <2>2. NulledStays
    BY DEF AnchorMigrationInv, NulledUnsigned, NulledStays
  <2>3. QED
    BY <2>1, <2>2 DEF AnchorKept
<1>4. QED
  BY <1>1, <1>2, <1>3, PTL DEF Spec
=============================================================================
