--------------------------- MODULE EvidenceChain ---------------------------
(***************************************************************************)
(* The HMAC chain of one (tenant, invocation) in kya_evidence, with its    *)
(* row-count anchor in kya_invocations (kya/evidence.py):                  *)
(*                                                                         *)
(*    record_evidence          appends a row signed over its predecessor;  *)
(*                             the first one writes a genesis row first    *)
(*    verify_chain             recomputes the chain against the anchor     *)
(*    prune_expired_evidence   deletes rows past their retention           *)
(*                                                                         *)
(* Chains share nothing: the locks, the counter and the walk are all keyed *)
(* by (tenant, invocation).                                                *)
(*                                                                         *)
(* A writer's transaction is invisible until it commits. A call commits    *)
(* once, or twice when it writes the genesis row, and what it holds across *)
(* the first commit depends on the dialect: the mutex of SQLite and DuckDB *)
(* lasts to the end of the call, PostgreSQL's advisory lock to the end of  *)
(* the transaction.                                                        *)
(*                                                                         *)
(* HMAC(key, prev | payload_hash) is an injective pairing: the signature   *)
(* of a row is the list of the payloads signed up to it. One key is used.  *)
(***************************************************************************)
EXTENDS Integers, Sequences, FiniteSets, FiniteSetTheorems, TLAPS

CONSTANTS
    Writers,         \* calls of record_evidence; each one's payload is itself
    Short,           \* those whose row has a retention that may lapse
    Verifiers,       \* calls of verify_chain
    Settings,        \* the deployments considered, see below
    MaxPrunes,       \* bound: runs of prune_expired_evidence that delete
    MaxFaults,       \* bound: counter updates that fail in their SAVEPOINT
    Genesis,         \* payload of the genesis row
    None

ASSUME WritersAssumption == Short \subseteq Writers /\ Genesis \notin Writers
\* mutex: SQLite or DuckDB with one process, as opposed to PostgreSQL;
\* anchored: the invocation has its row in kya_invocations;
\* started: the genesis row was written before this history.
ASSUME SettingsAssumption ==
    Settings \subseteq [mutex : BOOLEAN, anchored : BOOLEAN, started : BOOLEAN]
ASSUME BoundsAssumption == MaxPrunes \in Nat /\ MaxFaults \in Nat
ASSUME NoneAssumption == None \notin Nat \cup Writers

VARIABLES
    setting,     \* the deployment; it never changes
    table,       \* committed rows of the chain
    next_id,     \* the id sequence; it never goes back
    count,       \* kya_invocations.evidence_row_count
    count_sig,   \* the count that evidence_row_count_signature signs
    lock,        \* who holds the lock of the chain
    pc,          \* where each writer is in record_evidence
    prev_hash,   \* its local of that name
    inserted,    \* the row its open transaction has inserted, as a set
    bumped,      \* its open transaction has updated the counter
    v_pc,        \* where each verifier is in verify_chain
    v_count, v_sig,   \* the anchor it loaded
    prunes, faults

w_vars == <<pc, prev_hash, inserted, bumped>>
v_vars == <<v_pc, v_count, v_sig>>
anchor == <<count, count_sig>>
vars == <<setting, table, next_id, anchor, lock, w_vars, v_vars, prunes, faults>>

Payloads == Writers \cup {Genesis}

Row(id, payload, prev) ==
    [id |-> id, payload |-> payload, prev |-> prev, signed |-> Append(prev, payload)]

GenesisRow(id) == Row(id, Genesis, <<>>)

Init ==
    /\ setting \in Settings
    /\ table = IF setting.started THEN {GenesisRow(1)} ELSE {}
    /\ next_id = IF setting.started THEN 2 ELSE 1
    /\ count = IF setting.started /\ setting.anchored THEN 1 ELSE None
    /\ count_sig = count
    /\ lock = None
    /\ pc = [w \in Writers |-> "idle"]
    /\ prev_hash = [w \in Writers |-> <<>>]
    /\ inserted = [w \in Writers |-> {}]
    /\ bumped = [w \in Writers |-> FALSE]
    /\ v_pc = [v \in Verifiers |-> "idle"]
    /\ v_count = [v \in Verifiers |-> None]
    /\ v_sig = [v \in Verifiers |-> None]
    /\ prunes = 0
    /\ faults = 0

-----------------------------------------------------------------------------
(* record_evidence                                                         *)

RecordCall(w) ==
    /\ pc[w] = "idle"
    /\ pc' = [pc EXCEPT ![w] = "locking"]
    /\ UNCHANGED <<setting, table, next_id, anchor, lock, prev_hash, inserted, bumped,
                   v_vars, prunes, faults>>

\* Seeded fault: the lock is not waited for.
LockChainAnyway(w) ==
    /\ pc[w] = "locking"
    /\ lock' = w
    /\ pc' = [pc EXCEPT ![w] = "reading"]
    /\ UNCHANGED <<setting, table, next_id, anchor, prev_hash, inserted, bumped,
                   v_vars, prunes, faults>>

\* pg_advisory_xact_lock, or acquire() of the chain's threading.Lock.
LockChain(w) ==
    /\ pc[w] = "locking"
    /\ lock = None
    /\ lock' = w
    /\ pc' = [pc EXCEPT ![w] = "reading"]
    /\ UNCHANGED <<setting, table, next_id, anchor, prev_hash, inserted, bumped,
                   v_vars, prunes, faults>>

IsTail(row) == row \in table /\ \A other \in table : other.id <= row.id

\* Seeded fault: a tail row without a hash yields NULL.
ReadTailNull(w) ==
    /\ pc[w] = "reading"
    /\ prev_hash' = [prev_hash EXCEPT ![w] = None]
    /\ pc' = [pc EXCEPT ![w] = "signing"]
    /\ UNCHANGED <<setting, table, next_id, anchor, lock, inserted, bumped,
                   v_vars, prunes, faults>>

\* signed_hash of the row with the greatest id, or "" when there is none:
\* then the genesis row comes first.
ReadTail(w) ==
    /\ pc[w] = "reading"
    /\ \/ /\ table = {}
          /\ pc' = [pc EXCEPT ![w] = "genesis"]
          /\ UNCHANGED prev_hash
       \/ \E row \in table :
          /\ IsTail(row)
          /\ prev_hash' = [prev_hash EXCEPT ![w] = row.signed]
          /\ pc' = [pc EXCEPT ![w] = "signing"]
    /\ UNCHANGED <<setting, table, next_id, anchor, lock, inserted, bumped,
                   v_vars, prunes, faults>>

\* The INSERT is flushed by the SAVEPOINT that follows it.
Insert(w, row, next_pc) ==
    /\ inserted' = [inserted EXCEPT ![w] = {row}]
    /\ next_id' = next_id + 1
    /\ pc' = [pc EXCEPT ![w] = next_pc]
    /\ UNCHANGED <<setting, table, anchor, lock, prev_hash, bumped, v_vars, prunes, faults>>

InsertGenesis(w) ==
    /\ pc[w] = "genesis"
    /\ Insert(w, GenesisRow(next_id), "genesis_bump")

InsertRow(w) ==
    /\ pc[w] = "signing"
    /\ Insert(w, Row(next_id, w, prev_hash[w]), "row_bump")

AfterBump(w) == IF pc[w] = "genesis_bump" THEN "genesis_commit" ELSE "row_commit"

\* Seeded fault: only the call that writes the genesis row counts its rows.
BumpCounterOnce(w) ==
    /\ pc[w] \in {"genesis_bump", "row_bump"}
    /\ bumped' = [bumped EXCEPT ![w] = setting.anchored /\ pc[w] = "genesis_bump"]
    /\ pc' = [pc EXCEPT ![w] = AfterBump(w)]
    /\ UNCHANGED <<setting, table, next_id, anchor, lock, prev_hash, inserted,
                   v_vars, prunes, faults>>

\* _bump_counter_and_resign waits for the other transaction that has updated
\* the invocation's row; without such a row it updates nothing.
BumpCounter(w) ==
    /\ pc[w] \in {"genesis_bump", "row_bump"}
    /\ \A other \in Writers : ~ bumped[other]
    /\ bumped' = [bumped EXCEPT ![w] = setting.anchored]
    /\ pc' = [pc EXCEPT ![w] = AfterBump(w)]
    /\ UNCHANGED <<setting, table, next_id, anchor, lock, prev_hash, inserted,
                   v_vars, prunes, faults>>

\* The UPDATE fails: the SAVEPOINT rolls it back, the exception is logged and
\* the row is kept.
BumpFails(w) ==
    /\ pc[w] \in {"genesis_bump", "row_bump"}
    /\ setting.anchored
    /\ faults < MaxFaults
    /\ faults' = faults + 1
    /\ pc' = [pc EXCEPT ![w] = AfterBump(w)]
    /\ UNCHANGED <<setting, table, next_id, anchor, lock, prev_hash, inserted, bumped,
                   v_vars, prunes>>

\* COALESCE(evidence_row_count, 0) + 1
NextCount == IF count = None THEN 1 ELSE count + 1

\* Seeded fault: the counter moves and keeps its old signature.
PublishUnsigned(w) ==
    /\ table' = table \cup inserted[w]
    /\ count' = IF bumped[w] THEN NextCount ELSE count
    /\ inserted' = [inserted EXCEPT ![w] = {}]
    /\ bumped' = [bumped EXCEPT ![w] = FALSE]
    /\ UNCHANGED <<setting, next_id, count_sig, v_vars, prunes, faults>>

\* One COMMIT publishes the row, the counter and its signature.
Publish(w) ==
    /\ table' = table \cup inserted[w]
    /\ count' = IF bumped[w] THEN NextCount ELSE count
    /\ count_sig' = IF bumped[w] THEN NextCount ELSE count_sig
    /\ inserted' = [inserted EXCEPT ![w] = {}]
    /\ bumped' = [bumped EXCEPT ![w] = FALSE]
    /\ UNCHANGED <<setting, next_id, v_vars, prunes, faults>>

Unlock(w) == lock' = IF lock = w THEN None ELSE lock

\* Seeded fault: the mutex is released with the genesis row, before the row
\* that was asked for.
CommitGenesisUnlocks(w) ==
    /\ pc[w] = "genesis_commit"
    /\ Publish(w)
    /\ Unlock(w)
    /\ \E row \in inserted[w] : prev_hash' = [prev_hash EXCEPT ![w] = row.signed]
    /\ pc' = [pc EXCEPT ![w] = "signing"]

\* The COMMIT of the genesis row also ends what lasts for a transaction.
CommitGenesis(w) ==
    /\ pc[w] = "genesis_commit"
    /\ Publish(w)
    /\ IF setting.mutex THEN UNCHANGED lock ELSE Unlock(w)
    /\ \E row \in inserted[w] : prev_hash' = [prev_hash EXCEPT ![w] = row.signed]
    /\ pc' = [pc EXCEPT ![w] = "signing"]

CommitRow(w) ==
    /\ pc[w] = "row_commit"
    /\ Publish(w)
    /\ Unlock(w)
    /\ pc' = [pc EXCEPT ![w] = "done"]
    /\ UNCHANGED prev_hash

\* Seeded fault: an exception leaves the lock taken.
RecordRaisesLocked(w) ==
    /\ pc[w] \notin {"idle", "locking", "done", "raised"}
    /\ inserted' = [inserted EXCEPT ![w] = {}]
    /\ bumped' = [bumped EXCEPT ![w] = FALSE]
    /\ pc' = [pc EXCEPT ![w] = "raised"]
    /\ UNCHANGED <<setting, table, next_id, anchor, lock, prev_hash, v_vars,
                   prunes, faults>>

\* An exception, or the end of the process, between the lock and the last
\* COMMIT: the finally releases the mutex, the rollback everything else.
RecordRaises(w) ==
    /\ pc[w] \notin {"idle", "locking", "done", "raised"}
    /\ inserted' = [inserted EXCEPT ![w] = {}]
    /\ bumped' = [bumped EXCEPT ![w] = FALSE]
    /\ Unlock(w)
    /\ pc' = [pc EXCEPT ![w] = "raised"]
    /\ UNCHANGED <<setting, table, next_id, anchor, prev_hash, v_vars, prunes, faults>>

-----------------------------------------------------------------------------
(* prune_expired_evidence: one transaction, without the lock of the chain. *)
(* Any of the rows with a retention may be past it.                        *)

Prune ==
    /\ prunes < MaxPrunes
    /\ \E lapsed \in SUBSET {row \in table : row.payload \in Short} :
          /\ lapsed # {}
          /\ table' = table \ lapsed
    /\ prunes' = prunes + 1
    /\ UNCHANGED <<setting, next_id, anchor, lock, w_vars, v_vars, faults>>

-----------------------------------------------------------------------------
(* verify_chain                                                            *)

\* The signature of the row's predecessor in id order, "" for the first.
IsPredecessor(p, row, rows) ==
    /\ p \in rows
    /\ p.id < row.id
    /\ \A q \in rows : q.id < row.id => q.id <= p.id

Linked(row, rows) ==
    \/ row.prev = <<>> /\ \A q \in rows : q.id >= row.id
    \/ \E p \in rows : IsPredecessor(p, row, rows) /\ row.prev = p.signed

\* Seeded fault: the walk without the row count.
VerdictOfLinks(cnt, sig, rows) ==
    IF cnt # None /\ sig # cnt THEN "counter_signature"
    ELSE IF \E row \in rows : ~ Linked(row, rows) THEN "prev_hash_break"
    ELSE "valid"

\* The walk over the rows, after the checks of the anchor. The first check that
\* fails is the one that is reported.
Verdict(cnt, sig, rows) ==
    IF cnt # None /\ sig # cnt THEN "counter_signature"
    ELSE IF cnt # None /\ rows = {} /\ cnt # 0 THEN "full_wipe"
    ELSE IF cnt # None /\ Cardinality(rows) # cnt THEN "row_count"
    ELSE IF cnt # None /\ \E row \in rows :
               row.payload # Genesis /\ \A q \in rows : row.id <= q.id THEN "no_genesis"
    ELSE IF \E row \in rows :
               ~ Linked(row, rows) \/ row.signed # Append(row.prev, row.payload)
         THEN "prev_hash_break"
    ELSE "valid"

VerifyCall(v) ==
    /\ v_pc[v] = "idle"
    /\ v_pc' = [v_pc EXCEPT ![v] = "anchor_loaded"]
    /\ v_count' = [v_count EXCEPT ![v] = count]
    /\ v_sig' = [v_sig EXCEPT ![v] = count_sig]
    /\ UNCHANGED <<setting, table, next_id, anchor, lock, w_vars, prunes, faults>>

\* The rows are read by a second statement.
VerifyRows(v) ==
    /\ v_pc[v] = "anchor_loaded"
    /\ v_pc' = [v_pc EXCEPT ![v] = Verdict(v_count[v], v_sig[v], table)]
    /\ UNCHANGED <<setting, table, next_id, anchor, lock, w_vars, v_count, v_sig,
                   prunes, faults>>

-----------------------------------------------------------------------------
Next ==
    \/ \E w \in Writers : RecordCall(w)
    \/ \E w \in Writers : LockChain(w)
    \/ \E w \in Writers : ReadTail(w)
    \/ \E w \in Writers : InsertGenesis(w)
    \/ \E w \in Writers : InsertRow(w)
    \/ \E w \in Writers : BumpCounter(w)
    \/ \E w \in Writers : BumpFails(w)
    \/ \E w \in Writers : CommitGenesis(w)
    \/ \E w \in Writers : CommitRow(w)
    \/ \E w \in Writers : RecordRaises(w)
    \/ Prune
    \/ \E v \in Verifiers : VerifyCall(v)
    \/ \E v \in Verifiers : VerifyRows(v)

Spec == Init /\ [][Next]_vars

\* A thread inside record_evidence runs on; nobody has to call it.
Fairness ==
    \A w \in Writers :
        WF_vars(LockChain(w) \/ ReadTail(w) \/ InsertGenesis(w) \/ InsertRow(w)
                \/ BumpCounter(w) \/ CommitGenesis(w) \/ CommitRow(w))

FairSpec == Spec /\ Fairness

-----------------------------------------------------------------------------
(* Properties                                                              *)

Rows == [id : Nat, payload : Payloads, prev : Seq(Payloads), signed : Seq(Payloads)]

Verdicts == {"counter_signature", "full_wipe", "row_count", "no_genesis",
             "prev_hash_break", "valid"}

\* The type of the chain, its anchor and every call's locals.
TypeOK ==
    /\ setting \in Settings
    /\ table \subseteq Rows
    /\ next_id \in Nat
    /\ count \in Nat \cup {None}
    /\ count_sig \in Nat \cup {None}
    /\ lock \in Writers \cup {None}
    /\ pc \in [Writers -> {"idle", "locking", "reading", "genesis", "genesis_bump",
                           "genesis_commit", "signing", "row_bump", "row_commit",
                           "done", "raised"}]
    /\ prev_hash \in [Writers -> Seq(Payloads)]
    /\ inserted \in [Writers -> SUBSET Rows]
    /\ bumped \in [Writers -> BOOLEAN]
    /\ v_pc \in [Verifiers -> {"idle", "anchor_loaded"} \cup Verdicts]
    /\ v_count \in [Verifiers -> Nat \cup {None}]
    /\ v_sig \in [Verifiers -> Nat \cup {None}]
    /\ prunes \in 0 .. MaxPrunes
    /\ faults \in 0 .. MaxFaults

\* "concurrent writers serialize on the chain head": as long as nothing was
\* pruned, the committed rows in id order are one chain from its first row,
\* whichever writers raise in between and whatever happens to the counter.
OneChain == prunes = 0 => \A row \in table : Linked(row, table)

\* A chain that only record_evidence has touched verifies in every committed
\* state: rows, counter and signature are published together.
IntactVerifies ==
    prunes = 0 /\ faults = 0 => Verdict(count, count_sig, table) = "valid"

\* The anchors together detect the loss of any rows of an intact chain: from
\* its head, its tail, its middle, or all of them.
DeletionDetected ==
    setting.anchored /\ prunes = 0 /\ faults = 0 =>
        \A lost \in SUBSET table :
            lost # {} => Verdict(count, count_sig, table \ lost) # "valid"

\* A step publishes rows after all those that were there and removes rows only
\* by pruning: no reader that walks by id sees a row appear behind it.
AppendOnly ==
    [][ /\ \A row \in table' \ table, old \in table : old.id < row.id
        /\ table \ table' # {} => prunes' = prunes + 1 ]_vars

\* A lawful deletion is never mistaken for an intact chain: once rows of an
\* anchored chain have been pruned it does not verify, however many writers
\* follow; without an anchor nothing but the links can tell.
PruneIsReported ==
    prunes > 0 /\ faults = 0 =>
        IF setting.anchored
        THEN Verdict(count, count_sig, table) # "valid"
        ELSE Verdict(count, count_sig, table) \in {"valid", "prev_hash_break"}

\* "Treat the break as a clean cut, not a tamper": what verify_chain says of a
\* chain that only retention has shortened is at most a break of the links.
PruneIsCleanCut ==
    prunes > 0 /\ faults = 0 =>
        Verdict(count, count_sig, table) \in {"valid", "prev_hash_break"}

\* No call waits for the lock of the chain for ever, whichever of the others
\* raise while they hold it.
WriterReturns ==
    \A w \in Writers : pc[w] = "locking" ~> pc[w] \in {"done", "raised"}

\* "a concurrent verify_chain reader never sees a rows-without-counter (or
\* counter-without-matching-signature) false-positive".
NoFalseAlarm ==
    \A v \in Verifiers :
        prunes = 0 /\ faults = 0 /\ v_pc[v] \in Verdicts => v_pc[v] = "valid"

-----------------------------------------------------------------------------
(* The strengthening of OneChain that is inductive where the lock of the   *)
(* chain serializes its writers: always with the mutex, on PostgreSQL once *)
(* the genesis row is there.                                               *)

Serialized == setting.mutex \/ setting.started

BeforeGenesis == {"genesis", "genesis_bump", "genesis_commit"}
BeforeRow     == {"signing", "row_bump", "row_commit"}
Holding       == {"reading"} \cup BeforeGenesis \cup BeforeRow

\* Nobody is between the lock and its release without holding it.
LockHeld == \A w \in Writers : pc[w] \in Holding => lock = w

\* A genesis row is written into an empty chain, and it stays.
GenesisFirst ==
    /\ setting.started => \E row \in table : row.payload = Genesis
    /\ \A w \in Writers : pc[w] \in BeforeGenesis => table = {}

\* The row of an open transaction comes after all committed ones, and is
\* signed over what the writer read.
IsNext(row) == row.id < next_id /\ \A old \in table : old.id < row.id

Uncommitted ==
    /\ \A row \in table : row.id < next_id
    /\ \A w \in Writers :
          /\ pc[w] \in {"genesis_bump", "genesis_commit"} =>
                \E row \in inserted[w] :
                   inserted[w] = {row} /\ IsNext(row) /\ row = GenesisRow(row.id)
          /\ pc[w] \in {"row_bump", "row_commit"} =>
                \E row \in inserted[w] :
                   inserted[w] = {row} /\ IsNext(row) /\ row = Row(row.id, w, prev_hash[w])
          /\ pc[w] \notin {"genesis_bump", "genesis_commit", "row_bump", "row_commit"} =>
                inserted[w] = {}

\* What the writer read is still the tail when it signs, and when it commits.
TailKnown ==
    prunes = 0 => \A w \in Writers : pc[w] \in BeforeRow =>
        \E row \in table : IsTail(row) /\ prev_hash[w] = row.signed

ChainInv ==
    Serialized =>
        LockHeld /\ GenesisFirst /\ Uncommitted /\ TailKnown /\ OneChain

(* What IntactVerifies, DeletionDetected and PruneIsReported need beside   *)
(* it, where the lock serializes the writers: the anchor follows the rows. *)

\* Every row is signed over the predecessor it names.
SignedOver(row) == row.signed = Append(row.prev, row.payload)

RowsSigned ==
    /\ \A row \in table : SignedOver(row)
    /\ \A w \in Writers : \A row \in inserted[w] : SignedOver(row)

\* The genesis row is the first one, and nobody signs a row without it.
GenesisLowest ==
    /\ table # {} => \E row \in table :
                        row.payload = Genesis /\ \A q \in table \ {row} : row.id < q.id
    /\ \A w \in Writers : pc[w] \in BeforeRow => table # {}

\* The transaction that is about to commit has counted its row, unless the update
\* failed.
RowsCounted ==
    \A w \in Writers :
        /\ bumped[w] => setting.anchored /\ pc[w] \in {"genesis_commit", "row_commit"}
        /\ setting.anchored /\ faults = 0 /\ pc[w] \in {"genesis_commit", "row_commit"}
              => bumped[w]

\* The counter is signed, and it counts the rows that were ever written.
CountFollows ==
    /\ count_sig = count
    /\ ~ setting.anchored => count = None
    /\ setting.anchored /\ faults = 0 =>
          IF table = {} THEN count = None /\ prunes = 0
          ELSE /\ count \in Nat
               /\ IF prunes = 0 THEN count = Cardinality(table)
                                ELSE count > Cardinality(table)

AnchorInv ==
    Serialized =>
        IsFiniteSet(table) /\ RowsSigned /\ GenesisLowest /\ RowsCounted /\ CountFollows
-----------------------------------------------------------------------------
(* Proofs: wherever the lock of a chain serializes its writers, the        *)
(* committed rows are one chain, for any number of writers and verifiers,  *)
(* whichever of them raise, and a reader never sees a row appear behind it.*)

\* verify_chain answers with one of its verdicts.
LEMMA VerdictType ==
    \A cnt, sig, rows : Verdict(cnt, sig, rows) \in Verdicts
BY DEF Verdict, Verdicts

\* A row signed over a chain is a row.
LEMMA RowType ==
    \A id \in Nat, payload \in Payloads, prev \in Seq(Payloads) :
        Row(id, payload, prev) \in Rows
<1> SUFFICES ASSUME NEW id \in Nat, NEW payload \in Payloads, NEW prev \in Seq(Payloads)
             PROVE  Row(id, payload, prev) \in Rows
    OBVIOUS
<1>1. Append(prev, payload) \in Seq(Payloads)
    OBVIOUS
<1>2. QED
    BY <1>1 DEF Row, Rows

LEMMA TypeInit == Init => TypeOK
<1> SUFFICES ASSUME Init PROVE TypeOK
    OBVIOUS
<1>1. <<>> \in Seq(Payloads)
    OBVIOUS
<1>2. GenesisRow(1) \in Rows
    BY <1>1, RowType DEF GenesisRow, Payloads
<1>3. setting \in [mutex : BOOLEAN, anchored : BOOLEAN, started : BOOLEAN]
    BY SettingsAssumption DEF Init
<1>4. table \subseteq Rows /\ next_id \in Nat
    BY <1>2, <1>3 DEF Init
<1>5. count \in Nat \cup {None} /\ count_sig \in Nat \cup {None}
    BY <1>3 DEF Init
<1>6. prunes \in 0 .. MaxPrunes /\ faults \in 0 .. MaxFaults
    BY BoundsAssumption DEF Init
<1>7. QED
    BY <1>1, <1>4, <1>5, <1>6 DEF Init, TypeOK

\* Every step keeps the types.
LEMMA TypeStep == TypeOK /\ [Next]_vars => TypeOK'
<1> SUFFICES ASSUME TypeOK, [Next]_vars PROVE TypeOK'
    OBVIOUS
<1> USE DEF TypeOK
<1>1. ASSUME NEW w \in Writers, RecordCall(w) PROVE TypeOK'
    BY <1>1 DEF RecordCall, anchor, v_vars
<1>2. ASSUME NEW w \in Writers, LockChain(w) PROVE TypeOK'
    BY <1>2 DEF LockChain, anchor, v_vars
<1>3. ASSUME NEW w \in Writers, ReadTail(w) PROVE TypeOK'
    <2>1. ASSUME NEW row \in table PROVE row.signed \in Seq(Payloads)
        BY <2>1 DEF Rows
    <2>2. QED
        BY <1>3, <2>1 DEF ReadTail, anchor, v_vars
<1>4. ASSUME NEW w \in Writers, InsertGenesis(w) PROVE TypeOK'
    <2>1. <<>> \in Seq(Payloads) /\ Genesis \in Payloads
        BY DEF Payloads
    <2>2. GenesisRow(next_id) \in Rows
        BY <2>1, RowType DEF GenesisRow
    <2>3. QED
        BY <1>4, <2>2 DEF InsertGenesis, Insert, anchor, v_vars
<1>5. ASSUME NEW w \in Writers, InsertRow(w) PROVE TypeOK'
    <2>1. Row(next_id, w, prev_hash[w]) \in Rows
        BY RowType DEF Payloads
    <2>2. QED
        BY <1>5, <2>1 DEF InsertRow, Insert, anchor, v_vars
<1>6. ASSUME NEW w \in Writers, BumpCounter(w) PROVE TypeOK'
    <2>1. setting.anchored \in BOOLEAN
        BY SettingsAssumption
    <2>2. QED
        BY <1>6, <2>1 DEF BumpCounter, AfterBump, anchor, v_vars
<1>7. ASSUME NEW w \in Writers, BumpFails(w) PROVE TypeOK'
    BY <1>7, BoundsAssumption DEF BumpFails, AfterBump, anchor, v_vars
<1>8. ASSUME NEW w \in Writers, Publish(w) PROVE
        /\ table' \subseteq Rows
        /\ count' \in Nat \cup {None}
        /\ count_sig' \in Nat \cup {None}
        /\ inserted' \in [Writers -> SUBSET Rows]
        /\ bumped' \in [Writers -> BOOLEAN]
    <2>1. NextCount \in Nat
        BY DEF NextCount
    <2>2. QED
        BY <1>8, <2>1 DEF Publish
<1>9. ASSUME NEW w \in Writers, CommitGenesis(w) PROVE TypeOK'
    <2>1. ASSUME NEW row \in inserted[w] PROVE row.signed \in Seq(Payloads)
        BY <2>1 DEF Rows
    <2>2. Publish(w)
        BY <1>9 DEF CommitGenesis
    <2>3. setting' = setting /\ next_id' = next_id /\ UNCHANGED <<v_vars, prunes, faults>>
        BY <2>2 DEF Publish
    <2>4. lock' \in Writers \cup {None}
        BY <1>9 DEF CommitGenesis, Unlock
    <2>5. prev_hash' \in [Writers -> Seq(Payloads)]
        BY <1>9, <2>1 DEF CommitGenesis
    <2>6. QED
        BY <1>8, <1>9, <2>2, <2>3, <2>4, <2>5 DEF CommitGenesis, v_vars
<1>10. ASSUME NEW w \in Writers, CommitRow(w) PROVE TypeOK'
    <2>1. Publish(w)
        BY <1>10 DEF CommitRow
    <2>2. setting' = setting /\ next_id' = next_id /\ UNCHANGED <<v_vars, prunes, faults>>
        BY <2>1 DEF Publish
    <2>3. QED
        BY <1>8, <1>10, <2>1, <2>2 DEF CommitRow, Unlock, v_vars
<1>11. ASSUME NEW w \in Writers, RecordRaises(w) PROVE TypeOK'
    BY <1>11 DEF RecordRaises, Unlock, anchor, v_vars
<1>12. CASE Prune
    BY <1>12, BoundsAssumption DEF Prune, anchor, w_vars, v_vars
<1>13. ASSUME NEW v \in Verifiers, VerifyCall(v) PROVE TypeOK'
    BY <1>13 DEF VerifyCall, anchor, w_vars
<1>14. ASSUME NEW v \in Verifiers, VerifyRows(v) PROVE TypeOK'
    BY <1>14, VerdictType DEF VerifyRows, anchor, w_vars
<1>15. CASE UNCHANGED vars
    BY <1>15 DEF vars, anchor, w_vars, v_vars
<1>16. QED
    BY <1>1, <1>2, <1>3, <1>4, <1>5, <1>6, <1>7, <1>9, <1>10, <1>11, <1>12,
       <1>13, <1>14, <1>15 DEF Next

\* The chain, its anchor and the locals of every call keep their types.
THEOREM TypeCorrect == Spec => []TypeOK
<1>1. QED
    BY TypeInit, TypeStep, PTL DEF Spec

-----------------------------------------------------------------------------
\* Rows of a chain that a writer extends by one row over its tail stay linked.
LEMMA ExtendChain ==
    ASSUME TypeOK,
           NEW row \in Rows,
           \A old \in table : old.id < row.id,
           \A old \in table : Linked(old, table),
           \/ table = {} /\ row.prev = <<>>
           \/ \E tail \in table : IsTail(tail) /\ row.prev = tail.signed
    PROVE  \A r \in table \cup {row} : Linked(r, table \cup {row})
<1> DEFINE T == table \cup {row}
<1>1. \A r \in T : r.id \in Nat
    BY DEF TypeOK, Rows
<1>2. ASSUME NEW r \in table PROVE Linked(r, T)
    <2>1. Linked(r, table) /\ r.id < row.id
        OBVIOUS
    <2>2. CASE r.prev = <<>> /\ \A q \in table : q.id >= r.id
        BY <1>1, <2>1, <2>2 DEF Linked
    <2>3. CASE \E p \in table : IsPredecessor(p, r, table) /\ r.prev = p.signed
        <3>1. PICK p \in table : IsPredecessor(p, r, table) /\ r.prev = p.signed
            BY <2>3
        <3>2. IsPredecessor(p, r, T)
            BY <1>1, <2>1, <3>1 DEF IsPredecessor
        <3>3. QED
            BY <3>1, <3>2 DEF Linked
    <2>4. QED
        BY <2>1, <2>2, <2>3 DEF Linked
<1>3. Linked(row, T)
    <2>1. CASE table = {} /\ row.prev = <<>>
        BY <1>1, <2>1 DEF Linked
    <2>2. CASE \E tail \in table : IsTail(tail) /\ row.prev = tail.signed
        <3>1. PICK tail \in table : IsTail(tail) /\ row.prev = tail.signed
            BY <2>2
        <3>2. IsPredecessor(tail, row, T)
            BY <1>1, <3>1 DEF IsPredecessor, IsTail
        <3>3. QED
            BY <3>1, <3>2 DEF Linked
    <2>3. QED
        BY <2>1, <2>2
<1>4. QED
    BY <1>2, <1>3

\* What an open transaction holds, in the two states before a COMMIT.
LEMMA CommitFacts ==
    ASSUME TypeOK, ChainInv, Serialized, NEW w \in Writers,
           pc[w] \in {"genesis_commit", "row_commit"}
    PROVE  /\ lock = w
           /\ \A v \in Writers : pc[v] \in Holding => v = w
           /\ \E row \in inserted[w] :
                 /\ inserted[w] = {row}
                 /\ IsNext(row)
                 /\ row = IF pc[w] = "genesis_commit" THEN GenesisRow(row.id)
                          ELSE Row(row.id, w, prev_hash[w])
<1>1. pc[w] \in Holding
    BY DEF Holding, BeforeGenesis, BeforeRow
<1>2. lock = w /\ \A v \in Writers : pc[v] \in Holding => v = w
    BY <1>1 DEF ChainInv, LockHeld
<1>3. QED
    BY <1>2 DEF ChainInv, Uncommitted

LEMMA ChainInit == Init => ChainInv
<1> SUFFICES ASSUME Init PROVE ChainInv
    OBVIOUS
<1>1. setting \in [mutex : BOOLEAN, anchored : BOOLEAN, started : BOOLEAN]
    BY SettingsAssumption DEF Init
<1>2. CASE setting.started
    <2>1. /\ GenesisRow(1).id = 1
          /\ GenesisRow(1).prev = <<>>
          /\ GenesisRow(1).payload = Genesis
        BY DEF GenesisRow, Row
    <2>2. table = {GenesisRow(1)} /\ next_id = 2
        BY <1>2 DEF Init
    <2>3. OneChain /\ GenesisFirst
        BY <2>1, <2>2 DEF Init, OneChain, Linked, GenesisFirst, BeforeGenesis
    <2>4. LockHeld /\ Uncommitted /\ TailKnown
        BY <2>1, <2>2 DEF Init, LockHeld, Uncommitted, TailKnown, Holding,
           BeforeGenesis, BeforeRow
    <2>5. QED
        BY <2>3, <2>4 DEF ChainInv
<1>3. CASE ~ setting.started
    BY <1>3 DEF Init, ChainInv, LockHeld, GenesisFirst, Uncommitted, TailKnown, OneChain,
       Holding, BeforeGenesis, BeforeRow
<1>4. QED
    BY <1>1, <1>2, <1>3

\* Every step keeps the chain, and publishes rows only behind the others.
LEMMA ChainStep ==
    TypeOK /\ ChainInv /\ [Next]_vars => ChainInv'
<1> SUFFICES ASSUME TypeOK, ChainInv, [Next]_vars, Serialized'
             PROVE  LockHeld' /\ GenesisFirst' /\ Uncommitted' /\ TailKnown' /\ OneChain'
    BY DEF ChainInv
<1> USE DEF TypeOK, Holding, BeforeGenesis, BeforeRow
<1>0. setting' = setting
    BY DEF Next, vars, RecordCall, LockChain, ReadTail, InsertGenesis, InsertRow, Insert,
       BumpCounter, BumpFails, CommitGenesis, CommitRow, Publish, RecordRaises, Prune,
       VerifyCall, VerifyRows
<1>s. Serialized /\ LockHeld /\ GenesisFirst /\ Uncommitted /\ TailKnown /\ OneChain
    BY <1>0 DEF Serialized, ChainInv
<1> DEFINE Goal == LockHeld' /\ GenesisFirst' /\ Uncommitted' /\ TailKnown' /\ OneChain'
<1>1. ASSUME NEW w \in Writers, RecordCall(w) PROVE Goal
    BY <1>1, <1>s DEF RecordCall, LockHeld, GenesisFirst, Uncommitted, TailKnown, OneChain,
       IsNext, IsTail
<1>2. ASSUME NEW w \in Writers, LockChain(w) PROVE Goal
    <2>1. \A v \in Writers : pc[v] \notin Holding
        BY <1>2, <1>s, NoneAssumption DEF LockChain, LockHeld
    <2>2. LockHeld'
        BY <1>2, <2>1 DEF LockChain, LockHeld
    <2>3. GenesisFirst' /\ TailKnown' /\ OneChain'
        BY <1>2, <1>s DEF LockChain, GenesisFirst, TailKnown, OneChain, IsTail
    <2>4. Uncommitted'
        BY <1>2, <1>s DEF LockChain, Uncommitted, IsNext
    <2>5. QED
        BY <2>2, <2>3, <2>4
<1>3. ASSUME NEW w \in Writers, ReadTail(w) PROVE Goal
    <2>1. LockHeld' /\ GenesisFirst' /\ OneChain'
        BY <1>3, <1>s DEF ReadTail, LockHeld, GenesisFirst, OneChain
    <2>2. TailKnown'
        BY <1>3, <1>s DEF ReadTail, TailKnown, IsTail
    <2>3. Uncommitted'
        BY <1>3, <1>s DEF ReadTail, Uncommitted, IsNext
    <2>4. QED
        BY <2>1, <2>2, <2>3
<1>4. ASSUME NEW w \in Writers, InsertGenesis(w) PROVE Goal
    <2>1. GenesisRow(next_id).id = next_id
        BY DEF GenesisRow, Row
    <2>2. table = {} /\ \A v \in Writers : pc[v] \in Holding => v = w
        BY <1>4, <1>s DEF InsertGenesis, LockHeld, GenesisFirst
    <2>3. LockHeld' /\ GenesisFirst' /\ TailKnown' /\ OneChain'
        BY <1>4, <1>s DEF InsertGenesis, Insert, LockHeld, GenesisFirst, TailKnown,
           OneChain, IsTail
    <2>4. Uncommitted'
        BY <1>4, <1>s, <2>1, <2>2 DEF InsertGenesis, Insert, Uncommitted, IsNext
    <2>5. QED
        BY <2>3, <2>4
<1>5. ASSUME NEW w \in Writers, InsertRow(w) PROVE Goal
    <2>0. PICK new : new = Row(next_id, w, prev_hash[w])
        OBVIOUS
    <2>1. new.id = next_id /\ new = Row(new.id, w, prev_hash[w])
        BY <2>0 DEF Row
    <2>2. \A v \in Writers : pc[v] \in Holding => v = w
        BY <1>5, <1>s DEF InsertRow, LockHeld
    <2>3. LockHeld' /\ GenesisFirst' /\ TailKnown' /\ OneChain'
        BY <1>5, <1>s DEF InsertRow, Insert, LockHeld, GenesisFirst, TailKnown,
           OneChain, IsTail
    <2>4. /\ inserted' = [inserted EXCEPT ![w] = {new}] /\ next_id' = next_id + 1
          /\ pc' = [pc EXCEPT ![w] = "row_bump"]
          /\ prev_hash' = prev_hash /\ table' = table
        BY <1>5, <2>0 DEF InsertRow, Insert
    <2>5. \A old \in table : old.id < next_id' /\ old.id \in Nat
        BY <1>s, <2>4 DEF Uncommitted, Rows
    <2>6. inserted'[w] = {new} /\ pc'[w] = "row_bump" /\ IsNext(new)'
        BY <1>s, <2>1, <2>4 DEF Uncommitted, IsNext
    <2>7. Uncommitted'
        BY <1>s, <2>1, <2>2, <2>4, <2>5, <2>6 DEF Uncommitted
    <2>8. QED
        BY <2>3, <2>7
<1>6. ASSUME NEW w \in Writers, BumpCounter(w) \/ BumpFails(w) PROVE Goal
    <2>1. /\ UNCHANGED <<table, next_id, lock, prev_hash, inserted, prunes>>
          /\ \/ pc[w] = "genesis_bump" /\ pc' = [pc EXCEPT ![w] = "genesis_commit"]
             \/ pc[w] = "row_bump" /\ pc' = [pc EXCEPT ![w] = "row_commit"]
        BY <1>6 DEF BumpCounter, BumpFails, AfterBump
    <2>2. LockHeld' /\ OneChain'
        BY <1>s, <2>1 DEF LockHeld, OneChain
    <2>3. GenesisFirst' /\ TailKnown'
        BY <1>0, <1>s, <2>1 DEF GenesisFirst, TailKnown, IsTail
    <2>4. Uncommitted'
        BY <1>s, <2>1 DEF Uncommitted, IsNext
    <2>5. QED
        BY <2>2, <2>3, <2>4
<1>7. ASSUME NEW w \in Writers, CommitGenesis(w) PROVE Goal
    <2>1. /\ lock = w
          /\ \A v \in Writers : pc[v] \in Holding => v = w
        BY <1>7, <1>0, CommitFacts DEF CommitGenesis, Serialized
    <2>2. PICK row \in inserted[w] :
              inserted[w] = {row} /\ IsNext(row) /\ row = GenesisRow(row.id)
        BY <1>7, <1>s, CommitFacts DEF CommitGenesis
    <2>3. table = {} /\ table' = {row}
        BY <1>7, <1>s, <2>2 DEF CommitGenesis, Publish, GenesisFirst
    <2>4. row \in Rows /\ row.prev = <<>> /\ row.payload = Genesis
        BY <2>2 DEF GenesisRow, Row
    <2>5. setting.mutex
        BY <1>s, <2>3 DEF Serialized, GenesisFirst
    <2>6. /\ pc' = [pc EXCEPT ![w] = "signing"]
          /\ lock' = lock /\ prunes' = prunes /\ next_id' = next_id
          /\ prev_hash' = [prev_hash EXCEPT ![w] = row.signed]
          /\ inserted' = [inserted EXCEPT ![w] = {}]
        BY <1>7, <2>2, <2>5 DEF CommitGenesis, Publish
    <2>7. LockHeld'
        BY <2>1, <2>6 DEF LockHeld
    <2>8. GenesisFirst'
        BY <2>1, <2>3, <2>4, <2>6 DEF GenesisFirst
    <2>9. Uncommitted'
        BY <1>s, <2>1, <2>2, <2>3, <2>6 DEF Uncommitted, IsNext
    <2>10. TailKnown'
        BY <2>1, <2>3, <2>4, <2>6 DEF TailKnown, IsTail, Rows
    <2>11. OneChain'
        BY <2>3, <2>4 DEF OneChain, Linked, Rows
    <2>12. QED
        BY <2>7, <2>8, <2>9, <2>10, <2>11
<1>8. ASSUME NEW w \in Writers, CommitRow(w) PROVE Goal
    <2>1. /\ lock = w
          /\ \A v \in Writers : pc[v] \in Holding => v = w
        BY <1>8, <1>s, CommitFacts DEF CommitRow
    <2>2. PICK row \in inserted[w] :
              inserted[w] = {row} /\ IsNext(row) /\ row = Row(row.id, w, prev_hash[w])
        BY <1>8, <1>s, CommitFacts DEF CommitRow
    <2>3. table' = table \cup {row}
        BY <1>8, <2>2 DEF CommitRow, Publish
    <2>4. row \in Rows /\ row.prev = prev_hash[w]
        BY <2>2 DEF Row
    <2>5. /\ pc' = [pc EXCEPT ![w] = "done"]
          /\ lock' = None /\ prunes' = prunes /\ next_id' = next_id
          /\ prev_hash' = prev_hash
          /\ inserted' = [inserted EXCEPT ![w] = {}]
        BY <1>8, <2>1 DEF CommitRow, Publish, Unlock
    <2>6. LockHeld'
        BY <2>1, <2>5 DEF LockHeld
    <2>7. GenesisFirst'
        BY <1>s, <1>0, <2>1, <2>3, <2>5 DEF GenesisFirst
    <2>8. Uncommitted'
        BY <1>s, <2>1, <2>2, <2>3, <2>5 DEF Uncommitted, IsNext
    <2>9. TailKnown'
        BY <2>1, <2>5 DEF TailKnown
    <2>10. OneChain'
        <3>1. SUFFICES ASSUME prunes = 0
                       PROVE  \A r \in table' : Linked(r, table')
            BY <2>5 DEF OneChain
        <3>2. \A old \in table : Linked(old, table) /\ old.id < row.id
            BY <1>s, <2>2, <3>1 DEF OneChain, IsNext
        <3>3. \E tail \in table : IsTail(tail) /\ row.prev = tail.signed
            BY <1>8, <1>s, <2>4, <3>1 DEF CommitRow, TailKnown
        <3>4. QED
            BY <2>3, <2>4, <3>2, <3>3, ExtendChain
    <2>11. QED
        BY <2>6, <2>7, <2>8, <2>9, <2>10
<1>9. ASSUME NEW w \in Writers, RecordRaises(w) PROVE Goal
    <2>1. \A v \in Writers : pc[v] \in Holding => v = w \/ lock # w
        BY <1>s DEF LockHeld
    <2>2. LockHeld'
        BY <1>9, <1>s, <2>1 DEF RecordRaises, Unlock, LockHeld
    <2>3. GenesisFirst' /\ TailKnown' /\ OneChain'
        BY <1>9, <1>s DEF RecordRaises, GenesisFirst, TailKnown, OneChain, IsTail
    <2>4. Uncommitted'
        BY <1>9, <1>s DEF RecordRaises, Uncommitted, IsNext
    <2>5. QED
        BY <2>2, <2>3, <2>4
<1>10. CASE Prune
    <2>1. PICK lapsed \in SUBSET {row \in table : row.payload \in Short} :
              table' = table \ lapsed
        BY <1>10 DEF Prune
    <2>2. prunes' # 0 /\ UNCHANGED <<setting, next_id, lock, pc, inserted, prev_hash>>
        BY <1>10, BoundsAssumption DEF Prune, w_vars
    <2>3. LockHeld' /\ TailKnown' /\ OneChain'
        BY <1>s, <2>2 DEF LockHeld, TailKnown, OneChain
    <2>4. Genesis \notin Short
        BY WritersAssumption
    <2>5. GenesisFirst'
        BY <1>s, <2>1, <2>2, <2>4 DEF GenesisFirst
    <2>6. Uncommitted'
        BY <1>s, <2>1, <2>2 DEF Uncommitted, IsNext
    <2>7. QED
        BY <2>3, <2>5, <2>6
<1>11. ASSUME NEW v \in Verifiers, VerifyCall(v) PROVE Goal
    BY <1>11, <1>s DEF VerifyCall, w_vars, LockHeld, GenesisFirst, Uncommitted, TailKnown,
       OneChain, IsNext, IsTail
<1>12. ASSUME NEW v \in Verifiers, VerifyRows(v) PROVE Goal
    BY <1>12, <1>s DEF VerifyRows, w_vars, LockHeld, GenesisFirst, Uncommitted, TailKnown,
       OneChain, IsNext, IsTail
<1>13. CASE UNCHANGED vars
    BY <1>13, <1>s DEF vars, w_vars, LockHeld, GenesisFirst, Uncommitted, TailKnown,
       OneChain, IsNext, IsTail
<1>14. Goal
    BY <1>1, <1>2, <1>3, <1>4, <1>5, <1>6, <1>7, <1>8, <1>9, <1>10, <1>11, <1>12, <1>13
    DEF Next
<1>15. QED
    BY <1>14

\* The invariant holds in every deployment and every state.
THEOREM ChainHolds == Spec => []ChainInv
<1>1. QED
    BY TypeInit, TypeStep, ChainInit, ChainStep, PTL DEF Spec

\* "concurrent writers serialize on the chain head": as long as nothing was
\* pruned, the committed rows are one chain, if the first row of a chain is
\* written under a mutex or was there before.
THEOREM OneChainHolds ==
    ASSUME \A s \in Settings : s.mutex \/ s.started
    PROVE  Spec => []OneChain
<1>1. TypeOK /\ ChainInv => OneChain
    BY DEF TypeOK, ChainInv, Serialized
<1>2. QED
    BY <1>1, TypeCorrect, ChainHolds, PTL

\* Under the same condition a committed row comes after all rows that were there,
\* and rows disappear only by pruning.
THEOREM AppendHolds ==
    ASSUME \A s \in Settings : s.mutex \/ s.started
    PROVE  Spec => AppendOnly
<1> DEFINE Behind ==
        /\ \A row \in table' \ table, old \in table : old.id < row.id
        /\ table \ table' # {} => prunes' = prunes + 1
<1>1. ASSUME TypeOK, ChainInv, [Next]_vars PROVE [Behind]_vars
    <2>1. Uncommitted
        BY <1>1 DEF TypeOK, ChainInv, Serialized
    <2>2. ASSUME NEW w \in Writers, CommitGenesis(w) \/ CommitRow(w) PROVE Behind
        <3>1. table' = table \cup inserted[w]
            BY <2>2 DEF CommitGenesis, CommitRow, Publish
        <3>2. \A row \in inserted[w], old \in table : old.id < row.id
            BY <2>1, <2>2 DEF CommitGenesis, CommitRow, Uncommitted, IsNext
        <3>3. QED
            BY <3>1, <3>2
    <2>3. CASE Prune
        BY <2>3 DEF Prune
    <2>4. CASE table' = table
        BY <2>4
    <2>5. QED
        BY <1>1, <2>2, <2>3, <2>4
        DEF Next, vars, RecordCall, LockChain, ReadTail, InsertGenesis, InsertRow, Insert,
            BumpCounter, BumpFails, RecordRaises, VerifyCall, VerifyRows
<1>2. QED
    BY <1>1, TypeCorrect, ChainHolds, PTL DEF Spec, AppendOnly
-----------------------------------------------------------------------------
\* A proper part of the chain has fewer rows.
LEMMA PartIsSmaller ==
    ASSUME NEW S, IsFiniteSet(S), NEW T \in SUBSET S, T # S
    PROVE  /\ IsFiniteSet(T)
           /\ Cardinality(T) \in Nat /\ Cardinality(S) \in Nat
           /\ Cardinality(T) < Cardinality(S)
BY FS_Subset, FS_CardinalityType

LEMMA AnchorInit == Init => AnchorInv
<1> SUFFICES ASSUME Init PROVE AnchorInv
    OBVIOUS
<1>1. setting \in [mutex : BOOLEAN, anchored : BOOLEAN, started : BOOLEAN]
    BY SettingsAssumption DEF Init
<1>2. RowsCounted /\ \A w \in Writers : inserted[w] = {} /\ pc[w] \notin BeforeRow
    BY DEF Init, RowsCounted, BeforeRow
<1>3. CASE setting.started
    <2>1. /\ GenesisRow(1).payload = Genesis
          /\ SignedOver(GenesisRow(1))
          /\ GenesisRow(1).id = 1
        BY DEF GenesisRow, Row, SignedOver
    <2>2. table = {GenesisRow(1)} /\ prunes = 0 /\ count_sig = count
          /\ count = IF setting.anchored THEN 1 ELSE None
        BY <1>3 DEF Init
    <2>3. RowsSigned /\ GenesisLowest
        BY <1>2, <2>1, <2>2 DEF RowsSigned, GenesisLowest
    <2>4. IsFiniteSet(table) /\ Cardinality(table) = 1
        BY <2>2, FS_Singleton
    <2>5. CountFollows
        BY <2>2, <2>4 DEF CountFollows
    <2>6. QED
        BY <1>2, <2>3, <2>4, <2>5 DEF AnchorInv
<1>4. CASE ~ setting.started
    <2>1. table = {} /\ prunes = 0 /\ count_sig = count /\ count = None
        BY <1>4 DEF Init
    <2>2. IsFiniteSet(table)
        BY <2>1, FS_EmptySet
    <2>3. QED
        BY <1>2, <2>1, <2>2 DEF AnchorInv, RowsSigned, GenesisLowest, CountFollows
<1>5. QED
    BY <1>1, <1>3, <1>4

\* Every step keeps the anchor of the chain in step with its rows.
LEMMA AnchorStep ==
    TypeOK /\ ChainInv /\ AnchorInv /\ [Next]_vars => AnchorInv'
<1> SUFFICES ASSUME TypeOK, ChainInv, AnchorInv, [Next]_vars, Serialized'
             PROVE  /\ IsFiniteSet(table)' /\ RowsSigned' /\ GenesisLowest'
                    /\ RowsCounted' /\ CountFollows'
    BY DEF AnchorInv
<1> DEFINE Goal == /\ IsFiniteSet(table)' /\ RowsSigned' /\ GenesisLowest'
                   /\ RowsCounted' /\ CountFollows'
<1>0. setting' = setting
    BY DEF Next, vars, RecordCall, LockChain, ReadTail, InsertGenesis, InsertRow, Insert,
       BumpCounter, BumpFails, CommitGenesis, CommitRow, Publish, RecordRaises, Prune,
       VerifyCall, VerifyRows
<1>s. Serialized /\ IsFiniteSet(table) /\ RowsSigned /\ GenesisLowest
      /\ RowsCounted /\ CountFollows
    BY <1>0 DEF Serialized, AnchorInv
<1>t. /\ prunes \in Nat /\ faults \in Nat /\ setting.anchored \in BOOLEAN
      /\ pc \in [Writers -> {"idle", "locking", "reading", "genesis", "genesis_bump",
                             "genesis_commit", "signing", "row_bump", "row_commit",
                             "done", "raised"}]
      /\ inserted \in [Writers -> SUBSET Rows] /\ bumped \in [Writers -> BOOLEAN]
      /\ \A row \in table : row \in Rows /\ row.id \in Nat
    BY BoundsAssumption, SettingsAssumption DEF TypeOK, Rows
<1> USE DEF BeforeRow
\* A step that publishes nothing keeps what is said of the table and the counter.
<1>q. ASSUME UNCHANGED <<table, anchor, prunes>>, faults' \in Nat, faults' = 0 => faults = 0,
             RowsCounted', \A w \in Writers : \A row \in inserted'[w] : SignedOver(row),
             \A w \in Writers : pc'[w] \in BeforeRow => table # {}
      PROVE  Goal
    <2>1. RowsSigned' /\ GenesisLowest'
        BY <1>q, <1>s DEF RowsSigned, GenesisLowest
    <2>2. CountFollows'
        BY <1>q, <1>s, <1>0 DEF CountFollows, anchor
    <2>3. QED
        BY <1>q, <1>s, <2>1, <2>2
<1>1. ASSUME NEW w \in Writers, RecordCall(w) \/ LockChain(w) \/ ReadTail(w) PROVE Goal
    <2>1. UNCHANGED <<setting, table, anchor, prunes, faults, inserted, bumped>>
        BY <1>1 DEF RecordCall, LockChain, ReadTail
    <2>2. /\ pc[w] \notin {"genesis_commit", "row_commit"}
          /\ \E to \in {"locking", "reading", "genesis", "signing"} :
                pc' = [pc EXCEPT ![w] = to] /\ (to = "signing" => table # {})
        BY <1>1, <1>t DEF RecordCall, LockChain, ReadTail
    <2>3. RowsCounted'
        BY <1>s, <1>t, <2>1, <2>2 DEF RowsCounted
    <2>4. \A v \in Writers : pc'[v] \in BeforeRow => table # {}
        BY <1>s, <1>t, <2>2 DEF GenesisLowest
    <2>5. QED
        BY <1>q, <1>s, <1>t, <2>1, <2>3, <2>4 DEF RowsSigned
<1>2. ASSUME NEW w \in Writers, InsertGenesis(w) \/ InsertRow(w) PROVE Goal
    <2>1. PICK row :
             /\ inserted' = [inserted EXCEPT ![w] = {row}] /\ SignedOver(row)
             /\ \/ pc[w] = "genesis" /\ pc' = [pc EXCEPT ![w] = "genesis_bump"]
                \/ pc[w] = "signing" /\ pc' = [pc EXCEPT ![w] = "row_bump"]
        BY <1>2 DEF InsertGenesis, InsertRow, Insert, SignedOver, GenesisRow, Row
    <2>2. UNCHANGED <<setting, table, anchor, prunes, faults, bumped>>
        BY <1>2 DEF InsertGenesis, InsertRow, Insert
    <2>3. RowsCounted'
        BY <1>s, <1>t, <2>1, <2>2 DEF RowsCounted
    <2>4. \A v \in Writers : pc'[v] \in BeforeRow => table # {}
        BY <1>s, <1>t, <2>1 DEF GenesisLowest
    <2>5. \A v \in Writers : \A r \in inserted'[v] : SignedOver(r)
        BY <1>s, <1>t, <2>1 DEF RowsSigned
    <2>6. QED
        BY <1>q, <1>t, <2>2, <2>3, <2>4, <2>5
<1>3. ASSUME NEW w \in Writers, BumpCounter(w) \/ BumpFails(w) PROVE Goal
    <2>1. /\ UNCHANGED <<setting, table, anchor, prunes, inserted>>
          /\ \/ pc[w] = "genesis_bump" /\ pc' = [pc EXCEPT ![w] = "genesis_commit"]
             \/ pc[w] = "row_bump" /\ pc' = [pc EXCEPT ![w] = "row_commit"]
          /\ \/ faults' = faults /\ bumped' = [bumped EXCEPT ![w] = setting.anchored]
             \/ faults' = faults + 1 /\ bumped' = bumped
        BY <1>3 DEF BumpCounter, BumpFails, AfterBump
    <2>2. faults' \in Nat /\ (faults' = 0 => faults' = faults)
        BY <1>t, <2>1
    <2>3. RowsCounted'
        BY <1>s, <1>t, <2>1, <2>2 DEF RowsCounted
    <2>4. \A v \in Writers : pc'[v] \in BeforeRow => table # {}
        BY <1>s, <1>t, <2>1 DEF GenesisLowest
    <2>5. QED
        BY <1>q, <1>s, <2>1, <2>2, <2>3, <2>4 DEF RowsSigned
\* A COMMIT adds the row and its count.
<1>4. ASSUME NEW w \in Writers, NEW row, inserted[w] = {row}, IsNext(row),
             pc[w] \in {"genesis_commit", "row_commit"}, Publish(w),
             pc' = [pc EXCEPT ![w] = IF pc[w] = "row_commit" THEN "done" ELSE "signing"],
             table = {} => row.payload = Genesis
      PROVE  Goal
    <2>1. /\ table' = table \cup {row} /\ row \notin table
          /\ \A old \in table : old.id < row.id
        BY <1>4, <1>t DEF Publish, IsNext
    <2>2. row \in Rows /\ row.id \in Nat
        BY <1>4, <1>t DEF Rows
    <2>3. /\ IsFiniteSet(table') /\ Cardinality(table') = Cardinality(table) + 1
          /\ Cardinality(table) \in Nat
        BY <1>s, <2>1, FS_AddElement, FS_CardinalityType
    <2>4. RowsSigned'
        <3>1. SignedOver(row)
            BY <1>4, <1>s DEF RowsSigned
        <3>2. inserted' = [inserted EXCEPT ![w] = {}]
            BY <1>4 DEF Publish
        <3>3. QED
            BY <1>s, <1>t, <2>1, <3>1, <3>2 DEF RowsSigned
    <2>5. GenesisLowest'
        <3>1. CASE table = {}
            BY <1>4, <2>1, <2>2, <3>1 DEF GenesisLowest
        <3>2. CASE table # {}
            <4>1. PICK g \in table : g.payload = Genesis /\ \A q \in table \ {g} : g.id < q.id
                BY <1>s, <3>2 DEF GenesisLowest
            <4>2. g \in table' /\ \A q \in table' \ {g} : g.id < q.id
                BY <1>t, <2>1, <2>2, <4>1
            <4>3. QED
                BY <4>1, <4>2 DEF GenesisLowest
        <3>3. QED
            BY <3>1, <3>2
    <2>6. RowsCounted'
        <3>1. bumped' = [bumped EXCEPT ![w] = FALSE] /\ faults' = faults
            BY <1>4 DEF Publish
        <3>2. QED
            BY <1>0, <1>4, <1>s, <1>t, <3>1 DEF RowsCounted
    <2>7. CountFollows'
        <3>1. /\ count' = IF bumped[w] THEN NextCount ELSE count
              /\ count_sig' = IF bumped[w] THEN NextCount ELSE count_sig
              /\ prunes' = prunes /\ faults' = faults
            BY <1>4 DEF Publish
        <3>2. /\ bumped[w] => setting.anchored
              /\ setting.anchored /\ faults = 0 => bumped[w]
            BY <1>4, <1>s DEF RowsCounted
        <3>3. table' # {}
            BY <2>1
        <3>4. table = {} => Cardinality(table) = 0
            BY FS_EmptySet
        <3>5. ASSUME setting.anchored, faults = 0
              PROVE  /\ count' \in Nat
                     /\ IF prunes = 0 THEN count' = Cardinality(table')
                                      ELSE count' > Cardinality(table')
            <4>1. count' = NextCount
                BY <3>1, <3>2, <3>5
            <4>2. CASE table = {}
                BY <1>s, <2>3, <3>4, <3>5, <4>1, <4>2 DEF CountFollows, NextCount
            <4>3. CASE table # {}
                <5>1. count \in Nat /\ count # None
                    BY <1>s, <3>5, <4>3, NoneAssumption DEF CountFollows
                <5>2. QED
                    BY <1>s, <2>3, <3>5, <4>1, <4>3, <5>1 DEF CountFollows, NextCount
            <4>4. QED
                BY <4>2, <4>3
        <3>6. QED
            BY <1>0, <1>s, <3>1, <3>2, <3>3, <3>5 DEF CountFollows
    <2>8. QED
        BY <2>3, <2>4, <2>5, <2>6, <2>7
<1>5. ASSUME NEW w \in Writers, CommitGenesis(w) PROVE Goal
    <2>1. PICK row \in inserted[w] :
              inserted[w] = {row} /\ IsNext(row) /\ row = GenesisRow(row.id)
        BY <1>5, <1>s, CommitFacts DEF CommitGenesis
    <2>2. row.payload = Genesis
        BY <2>1 DEF GenesisRow, Row
    <2>3. QED
        BY <1>4, <1>5, <2>1, <2>2 DEF CommitGenesis
<1>6. ASSUME NEW w \in Writers, CommitRow(w) PROVE Goal
    <2>1. PICK row \in inserted[w] : inserted[w] = {row} /\ IsNext(row)
        BY <1>6, <1>s, CommitFacts DEF CommitRow
    <2>2. table # {}
        BY <1>6, <1>s DEF CommitRow, GenesisLowest
    <2>3. QED
        BY <1>4, <1>6, <2>1, <2>2 DEF CommitRow
<1>7. ASSUME NEW w \in Writers, RecordRaises(w) PROVE Goal
    <2>1. /\ UNCHANGED <<setting, table, anchor, prunes, faults>>
          /\ inserted' = [inserted EXCEPT ![w] = {}]
          /\ bumped' = [bumped EXCEPT ![w] = FALSE]
          /\ pc' = [pc EXCEPT ![w] = "raised"]
        BY <1>7 DEF RecordRaises
    <2>2. RowsCounted'
        BY <1>s, <1>t, <2>1 DEF RowsCounted
    <2>3. \A v \in Writers : pc'[v] \in BeforeRow => table # {}
        BY <1>s, <1>t, <2>1 DEF GenesisLowest
    <2>4. \A v \in Writers : \A r \in inserted'[v] : SignedOver(r)
        BY <1>s, <1>t, <2>1 DEF RowsSigned
    <2>5. QED
        BY <1>q, <1>t, <2>1, <2>2, <2>3, <2>4
<1>8. CASE Prune
    <2>1. PICK lapsed \in SUBSET {row \in table : row.payload \in Short} :
              lapsed # {} /\ table' = table \ lapsed
        BY <1>8 DEF Prune
    <2>2. /\ prunes' # 0 /\ UNCHANGED <<setting, count, count_sig, faults, pc, inserted, bumped>>
          /\ prunes' \in Nat
        BY <1>8, <1>t DEF Prune, w_vars, anchor
    <2>3. PICK g \in table : g.payload = Genesis /\ \A q \in table \ {g} : g.id < q.id
        BY <1>s, <2>1 DEF GenesisLowest
    <2>4. g \in table' /\ \A q \in table' \ {g} : g.id < q.id
        BY <2>1, <2>3, WritersAssumption
    <2>5. /\ IsFiniteSet(table')
          /\ Cardinality(table') \in Nat /\ Cardinality(table) \in Nat
          /\ Cardinality(table') < Cardinality(table)
        BY <1>s, <2>1, PartIsSmaller
    <2>6. RowsSigned' /\ GenesisLowest' /\ RowsCounted'
        BY <1>s, <2>1, <2>2, <2>3, <2>4 DEF RowsSigned, GenesisLowest, RowsCounted
    <2>7. CountFollows'
        BY <1>s, <1>t, <2>1, <2>2, <2>4, <2>5 DEF CountFollows
    <2>8. QED
        BY <2>5, <2>6, <2>7
<1>9. CASE UNCHANGED <<setting, table, anchor, w_vars, prunes, faults>>
    BY <1>9, <1>q, <1>s, <1>t DEF w_vars, RowsCounted, RowsSigned, GenesisLowest
<1>10. QED
    BY <1>1, <1>2, <1>3, <1>5, <1>6, <1>7, <1>8, <1>9
    DEF Next, vars, VerifyCall, VerifyRows

\* The signed counter follows the rows, whoever raises and whatever is pruned.
THEOREM AnchorHolds == Spec => []AnchorInv
<1>1. QED
    BY TypeInit, TypeStep, ChainInit, ChainStep, AnchorInit, AnchorStep, PTL DEF Spec

\* Chains that have a lock for their first row or have their first row.
LEMMA AnchorFacts ==
    ASSUME TypeOK, AnchorInv, \A s \in Settings : s.mutex \/ s.started
    PROVE  /\ IsFiniteSet(table) /\ RowsSigned /\ GenesisLowest /\ CountFollows
           /\ prunes \in Nat /\ faults \in Nat
BY BoundsAssumption DEF TypeOK, AnchorInv, Serialized

\* A chain that only record_evidence has touched verifies in every committed state,
\* for any number of writers.
THEOREM IntactHolds ==
    ASSUME \A s \in Settings : s.mutex \/ s.started
    PROVE  Spec => []IntactVerifies
<1>1. TypeOK /\ AnchorInv /\ OneChain => IntactVerifies
    <2> SUFFICES ASSUME TypeOK, AnchorInv, OneChain, prunes = 0, faults = 0
                 PROVE  Verdict(count, count_sig, table) = "valid"
        BY DEF IntactVerifies
    <2>1. IsFiniteSet(table) /\ RowsSigned /\ GenesisLowest /\ CountFollows
        BY AnchorFacts
    <2>2. count_sig = count
        BY <2>1 DEF CountFollows
    <2>3. count # None => table # {} /\ count = Cardinality(table)
        BY <2>1 DEF CountFollows
    <2>4. ~ \E row \in table : row.payload # Genesis /\ \A q \in table : row.id <= q.id
        <3> SUFFICES ASSUME NEW row \in table, \A q \in table : row.id <= q.id
                     PROVE  row.payload = Genesis
            OBVIOUS
        <3>1. PICK g \in table : g.payload = Genesis /\ \A q \in table \ {g} : g.id < q.id
            BY <2>1 DEF GenesisLowest
        <3>2. row \in Rows /\ g \in Rows
            BY DEF TypeOK
        <3>3. QED
            BY <3>1, <3>2 DEF Rows
    <2>5. \A row \in table : Linked(row, table) /\ row.signed = Append(row.prev, row.payload)
        BY <2>1 DEF OneChain, RowsSigned, SignedOver
    <2>6. QED
        BY <2>2, <2>3, <2>4, <2>5 DEF Verdict
<1>2. QED
    BY <1>1, TypeCorrect, AnchorHolds, OneChainHolds, PTL

\* From an intact anchored chain no rows can go missing unnoticed: not from its head,
\* its tail or its middle, and not all of them.
THEOREM DeletionHolds ==
    ASSUME \A s \in Settings : s.mutex \/ s.started
    PROVE  Spec => []DeletionDetected
<1>1. TypeOK /\ AnchorInv => DeletionDetected
    <2> SUFFICES ASSUME TypeOK, AnchorInv, setting.anchored, prunes = 0, faults = 0,
                        NEW lost \in SUBSET table, lost # {}
                 PROVE  Verdict(count, count_sig, table \ lost) # "valid"
        BY DEF DeletionDetected
    <2>1. IsFiniteSet(table) /\ CountFollows
        BY AnchorFacts
    <2>2. count \in Nat /\ count = Cardinality(table)
        BY <2>1 DEF CountFollows
    <2>3. Cardinality(table \ lost) # Cardinality(table)
        BY <2>1, PartIsSmaller
    <2>4. QED
        BY <2>2, <2>3, NoneAssumption DEF Verdict
<1>2. QED
    BY <1>1, TypeCorrect, AnchorHolds, PTL

\* A pruned anchored chain never verifies again, for any number of writers and
\* prunes; one without an anchor shows at most a cut.
THEOREM PruneReportHolds ==
    ASSUME \A s \in Settings : s.mutex \/ s.started
    PROVE  Spec => []PruneIsReported
<1>1. TypeOK /\ AnchorInv => PruneIsReported
    <2> SUFFICES ASSUME TypeOK, AnchorInv, prunes > 0, faults = 0
                 PROVE  IF setting.anchored
                        THEN Verdict(count, count_sig, table) # "valid"
                        ELSE Verdict(count, count_sig, table) \in {"valid", "prev_hash_break"}
        BY DEF PruneIsReported
    <2>1. IsFiniteSet(table) /\ CountFollows
        BY AnchorFacts
    <2>2. CASE setting.anchored
        <3>1. table # {} /\ count \in Nat /\ count_sig = count /\ count > Cardinality(table)
            BY <2>1, <2>2 DEF CountFollows
        <3>2. Cardinality(table) # count
            BY <2>1, <3>1, FS_CardinalityType
        <3>3. QED
            BY <2>2, <3>1, <3>2, NoneAssumption DEF Verdict
    <2>3. CASE ~ setting.anchored
        BY <2>1, <2>3 DEF CountFollows, Verdict
    <2>4. QED
        BY <2>2, <2>3
<1>2. QED
    BY <1>1, TypeCorrect, AnchorHolds, PTL
=============================================================================
