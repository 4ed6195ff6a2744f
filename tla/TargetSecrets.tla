----------------------------- MODULE TargetSecrets -----------------------------
(***************************************************************************)
(* A red-team target and its encrypted secret (kya_redteam/targets.py, on  *)
(* PostgreSQL, which its statements need): two rows, written in different  *)
(* orders by calls that each lock what they write; the keys that each      *)
(* process is configured with; and the sweep that encrypts the secrets of  *)
(* a tenant anew after the key was rotated.                                *)
(***************************************************************************)
EXTENDS Naturals, Sequences, TLAPS

CONSTANTS
    Processes,
    Calls,
    Plans,       \* what the calls may be: functions Calls -> Kinds, None where there is none
    ProcessOf,   \* Calls -> Processes
    Modes,       \* how the key is rotated: under a new id, the same id, or no key at all
    MaxFaults,   \* bound on statements that fail
    None

Kinds == {"rotate", "none", "bearer", "both", "given", "delete", "sweep", "probe"}
Reports == {"nothing", "current", "failed", "rotated", "ok", "failing"}
Stages == {"before", "after", "retired"}
Rows ==
    [secret : Calls \cup {"first"}, id : {"v1", "v2"}, by : Calls \cup {None},
     key : (Processes \X Stages) \cup ({"key"} \X {"old", "new"})]

CallsAssumption ==
    /\ \A kinds \in Plans : kinds \in [Calls -> Kinds \cup {None}]
    /\ ProcessOf \in [Calls -> Processes]
    /\ Modes \subseteq {"new id", "same id", "no key"} /\ MaxFaults \in Nat
    /\ None \notin Calls \cup Kinds \cup Reports \cup {"first"} \cup Rows

VARIABLES
    plan,        \* constant: what the calls are
    mode,        \* constant: one of Modes
    stage,       \* configuration of a process: "before", "after" or "retired"
    auth,        \* auth_kind of the target, None once it is deleted
    row,         \* secret row: [secret, id, key, by], None where there is none
    holder,      \* of the locks of "target" and "secret"
    pc,
    left,        \* rows that the statements of a call have yet to write
    sawAuth, sawRow, \* what a call read
    sealed,      \* row that a call is to write
    report,      \* of a sweep
    status,      \* verified_status
    bare,        \* history: probes that went out without any secret
    latest,      \* history: secret that was written last by who knows it, None for none
    clobbered,   \* history: a sweep wrote over a secret it had not read
    crossing,    \* history: calls under way when the target went over to "none"
    late,        \* history: sweeps that read when some process was not yet configured anew
    faults

setup == <<plan, mode>>
target == <<auth, row, status>>
calls == <<pc, left, sawAuth, sawRow, sealed, report, bare>>
history == <<latest, clobbered, crossing, late>>
vars == <<setup, stage, target, holder, calls, history, faults>>
-----------------------------------------------------------------------------
(* Keys                                                                    *)

\* _CURRENT_KEY_ID of a process.
Current(p) == IF mode = "new id" /\ stage[p] # "before" THEN "v2" ELSE "v1"

\* _resolve_key: the current key has a variable of its own, or is one of this process's
\* own while it runs; an earlier one is there until its variable is removed.
Key(p, id) ==
    IF id = Current(p) THEN
        IF mode = "no key" THEN <<p, stage[p]>>
        ELSE IF stage[p] = "before" THEN <<"key", "old">> ELSE <<"key", "new">>
    ELSE IF id = "v1" /\ stage[p] = "after" THEN <<"key", "old">>
    ELSE None

Seal(p, secret, by) ==
    [secret |-> secret, id |-> Current(p), key |-> Key(p, Current(p)), by |-> by]
Readable(p, r) == Key(p, r.id) = r.key

Init ==
    /\ plan \in Plans /\ mode \in Modes /\ stage = [p \in Processes |-> "before"]
    /\ \/ auth = "none" /\ row = None
       \/ auth = "bearer" /\ \E p \in Processes : row = Seal(p, "first", None)
    /\ holder = [r \in {"target", "secret"} |-> None]
    /\ pc = [c \in Calls |-> "new"] /\ left = [c \in Calls |-> << >>]
    /\ sawAuth = [c \in Calls |-> None] /\ sawRow = [c \in Calls |-> None]
    /\ sealed = [c \in Calls |-> None] /\ report = [c \in Calls |-> None]
    /\ status = "never" /\ bare = {}
    /\ latest = IF row = None THEN None ELSE row.secret
    /\ clobbered = FALSE /\ crossing = {} /\ late = {} /\ faults = 0

Freed(cs) == [r \in DOMAIN holder |-> IF holder[r] \in cs THEN None ELSE holder[r]]
Under(p) == {c \in Calls : ProcessOf[c] = p /\ pc[c] # "new"}

\* A process is started anew with other variables; what it was doing is rolled back.
Restart(p, then) ==
    /\ stage' = [stage EXCEPT ![p] = then]
    /\ pc' = [c \in Calls |-> IF c \in Under(p) /\ pc[c] # "done" THEN "raised" ELSE pc[c]]
    /\ holder' = Freed(Under(p))
    /\ UNCHANGED <<setup, target, left, sawAuth, sawRow, sealed, report, bare, history,
                   faults>>

Redeploy(p) == stage[p] = "before" /\ Restart(p, "after")

\* "After successful rotation across all tenants, the old env vars can be removed."
Successful(c) == plan[c] = "sweep" /\ report[c] \in {"rotated", "current", "nothing"}
Retire(p) ==
    /\ stage[p] = "after" /\ \E c \in Calls : Successful(c) /\ stage[ProcessOf[c]] # "before"
    /\ Restart(p, "retired")
-----------------------------------------------------------------------------
(* Reads                                                                   *)

Go(c, step) == pc' = [pc EXCEPT ![c] = step]
Write(c, rows) == left' = [left EXCEPT ![c] = rows] /\ Go(c, "write")

\* create_target refuses a target with authentication and no secret; update_target and
\* delete_target ask nothing before they write.
Update(c) ==
    /\ pc[c] = "new" /\ plan[c] \in {"none", "bearer", "both", "given", "delete"}
    /\ Write(c, CASE plan[c] \in {"none", "both"}     -> <<"target", "secret">>
                  [] plan[c] \in {"bearer", "delete"} -> <<"target">>
                  [] plan[c] = "given"                -> <<"secret">>)
    /\ sealed' = [sealed EXCEPT ![c] =
                    IF plan[c] \in {"both", "given"} THEN Seal(ProcessOf[c], c, c) ELSE None]
    /\ UNCHANGED <<setup, stage, target, holder, sawAuth, sawRow, report, bare, history,
                   faults>>

\* rotate_target_secret: not of a target that has no authentication, or is gone.
Rotate(c) ==
    /\ pc[c] = "new" /\ plan[c] = "rotate"
    /\ IF auth = "bearer"
       THEN /\ Write(c, <<"secret", "target">>)
            /\ sealed' = [sealed EXCEPT ![c] = Seal(ProcessOf[c], c, c)]
       ELSE Go(c, "raised") /\ UNCHANGED <<left, sealed>>
    /\ UNCHANGED <<setup, stage, target, holder, sawAuth, sawRow, report, bare, history,
                   faults>>

\* rotate_encryption_key_for_tenant selects the row, ...
SweepSelect(c) ==
    /\ pc[c] = "new" /\ plan[c] = "sweep"
    /\ sawRow' = [sawRow EXCEPT ![c] = row]
    /\ late' = IF \E p \in Processes : stage[p] = "before" THEN late \cup {c} ELSE late
    /\ Go(c, "seal")
    /\ UNCHANGED <<setup, stage, target, holder, left, sawAuth, sealed, report, bare, latest,
                   clobbered, crossing, faults>>

\* ... decrypts it with the key it was encrypted with, and encrypts it with its own.
SweepSeal(c) ==
    LET p == ProcessOf[c]
        old == sawRow[c]
        Report(what) ==
            /\ report' = [report EXCEPT ![c] = what] /\ Go(c, "done")
            /\ UNCHANGED <<left, sealed>>
    IN  /\ pc[c] = "seal" /\ plan[c] = "sweep"
        /\ CASE old = None               -> Report("nothing")
             [] old # None /\ old.id = Current(p) -> Report("current")
             [] old # None /\ old.id # Current(p) /\ ~ Readable(p, old) -> Report("failed")
             [] old # None /\ old.id # Current(p) /\ Readable(p, old) ->
                    /\ sealed' = [sealed EXCEPT ![c] = Seal(p, old.secret, old.by)]
                    /\ Write(c, <<"secret">>) /\ UNCHANGED report
        /\ UNCHANGED <<setup, stage, target, holder, sawAuth, sawRow, bare, history, faults>>

\* get_target with include_secret: the target, then, if it has authentication, its secret.
ReadTarget(c) ==
    /\ pc[c] = "new" /\ plan[c] = "probe"
    /\ sawAuth' = [sawAuth EXCEPT ![c] = auth]
    /\ Go(c, CASE auth = None -> "raised" [] auth = "none" -> "probe" [] OTHER -> "secret")
    /\ UNCHANGED <<setup, stage, target, holder, left, sawRow, sealed, report, bare, history,
                   faults>>

\* A secret that cannot be decrypted raises; none at all does not.
ReadSecret(c) ==
    /\ pc[c] = "secret"
    /\ sawRow' = [sawRow EXCEPT ![c] = row]
    /\ Go(c, IF row # None /\ ~ Readable(ProcessOf[c], row) THEN "raised" ELSE "probe")
    /\ UNCHANGED <<setup, stage, target, holder, left, sawAuth, sealed, report, bare, history,
                   faults>>

\* verify_target: the endpoint answers as it likes, and the answer is written.
Probe(c) ==
    /\ pc[c] = "probe"
    /\ \E answer \in {"ok", "failing"} : report' = [report EXCEPT ![c] = answer]
    /\ bare' = IF sawAuth[c] = "bearer"
                  /\ (sawRow[c] = None \/ ~ Readable(ProcessOf[c], sawRow[c]))
               THEN bare \cup {c} ELSE bare
    /\ Write(c, <<"target">>)
    /\ UNCHANGED <<setup, stage, target, holder, sawAuth, sawRow, sealed, history, faults>>
-----------------------------------------------------------------------------
(* Writes                                                                  *)

\* A statement locks the row it writes until the commit, if there is one to write.
Missing(c, r) ==
    \/ r = "target" /\ auth = None
    \/ r = "secret" /\ row = None /\ plan[c] \in {"sweep", "none"}

Statement(c) ==
    LET r == Head(left[c])
    IN  /\ pc[c] = "write" /\ left[c] # << >>
        /\ \/ Missing(c, r) /\ UNCHANGED holder
           \/ ~ Missing(c, r) /\ holder[r] = None /\ holder' = [holder EXCEPT ![r] = c]
        /\ left' = [left EXCEPT ![c] = Tail(@)]
        /\ UNCHANGED <<setup, stage, target, pc, sawAuth, sawRow, sealed, report, bare, history,
                       faults>>

AuthAfter(c) ==
    CASE plan[c] = "none" -> "none"
      [] plan[c] \in {"bearer", "both"} -> "bearer"
      [] plan[c] = "delete" -> None
      [] OTHER -> auth

\* The sweep's UPDATE does not ask whether the row is still the one it read.
RowAfter(c) ==
    CASE plan[c] = "none" -> None
      [] plan[c] = "sweep" -> [sealed[c] EXCEPT !.by = row.by]
      [] OTHER -> sealed[c]

Done(c) ==
    /\ Go(c, "done")
    /\ report' = IF plan[c] = "sweep" THEN [report EXCEPT ![c] = "rotated"] ELSE report
    /\ holder' = Freed({c})

\* A deleted target's secret stays: the table has no foreign key.
CommitRows(c) ==
    /\ auth' = IF holder["target"] = c THEN AuthAfter(c) ELSE auth
    /\ row' = IF holder["secret"] = c THEN RowAfter(c) ELSE row
    /\ status' = IF holder["target"] = c /\ plan[c] = "probe" THEN report[c] ELSE status

Commit(c) ==
    LET wrote == holder["secret"] = c
    IN  /\ pc[c] = "write" /\ left[c] = << >>
        /\ CommitRows(c) /\ Done(c)
        /\ latest' = IF wrote /\ plan[c] # "sweep"
                     THEN IF plan[c] = "none" THEN None ELSE c
                     ELSE latest
        /\ clobbered' = IF wrote THEN plan[c] = "sweep" /\ (clobbered \/ row # sawRow[c])
                        ELSE clobbered
        /\ crossing' = IF plan[c] = "none"
                       THEN crossing \cup {d \in Calls : pc[d] \in {"secret", "write"}}
                       ELSE crossing
        /\ UNCHANGED <<setup, stage, left, sawAuth, sawRow, sealed, bare, late, faults>>

Raise(c) ==
    /\ Go(c, "raised") /\ holder' = Freed({c})
    /\ report' = IF plan[c] = "sweep" THEN [report EXCEPT ![c] = "failed"] ELSE report
    /\ UNCHANGED <<setup, stage, target, left, sawAuth, sawRow, sealed, bare, history>>

StatementFails(c) ==
    /\ pc[c] = "write" /\ faults < MaxFaults /\ faults' = faults + 1
    /\ Raise(c)

\* Two calls that each hold what the other wants: the database ends one of them.
Waits(c, d) ==
    /\ pc[c] = "write" /\ left[c] # << >>
    /\ ~ Missing(c, Head(left[c])) /\ holder[Head(left[c])] = d
Victim(c) ==
    /\ \E d \in Calls \ {c} : Waits(c, d) /\ Waits(d, c)
    /\ Raise(c) /\ UNCHANGED faults

Next ==
    \/ \E p \in Processes : Redeploy(p) \/ Retire(p)
    \/ \E c \in Calls :
        \/ Update(c) \/ Rotate(c) \/ SweepSelect(c) \/ SweepSeal(c)
        \/ ReadTarget(c) \/ ReadSecret(c) \/ Probe(c)
        \/ Statement(c) \/ Commit(c) \/ StatementFails(c) \/ Victim(c)

Spec == Init /\ [][Next]_vars
-----------------------------------------------------------------------------
TypeOK ==
    /\ plan \in Plans /\ mode \in Modes /\ stage \in [Processes -> Stages]
    /\ auth \in {"bearer", "none", None} /\ status \in {"never", "ok", "failing"}
    /\ row \in Rows \cup {None} /\ sawAuth \in [Calls -> {"bearer", "none", None}]
    /\ {sawRow, sealed} \subseteq [Calls -> Rows \cup {None}]
    /\ left \in [Calls -> {<< >>, <<"target">>, <<"secret">>, <<"target", "secret">>,
                           <<"secret", "target">>}]
    /\ report \in [Calls -> Reports \cup {None}]
    /\ holder \in [{"target", "secret"} -> Calls \cup {None}]
    /\ pc \in [Calls -> {"new", "seal", "secret", "probe", "write", "done", "raised"}]
    /\ {bare, crossing, late} \subseteq SUBSET Calls /\ faults \in 0..MaxFaults
    /\ latest \in Calls \cup {"first", None} /\ clobbered \in BOOLEAN

\* What is stored is the secret that was given last, until a sweep writes back an older one
\* that it had read; a sweep never brings a removed secret back.
SecretKept ==
    /\ (row = None) = (latest = None)
    /\ (row # None /\ ~ clobbered) => row.secret = latest

\* Under a new id, what is stored can be read by every process that has both keys, whoever
\* wrote it; and once a sweep that began with all processes configured anew has reported
\* no failure, the old key can go.
RetireSafe ==
    (mode = "new id" /\ row # None) =>
        \A p \in Processes :
            (stage[p] = "after" \/ \E c \in Calls \ late : Successful(c)) => Readable(p, row)

\* A secret lies beside a target without authentication only if it was given without a
\* look at the target, or by a rotation that looked before the change.
OrphanExplained ==
    (auth = "none" /\ row # None) =>
        row.by # None /\ (plan[row.by] = "given" \/ row.by \in crossing)

\* A target with authentication is probed without any only if it was made one without a
\* secret, or stopped being one while its rows were read.
BareExplained ==
    \A c \in bare :
        \/ c \in crossing
        \/ \E d \in Calls : plan[d] = "bearer" /\ pc[d] = "done"

TargetsKept == SecretKept /\ RetireSafe /\ OrphanExplained /\ BareExplained
-----------------------------------------------------------------------------
(* What these rest on.                                                     *)

\* Whoever has a lock is writing, and has got what it has passed, but for rows that are not
\* there; what is locked stays there.
Writes(c) ==
    CASE plan[c] \in {"none", "both", "rotate"}    -> {"target", "secret"}
      [] plan[c] \in {"bearer", "delete", "probe"} -> {"target"}
      [] plan[c] \in {"given", "sweep"}            -> {"secret"}
      [] OTHER                                     -> {}
Passed(c, r) ==
    pc[c] = "write" /\ r \in Writes(c) /\ \A i \in DOMAIN left[c] : left[c][i] # r
LocksHeld ==
    /\ \A r \in {"target", "secret"} : holder[r] # None => Passed(holder[r], r)
    /\ holder["target"] # None => auth # None
    /\ holder["secret"] # None /\ plan[holder["secret"]] = "sweep" => row # None
CallKnown(c) ==
    /\ Passed(c, "target") => holder["target"] = c \/ auth = None
    /\ Passed(c, "secret") => holder["secret"] = c \/ plan[c] \in {"sweep", "none"}
    /\ pc[c] = "write" =>
        /\ \A i \in DOMAIN left[c] : left[c][i] \in Writes(c)
        /\ plan[c] = "probe" => report[c] \in {"ok", "failing"}
        /\ plan[c] = "none" => left[c] \in {<<"target", "secret">>, <<"secret">>, << >>}
    /\ pc[c] = "seal" => plan[c] = "sweep"
    /\ pc[c] \in {"secret", "probe"} => plan[c] = "probe"
LocksKnown == LocksHeld /\ \A c \in Calls : CallKnown(c)

\* What a call is about to write is encrypted as its process does it; a sweep's is the
\* secret it read, another one's its own.
SealsCurrent ==
    \A c \in Calls :
        (pc[c] = "write" /\ plan[c] \in {"both", "given", "rotate", "sweep"}) =>
            LET p == ProcessOf[c]
            IN  /\ sealed[c] # None
                /\ sealed[c].id = Current(p) /\ sealed[c].key = Key(p, Current(p))
                /\ IF plan[c] = "sweep"
                   THEN sawRow[c] # None /\ sealed[c].secret = sawRow[c].secret
                   ELSE sealed[c].secret = c /\ sealed[c].by = c

\* Under a new id the id tells the key.
WellSealed(r) == r.key = <<"key", IF r.id = "v1" THEN "old" ELSE "new">>
RowsWellSealed ==
    mode = "new id" =>
        /\ row # None => WellSealed(row)
        /\ \A c \in Calls : sawRow[c] # None => WellSealed(sawRow[c])

\* Once a sweep has begun with all processes configured anew, only rows of the new id are
\* written; the one it read is left until it has looked at it.
Renewed == row # None => row.id = "v2"
SweepRenews(c) ==
    /\ pc[c] \in {"seal", "write", "done"} => \A p \in Processes : stage[p] # "before"
    /\ pc[c] = "seal" => Renewed \/ row = sawRow[c]
    /\ Passed(c, "secret") /\ holder["secret"] # c => Renewed
    /\ Successful(c) => pc[c] = "done" /\ Renewed
SweepsRenew ==
    mode = "new id" => \A c \in Calls \ late : plan[c] = "sweep" => SweepRenews(c)

\* A rotation that meets no authentication any more was under way when it went; a change to
\* none that has found no secret can be overtaken only by one given without a look.
OrphansKnown ==
    \A c \in Calls :
        /\ pc[c] = "write" /\ plan[c] = "rotate" /\ auth = "none" => c \in crossing
        /\ (/\ plan[c] = "none" /\ Passed(c, "secret") /\ holder["secret"] # c
            /\ holder["target"] = c /\ row # None)
           => row.by # None /\ plan[row.by] = "given"

\* A target with authentication has its secret, if it was not made one without; a probe
\* has it too, or met a change to none.
Unkept == \E d \in Calls : plan[d] = "bearer" /\ pc[d] = "done"
BareKnown ==
    Unkept \/
        /\ auth = "bearer" => row # None
        /\ \A c \in Calls \ crossing :
            /\ pc[c] = "secret" => row # None
            /\ pc[c] = "probe" /\ sawAuth[c] = "bearer" =>
                sawRow[c] # None /\ Readable(ProcessOf[c], sawRow[c])

TargetsInv ==
    /\ TypeOK /\ LocksKnown /\ SealsCurrent /\ RowsWellSealed /\ SweepsRenew
    /\ OrphansKnown /\ BareKnown /\ SecretKept /\ OrphanExplained /\ BareExplained
-----------------------------------------------------------------------------
(* Proofs.  Who writes has what it has passed, what it writes is encrypted *)
(* as its process does it, and once all processes have the new key only    *)
(* rows of the new id are written.                                         *)

Orders == {<< >>, <<"target">>, <<"secret">>, <<"target", "secret">>, <<"secret", "target">>}
Still(s, r) == \E i \in DOMAIN s : s[i] = r

\* What is still to be written, in each of the orders, ...
LEMMA OrdersStill ==
    /\ \A r : ~ Still(<< >>, r)
    /\ \A r : Still(<<"target">>, r) <=> r = "target"
    /\ \A r : Still(<<"secret">>, r) <=> r = "secret"
    /\ \A r : Still(<<"target", "secret">>, r) <=> r \in {"target", "secret"}
    /\ \A r : Still(<<"secret", "target">>, r) <=> r \in {"target", "secret"}
<1>1. \A r : ~ Still(<< >>, r)
    BY DEF Still
<1>2. \A x : Still(<<x>>, x) /\ \A r : Still(<<x>>, r) => r = x
    <2>1. \A x : DOMAIN <<x>> = {1} /\ <<x>>[1] = x
        OBVIOUS
    <2> QED
        BY <2>1 DEF Still
<1>3. \A x, y, r : Still(<<x, y>>, r) <=> r \in {x, y}
    <2>1. \A x, y : DOMAIN <<x, y>> = {1, 2} /\ <<x, y>>[1] = x /\ <<x, y>>[2] = y
        OBVIOUS
    <2> QED
        BY <2>1 DEF Still
<1> QED
    BY <1>1, <1>2, <1>3

\* ... and after one of them.
LEMMA OrdersTail ==
    ASSUME NEW s \in Orders, s # << >>
    PROVE  /\ Tail(s) \in Orders /\ Head(s) \in {"target", "secret"}
           /\ Still(s, Head(s))
           /\ \A r : Still(Tail(s), r) <=> Still(s, r) /\ r # Head(s)
<1> USE OrdersStill
<1>1. CASE s = <<"target">>
    BY <1>1 DEF Orders
<1>2. CASE s = <<"secret">>
    BY <1>2 DEF Orders
<1>3. CASE s = <<"target", "secret">>
    BY <1>3 DEF Orders
<1>4. CASE s = <<"secret", "target">>
    BY <1>4 DEF Orders
<1> QED
    BY <1>1, <1>2, <1>3, <1>4 DEF Orders

LEMMA PassedBy ==
    ASSUME NEW c \in Calls, NEW r
    PROVE  /\ Passed(c, r) <=> pc[c] = "write" /\ r \in Writes(c) /\ ~ Still(left[c], r)
           /\ Passed(c, r)' <=>
                pc'[c] = "write" /\ r \in Writes(c)' /\ ~ Still(left'[c], r)
BY DEF Passed, Still

PrivateStep(c) ==
    Update(c) \/ Rotate(c) \/ SweepSelect(c) \/ SweepSeal(c) \/ ReadTarget(c) \/ ReadSecret(c)
        \/ Probe(c)
Fail(c) == StatementFails(c) \/ Victim(c)

\* A call reads, and makes up its mind what to write, by itself.
LEMMA Private ==
    ASSUME TypeOK, NEW c \in Calls, PrivateStep(c)
    PROVE  /\ UNCHANGED <<setup, stage, target, holder, latest, clobbered, crossing, faults>>
           /\ pc[c] \in {"new", "seal", "secret", "probe"}
           /\ pc' = [pc EXCEPT ![c] = pc'[c]]
           /\ pc'[c] \in {"seal", "secret", "probe", "write", "done", "raised"}
           /\ late \subseteq late'
           /\ \A d \in Calls \ {c} :
                /\ pc'[d] = pc[d] /\ left'[d] = left[d] /\ sawAuth'[d] = sawAuth[d]
                /\ sawRow'[d] = sawRow[d] /\ sealed'[d] = sealed[d] /\ report'[d] = report[d]
                /\ (d \in late' <=> d \in late) /\ (d \in bare' <=> d \in bare)
<1> USE DEF TypeOK, Go, Write, history
<1>1. CASE Update(c)
    BY <1>1 DEF Update
<1>2. CASE Rotate(c)
    BY <1>2 DEF Rotate
<1>3. CASE SweepSelect(c)
    BY <1>3 DEF SweepSelect
<1>4. CASE SweepSeal(c)
    BY <1>4 DEF SweepSeal
<1>5. CASE ReadTarget(c)
    BY <1>5 DEF ReadTarget
<1>6. CASE ReadSecret(c)
    BY <1>6 DEF ReadSecret
<1>7. CASE Probe(c)
    BY <1>7 DEF Probe
<1> QED
    BY <1>1, <1>2, <1>3, <1>4, <1>5, <1>6, <1>7 DEF PrivateStep

\* The rows that processes write are rows.
LEMMA SealedIsRow ==
    ASSUME CallsAssumption, TypeOK, NEW p \in Processes, NEW secret \in Calls \cup {"first"},
           NEW by \in Calls \cup {None}
    PROVE  /\ Seal(p, secret, by) \in Rows /\ Seal(p, secret, by) # None
           /\ Seal(p, secret, by).secret = secret /\ Seal(p, secret, by).by = by
           /\ Seal(p, secret, by).id = Current(p) /\ Seal(p, secret, by).key = Key(p, Current(p))
<1>1. Current(p) \in {"v1", "v2"}
    BY DEF Current
<1>2. Key(p, Current(p)) \in (Processes \X Stages) \cup ({"key"} \X {"old", "new"})
    <2>1. stage[p] \in Stages
        BY DEF TypeOK
    <2> QED
        BY <2>1 DEF Key
<1>3. Seal(p, secret, by) \in Rows
    BY <1>1, <1>2 DEF Seal, Rows
<1> QED
    BY <1>3 DEF Seal, CallsAssumption

\* A sweep that has read reports, or is about to write what it read anew.
LEMMA SweepSealed ==
    ASSUME NEW c \in Calls, SweepSeal(c)
    PROVE  /\ pc[c] = "seal" /\ plan[c] = "sweep"
           /\ UNCHANGED <<setup, stage, target, holder, sawAuth, sawRow, bare, history, faults>>
           /\ \/ /\ \E what \in {"nothing", "current", "failed"} :
                     /\ report' = [report EXCEPT ![c] = what]
                     /\ what = "nothing" => sawRow[c] = None
                     /\ what = "current" => sawRow[c].id = Current(ProcessOf[c])
                 /\ pc' = [pc EXCEPT ![c] = "done"] /\ UNCHANGED <<left, sealed>>
              \/ /\ sawRow[c] # None
                 /\ sealed' = [sealed EXCEPT ![c] =
                                Seal(ProcessOf[c], sawRow[c].secret, sawRow[c].by)]
                 /\ left' = [left EXCEPT ![c] = <<"secret">>]
                 /\ pc' = [pc EXCEPT ![c] = "write"] /\ UNCHANGED report
<1> DEFINE p == ProcessOf[c]  old == sawRow[c]
<1>1. CASE old = None
    BY <1>1 DEF SweepSeal, Go
<1>2. CASE old # None /\ old.id = Current(p)
    BY <1>2 DEF SweepSeal, Go
<1>3. CASE old # None /\ old.id # Current(p) /\ ~ Readable(p, old)
    BY <1>3 DEF SweepSeal, Go
<1>4. CASE old # None /\ old.id # Current(p) /\ Readable(p, old)
    BY <1>4 DEF SweepSeal, Go, Write
<1> QED
    BY <1>1, <1>2, <1>3, <1>4

LEMMA SweepReports ==
    ASSUME TypeOK, NEW c \in Calls, SweepSeal(c)
    PROVE  /\ pc'[c] \in {"done", "write"} /\ stage' = stage
           /\ \/ report' = report
              \/ /\ pc'[c] = "done" /\ report'[c] \in {"nothing", "current", "failed"}
                 /\ report'[c] = "nothing" => sawRow[c] = None
                 /\ report'[c] = "current" => sawRow[c].id = Current(ProcessOf[c])
<1>1. CASE \E what \in {"nothing", "current", "failed"} :
            /\ report' = [report EXCEPT ![c] = what] /\ pc' = [pc EXCEPT ![c] = "done"]
            /\ what = "nothing" => sawRow[c] = None
            /\ what = "current" => sawRow[c].id = Current(ProcessOf[c])
    BY <1>1, SweepSealed DEF TypeOK
<1>2. CASE pc' = [pc EXCEPT ![c] = "write"] /\ report' = report
    BY <1>2, SweepSealed DEF TypeOK
<1> QED
    BY <1>1, <1>2, SweepSealed

\* A step keeps the types.
LEMMA TargetTypeStep ==
    ASSUME CallsAssumption, TypeOK, LocksKnown, SealsCurrent, [Next]_vars
    PROVE  TypeOK'
<1> USE DEF TypeOK, Reports, setup, target, calls, history
<1>1. ASSUME NEW p \in Processes, Redeploy(p) \/ Retire(p) PROVE TypeOK'
    <2>1. PICK then \in {"after", "retired"} : Restart(p, then)
        BY <1>1 DEF Redeploy, Retire
    <2>2. stage' \in [Processes -> Stages]
        BY <2>1 DEF Restart, Stages
    <2>3. pc' \in [Calls -> {"new", "seal", "secret", "probe", "write", "done", "raised"}]
        BY <2>1 DEF Restart
    <2>4. holder' \in [{"target", "secret"} -> Calls \cup {None}]
        BY <2>1 DEF Restart, Freed
    <2> QED
        BY <2>1, <2>2, <2>3, <2>4 DEF Restart
<1>2. ASSUME NEW c \in Calls, PrivateStep(c) PROVE TypeOK'
    <2> DEFINE p == ProcessOf[c]
    <2>0. p \in Processes
        BY DEF CallsAssumption
    <2>1. Seal(p, c, c) \in Rows
        BY <2>0, SealedIsRow
    <2>2. CASE Update(c)
        BY <2>1, <2>2 DEF Update, Write, Go, Orders
    <2>3. CASE Rotate(c)
        BY <2>1, <2>3 DEF Rotate, Write, Go
    <2>4. CASE SweepSelect(c)
        BY <2>4 DEF SweepSelect, Write, Go
    <2>5. CASE SweepSeal(c)
        <3>1. sawRow[c] # None => Seal(p, sawRow[c].secret, sawRow[c].by) \in Rows
            <4>1. sawRow[c] # None =>
                    sawRow[c].secret \in Calls \cup {"first"} /\ sawRow[c].by \in Calls \cup {None}
                BY DEF Rows
            <4> QED
                BY <4>1, <2>0, SealedIsRow
        <3> QED
            BY <2>5, <3>1, SweepSealed DEF Orders
    <2>6. CASE ReadTarget(c)
        BY <2>6 DEF ReadTarget, Write, Go
    <2>7. CASE ReadSecret(c)
        BY <2>7 DEF ReadSecret, Write, Go
    <2>8. CASE Probe(c)
        BY <2>8 DEF Probe, Write, Go
    <2> QED
        BY <1>2, <2>2, <2>3, <2>4, <2>5, <2>6, <2>7, <2>8 DEF PrivateStep
<1>3. ASSUME NEW c \in Calls, Statement(c) PROVE TypeOK'
    <2>1. Tail(left[c]) \in Orders /\ Head(left[c]) \in {"target", "secret"}
        BY <1>3, OrdersTail DEF Statement, Orders
    <2>2. left' \in [Calls -> Orders]
        BY <1>3, <2>1 DEF Statement, Orders
    <2>3. holder' \in [{"target", "secret"} -> Calls \cup {None}]
        BY <1>3, <2>1 DEF Statement
    <2> QED
        BY <1>3, <2>2, <2>3 DEF Statement, Orders
<1>4. ASSUME NEW c \in Calls, Commit(c) PROVE TypeOK'
    <2>1. auth' \in {"bearer", "none", None}
        BY <1>4 DEF Commit, CommitRows, AuthAfter
    <2>2. row' \in Rows \cup {None}
        <3>1. CASE holder["secret"] # c
            BY <1>4, <3>1 DEF Commit, CommitRows
        <3>2. CASE holder["secret"] = c
            <4>1. Passed(c, "secret") /\ (plan[c] = "sweep" => row # None)
                BY <3>2 DEF LocksKnown, LocksHeld, CallKnown, CallsAssumption
            <4>2. plan[c] \in {"none", "both", "rotate", "given", "sweep"} /\ pc[c] = "write"
                BY <4>1 DEF Passed, Writes
            <4>3. plan[c] # "none" => sealed[c] # None
                BY <4>2 DEF SealsCurrent
            <4>4. plan[c] = "sweep" => [sealed[c] EXCEPT !.by = row.by] \in Rows
                BY <4>1, <4>3 DEF Rows
            <4> QED
                BY <1>4, <3>2, <4>2, <4>3, <4>4 DEF Commit, CommitRows, RowAfter
        <3> QED
            BY <3>1, <3>2
    <2>3. status' \in {"never", "ok", "failing"}
        BY <1>4 DEF Commit, CommitRows, LocksKnown, LocksHeld, CallKnown
    <2>4. holder' \in [{"target", "secret"} -> Calls \cup {None}]
        BY <1>4 DEF Commit, Done, Freed
    <2>5. latest' \in Calls \cup {"first", None} /\ clobbered' \in BOOLEAN
        BY <1>4 DEF Commit
    <2>6. crossing' \subseteq Calls
        BY <1>4 DEF Commit
    <2> QED
        BY <1>4, <2>1, <2>2, <2>3, <2>4, <2>5, <2>6 DEF Commit, Done, Go
<1>5. ASSUME NEW c \in Calls, Fail(c) PROVE TypeOK'
    <2>1. Raise(c) /\ faults' \in 0..MaxFaults
        <3>1. CASE StatementFails(c)
            <4>1. Raise(c) /\ faults < MaxFaults /\ faults' = faults + 1
                BY <3>1 DEF StatementFails
            <4>2. faults \in 0..MaxFaults /\ MaxFaults \in Nat
                BY DEF CallsAssumption
            <4>3. faults' \in 0..MaxFaults
                BY <4>1, <4>2
            <4> QED
                BY <4>1, <4>3
        <3>2. CASE Victim(c)
            BY <3>2 DEF Victim, Raise
        <3> QED
            BY <1>5, <3>1, <3>2 DEF Fail
    <2>2. holder' \in [{"target", "secret"} -> Calls \cup {None}]
        BY <2>1 DEF Raise, Freed
    <2> QED
        BY <2>1, <2>2 DEF Raise, Go
<1>6. CASE UNCHANGED vars
    BY <1>6 DEF vars
<1> QED
    BY <1>1, <1>2, <1>3, <1>4, <1>5, <1>6 DEF Next, PrivateStep, Fail

\* A call that begins to write has everything to write still before it.
LEMMA BeginsToWrite ==
    ASSUME TypeOK, LocksKnown, NEW c \in Calls, PrivateStep(c), pc'[c] = "write"
    PROVE  \A r : Still(left'[c], r) <=> r \in Writes(c)'
<1> USE DEF TypeOK, setup, Write, Go
<1>2. plan' = plan
    BY Private
<1>3. CASE Update(c)
    <2>1. /\ plan[c] \in {"none", "both"} => left'[c] = <<"target", "secret">>
          /\ plan[c] \in {"bearer", "delete"} => left'[c] = <<"target">>
          /\ plan[c] = "given" => left'[c] = <<"secret">>
        BY <1>3 DEF Update
    <2> QED
        BY <1>2, <1>3, <2>1, OrdersStill DEF Update, Writes
<1>4. CASE Rotate(c)
    <2>1. left'[c] = <<"secret", "target">>
        BY <1>4 DEF Rotate
    <2> QED
        BY <1>2, <1>4, <2>1, OrdersStill DEF Rotate, Writes
<1>5. CASE SweepSeal(c)
    <2>1. left'[c] = <<"secret">> /\ plan[c] = "sweep"
        BY <1>5, SweepSealed
    <2> QED
        BY <1>2, <2>1, OrdersStill DEF Writes
<1>6. CASE Probe(c)
    <2>1. left'[c] = <<"target">> /\ plan[c] = "probe"
        BY <1>6 DEF Probe, LocksKnown, LocksHeld, CallKnown
    <2> QED
        BY <1>2, <2>1, OrdersStill DEF Writes
<1>7. CASE SweepSelect(c) \/ ReadTarget(c) \/ ReadSecret(c)
    BY <1>7 DEF SweepSelect, ReadTarget, ReadSecret
<1> QED
    BY <1>3, <1>4, <1>5, <1>6, <1>7 DEF PrivateStep

\* A commit ends the call that held what it wrote; another call holds what it held.
LEMMA Freeing ==
    ASSUME TypeOK, CallsAssumption, NEW cs \in SUBSET Calls, holder' = Freed(cs)
    PROVE  \A r \in {"target", "secret"} :
              /\ \A c \in Calls \ cs : holder'[r] = c <=> holder[r] = c
              /\ \A c \in cs : holder'[r] # c
              /\ holder'[r] # None => holder'[r] = holder[r] /\ holder[r] \notin cs
BY DEF Freed, TypeOK, CallsAssumption

LEMMA SecretLocksStep ==
    ASSUME CallsAssumption, TypeOK, TypeOK', LocksKnown, SealsCurrent, [Next]_vars
    PROVE  LocksKnown'
<1> DEFINE Both == {"target", "secret"}
<1>0. DOMAIN holder = Both /\ DOMAIN holder' = Both
    BY DEF TypeOK
<1>1. ASSUME NEW p \in Processes, Redeploy(p) \/ Retire(p) PROVE LocksKnown'
    <2>1. PICK then \in {"after", "retired"} : Restart(p, then)
        BY <1>1 DEF Redeploy, Retire
    <2>2. /\ UNCHANGED <<plan, auth, row, left, report>> /\ holder' = Freed(Under(p))
          /\ \A c \in Calls : pc'[c] = IF c \in Under(p) /\ pc[c] # "done" THEN "raised" ELSE pc[c]
        BY <2>1 DEF Restart, setup, target, TypeOK
    <2>3. Under(p) \subseteq Calls
        BY DEF Under
    <2>4. \A c \in Calls, r \in Both : Passed(c, r)' <=> Passed(c, r) /\ c \notin Under(p)
        BY <2>2, PassedBy DEF Writes
    <2>5. \A r \in Both :
            /\ \A c \in Calls \ Under(p) : holder'[r] = c <=> holder[r] = c
            /\ holder'[r] # None => holder'[r] = holder[r] /\ holder[r] \notin Under(p)
        BY <2>2, <2>3, Freeing
    <2>6. LocksHeld'
        BY <2>2, <2>4, <2>5 DEF LocksKnown, LocksHeld, TypeOK
    <2>7. ASSUME NEW c \in Calls PROVE CallKnown(c)'
        BY <2>2, <2>4, <2>5 DEF LocksKnown, CallKnown, Writes
    <2> QED
        BY <2>6, <2>7 DEF LocksKnown
<1>2. ASSUME NEW c \in Calls, PrivateStep(c) PROVE LocksKnown'
    <2>1. /\ UNCHANGED <<plan, auth, row, holder>> /\ pc[c] # "write"
          /\ \A d \in Calls \ {c} : pc'[d] = pc[d] /\ left'[d] = left[d] /\ report'[d] = report[d]
        BY <1>2, Private DEF setup, target, TypeOK
    <2>2. \A d \in Calls \ {c}, r \in Both : Passed(d, r)' <=> Passed(d, r)
        BY <2>1, PassedBy DEF Writes
    <2>3. /\ \A r \in Both : ~ Passed(c, r)' /\ ~ Passed(c, r)
          /\ pc'[c] = "write" => \A i \in DOMAIN left'[c] : left'[c][i] \in Writes(c)'
        <3>1. pc'[c] = "write" => \A r : Still(left'[c], r) <=> r \in Writes(c)'
            BY <1>2, BeginsToWrite
        <3>2. \A i \in DOMAIN left'[c] : Still(left'[c], left'[c][i])
            BY DEF Still
        <3> QED
            BY <2>1, <3>1, <3>2, PassedBy
    <2>4. /\ pc'[c] = "seal" => plan[c] = "sweep"
          /\ pc'[c] \in {"secret", "probe"} => plan[c] = "probe"
          /\ pc'[c] = "write" /\ plan[c] = "probe" => report'[c] \in {"ok", "failing"}
          /\ pc'[c] = "write" /\ plan[c] = "none" => left'[c] = <<"target", "secret">>
        <3> USE DEF TypeOK, Write, Go
        <3>1. CASE Update(c)
            BY <3>1 DEF Update
        <3>2. CASE Rotate(c)
            BY <3>2 DEF Rotate
        <3>3. CASE SweepSelect(c)
            BY <3>3 DEF SweepSelect
        <3>4. CASE SweepSeal(c)
            BY <3>4, SweepSealed
        <3>5. CASE ReadTarget(c)
            BY <3>5 DEF ReadTarget
        <3>6. CASE ReadSecret(c)
            BY <3>6 DEF ReadSecret, LocksKnown, LocksHeld, CallKnown
        <3>7. CASE Probe(c)
            BY <3>7 DEF Probe, LocksKnown, CallKnown
        <3> QED
            BY <1>2, <3>1, <3>2, <3>3, <3>4, <3>5, <3>6, <3>7 DEF PrivateStep
    <2>5. LocksHeld'
        BY <2>1, <2>2, <2>3 DEF LocksKnown, LocksHeld, TypeOK
    <2>6. ASSUME NEW d \in Calls PROVE CallKnown(d)'
        <3>1. CASE d = c
            BY <2>1, <2>3, <2>4, <3>1 DEF CallKnown
        <3>2. CASE d # c
            BY <2>1, <2>2, <3>2 DEF LocksKnown, CallKnown, Writes
        <3> QED
            BY <3>1, <3>2
    <2> QED
        BY <2>5, <2>6 DEF LocksKnown
<1>3. ASSUME NEW c \in Calls, Statement(c) PROVE LocksKnown'
    <2> DEFINE r == Head(left[c])
    <2>1. /\ UNCHANGED <<plan, auth, row, pc, report>> /\ pc[c] = "write" /\ left[c] # << >>
          /\ left' = [left EXCEPT ![c] = Tail(@)]
          /\ \/ Missing(c, r) /\ UNCHANGED holder
             \/ ~ Missing(c, r) /\ holder[r] = None /\ holder' = [holder EXCEPT ![r] = c]
        BY <1>3 DEF Statement, setup, target
    <2>2. /\ r \in Both /\ Still(left[c], r)
          /\ \A q : Still(left'[c], q) <=> Still(left[c], q) /\ q # r
        <3>1. left[c] \in Orders /\ left'[c] = Tail(left[c])
            BY <2>1 DEF TypeOK, Orders
        <3> QED
            BY <2>1, <3>1, OrdersTail
    <2>3. \A d \in Calls \ {c}, q \in Both : Passed(d, q)' <=> Passed(d, q)
        BY <2>1, PassedBy DEF Writes, TypeOK
    <2>4. r \in Writes(c) /\ \A i \in DOMAIN left'[c] : left'[c][i] \in Writes(c)
        <3>1. \A q : Still(left[c], q) => q \in Writes(c)
            BY <2>1 DEF LocksKnown, LocksHeld, CallKnown, Still
        <3> QED
            BY <2>2, <3>1 DEF Still
    <2>5. \A q \in Both : Passed(c, q)' <=> Passed(c, q) \/ q = r
        BY <2>1, <2>2, <2>4, PassedBy DEF Writes
    <2>6. plan[c] = "none" => left'[c] \in {<<"target", "secret">>, <<"secret">>, << >>}
        <3>1. left'[c] = Tail(left[c])
            BY <2>1 DEF TypeOK
        <3>2. plan[c] = "none" => left[c] \in {<<"target", "secret">>, <<"secret">>}
            BY <2>1 DEF LocksKnown, CallKnown
        <3>3. Tail(<<"target", "secret">>) = <<"secret">> /\ Tail(<<"secret">>) = << >>
            OBVIOUS
        <3> QED
            BY <3>1, <3>2, <3>3
    <2>7. ~ Passed(c, r)
        BY <2>2, PassedBy
    <2>8. CASE Missing(c, r)
        <3>1. holder' = holder
            BY <2>1, <2>8
        <3>2. \A d \in Calls, q \in Both : Passed(d, q) => Passed(d, q)'
            BY <2>3, <2>5
        <3>3. /\ r = "target" => auth = None
              /\ r = "secret" => plan[c] \in {"sweep", "none"}
            BY <2>8 DEF Missing
        <3>4. LocksHeld'
            BY <2>1, <3>1, <3>2 DEF LocksKnown, LocksHeld, TypeOK
        <3>5. CallKnown(c)'
            BY <2>1, <2>4, <2>5, <2>6, <3>1, <3>3 DEF LocksKnown, CallKnown, Writes
        <3>6. \A d \in Calls \ {c} : CallKnown(d)'
            BY <2>1, <2>3, <3>1 DEF LocksKnown, CallKnown, Writes, TypeOK
        <3> QED
            BY <3>4, <3>5, <3>6 DEF LocksKnown
    <2>9. CASE ~ Missing(c, r)
        <3>1. holder[r] = None /\ holder'[r] = c /\ \A q \in Both \ {r} : holder'[q] = holder[q]
            BY <2>1, <2>2, <2>9 DEF TypeOK
        <3>2. /\ r = "target" => auth # None
              /\ r = "secret" => (plan[c] = "sweep" => row # None)
            BY <2>9 DEF Missing
        <3>3. ASSUME NEW q \in Both, NEW d \in Calls, holder'[q] = d PROVE Passed(d, q)'
            <4>1. CASE q = r
                BY <2>5, <3>1, <3>3, <4>1
            <4>2. CASE q # r
                <5>1. holder[q] = d /\ d # None
                    BY <3>1, <3>3, <4>2 DEF CallsAssumption
                <5>2. Passed(d, q)
                    BY <5>1 DEF LocksKnown, LocksHeld
                <5> QED
                    BY <2>3, <2>5, <5>2
            <4> QED
                BY <4>1, <4>2
        <3>4. LocksHeld'
            <4>1. \A q \in Both : holder'[q] \in Calls \cup {None}
                BY DEF TypeOK
            <4>2. \A q \in Both : (holder[q] # None => Passed(holder[q], q))'
                BY <3>3, <4>1
            <4>3. (holder["target"] # None => auth # None)'
                BY <2>1, <2>2, <3>1, <3>2 DEF LocksKnown, LocksHeld
            <4>4. (holder["secret"] # None /\ plan[holder["secret"]] = "sweep" => row # None)'
                BY <2>1, <2>2, <3>1, <3>2 DEF LocksKnown, LocksHeld
            <4> QED
                BY <4>2, <4>3, <4>4 DEF LocksHeld
        <3>5. CallKnown(c)'
            BY <2>1, <2>2, <2>4, <2>5, <2>6, <3>1 DEF LocksKnown, CallKnown, Writes
        <3>6. ASSUME NEW d \in Calls \ {c} PROVE CallKnown(d)'
            <4>1. d # None /\ d # c
                BY DEF CallsAssumption
            <4> QED
                BY <2>1, <2>2, <2>3, <3>1, <3>2, <4>1 DEF LocksKnown, CallKnown, Writes, TypeOK
        <3> QED
            BY <3>4, <3>5, <3>6 DEF LocksKnown
    <2> QED
        BY <2>8, <2>9
<1>4. ASSUME NEW c \in Calls, Commit(c) PROVE LocksKnown'
    <2>1. /\ plan' = plan /\ left' = left /\ holder' = Freed({c}) /\ pc[c] = "write"
          /\ pc' = [pc EXCEPT ![c] = "done"] /\ left[c] = << >>
          /\ \A d \in Calls \ {c} : report'[d] = report[d]
        BY <1>4 DEF Commit, Done, Go, setup, TypeOK
    <2>2. \A d \in Calls, r \in Both : Passed(d, r)' <=> Passed(d, r) /\ d # c
        BY <2>1, PassedBy DEF Writes, TypeOK
    <2>3. \A r \in Both :
            /\ \A d \in Calls \ {c} : holder'[r] = d <=> holder[r] = d
            /\ holder'[r] # c /\ (holder'[r] # None => holder'[r] = holder[r])
        BY <2>1, Freeing
    <2>4. auth = None => auth' = None
        BY <1>4, <1>0 DEF Commit, CommitRows, LocksKnown, LocksHeld, CallsAssumption
    <2>5. holder["target"] # c => auth' = auth
        BY <1>4 DEF Commit, CommitRows
    <2>6. holder["secret"] # c => row' = row
        BY <1>4 DEF Commit, CommitRows
    <2>7. LocksHeld'
        <3>1. c # None
            BY DEF CallsAssumption
        <3>2. \A r \in Both : (holder[r] # None => Passed(holder[r], r))'
            BY <2>1, <2>2, <2>3 DEF LocksKnown, LocksHeld, TypeOK
        <3>3. (holder["target"] # None => auth # None)'
            BY <2>3, <2>5 DEF LocksKnown, LocksHeld
        <3>4. (holder["secret"] # None /\ plan[holder["secret"]] = "sweep" => row # None)'
            BY <2>1, <2>3, <2>6 DEF LocksKnown, LocksHeld
        <3> QED
            BY <3>2, <3>3, <3>4 DEF LocksHeld
    <2>8. ASSUME NEW d \in Calls PROVE CallKnown(d)'
        <3>1. CASE d = c
            BY <2>1, <2>2, <3>1 DEF CallKnown, TypeOK
        <3>2. CASE d # c
            <4>1. pc'[d] = pc[d] /\ left'[d] = left[d] /\ report'[d] = report[d]
                BY <2>1, <3>2 DEF TypeOK
            <4>2. \A r \in Both : /\ Passed(d, r)' <=> Passed(d, r)
                                  /\ holder[r] = d => holder'[r] = d
                BY <2>2, <2>3, <3>2
            <4> QED
                BY <2>1, <2>4, <4>1, <4>2 DEF LocksKnown, CallKnown, Writes
        <3> QED
            BY <3>1, <3>2
    <2> QED
        BY <2>7, <2>8 DEF LocksKnown
<1>5. ASSUME NEW c \in Calls, Fail(c) PROVE LocksKnown'
    <2>1. /\ plan' = plan /\ left' = left /\ holder' = Freed({c}) /\ auth' = auth /\ row' = row
          /\ pc' = [pc EXCEPT ![c] = "raised"]
          /\ \A d \in Calls \ {c} : report'[d] = report[d]
        BY <1>5 DEF Fail, StatementFails, Victim, Raise, Go, setup, target, TypeOK
    <2>2. \A d \in Calls, r \in Both : Passed(d, r)' <=> Passed(d, r) /\ d # c
        BY <2>1, PassedBy DEF Writes, TypeOK
    <2>3. \A r \in Both :
            /\ \A d \in Calls \ {c} : holder'[r] = d <=> holder[r] = d
            /\ holder'[r] # c /\ (holder'[r] # None => holder'[r] = holder[r])
        BY <2>1, Freeing
    <2>4. LocksHeld'
        BY <2>1, <2>2, <2>3 DEF LocksKnown, LocksHeld, TypeOK
    <2>5. ASSUME NEW d \in Calls PROVE CallKnown(d)'
        <3>1. CASE d = c
            BY <2>1, <2>2, <3>1 DEF CallKnown, TypeOK
        <3>2. CASE d # c
            <4>1. pc'[d] = pc[d] /\ left'[d] = left[d] /\ report'[d] = report[d]
                BY <2>1, <3>2 DEF TypeOK
            <4>2. \A r \in Both : /\ Passed(d, r)' <=> Passed(d, r)
                                  /\ holder[r] = d => holder'[r] = d
                BY <2>2, <2>3, <3>2
            <4> QED
                BY <2>1, <4>1, <4>2 DEF LocksKnown, CallKnown, Writes
        <3> QED
            BY <3>1, <3>2
    <2> QED
        BY <2>4, <2>5 DEF LocksKnown
<1>6. CASE UNCHANGED vars
    <2>1. UNCHANGED <<plan, left, holder, auth, row, pc, report>>
        BY <1>6 DEF vars, setup, target, calls
    <2> QED
        BY <2>1 DEF LocksKnown, LocksHeld, CallKnown, Passed, Writes
<1> QED
    BY <1>1, <1>2, <1>3, <1>4, <1>5, <1>6 DEF Next, PrivateStep, Fail

\* Between its start and its end a call's process keeps its keys.
LEMMA SameProcess ==
    ASSUME CallsAssumption, TypeOK, NEW p \in Processes, Redeploy(p) \/ Retire(p),
           NEW c \in Calls, pc'[c] \in {"seal", "secret", "probe", "write"}
    PROVE  /\ pc'[c] = pc[c] /\ ProcessOf[c] # p
           /\ \A r : Current(ProcessOf[c])' = Current(ProcessOf[c])
                     /\ Key(ProcessOf[c], r)' = Key(ProcessOf[c], r)
<1>1. PICK then \in {"after", "retired"} : Restart(p, then)
    BY DEF Redeploy, Retire
<1>2. /\ mode' = mode /\ stage' = [stage EXCEPT ![p] = then]
      /\ pc'[c] = IF c \in Under(p) /\ pc[c] # "done" THEN "raised" ELSE pc[c]
    BY <1>1 DEF Restart, setup, TypeOK
<1>3. pc'[c] = pc[c] /\ ProcessOf[c] # p /\ ProcessOf[c] \in Processes
    BY <1>2 DEF Under, CallsAssumption
<1>4. stage'[ProcessOf[c]] = stage[ProcessOf[c]]
    BY <1>2, <1>3 DEF TypeOK
<1> QED
    BY <1>2, <1>3, <1>4 DEF Current, Key

\* What is written is sealed by the process that writes it, ...
LEMMA SealsStep ==
    ASSUME CallsAssumption, TypeOK, LocksKnown, SealsCurrent, [Next]_vars
    PROVE  SealsCurrent'
<1> SUFFICES ASSUME NEW c \in Calls, pc'[c] = "write",
                    plan'[c] \in {"both", "given", "rotate", "sweep"}
             PROVE  LET p == ProcessOf[c]
                    IN  /\ sealed'[c] # None
                        /\ sealed'[c].id = Current(p)' /\ sealed'[c].key = Key(p, Current(p))'
                        /\ IF plan'[c] = "sweep"
                           THEN sawRow'[c] # None /\ sealed'[c].secret = sawRow'[c].secret
                           ELSE sealed'[c].secret = c /\ sealed'[c].by = c
    BY DEF SealsCurrent
<1>0. ProcessOf[c] \in Processes
    BY DEF CallsAssumption
<1>1. ASSUME NEW p \in Processes, Redeploy(p) \/ Retire(p)
      PROVE  /\ pc[c] = "write" /\ UNCHANGED <<plan, sealed, sawRow>>
             /\ Current(ProcessOf[c])' = Current(ProcessOf[c])
             /\ Key(ProcessOf[c], Current(ProcessOf[c]))' = Key(ProcessOf[c], Current(ProcessOf[c]))
    <2>1. /\ pc[c] = "write" /\ Current(ProcessOf[c])' = Current(ProcessOf[c])
          /\ \A r : Key(ProcessOf[c], r)' = Key(ProcessOf[c], r)
        BY <1>1, SameProcess
    <2>2. UNCHANGED <<plan, sealed, sawRow, mode>>
        BY <1>1 DEF Redeploy, Retire, Restart, setup
    <2> QED
        BY <2>1, <2>2 DEF Key
<1>2. ASSUME NEW d \in Calls, PrivateStep(d), d # c
      PROVE  pc[c] = "write" /\ plan' = plan /\ sealed'[c] = sealed[c] /\ sawRow'[c] = sawRow[c]
             /\ UNCHANGED <<stage, mode>>
    BY <1>2, Private DEF setup, TypeOK
<1>3. ASSUME NEW d \in Calls, Statement(d) \/ Commit(d) \/ Fail(d)
      PROVE  pc[c] = "write" /\ UNCHANGED <<plan, mode, stage, sealed, sawRow>>
    BY <1>3 DEF Statement, Commit, Done, Fail, StatementFails, Victim, Raise, Go, setup, TypeOK
<1>4. CASE UNCHANGED vars
    BY <1>4 DEF vars, setup, calls, SealsCurrent, Current, Key
<1>5. CASE PrivateStep(c)
    <2>1. /\ Seal(ProcessOf[c], c, c) # None /\ Seal(ProcessOf[c], c, c).secret = c
          /\ Seal(ProcessOf[c], c, c).id = Current(ProcessOf[c])
          /\ Seal(ProcessOf[c], c, c).key = Key(ProcessOf[c], Current(ProcessOf[c]))
          /\ Seal(ProcessOf[c], c, c).by = c
        BY <1>0, SealedIsRow
    <2>2. /\ UNCHANGED <<plan, mode, stage>> /\ Current(ProcessOf[c])' = Current(ProcessOf[c])
          /\ Key(ProcessOf[c], Current(ProcessOf[c]))' = Key(ProcessOf[c], Current(ProcessOf[c]))
        BY <1>5, Private DEF setup, Current, Key
    <2>3. CASE Update(c)
        BY <2>1, <2>2, <2>3 DEF Update, TypeOK
    <2>4. CASE Rotate(c)
        BY <2>1, <2>2, <2>4 DEF Rotate, Go, TypeOK
    <2>5. CASE SweepSeal(c)
        <3>1. /\ plan[c] = "sweep" /\ sawRow' = sawRow /\ sawRow[c] # None
              /\ sealed'[c] = Seal(ProcessOf[c], sawRow[c].secret, sawRow[c].by)
            BY <2>5, SweepSealed DEF TypeOK
        <3>2. sawRow[c].secret \in Calls \cup {"first"} /\ sawRow[c].by \in Calls \cup {None}
            BY <3>1 DEF TypeOK, Rows
        <3>3. /\ sealed'[c] # None /\ sealed'[c].secret = sawRow[c].secret
              /\ sealed'[c].id = Current(ProcessOf[c])
              /\ sealed'[c].key = Key(ProcessOf[c], Current(ProcessOf[c]))
            BY <1>0, <3>1, <3>2, SealedIsRow
        <3> QED
            BY <2>2, <3>1, <3>3
    <2>6. CASE Probe(c)
        BY <2>2, <2>6 DEF Probe, LocksKnown, CallKnown
    <2>7. CASE SweepSelect(c) \/ ReadTarget(c) \/ ReadSecret(c)
        BY <2>7 DEF SweepSelect, ReadTarget, ReadSecret, Go, TypeOK
    <2> QED
        BY <1>5, <2>3, <2>4, <2>5, <2>6, <2>7 DEF PrivateStep
<1>6. CASE /\ pc[c] = "write" /\ plan' = plan /\ sealed'[c] = sealed[c] /\ sawRow'[c] = sawRow[c]
           /\ Current(ProcessOf[c])' = Current(ProcessOf[c])
           /\ Key(ProcessOf[c], Current(ProcessOf[c]))' = Key(ProcessOf[c], Current(ProcessOf[c]))
    BY <1>6 DEF SealsCurrent
<1>7. UNCHANGED <<stage, mode>> =>
        /\ Current(ProcessOf[c])' = Current(ProcessOf[c])
        /\ Key(ProcessOf[c], Current(ProcessOf[c]))' = Key(ProcessOf[c], Current(ProcessOf[c]))
    BY DEF Current, Key
<1> QED
    BY <1>1, <1>2, <1>3, <1>4, <1>5, <1>6, <1>7 DEF Next, PrivateStep, Fail

\* ... so that under a new id the id tells the key.
LEMMA CurrentTells ==
    ASSUME TypeOK, mode = "new id", NEW p \in Processes, NEW r,
           r.id = Current(p), r.key = Key(p, Current(p))
    PROVE  WellSealed(r) /\ (stage[p] # "before" => r.id = "v2")
<1>1. CASE stage[p] = "before"
    BY <1>1 DEF Current, Key, WellSealed
<1>2. CASE stage[p] # "before"
    BY <1>2 DEF Current, Key, WellSealed
<1> QED
    BY <1>1, <1>2

\* What a commit does to the rows, by what it has locked.
LEMMA Committed ==
    ASSUME CallsAssumption, TypeOK, LocksKnown, SealsCurrent, NEW c \in Calls, Commit(c)
    PROVE  /\ pc[c] = "write" /\ \A r \in Writes(c) : Passed(c, r)
           /\ UNCHANGED <<setup, stage, left, sawAuth, sawRow, sealed, bare, late>>
           /\ pc' = [pc EXCEPT ![c] = "done"] /\ holder' = Freed({c})
           /\ holder["target"] # c => auth' = auth
           /\ holder["target"] = c => auth' = AuthAfter(c) /\ auth # None
           /\ holder["secret"] # c => row' = row /\ latest' = latest /\ clobbered' = clobbered
           /\ holder["secret"] = c =>
                /\ plan[c] \in {"none", "both", "rotate", "given", "sweep"}
                /\ plan[c] = "none" => row' = None /\ latest' = None
                /\ plan[c] \in {"both", "rotate", "given"} => row' = sealed[c] /\ latest' = c
                /\ plan[c] = "sweep" =>
                    /\ row # None /\ row' = [sealed[c] EXCEPT !.by = row.by]
                    /\ row' # None /\ row'.by = row.by /\ row'.id = sealed[c].id
                    /\ row'.key = sealed[c].key /\ row'.secret = sealed[c].secret
                    /\ latest' = latest /\ clobbered' = (clobbered \/ row # sawRow[c])
           /\ crossing' = IF plan[c] = "none"
                          THEN crossing \cup {d \in Calls : pc[d] \in {"secret", "write"}}
                          ELSE crossing
           /\ report' = IF plan[c] = "sweep" THEN [report EXCEPT ![c] = "rotated"] ELSE report
<1>1. /\ pc[c] = "write" /\ left[c] = << >>
      /\ UNCHANGED <<setup, stage, left, sawAuth, sawRow, sealed, bare, late>>
      /\ pc' = [pc EXCEPT ![c] = "done"] /\ holder' = Freed({c})
      /\ crossing' = IF plan[c] = "none"
                     THEN crossing \cup {d \in Calls : pc[d] \in {"secret", "write"}}
                     ELSE crossing
      /\ report' = IF plan[c] = "sweep" THEN [report EXCEPT ![c] = "rotated"] ELSE report
    BY DEF Commit, Done, Go
<1>2. \A r \in Writes(c) : Passed(c, r)
    BY <1>1, OrdersStill, PassedBy
<1>3. /\ holder["target"] # c => auth' = auth
      /\ holder["target"] = c => auth' = AuthAfter(c) /\ auth # None
    BY DEF Commit, CommitRows, LocksKnown, LocksHeld, CallsAssumption
<1>4. holder["secret"] # c => row' = row /\ latest' = latest /\ clobbered' = clobbered
    BY DEF Commit, CommitRows
<1>5. CASE holder["secret"] = c
    <2>1. plan[c] \in {"none", "both", "rotate", "given", "sweep"}
        <3>1. Passed(c, "secret")
            BY <1>5 DEF LocksKnown, LocksHeld, CallsAssumption
        <3> QED
            BY <3>1 DEF Passed, Writes
    <2>2. /\ row' = RowAfter(c) /\ (plan[c] = "none" => latest' = None)
          /\ plan[c] \notin {"none", "sweep"} => latest' = c
          /\ plan[c] = "sweep" =>
                latest' = latest /\ clobbered' = (clobbered \/ row # sawRow[c])
        BY <1>5 DEF Commit, CommitRows
    <2>3. plan[c] = "sweep" =>
            /\ row # None /\ row' = [sealed[c] EXCEPT !.by = row.by] /\ row' # None
            /\ row'.by = row.by /\ row'.id = sealed[c].id
            /\ row'.key = sealed[c].key /\ row'.secret = sealed[c].secret
        <3>1. plan[c] = "sweep" => row # None /\ sealed[c] # None
            BY <1>1, <1>5 DEF LocksKnown, LocksHeld, CallsAssumption, SealsCurrent
        <3>2. plan[c] = "sweep" => row \in Rows /\ sealed[c] \in Rows
            BY <3>1 DEF TypeOK
        <3>3. plan[c] = "sweep" => row' = [sealed[c] EXCEPT !.by = row.by]
            BY <2>2 DEF RowAfter
        <3>4. plan[c] = "sweep" => row' \in Rows
            BY <3>2, <3>3 DEF Rows
        <3> QED
            BY <3>1, <3>2, <3>3, <3>4 DEF Rows, CallsAssumption
    <2>4. plan[c] = "none" => row' = None
        BY <2>2 DEF RowAfter
    <2>5. plan[c] \in {"both", "rotate", "given"} => row' = sealed[c]
        BY <2>2 DEF RowAfter
    <2> QED
        BY <1>1, <1>2, <1>3, <1>5, <2>1, <2>2, <2>3, <2>4, <2>5
<1> QED
    BY <1>1, <1>2, <1>3, <1>4, <1>5

\* Of the steps only a commit changes what is stored, and what is known of it.
LEMMA StoredBy ==
    ASSUME TypeOK, [Next]_vars, ~ \E c \in Calls : Commit(c)
    PROVE  UNCHANGED <<setup, auth, row, latest, clobbered, crossing>>
<1>1. ASSUME NEW p \in Processes, Redeploy(p) \/ Retire(p)
      PROVE  UNCHANGED <<setup, auth, row, latest, clobbered, crossing>>
    BY <1>1 DEF Redeploy, Retire, Restart, target, history
<1>2. ASSUME NEW c \in Calls, PrivateStep(c)
      PROVE  UNCHANGED <<setup, auth, row, latest, clobbered, crossing>>
    BY <1>2, Private DEF target
<1>3. ASSUME NEW c \in Calls, Statement(c) \/ Fail(c)
      PROVE  UNCHANGED <<setup, auth, row, latest, clobbered, crossing>>
    BY <1>3 DEF Statement, Fail, StatementFails, Victim, Raise, target, history
<1>4. CASE UNCHANGED vars
    BY <1>4 DEF vars, target, history
<1> QED
    BY <1>1, <1>2, <1>3, <1>4 DEF Next, PrivateStep, Fail

\* The secret that is stored is the latest, until a sweep writes over it unseen.
LEMMA SecretStep ==
    ASSUME CallsAssumption, TypeOK, LocksKnown, SealsCurrent, SecretKept, [Next]_vars
    PROVE  SecretKept'
<1>1. CASE \E c \in Calls : Commit(c)
    <2>1. PICK c \in Calls : Commit(c)
        BY <1>1
    <2>2. CASE holder["secret"] # c
        BY <2>1, <2>2, Committed DEF SecretKept
    <2>3. CASE holder["secret"] = c
        <3>1. pc[c] = "write" /\ plan[c] \in {"none", "both", "rotate", "given", "sweep"}
            BY <2>1, <2>3, Committed
        <3>2. c # None
            BY DEF CallsAssumption
        <3>3. CASE plan[c] = "none"
            BY <2>1, <2>3, <3>3, Committed DEF SecretKept
        <3>4. CASE plan[c] \in {"both", "rotate", "given"}
            <4>1. row' = sealed[c] /\ latest' = c
                BY <2>1, <2>3, <3>4, Committed
            <4>2. sealed[c] # None /\ sealed[c].secret = c
                BY <3>1, <3>4 DEF SealsCurrent
            <4> QED
                BY <3>2, <4>1, <4>2 DEF SecretKept
        <3>5. CASE plan[c] = "sweep"
            <4>1. /\ row # None /\ row' # None /\ row'.secret = sealed[c].secret
                  /\ latest' = latest /\ clobbered' = (clobbered \/ row # sawRow[c])
                BY <2>1, <2>3, <3>5, Committed
            <4>2. sealed[c].secret = sawRow[c].secret
                BY <3>1, <3>5 DEF SealsCurrent
            <4> QED
                BY <4>1, <4>2 DEF SecretKept
        <3> QED
            BY <3>1, <3>3, <3>4, <3>5
    <2> QED
        BY <2>2, <2>3
<1>2. CASE ~ \E c \in Calls : Commit(c)
    BY <1>2, StoredBy DEF SecretKept
<1> QED
    BY <1>1, <1>2

\* A row tells its key by its id.
LEMMA WellSealedStep ==
    ASSUME CallsAssumption, TypeOK, LocksKnown, SealsCurrent, RowsWellSealed, [Next]_vars
    PROVE  RowsWellSealed'
<1> SUFFICES ASSUME mode' = "new id"
             PROVE  /\ row' # None => WellSealed(row')
                    /\ \A c \in Calls : sawRow'[c] # None => WellSealed(sawRow'[c])
    BY DEF RowsWellSealed, WellSealed
<1>1. CASE \E c \in Calls : Commit(c)
    <2>1. PICK c \in Calls : Commit(c)
        BY <1>1
    <2>2. mode = "new id" /\ sawRow' = sawRow /\ pc[c] = "write" /\ ProcessOf[c] \in Processes
        BY <2>1, Committed DEF setup, CallsAssumption
    <2>3. CASE holder["secret"] # c \/ plan[c] = "none"
        BY <2>1, <2>2, <2>3, Committed DEF RowsWellSealed
    <2>4. CASE holder["secret"] = c /\ plan[c] # "none"
        <3>1. plan[c] \in {"both", "rotate", "given", "sweep"}
            BY <2>1, <2>4, Committed
        <3>2. sealed[c].id = Current(ProcessOf[c])
              /\ sealed[c].key = Key(ProcessOf[c], Current(ProcessOf[c]))
            BY <2>2, <3>1 DEF SealsCurrent
        <3>3. row'.id = sealed[c].id /\ row'.key = sealed[c].key
            BY <2>1, <2>4, <3>1, Committed
        <3>4. WellSealed(sealed[c])
            BY <2>2, <3>2, CurrentTells
        <3> QED
            BY <2>2, <3>3, <3>4 DEF WellSealed, RowsWellSealed
    <2> QED
        BY <2>3, <2>4
<1>2. CASE ~ \E c \in Calls : Commit(c)
    <2>1. row' = row /\ mode' = mode
        BY <1>2, StoredBy DEF setup
    <2>2. \A c \in Calls : sawRow'[c] = sawRow[c] \/ sawRow'[c] = row
        <3>1. ASSUME NEW c \in Calls, PrivateStep(c)
              PROVE  \A d \in Calls : sawRow'[d] = sawRow[d] \/ sawRow'[d] = row
            <4>1. \A d \in Calls \ {c} : sawRow'[d] = sawRow[d]
                BY <3>1, Private
            <4>2. sawRow'[c] = sawRow[c] \/ sawRow'[c] = row
                BY <3>1
                   DEF PrivateStep, Update, Rotate, SweepSelect, SweepSeal, ReadTarget, ReadSecret,
                       Probe, TypeOK
            <4> QED
                BY <4>1, <4>2
        <3>2. (\E p \in Processes : Redeploy(p) \/ Retire(p)) => sawRow' = sawRow
            BY DEF Redeploy, Retire, Restart
        <3>3. (\E c \in Calls : Statement(c) \/ Fail(c)) => sawRow' = sawRow
            BY DEF Statement, Fail, StatementFails, Victim, Raise
        <3>4. UNCHANGED vars => sawRow' = sawRow
            BY DEF vars, calls
        <3> QED
            BY <1>2, <3>1, <3>2, <3>3, <3>4 DEF Next, PrivateStep, Fail
    <2> QED
        BY <2>1, <2>2 DEF RowsWellSealed
<1> QED
    BY <1>1, <1>2

\* What a commit stores when all processes are configured anew is of the new id.
LEMMA CommitRenews ==
    ASSUME CallsAssumption, TypeOK, LocksKnown, SealsCurrent, mode = "new id",
           NEW c \in Calls, Commit(c), stage[ProcessOf[c]] # "before"
    PROVE  holder["secret"] = c => Renewed'
<1> SUFFICES ASSUME holder["secret"] = c PROVE Renewed'
    OBVIOUS
<1>1. pc[c] = "write" /\ plan[c] \in {"none", "both", "rotate", "given", "sweep"}
    BY Committed
<1>2. CASE plan[c] = "none"
    BY <1>2, Committed DEF Renewed
<1>3. CASE plan[c] # "none"
    <2>1. sealed[c].id = Current(ProcessOf[c])
        BY <1>1, <1>3 DEF SealsCurrent
    <2>2. sealed[c].id = "v2"
        BY <2>1 DEF Current
    <2>3. row'.id = sealed[c].id
        BY <1>1, <1>3, Committed
    <2> QED
        BY <2>2, <2>3 DEF Renewed
<1> QED
    BY <1>2, <1>3

\* Once a sweep has begun with all processes configured anew, the new id stays.
LEMMA SweepsStep ==
    ASSUME CallsAssumption, TypeOK, TypeOK', LocksKnown, SealsCurrent, SweepsRenew, [Next]_vars
    PROVE  SweepsRenew'
<1> SUFFICES ASSUME mode' = "new id", NEW c \in Calls, c \notin late', plan'[c] = "sweep"
             PROVE  SweepRenews(c)'
    BY DEF SweepsRenew
<1> DEFINE Anew == \A p \in Processes : stage[p] # "before"
<1>0. c # None /\ ProcessOf \in [Calls -> Processes]
    BY DEF CallsAssumption
<1>1. ASSUME NEW p \in Processes, Redeploy(p) \/ Retire(p) PROVE SweepRenews(c)'
    <2>1. PICK then \in {"after", "retired"} : Restart(p, then)
        BY <1>1 DEF Redeploy, Retire
    <2>2. /\ UNCHANGED <<setup, row, left, sawRow, report, late>> /\ holder' = Freed(Under(p))
          /\ stage' = [stage EXCEPT ![p] = then]
          /\ pc'[c] = IF c \in Under(p) /\ pc[c] # "done" THEN "raised" ELSE pc[c]
        BY <2>1 DEF Restart, target, history, TypeOK
    <2>3. SweepRenews(c)
        BY <2>2 DEF SweepsRenew, setup
    <2>4. pc'[c] \in {"seal", "write", "done"} => pc'[c] = pc[c]
        BY <2>2
    <2>5. Anew => \A q \in Processes : stage'[q] # "before"
        BY <2>2 DEF TypeOK
    <2>6. Passed(c, "secret")' => Passed(c, "secret") /\ c \notin Under(p)
        BY <2>2, PassedBy DEF Under, Writes, setup
    <2>7. c \notin Under(p) => (holder'["secret"] = c <=> holder["secret"] = c)
        BY <2>2, Freeing DEF Under
    <2>8. Successful(c)' => Successful(c) /\ pc'[c] = pc[c]
        BY <2>2, <2>3 DEF Successful, SweepRenews, setup
    <2> QED
        BY <2>2, <2>3, <2>4, <2>5, <2>6, <2>7, <2>8 DEF SweepRenews, Renewed
<1>2. ASSUME NEW d \in Calls, PrivateStep(d), d # c PROVE SweepRenews(c)'
    <2>1. /\ UNCHANGED <<setup, stage, row, holder>> /\ pc'[c] = pc[c] /\ left'[c] = left[c]
          /\ sawRow'[c] = sawRow[c] /\ report'[c] = report[c] /\ c \notin late
        BY <1>2, Private DEF target, TypeOK
    <2>2. SweepRenews(c)
        BY <2>1 DEF SweepsRenew, setup
    <2>3. Passed(c, "secret")' <=> Passed(c, "secret")
        BY <2>1, PassedBy DEF Writes, setup
    <2> QED
        BY <2>1, <2>2, <2>3 DEF SweepRenews, Renewed, Successful, setup
<1>3. ASSUME PrivateStep(c) PROVE SweepRenews(c)'
    <2>1. /\ UNCHANGED <<setup, stage, row, holder>> /\ c \notin late
          /\ pc[c] \in {"new", "seal", "secret", "probe"}
        BY <1>3, Private DEF target
    <2>2. SweepRenews(c) /\ plan[c] = "sweep" /\ mode = "new id"
        BY <2>1 DEF SweepsRenew, setup
    <2>3. ~ Passed(c, "secret")'
        <3>1. pc'[c] = "write" => \A r : Still(left'[c], r) <=> r \in Writes(c)'
            BY <1>3, BeginsToWrite
        <3> QED
            BY <3>1, PassedBy
    <2>4. ~ Successful(c)
        BY <2>1, <2>2 DEF SweepRenews
    <2>5. CASE SweepSelect(c)
        <3>1. /\ pc'[c] = "seal" /\ sawRow'[c] = row /\ Anew /\ report' = report
            BY <2>5 DEF SweepSelect, Go, TypeOK
        <3> QED
            BY <2>1, <2>3, <2>4, <3>1 DEF SweepRenews, Successful, setup
    <2>6. CASE SweepSeal(c)
        <3>1. Anew /\ (Renewed \/ row = sawRow[c])
            BY <2>2, <2>6, SweepSealed DEF SweepRenews
        <3>2. pc'[c] \in {"done", "write"} /\ stage' = stage
            BY <2>6, SweepReports
        <3>3. Successful(c)' => pc'[c] = "done" /\ Renewed
            <4>1. CASE report' = report
                BY <2>1, <2>4, <4>1 DEF Successful, setup
            <4>2. CASE /\ pc'[c] = "done" /\ report'[c] \in {"nothing", "current", "failed"}
                       /\ report'[c] = "nothing" => sawRow[c] = None
                       /\ report'[c] = "current" => sawRow[c].id = Current(ProcessOf[c])
                <5>1. Current(ProcessOf[c]) = "v2"
                    BY <1>0, <2>2, <3>1 DEF Current
                <5> QED
                    BY <3>1, <4>2, <5>1 DEF Successful, Renewed
            <4> QED
                BY <2>6, <4>1, <4>2, SweepReports
        <3> QED
            BY <2>1, <2>3, <3>1, <3>2, <3>3 DEF SweepRenews, Renewed
    <2>7. CASE Update(c) \/ Rotate(c) \/ ReadTarget(c) \/ ReadSecret(c) \/ Probe(c)
        BY <2>2, <2>7
           DEF Update, Rotate, ReadTarget, ReadSecret, Probe, LocksKnown, CallKnown
    <2> QED
        BY <1>3, <2>5, <2>6, <2>7 DEF PrivateStep
<1>4. ASSUME NEW d \in Calls, Statement(d) PROVE SweepRenews(c)'
    <2>1. /\ UNCHANGED <<setup, stage, row, pc, sawRow, report, late>>
          /\ pc[d] = "write" /\ left[d] # << >> /\ left' = [left EXCEPT ![d] = Tail(@)]
          /\ \/ Missing(d, Head(left[d])) /\ UNCHANGED holder
             \/ holder[Head(left[d])] = None /\ holder' = [holder EXCEPT ![Head(left[d])] = d]
        BY <1>4 DEF Statement, target, history
    <2>2. SweepRenews(c) /\ plan[c] = "sweep"
        BY <2>1 DEF SweepsRenew, setup
    <2>3. holder'["secret"] # c => holder["secret"] # c
        BY <1>0, <2>1 DEF TypeOK
    <2>4. Passed(c, "secret")' /\ holder'["secret"] # c => Renewed
        <3>1. CASE d = c
            <4>1. left[c] \in Orders /\ left'[c] = Tail(left[c])
                BY <2>1, <3>1 DEF TypeOK, Orders
            <4>2. Head(left[c]) = "secret"
                <5>1. Still(left[c], Head(left[c]))
                    BY <2>1, <3>1, <4>1, OrdersTail
                <5>2. Head(left[c]) \in Writes(c)
                    BY <2>1, <3>1, <5>1 DEF LocksKnown, CallKnown, Still
                <5> QED
                    BY <2>2, <5>2 DEF Writes
            <4>3. CASE Missing(c, "secret")
                BY <4>3 DEF Missing, Renewed
            <4>4. CASE holder' = [holder EXCEPT !["secret"] = c]
                BY <4>4 DEF TypeOK
            <4> QED
                BY <2>1, <3>1, <4>2, <4>3, <4>4
        <3>2. CASE d # c
            <4>1. left'[c] = left[c]
                BY <2>1, <3>2 DEF TypeOK
            <4>2. Passed(c, "secret")' => Passed(c, "secret")
                BY <2>1, <4>1, PassedBy DEF Writes, setup
            <4> QED
                BY <2>2, <2>3, <4>2 DEF SweepRenews
        <3> QED
            BY <3>1, <3>2
    <2> QED
        BY <2>1, <2>2, <2>4 DEF SweepRenews, Renewed, Successful, setup
<1>5. ASSUME NEW d \in Calls, Commit(d) PROVE SweepRenews(c)'
    <2>1. /\ UNCHANGED <<setup, stage, left, sawRow, late>> /\ pc' = [pc EXCEPT ![d] = "done"]
          /\ holder' = Freed({d}) /\ pc[d] = "write" /\ \A r \in Writes(d) : Passed(d, r)
          /\ report' = IF plan[d] = "sweep" THEN [report EXCEPT ![d] = "rotated"] ELSE report
          /\ holder["secret"] # d => row' = row
        BY <1>5, Committed
    <2>2. SweepRenews(c) /\ plan[c] = "sweep" /\ mode = "new id"
        BY <2>1 DEF SweepsRenew, setup
    <2>3. Anew => Renewed' \/ (row' = row /\ holder["secret"] # d)
        BY <1>0, <1>5, <2>1, <2>2, CommitRenews
    <2>4. CASE d = c
        <3>1. Anew /\ pc'[c] = "done"
            BY <2>1, <2>2, <2>4 DEF SweepRenews, TypeOK
        <3>2. Passed(c, "secret")
            BY <2>1, <2>2, <2>4 DEF Writes
        <3>3. Renewed'
            BY <2>2, <2>3, <2>4, <3>1, <3>2 DEF SweepRenews, Renewed
        <3> QED
            BY <2>1, <3>1, <3>3 DEF SweepRenews, Passed
    <2>5. CASE d # c
        <3>1. pc'[c] = pc[c] /\ report'[c] = report[c]
            BY <2>1, <2>5 DEF TypeOK
        <3>2. Passed(c, "secret")' <=> Passed(c, "secret")
            BY <2>1, <3>1, PassedBy DEF Writes, setup
        <3>3. holder'["secret"] = c <=> holder["secret"] = c
            BY <2>1, <2>5, Freeing
        <3>4. Passed(c, "secret") => pc[c] = "write"
            BY DEF Passed
        <3> QED
            BY <2>1, <2>2, <2>3, <3>1, <3>2, <3>3, <3>4
               DEF SweepRenews, Renewed, Successful, setup
    <2> QED
        BY <2>4, <2>5
<1>6. ASSUME NEW d \in Calls, Fail(d) PROVE SweepRenews(c)'
    <2>1. /\ UNCHANGED <<setup, stage, left, row, sawRow, late>>
          /\ pc' = [pc EXCEPT ![d] = "raised"]
          /\ holder' = Freed({d}) /\ pc[d] = "write"
          /\ report' = IF plan[d] = "sweep" THEN [report EXCEPT ![d] = "failed"] ELSE report
        BY <1>6 DEF Fail, StatementFails, Victim, Waits, Raise, Go, target, history
    <2>2. SweepRenews(c) /\ plan[c] = "sweep"
        BY <2>1 DEF SweepsRenew, setup
    <2>3. CASE d = c
        <3>1. pc'[c] = "raised" /\ report'[c] = "failed"
            BY <2>1, <2>2, <2>3 DEF TypeOK
        <3> QED
            BY <3>1 DEF SweepRenews, Passed, Successful
    <2>4. CASE d # c
        <3>1. pc'[c] = pc[c] /\ report'[c] = report[c]
            BY <2>1, <2>4 DEF TypeOK
        <3>2. Passed(c, "secret")' <=> Passed(c, "secret")
            BY <2>1, <3>1, PassedBy DEF Writes, setup
        <3>3. holder'["secret"] = c <=> holder["secret"] = c
            BY <2>1, <2>4, Freeing
        <3> QED
            BY <2>1, <2>2, <3>1, <3>2, <3>3 DEF SweepRenews, Renewed, Successful, setup
    <2> QED
        BY <2>3, <2>4
<1>7. CASE UNCHANGED vars
    <2>1. UNCHANGED <<setup, stage, row, holder, left, pc, sawRow, report, late>>
        BY <1>7 DEF vars, target, calls, history
    <2>2. SweepRenews(c)
        BY <2>1 DEF SweepsRenew, setup
    <2> QED
        BY <2>1, <2>2 DEF SweepRenews, Renewed, Successful, Passed, Writes, setup
<1> QED
    BY <1>1, <1>2, <1>3, <1>4, <1>5, <1>6, <1>7 DEF Next, PrivateStep, Fail

\* A change to none looks at the target before the secret.
LEMMA NonePassed ==
    ASSUME CallsAssumption, LocksKnown, NEW c \in Calls, plan[c] = "none", Passed(c, "secret")
    PROVE  Passed(c, "target") /\ left[c] = << >>
<1>1. left[c] \in {<<"target", "secret">>, <<"secret">>, << >>} /\ ~ Still(left[c], "secret")
    BY PassedBy DEF LocksKnown, CallKnown
<1>2. left[c] = << >>
    BY <1>1, OrdersStill
<1> QED
    BY <1>2, PassedBy, OrdersStill DEF Writes

\* A secret without authentication is one that was given unseen, or crossed the change.
LEMMA OrphansStep ==
    ASSUME CallsAssumption, TypeOK, TypeOK', LocksKnown, LocksKnown', SealsCurrent, OrphansKnown,
           OrphanExplained, [Next]_vars
    PROVE  OrphansKnown' /\ OrphanExplained'
<1> DEFINE Crosses(c) == pc[c] = "write" /\ plan[c] = "rotate" /\ auth = "none" => c \in crossing
           Overtaken(c) ==
               (/\ plan[c] = "none" /\ Passed(c, "secret") /\ holder["secret"] # c
                /\ holder["target"] = c /\ row # None) => row.by # None /\ plan[row.by] = "given"
<1>0. \A c \in Calls : Crosses(c) /\ Overtaken(c) /\ c # None
    BY DEF OrphansKnown, CallsAssumption
<1>1. ASSUME NEW d \in Calls, Commit(d) PROVE OrphansKnown' /\ OrphanExplained'
    <2>1. /\ UNCHANGED <<plan, left>> /\ pc' = [pc EXCEPT ![d] = "done"] /\ holder' = Freed({d})
          /\ pc[d] = "write" /\ \A r \in Writes(d) : Passed(d, r)
          /\ crossing \subseteq crossing'
        BY <1>1, Committed DEF setup
    <2>2. /\ holder["target"] # d => auth' = auth
          /\ auth' = "none" => auth = "none" \/ (plan[d] = "none" /\ holder["target"] = d)
        <3>1. /\ holder["target"] # d => auth' = auth
              /\ holder["target"] = d => auth' = AuthAfter(d)
            BY <1>1, Committed
        <3>2. AuthAfter(d) = "none" => auth = "none" \/ plan[d] = "none"
            BY DEF AuthAfter, CallsAssumption, Kinds
        <3> QED
            BY <3>1, <3>2
    <2>3. row' # None =>
              \/ row' = row /\ holder["secret"] # d
              \/ holder["secret"] = d /\ row'.by = d /\ plan[d] \in {"given", "both", "rotate"}
              \/ holder["secret"] = d /\ row # None /\ row'.by = row.by /\ plan[d] = "sweep"
        <3>1. CASE holder["secret"] # d \/ plan[d] \in {"none", "sweep"}
            BY <1>1, <3>1, Committed
        <3>2. CASE holder["secret"] = d /\ plan[d] \notin {"none", "sweep"}
            <4>1. plan[d] \in {"given", "both", "rotate"} /\ row' = sealed[d]
                BY <1>1, <3>2, Committed
            <4>2. sealed[d].by = d
                BY <2>1, <4>1 DEF SealsCurrent
            <4> QED
                BY <3>2, <4>1, <4>2
        <3> QED
            BY <3>1, <3>2
    <2>4. plan[d] \in {"both", "rotate", "none"} => holder["target"] = d \/ auth = None
        BY <2>1 DEF Writes, LocksKnown, CallKnown
    <2>5. holder["target"] # None => auth # None
        BY DEF LocksKnown, LocksHeld
    <2>6. \A c \in Calls \ {d} : Crosses(c)'
        <3> SUFFICES ASSUME NEW c \in Calls \ {d}, pc'[c] = "write", plan'[c] = "rotate",
                            auth' = "none"
                     PROVE  c \in crossing'
            OBVIOUS
        <3>1. pc[c] = "write" /\ plan[c] = "rotate"
            BY <2>1 DEF TypeOK
        <3>2. CASE auth = "none"
            BY <1>0, <2>1, <3>1, <3>2
        <3>3. CASE auth # "none"
            <4>1. plan[d] = "none"
                BY <2>2, <3>3
            <4> QED
                BY <1>1, <3>1, <4>1, Committed
        <3> QED
            BY <3>2, <3>3
    <2>7. ASSUME NEW c \in Calls \ {d} PROVE Overtaken(c)'
        <3> SUFFICES ASSUME plan'[c] = "none", Passed(c, "secret")', holder'["secret"] # c,
                            holder'["target"] = c, row' # None
                     PROVE  row'.by # None /\ plan'[row'.by] = "given"
            OBVIOUS
        <3>1. /\ plan[c] = "none" /\ pc'[c] = pc[c] /\ holder["secret"] # c /\ holder["target"] = c
            <4>1. \A r \in {"target", "secret"} : holder'[r] = c <=> holder[r] = c
                BY <2>1, Freeing
            <4>2. plan[c] = "none" /\ pc'[c] = pc[c]
                BY <2>1 DEF TypeOK
            <4> QED
                BY <4>1, <4>2
        <3>2. Passed(c, "secret")
            BY <2>1, <3>1, PassedBy DEF Writes
        <3>3. plan[d] \notin {"both", "rotate"}
            BY <1>0, <2>4, <2>5, <3>1
        <3> QED
            BY <1>0, <2>1, <2>3, <3>1, <3>2, <3>3
    <2>8. Crosses(d)' /\ Overtaken(d)'
        BY <2>1 DEF Passed, TypeOK
    <2>9. OrphanExplained'
        <3> SUFFICES ASSUME auth' = "none", row' # None
                     PROVE  row'.by # None /\ (plan[row'.by] = "given" \/ row'.by \in crossing')
            BY <2>1 DEF OrphanExplained
        <3>1. CASE holder["secret"] = d /\ row'.by = d /\ plan[d] \in {"given", "both", "rotate"}
            <4>1. auth' = None => FALSE
                BY DEF CallsAssumption, Kinds
            <4>2. CASE plan[d] = "given"
                BY <1>0, <3>1, <4>2
            <4>3. CASE plan[d] = "both"
                <5>1. holder["target"] = d \/ auth' = auth
                    BY <2>2
                <5>2. holder["target"] = d => auth' = "bearer"
                    BY <1>1, <4>3, Committed DEF AuthAfter
                <5> QED
                    BY <2>4, <4>1, <4>3, <5>1, <5>2
            <4>4. CASE plan[d] = "rotate"
                <5>1. auth = "none"
                    BY <2>2, <4>4
                <5> QED
                    BY <1>0, <2>1, <3>1, <4>4, <5>1
            <4> QED
                BY <3>1, <4>2, <4>3, <4>4
        <3>2. CASE holder["secret"] = d /\ row # None /\ row'.by = row.by /\ plan[d] = "sweep"
            <4>1. auth = "none"
                BY <2>2, <3>2
            <4> QED
                BY <2>1, <3>2, <4>1 DEF OrphanExplained
        <3>3. CASE row' = row /\ holder["secret"] # d
            <4>1. CASE auth = "none"
                BY <2>1, <3>3, <4>1 DEF OrphanExplained
            <4>2. CASE plan[d] = "none" /\ holder["target"] = d
                <5>1. Passed(d, "secret")
                    BY <2>1, <4>2 DEF Writes
                <5> QED
                    BY <1>0, <3>3, <4>2, <5>1
            <4> QED
                BY <2>2, <4>1, <4>2
        <3> QED
            BY <2>3, <3>1, <3>2, <3>3
    <2> QED
        BY <2>6, <2>7, <2>8, <2>9 DEF OrphansKnown
<1>2. ASSUME ~ \E c \in Calls : Commit(c) PROVE OrphansKnown' /\ OrphanExplained'
    <2>1. UNCHANGED <<plan, auth, row, crossing>>
        BY <1>2, StoredBy DEF setup
    <2>2. OrphanExplained'
        BY <2>1 DEF OrphanExplained
    <2>3. ASSUME NEW c \in Calls,
                 pc'[c] = "write" => pc[c] = "write",
                 Passed(c, "secret")' => Passed(c, "secret"),
                 \A r \in {"target", "secret"} : Passed(c, r)' => (holder'[r] = c <=> holder[r] = c)
          PROVE  Crosses(c)' /\ Overtaken(c)'
        <3>1. Crosses(c)'
            BY <1>0, <2>1, <2>3
        <3>2. Overtaken(c)'
            <4> SUFFICES ASSUME plan'[c] = "none", Passed(c, "secret")', holder'["secret"] # c,
                                holder'["target"] = c, row' # None
                         PROVE  row.by # None /\ plan[row.by] = "given"
                BY <2>1
            <4>1. Passed(c, "target")'
                BY <1>0 DEF LocksKnown, LocksHeld
            <4> QED
                BY <1>0, <2>1, <2>3, <4>1
        <3> QED
            BY <3>1, <3>2
    <2>4. ASSUME NEW p \in Processes, Redeploy(p) \/ Retire(p), NEW c \in Calls
          PROVE  Crosses(c)' /\ Overtaken(c)'
        <3>1. PICK then \in {"after", "retired"} : Restart(p, then)
            BY <2>4 DEF Redeploy, Retire
        <3>2. /\ UNCHANGED <<plan, left>> /\ holder' = Freed(Under(p))
              /\ pc'[c] = IF c \in Under(p) /\ pc[c] # "done" THEN "raised" ELSE pc[c]
            BY <3>1 DEF Restart, setup, TypeOK
        <3>3. \A r \in {"target", "secret"} : Passed(c, r)' => Passed(c, r) /\ c \notin Under(p)
            BY <3>2, PassedBy DEF Writes
        <3>4. c \notin Under(p) =>
                \A r \in {"target", "secret"} : holder'[r] = c <=> holder[r] = c
            BY <3>2, Freeing DEF Under
        <3> QED
            BY <2>3, <3>2, <3>3, <3>4
    <2>5. ASSUME NEW d \in Calls, PrivateStep(d), NEW c \in Calls
          PROVE  Crosses(c)' /\ Overtaken(c)'
        <3>1. CASE c # d
            <4>1. pc'[c] = pc[c] /\ left'[c] = left[c] /\ holder' = holder
                BY <2>5, <3>1, Private
            <4>2. \A r : Passed(c, r)' => Passed(c, r)
                BY <2>1, <4>1, PassedBy DEF Writes
            <4> QED
                BY <2>3, <4>1, <4>2
        <3>2. CASE c = d
            <4>1. ~ Passed(c, "secret")'
                <5>1. pc'[c] = "write" => \A r : Still(left'[c], r) <=> r \in Writes(c)'
                    BY <2>5, <3>2, BeginsToWrite
                <5> QED
                    BY <5>1, PassedBy
            <4>2. pc'[c] = "write" /\ plan[c] = "rotate" => auth = "bearer"
                BY <2>5, <3>2
                   DEF PrivateStep, Update, Rotate, SweepSelect, SweepSeal, ReadTarget, ReadSecret,
                       Probe, Go, LocksKnown, CallKnown, TypeOK
            <4> QED
                BY <2>1, <4>1, <4>2
        <3> QED
            BY <3>1, <3>2
    <2>6. ASSUME NEW d \in Calls, Statement(d), NEW c \in Calls
          PROVE  Crosses(c)' /\ Overtaken(c)'
        <3> DEFINE r == Head(left[d])
        <3>1. /\ pc' = pc /\ pc[d] = "write" /\ left[d] # << >>
              /\ left' = [left EXCEPT ![d] = Tail(@)]
              /\ \/ Missing(d, r) /\ UNCHANGED holder
                 \/ holder[r] = None /\ holder' = [holder EXCEPT ![r] = d]
            BY <2>6 DEF Statement
        <3>2. left[d] \in Orders /\ r \in {"target", "secret"}
            <4>1. left[d] \in Orders
                BY DEF TypeOK, Orders
            <4> QED
                BY <3>1, <4>1, OrdersTail
        <3>3. CASE c # d
            <4>1. left'[c] = left[c]
                BY <3>1, <3>3 DEF TypeOK
            <4>2. \A q : Passed(c, q)' => Passed(c, q)
                BY <2>1, <3>1, <4>1, PassedBy DEF Writes
            <4>3. \A q \in {"target", "secret"} : holder'[q] = c <=> holder[q] = c
                BY <1>0, <3>1, <3>2, <3>3 DEF TypeOK
            <4> QED
                BY <2>3, <3>1, <4>2, <4>3
        <3>4. CASE c = d
            <4>1. Crosses(c)'
                BY <1>0, <2>1, <3>1
            <4>2. ASSUME plan[c] = "none", Passed(c, "secret")', holder'["secret"] # c
                  PROVE  row = None
                <5>1. left[c] \in {<<"target", "secret">>, <<"secret">>}
                    BY <3>1, <3>4, <4>2 DEF LocksKnown, CallKnown
                <5>2. left'[c] = Tail(left[c])
                    BY <3>1, <3>4 DEF TypeOK
                <5>3. ~ Still(left'[c], "secret")
                    BY <4>2, PassedBy
                <5>4. left[c] = <<"secret">>
                    <6>1. Tail(<<"target", "secret">>) = <<"secret">>
                        OBVIOUS
                    <6>2. CASE left[c] = <<"target", "secret">>
                        <7>1. left'[c] = <<"secret">>
                            BY <5>2, <6>1, <6>2
                        <7>2. Still(<<"secret">>, "secret")
                            BY OrdersStill
                        <7> QED
                            BY <5>3, <7>1, <7>2
                    <6> QED
                        BY <5>1, <6>2
                <5>5. r = "secret"
                    BY <3>4, <5>4
                <5>6. ~ holder' = [holder EXCEPT !["secret"] = c]
                    BY <4>2 DEF TypeOK
                <5> QED
                    BY <3>1, <3>4, <5>5, <5>6 DEF Missing
            <4> QED
                BY <2>1, <4>1, <4>2
        <3> QED
            BY <3>3, <3>4
    <2>7. ASSUME NEW d \in Calls, Fail(d), NEW c \in Calls
          PROVE  Crosses(c)' /\ Overtaken(c)'
        <3>1. left' = left /\ holder' = Freed({d}) /\ pc' = [pc EXCEPT ![d] = "raised"]
            BY <2>7 DEF Fail, StatementFails, Victim, Raise, Go
        <3>2. pc'[c] = IF c = d THEN "raised" ELSE pc[c]
            BY <3>1 DEF TypeOK
        <3>3. \A r : Passed(c, r)' => Passed(c, r) /\ c # d
            BY <2>1, <3>1, <3>2, PassedBy DEF Writes
        <3>4. c # d => \A r \in {"target", "secret"} : holder'[r] = c <=> holder[r] = c
            BY <3>1, Freeing
        <3> QED
            BY <2>3, <3>2, <3>3, <3>4
    <2>8. ASSUME UNCHANGED vars, NEW c \in Calls
          PROVE  Crosses(c)' /\ Overtaken(c)'
        <3>1. UNCHANGED <<pc, left, holder>>
            BY <2>8 DEF vars, calls
        <3>2. Passed(c, "secret")' => Passed(c, "secret")
            BY <2>1, <3>1, PassedBy DEF Writes
        <3> QED
            BY <2>3, <3>1, <3>2
    <2>9. \A c \in Calls : Crosses(c)' /\ Overtaken(c)'
        BY <1>2, <2>4, <2>5, <2>6, <2>7, <2>8 DEF Next, PrivateStep, Fail
    <2> QED
        BY <2>2, <2>9 DEF OrphansKnown
<1> QED
    BY <1>1, <1>2

\* A target with authentication lacks its secret only as explained, and so does a probe.
LEMMA UnkeptStays ==
    ASSUME CallsAssumption, TypeOK, Unkept, [Next]_vars
    PROVE  Unkept'
<1>1. PICK d \in Calls : plan[d] = "bearer" /\ pc[d] = "done"
    BY DEF Unkept
<1>2. ASSUME NEW p \in Processes, Redeploy(p) \/ Retire(p) PROVE pc'[d] = "done" /\ plan' = plan
    BY <1>1, <1>2 DEF Redeploy, Retire, Restart, setup
<1>3. ASSUME NEW c \in Calls, PrivateStep(c) PROVE pc'[d] = "done" /\ plan' = plan
    BY <1>1, <1>3, Private DEF setup
<1>4. ASSUME NEW c \in Calls, Statement(c) \/ Commit(c) \/ Fail(c)
      PROVE  pc'[d] = "done" /\ plan' = plan
    BY <1>1, <1>4
       DEF Statement, Commit, Done, Fail, StatementFails, Victim, Waits, Raise, Go, setup, TypeOK
<1>5. CASE UNCHANGED vars
    BY <1>1, <1>5 DEF vars, setup, calls, Unkept
<1> QED
    BY <1>1, <1>2, <1>3, <1>4, <1>5 DEF Next, PrivateStep, Fail, Unkept

LEMMA BareStep ==
    ASSUME CallsAssumption, TypeOK, LocksKnown, SealsCurrent, BareKnown, BareExplained,
           [Next]_vars
    PROVE  BareKnown' /\ BareExplained'
<1>1. CASE Unkept
    BY <1>1, UnkeptStays DEF BareKnown, BareExplained, Unkept
<1>2. CASE ~ Unkept
    <2>0. /\ auth = "bearer" => row # None
          /\ \A c \in Calls \ crossing :
                /\ pc[c] = "secret" => row # None
                /\ pc[c] = "probe" /\ sawAuth[c] = "bearer" =>
                    sawRow[c] # None /\ Readable(ProcessOf[c], sawRow[c])
          /\ bare \subseteq crossing
        BY <1>2 DEF BareKnown, BareExplained, Unkept, TypeOK
    <2>1. ASSUME NEW d \in Calls, Commit(d) PROVE BareKnown' /\ BareExplained'
        <3>1. /\ UNCHANGED <<setup, stage, sawAuth, sawRow, bare>>
              /\ pc' = [pc EXCEPT ![d] = "done"] /\ pc[d] = "write"
              /\ \A r \in Writes(d) : Passed(d, r)
              /\ crossing \subseteq crossing'
            BY <2>1, Committed
        <3>2. CASE plan[d] = "bearer"
            <4>1. Unkept'
                BY <3>1, <3>2 DEF Unkept, setup, TypeOK
            <4> QED
                BY <4>1 DEF BareKnown, BareExplained, Unkept
        <3>3. CASE plan[d] # "bearer"
            <4>1. row # None => row' # None \/ (plan[d] = "none" /\ holder["secret"] = d)
                <5>1. CASE holder["secret"] # d \/ plan[d] = "sweep" \/ plan[d] = "none"
                    BY <2>1, <5>1, Committed
                <5>2. CASE holder["secret"] = d /\ plan[d] \notin {"sweep", "none"}
                    <6>1. plan[d] \in {"both", "rotate", "given"} /\ row' = sealed[d]
                        BY <2>1, <5>2, Committed
                    <6> QED
                        BY <3>1, <6>1 DEF SealsCurrent
                <5> QED
                    BY <5>1, <5>2
            <4>2. auth' = "bearer" => row' # None
                <5> SUFFICES ASSUME auth' = "bearer" PROVE row' # None
                    OBVIOUS
                <5>1. CASE holder["target"] # d
                    <6>1. auth = "bearer" /\ row # None
                        BY <2>0, <2>1, <5>1, Committed
                    <6>2. ~ (plan[d] = "none" /\ holder["secret"] = d)
                        <7>1. plan[d] = "none" => holder["target"] = d \/ auth = None
                            BY <3>1 DEF Writes, LocksKnown, CallKnown
                        <7>2. "bearer" # None
                            BY DEF CallsAssumption, Kinds
                        <7> QED
                            BY <5>1, <6>1, <7>1, <7>2
                    <6> QED
                        BY <4>1, <6>1, <6>2
                <5>2. CASE holder["target"] = d
                    <6>1. auth' = AuthAfter(d)
                        BY <2>1, <5>2, Committed
                    <6>2. plan[d] # "none"
                        BY <6>1 DEF AuthAfter
                    <6>3. CASE plan[d] = "both"
                        <7>1. holder["secret"] = d
                            BY <3>1, <6>3 DEF Writes, LocksKnown, CallKnown
                        <7>2. row' = sealed[d] /\ sealed[d] # None
                            BY <2>1, <3>1, <6>3, <7>1, Committed DEF SealsCurrent
                        <7> QED
                            BY <7>2
                    <6>4. CASE plan[d] = "delete"
                        BY <6>1, <6>4 DEF AuthAfter, CallsAssumption, Kinds
                    <6>5. CASE plan[d] \notin {"both", "delete"}
                        <7>1. auth = "bearer"
                            BY <3>3, <6>1, <6>2, <6>5 DEF AuthAfter
                        <7> QED
                            BY <2>0, <4>1, <6>2, <7>1
                    <6> QED
                        BY <6>3, <6>4, <6>5
                <5> QED
                    BY <5>1, <5>2
            <4>3. ASSUME NEW c \in Calls \ crossing'
                  PROVE  /\ pc'[c] = "secret" => row' # None
                         /\ pc'[c] = "probe" /\ sawAuth'[c] = "bearer" =>
                              sawRow'[c] # None /\ Readable(ProcessOf[c], sawRow[c])'
                <5>1. c \in Calls \ crossing
                    BY <3>1
                <5>2. pc'[c] \in {"secret", "probe"} => pc'[c] = pc[c]
                    BY <3>1 DEF TypeOK
                <5>3. pc'[c] = "secret" => plan[d] # "none"
                    <6>1. plan[d] = "none" =>
                            crossing' = crossing \cup {e \in Calls : pc[e] \in {"secret", "write"}}
                        BY <2>1, Committed
                    <6> QED
                        BY <4>3, <5>2, <6>1
                <5> QED
                    BY <2>0, <3>1, <4>1, <5>1, <5>2, <5>3
                       DEF Readable, Key, Current, setup
            <4> QED
                BY <2>0, <3>1, <4>2, <4>3 DEF BareKnown, BareExplained
        <3> QED
            BY <3>2, <3>3
    <2>2. ASSUME ~ \E c \in Calls : Commit(c) PROVE BareKnown' /\ BareExplained'
        <3>1. UNCHANGED <<setup, auth, row, crossing>>
            BY <2>2, StoredBy
        <3>2. ASSUME NEW c \in Calls \ crossing,
                     pc'[c] \in {"secret", "probe"} => /\ pc'[c] = pc[c]
                                                       /\ sawAuth'[c] = sawAuth[c]
                                                       /\ sawRow'[c] = sawRow[c],
                     pc'[c] = "probe" =>
                         \A r : Key(ProcessOf[c], r)' = Key(ProcessOf[c], r)
              PROVE  /\ pc'[c] = "secret" => row' # None
                     /\ pc'[c] = "probe" /\ sawAuth'[c] = "bearer" =>
                          sawRow'[c] # None /\ Readable(ProcessOf[c], sawRow[c])'
            BY <2>0, <3>1, <3>2 DEF Readable
        <3>3. ASSUME NEW p \in Processes, Redeploy(p) \/ Retire(p)
              PROVE  BareKnown' /\ BareExplained'
            <4>1. UNCHANGED <<sawAuth, sawRow, bare>>
                BY <3>3 DEF Redeploy, Retire, Restart
            <4>2. \A c \in Calls : pc'[c] \in {"secret", "probe"} =>
                    pc'[c] = pc[c] /\ \A r : Key(ProcessOf[c], r)' = Key(ProcessOf[c], r)
                BY <3>3, SameProcess
            <4> QED
                BY <2>0, <3>1, <3>2, <4>1, <4>2 DEF BareKnown, BareExplained
        <3>4. ASSUME NEW d \in Calls, PrivateStep(d) PROVE BareKnown' /\ BareExplained'
            <4>1. UNCHANGED <<mode, stage>>
                BY <3>4, Private DEF setup
            <4>2. \A p \in Processes : \A r : Key(p, r)' = Key(p, r)
                BY <4>1 DEF Key, Current
            <4>3. ASSUME NEW c \in Calls \ crossing
                  PROVE  /\ pc'[c] = "secret" => row' # None
                         /\ pc'[c] = "probe" /\ sawAuth'[c] = "bearer" =>
                              sawRow'[c] # None /\ Readable(ProcessOf[c], sawRow[c])'
                <5>1. CASE c # d
                    <6>1. ProcessOf[c] \in Processes
                        BY DEF CallsAssumption
                    <6> QED
                        BY <3>2, <3>4, <4>2, <5>1, <6>1, Private
                <5>2. CASE c = d
                    <6>1. CASE ReadTarget(c)
                        BY <2>0, <3>1, <6>1 DEF ReadTarget, Go, TypeOK
                    <6>2. CASE ReadSecret(c)
                        <7>1. /\ sawRow'[c] = row /\ row # None
                              /\ pc'[c] = IF row # None /\ ~ Readable(ProcessOf[c], row)
                                          THEN "raised" ELSE "probe"
                            BY <2>0, <6>2 DEF ReadSecret, Go, TypeOK
                        <7>2. Readable(ProcessOf[c], sawRow[c])' <=> Readable(ProcessOf[c], row)
                            BY <4>2, <7>1 DEF Readable, CallsAssumption
                        <7> QED
                            BY <7>1, <7>2
                    <6>3. CASE Update(c) \/ Rotate(c) \/ SweepSelect(c) \/ Probe(c)
                        BY <6>3
                           DEF Update, Rotate, SweepSelect, Probe, Write, Go, TypeOK
                    <6>4. CASE SweepSeal(c)
                        BY <6>4, SweepReports
                    <6> QED
                        BY <3>4, <5>2, <6>1, <6>2, <6>3, <6>4 DEF PrivateStep
                <5> QED
                    BY <5>1, <5>2
            <4>4. bare' \subseteq crossing
                <5>1. \A c \in Calls \ {d} : c \in bare' <=> c \in bare
                    BY <3>4, Private
                <5>2. bare' \subseteq bare \cup {d}
                    BY <3>4
                       DEF PrivateStep, Update, Rotate, SweepSelect, SweepSeal, ReadTarget,
                           ReadSecret, Probe
                <5>3. d \in bare' => d \in crossing
                    <6>1. CASE Probe(d)
                        BY <2>0, <6>1 DEF Probe
                    <6>2. CASE ~ Probe(d)
                        BY <2>0, <3>4, <6>2
                           DEF PrivateStep, Update, Rotate, SweepSelect, SweepSeal, ReadTarget,
                               ReadSecret
                    <6> QED
                        BY <6>1, <6>2
                <5> QED
                    BY <2>0, <5>2, <5>3
            <4> QED
                BY <2>0, <3>1, <4>3, <4>4 DEF BareKnown, BareExplained
        <3>5. ASSUME NEW d \in Calls, Statement(d) \/ Fail(d) PROVE BareKnown' /\ BareExplained'
            <4>1. UNCHANGED <<stage, sawAuth, sawRow, bare>>
                BY <3>5 DEF Statement, Fail, StatementFails, Victim, Raise
            <4>2. \A c \in Calls : pc'[c] \in {"secret", "probe"} => pc'[c] = pc[c]
                BY <3>5 DEF Statement, Fail, StatementFails, Victim, Raise, Go, TypeOK
            <4>3. \A p, r : Key(p, r)' = Key(p, r)
                BY <3>1, <4>1 DEF Key, Current, setup
            <4> QED
                BY <2>0, <3>1, <3>2, <4>1, <4>2, <4>3 DEF BareKnown, BareExplained
        <3>6. CASE UNCHANGED vars
            <4>1. UNCHANGED <<stage, sawAuth, sawRow, bare, pc>>
                BY <3>6 DEF vars, calls
            <4>2. \A p, r : Key(p, r)' = Key(p, r)
                BY <3>1, <4>1 DEF Key, Current, setup
            <4> QED
                BY <2>0, <3>1, <3>2, <4>1, <4>2 DEF BareKnown, BareExplained
        <3> QED
            BY <2>2, <3>3, <3>4, <3>5, <3>6 DEF Next, PrivateStep, Fail
    <2> QED
        BY <2>1, <2>2
<1> QED
    BY <1>1, <1>2

\* At first nothing is locked, and the row that may be there is one a process has written.
LEMMA TargetsInit ==
    ASSUME CallsAssumption, Init
    PROVE  TargetsInv
<1>1. /\ plan \in Plans /\ mode \in Modes /\ stage = [p \in Processes |-> "before"]
      /\ holder = [r \in {"target", "secret"} |-> None]
      /\ pc = [c \in Calls |-> "new"] /\ left = [c \in Calls |-> << >>]
      /\ sawAuth = [c \in Calls |-> None] /\ sawRow = [c \in Calls |-> None]
      /\ sealed = [c \in Calls |-> None] /\ report = [c \in Calls |-> None]
      /\ status = "never" /\ bare = {} /\ clobbered = FALSE /\ crossing = {} /\ late = {}
      /\ faults = 0 /\ latest = IF row = None THEN None ELSE row.secret
    BY DEF Init
<1>2. \/ auth = "none" /\ row = None
      \/ /\ auth = "bearer" /\ row \in Rows /\ row # None /\ row.secret = "first"
         /\ mode = "new id" => WellSealed(row)
    <2>1. CASE auth = "none" /\ row = None
        BY <2>1
    <2>2. CASE auth = "bearer" /\ \E p \in Processes : row = Seal(p, "first", None)
        <3>1. PICK p \in Processes : row = Seal(p, "first", None)
            BY <2>2
        <3>2. Current(p) = "v1" /\ Key(p, "v1") \in (Processes \X Stages) \cup ({"key"} \X {"old"})
            BY <1>1 DEF Current, Key, Stages
        <3>3. row \in Rows /\ row.secret = "first" /\ row.id = "v1" /\ row.key = Key(p, "v1")
            BY <3>1, <3>2 DEF Seal, Rows
        <3>4. mode = "new id" => Key(p, "v1") = <<"key", "old">>
            BY <1>1, <3>2 DEF Key
        <3> QED
            BY <2>2, <3>3, <3>4 DEF WellSealed, CallsAssumption
    <2> QED
        BY <2>1, <2>2 DEF Init
<1>3. TypeOK
    <2>1. faults \in 0..MaxFaults /\ latest \in Calls \cup {"first", None}
        <3>1. MaxFaults \in Nat /\ faults = 0
            BY <1>1 DEF CallsAssumption
        <3>2. latest \in Calls \cup {"first", None}
            BY <1>1, <1>2
        <3> QED
            BY <3>1, <3>2
    <2> QED
        BY <1>1, <1>2, <2>1 DEF TypeOK, Stages
<1>4. LocksKnown
    <2>1. \A c \in Calls : \A r : ~ Passed(c, r)
        BY <1>1 DEF Passed
    <2> QED
        BY <1>1, <2>1 DEF LocksKnown, LocksHeld, CallKnown
<1>5. SealsCurrent
    BY <1>1 DEF SealsCurrent
<1>6. RowsWellSealed
    BY <1>1, <1>2 DEF RowsWellSealed
<1>7. SweepsRenew
    BY <1>1 DEF SweepsRenew, SweepRenews, Passed, Successful, CallsAssumption, Reports
<1>8. OrphansKnown /\ OrphanExplained
    BY <1>1, <1>2 DEF OrphansKnown, OrphanExplained, Passed
<1>9. BareKnown /\ BareExplained
    BY <1>1, <1>2 DEF BareKnown, BareExplained
<1>10. SecretKept
    BY <1>1, <1>2 DEF SecretKept, CallsAssumption
<1> QED
    BY <1>3, <1>4, <1>5, <1>6, <1>7, <1>8, <1>9, <1>10 DEF TargetsInv

\* The old key is spared where a row may need it.
LEMMA RetireFollows ==
    ASSUME CallsAssumption, TargetsInv
    PROVE  RetireSafe
<1>1. SUFFICES ASSUME mode = "new id", row # None, NEW p \in Processes,
                      stage[p] = "after" \/ \E c \in Calls \ late : Successful(c)
               PROVE  Readable(p, row)
    BY DEF RetireSafe
<1>2. row.id \in {"v1", "v2"} /\ WellSealed(row) /\ stage[p] \in Stages
    BY <1>1 DEF TargetsInv, TypeOK, Rows, RowsWellSealed
<1>3. CASE stage[p] = "after"
    BY <1>1, <1>2, <1>3 DEF Readable, Key, Current, WellSealed
<1>4. ASSUME NEW c \in Calls \ late, Successful(c) PROVE Readable(p, row)
    <2>1. SweepRenews(c)
        BY <1>1, <1>4 DEF TargetsInv, SweepsRenew, Successful
    <2>2. row.id = "v2" /\ stage[p] # "before"
        BY <1>1, <1>4, <2>1 DEF SweepRenews, Renewed
    <2> QED
        BY <1>1, <1>2, <2>2 DEF Readable, Key, Current, WellSealed
<1> QED
    BY <1>1, <1>3, <1>4

\* For any calls on a target and its secret, any way to rotate the key, and processes that
\* are configured anew one by one: what is stored is the secret given last unless a sweep
\* wrote over it; it can be read by who has both keys, and after a sweep by all; and what lies
\* beside a target that needs no secret, or lacks beside one that does, is explained.
THEOREM TargetsKeptHolds ==
    ASSUME CallsAssumption
    PROVE  Spec => [](TypeOK /\ TargetsKept)
<1>1. Init => TargetsInv
    BY TargetsInit
<1>2. TargetsInv /\ [Next]_vars => TargetsInv'
    <2> SUFFICES ASSUME TargetsInv, [Next]_vars PROVE TargetsInv'
        OBVIOUS
    <2> USE DEF TargetsInv
    <2>1. TypeOK'
        BY TargetTypeStep
    <2>2. LocksKnown'
        BY <2>1, SecretLocksStep
    <2>3. SealsCurrent'
        BY SealsStep
    <2>4. RowsWellSealed'
        BY WellSealedStep
    <2>5. SweepsRenew'
        BY <2>1, SweepsStep
    <2>6. OrphansKnown' /\ OrphanExplained'
        BY <2>1, <2>2, OrphansStep
    <2>7. BareKnown' /\ BareExplained'
        BY BareStep
    <2>8. SecretKept'
        BY SecretStep
    <2> QED
        BY <2>1, <2>2, <2>3, <2>4, <2>5, <2>6, <2>7, <2>8
<1>3. TargetsInv => TypeOK /\ TargetsKept
    BY RetireFollows DEF TargetsInv, TargetsKept
<1> QED
    BY <1>1, <1>2, <1>3, PTL DEF Spec
=============================================================================
