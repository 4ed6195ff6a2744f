------------------------------ MODULE RoleGrants ------------------------------
(***************************************************************************)
(* Grants of actions to one principal (kya/rbac.py): grant_action,         *)
(* revoke_action and require_action, which asks has_action and, where its  *)
(* caller wants it, the principal's trust score.  One SQL statement is one *)
(* step; a call that writes commits with its statement.                    *)
(***************************************************************************)
EXTENDS Integers, FiniteSets

CONSTANTS
    Grants, Revokes, Checks,   \* calls of grant_action, revoke_action, require_action
    ActionOf,      \* the action each of them names
    WildOf,        \* the wildcard of an action's namespace
    Ends,          \* what grants say of their expiry, None for never
    Modes,         \* KYA_RBAC_ENFORCEMENT: off, flag, block
    Scores,        \* trust scores considered
    MinTrust,      \* min_trust of the checks, None for no trust gate
    MaxFaults,     \* bound: queries that fail
    Horizon,       \* bound: the clock stops here
    None

Calls == Grants \cup Revokes \cup Checks
Actions == {ActionOf[c] : c \in Calls}
Rows == Actions \cup {WildOf[a] : a \in Actions}

CallsAssumption ==
    /\ DOMAIN ActionOf = Calls /\ DOMAIN WildOf = Actions
    /\ Grants \cap Revokes = {} /\ Grants \cap Checks = {} /\ Revokes \cap Checks = {}
NumbersAssumption ==
    /\ Ends \subseteq Int \cup {None} /\ Scores \subseteq Int /\ MaxFaults \in Nat
    /\ Horizon \in Nat /\ MinTrust \in Int \cup {None}
    /\ None \notin Int \cup [id : Nat, until : Ends] \cup {"granted", "yes", "no"}

VARIABLES
    mode,
    now,
    row,        \* the row of an action, [id, until], None if there is none
    nextId,
    score,      \* of the principal, None if it has no row
    pc,
    found,      \* the id a call has read, None for no row
    answer,     \* "granted" with the id found, "yes" or "no", or how it failed
    present,    \* ids on the table at some moment of a call
    permitted,  \* checks during which an active grant covered the action
    trusted,    \* checks during which the score reached MinTrust
    overtaken,  \* revocations during or after which somebody was granting
    faults

table == <<mode, now, row, nextId, score>>
history == <<present, permitted, trusted, overtaken>>
vars == <<table, pc, found, answer, history, faults>>

Id(a) == IF row[a] = None THEN None ELSE row[a].id
Active(a) == row[a] # None /\ (row[a].until = None \/ row[a].until > now)
Covered(a) == Active(a) \/ Active(WildOf[a])
Trusted == score # None /\ MinTrust # None /\ score >= MinTrust

Init ==
    /\ mode \in Modes /\ now = 0
    /\ \E a \in Actions, until \in Ends :
        row \in {[b \in Rows |-> None],
                [b \in Rows |-> IF b = WildOf[a] THEN [id |-> 1, until |-> until] ELSE None]}
    /\ nextId = 2 /\ score \in Scores \cup {None}
    /\ pc = [c \in Calls |-> "idle"]
    /\ found = [c \in Calls |-> None]
    /\ answer = [c \in Calls |-> None]
    /\ present = [c \in Grants |-> {}]
    /\ permitted = {} /\ trusted = {} /\ overtaken = {}
    /\ faults = 0

\* A call that this step begins, takes on or ends.
Under(c) == pc[c] # "done" /\ pc'[c] # "idle"

\* What a running call could have seen: the rows, the cover and the score it meets now.
Observe ==
    /\ present' = [c \in Grants |->
            IF Under(c) /\ Id(ActionOf[c])' # None
            THEN present[c] \cup {Id(ActionOf[c])'} ELSE present[c]]
    /\ permitted' = permitted \cup {c \in Checks : Under(c) /\ Covered(ActionOf[c])'}
    /\ trusted' = trusted \cup {c \in Checks : Under(c) /\ Trusted'}
    /\ overtaken' = overtaken \cup
            {r \in Revokes : pc'[r] # "idle"
                /\ \E g \in Grants : Under(g) /\ ActionOf[g] = ActionOf[r]}

Returned(c, value, id) ==
    /\ answer' = [answer EXCEPT ![c] = value]
    /\ found' = [found EXCEPT ![c] = id]
    /\ pc' = [pc EXCEPT ![c] = "done"]
Return(c, value) == Returned(c, value, found[c])
YesNo(b) == IF b THEN "yes" ELSE "no"

Continue(c, step, id) ==
    /\ pc' = [pc EXCEPT ![c] = step]
    /\ found' = [found EXCEPT ![c] = id]
    /\ UNCHANGED answer
-----------------------------------------------------------------------------
(* grant_action                                                            *)

\* SELECT first: a row that is there is returned, active or not.
GrantSelect(g) ==
    LET id == Id(ActionOf[g])
    IN  /\ pc[g] = "called"
        /\ IF id # None THEN Returned(g, "granted", id) ELSE Continue(g, "insert", None)
        /\ UNCHANGED <<table, faults>>
        /\ Observe

\* INSERT and commit, or the unique constraint and a rollback.
GrantInsert(g) ==
    /\ pc[g] = "insert"
    /\ IF row[ActionOf[g]] = None
       THEN /\ \E until \in Ends :
                row' = [row EXCEPT ![ActionOf[g]] = [id |-> nextId, until |-> until]]
            /\ nextId' = nextId + 1
            /\ Returned(g, "granted", nextId)
       ELSE /\ Continue(g, "again", None)
            /\ UNCHANGED <<row, nextId>>
    /\ UNCHANGED <<mode, now, score, faults>>
    /\ Observe

\* The SELECT that looks for the winner's row; "should be impossible" is to miss it.
GrantAgain(g) ==
    LET id == Id(ActionOf[g])
    IN  /\ pc[g] = "again"
        /\ IF id # None THEN Returned(g, "granted", id) ELSE Return(g, "RuntimeError")
        /\ UNCHANGED <<table, faults>>
        /\ Observe

\* Anything else that goes wrong is rolled back and raised.
GrantFails(g) ==
    /\ pc[g] \in {"called", "insert", "again"}
    /\ faults < MaxFaults /\ faults' = faults + 1
    /\ Return(g, "raised")
    /\ UNCHANGED table
    /\ Observe
-----------------------------------------------------------------------------
(* revoke_action                                                           *)

RevokeSelect(r) ==
    LET id == Id(ActionOf[r])
    IN  /\ pc[r] = "called"
        /\ IF id = None THEN Return(r, "no") ELSE Continue(r, "delete", id)
        /\ UNCHANGED <<table, faults>>
        /\ Observe

\* DELETE of that id and commit; nobody counts the rows.
RevokeDelete(r) ==
    /\ pc[r] = "delete"
    /\ row' = IF Id(ActionOf[r]) = found[r]
              THEN [row EXCEPT ![ActionOf[r]] = None] ELSE row
    /\ Return(r, "yes")
    /\ UNCHANGED <<mode, now, nextId, score, faults>>
    /\ Observe

\* A failure is answered like a missing grant.
RevokeFails(r) ==
    /\ pc[r] \in {"called", "delete"}
    /\ faults < MaxFaults /\ faults' = faults + 1
    /\ Return(r, "failed")
    /\ UNCHANGED table
    /\ Observe
-----------------------------------------------------------------------------
(* require_action                                                          *)

\* Seeded fault: the wildcard is looked up without its expiry.
CoversLate(a) == Active(a) \/ row[WildOf[a]] # None

\* has_action: the action or its namespace's wildcard, if it has not expired.
Covers(a) == Covered(a)

\* Off skips the grant and flag only warns; the trust gate stands in every mode.
AfterGrant(k) ==
    IF MinTrust = None THEN Return(k, "yes") ELSE Continue(k, "trust", None)

CheckGrant(k) ==
    /\ pc[k] = "called"
    /\ IF mode = "block" /\ ~ Covers(ActionOf[k]) THEN Return(k, "no") ELSE AfterGrant(k)
    /\ UNCHANGED <<table, faults>>
    /\ Observe

\* A query that fails finds no grant.
CheckGrantFails(k) ==
    /\ pc[k] = "called" /\ mode # "off"
    /\ faults < MaxFaults /\ faults' = faults + 1
    /\ IF mode = "block" THEN Return(k, "no") ELSE AfterGrant(k)
    /\ UNCHANGED table
    /\ Observe

\* Without a row of the principal, or below the threshold, the answer is no.
CheckTrust(k) ==
    /\ pc[k] = "trust"
    /\ Return(k, YesNo(Trusted))
    /\ UNCHANGED <<table, faults>>
    /\ Observe

CheckTrustFails(k) ==
    /\ pc[k] = "trust"
    /\ faults < MaxFaults /\ faults' = faults + 1
    /\ Return(k, "no")
    /\ UNCHANGED table
    /\ Observe
-----------------------------------------------------------------------------
Call(c) ==
    /\ pc[c] = "idle"
    /\ Continue(c, "called", None)
    /\ UNCHANGED <<table, faults>>
    /\ Observe

\* Signals move the principal's score, and time passes.
Rescore ==
    /\ score' \in Scores /\ score' # score
    /\ UNCHANGED <<mode, now, row, nextId, pc, found, answer, faults>>
    /\ Observe

Tick ==
    /\ now < Horizon /\ now' = now + 1
    /\ UNCHANGED <<mode, row, nextId, score, pc, found, answer, faults>>
    /\ Observe

Next ==
    \/ \E c \in Calls : Call(c)
    \/ \E g \in Grants : GrantSelect(g) \/ GrantInsert(g) \/ GrantAgain(g) \/ GrantFails(g)
    \/ \E r \in Revokes : RevokeSelect(r) \/ RevokeDelete(r) \/ RevokeFails(r)
    \/ \E k \in Checks :
        CheckGrant(k) \/ CheckGrantFails(k) \/ CheckTrust(k) \/ CheckTrustFails(k)
    \/ Rescore \/ Tick

Spec == Init /\ [][Next]_vars
-----------------------------------------------------------------------------
TypeOK ==
    /\ mode \in Modes /\ now \in 0..Horizon /\ nextId \in Nat \ {0}
    /\ score \in Scores \cup {None} /\ faults \in 0..MaxFaults
    /\ row \in [Rows -> [id : 1..(nextId - 1), until : Ends] \cup {None}]
    /\ pc \in [Calls -> {"idle", "called", "insert", "again", "delete", "trust", "done"}]
    /\ found \in [Calls -> 1..(nextId - 1) \cup {None}]
    /\ answer \in [Calls -> {None, "granted", "RuntimeError", "raised", "yes", "no", "failed"}]
    /\ present \in [Grants -> SUBSET (1..(nextId - 1))]

\* grant_action returns a row that was there at a moment of the call, whoever inserted it
\* and whoever revoked it meanwhile; it misses one only if it raises.
GrantsHonest ==
    \A g \in Grants : answer[g] = "granted" => found[g] \in present[g]

\* When a revocation has returned, the principal does not hold the action, as long as no
\* grant overlapped it or came after it; two revocations of one grant do not hurt.
RevocationsHold ==
    \A r \in Revokes :
        (answer[r] \in {"yes", "no"} /\ r \notin overtaken) => row[ActionOf[r]] = None

\* A check that blocks lets a principal through only if at a moment of the call a grant
\* of the action or of its namespace had not expired; and in every mode, if a threshold
\* was asked for, the score reached it at a moment of the call.
ChecksHonest ==
    \A k \in Checks : answer[k] = "yes" =>
        /\ mode = "block" => k \in permitted
        /\ MinTrust # None => k \in trusted

RolesKept == GrantsHonest /\ RevocationsHold /\ ChecksHonest
-----------------------------------------------------------------------------
(* The strengthening of RolesKept that is inductive.                       *)

\* Nobody is answered before its call ends.
AnsweredAtEnd == \A c \in Calls : pc[c] # "done" => answer[c] \notin {"granted", "yes", "no"}

\* A revocation that no grant overlapped is about to delete the row that is there, if any.
DeletesWhatIsThere ==
    \A r \in Revokes :
        (pc[r] = "delete" /\ r \notin overtaken) => Id(ActionOf[r]) \in {None, found[r]}

\* Whoever is at the trust gate has passed the one before.
GateBehind ==
    \A k \in Checks : pc[k] = "trust" => MinTrust # None /\ (mode = "block" => k \in permitted)

RolesInv == TypeOK /\ AnsweredAtEnd /\ DeletesWhatIsThere /\ GateBehind /\ RolesKept
==============================================================================
