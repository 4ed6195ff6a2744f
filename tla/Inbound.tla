------------------------------ MODULE Inbound ------------------------------
(***************************************************************************)
(* kya/inbound.py with tenant_weights.set_override: signed recommendations *)
(* for one weight, fetched again and again.  Those on the allowlist are    *)
(* applied to the platform's weight by the fetch, the others wait for an   *)
(* operator.  A fetch, an approval and a rejection each work in several    *)
(* transactions.  Signatures and expiry are checked before and left out.   *)
(***************************************************************************)
EXTENDS Integers, FiniteSets, FiniteSetsExt

CONSTANTS
    Recs, ValueOf,  \* the recommendations, and the weight each one asks for
    Allowlists,     \* the sets of recommendations that may be on the allowlist
    Calls,          \* [op |-> "fetch" | "approve" | "reject", rec]
    Default,        \* the built-in weight
    Chosen,         \* the weights an operator may set directly
    MaxCrashes, None

\* What the constants must satisfy, for any instance.
RecsAssumption ==
    /\ Allowlists \subseteq SUBSET Recs /\ Default \in Nat /\ Chosen \subseteq Nat
    /\ ValueOf \in [Recs -> Nat] /\ MaxCrashes \in Nat
    /\ None \notin Nat \cup Recs \cup {"pending", "auto_applied", "applied"}

CallsAssumption ==
    \A c \in Calls : c.op \in {"fetch", "approve", "reject"} /\ c.rec \in Recs

VARIABLES
    allowed,    \* the allowlist: never changes
    weight,     \* the platform's override, or None
    status,     \* the row of each recommendation, or None
    changes,    \* kya_weight_changes: who set the weight, [by, rec, value]
    pc,
    rejected,   \* the recommendations whose row was set to rejected
    crashes

vars == <<allowed, weight, status, changes, pc, rejected, crashes>>

Effective == IF weight = None THEN Default ELSE weight
Go(c, step) == pc' = [pc EXCEPT ![c] = step]
-----------------------------------------------------------------------------
Init ==
    /\ allowed \in Allowlists
    /\ weight = None /\ status = [r \in Recs |-> None] /\ changes = {} /\ rejected = {}
    /\ pc = [c \in Calls |-> "idle"] /\ crashes = 0

\* _persist_one: the row is inserted once; the fetch goes on whether it was there or not.
Persist(c) ==
    /\ pc[c] = "idle" /\ c.op = "fetch"
    /\ status' = [status EXCEPT ![c.rec] = IF @ = None THEN "pending" ELSE @]
    /\ Go(c, IF c.rec \in allowed THEN "check" ELSE "fetched")
    /\ UNCHANGED <<allowed, weight, changes, rejected, crashes>>

\* A seeded fault, the mutant of InboundKept: the fetch lowers the weight.
CheckOnlyTightenNever(c) ==
    /\ pc[c] = "check"
    /\ Go(c, "write")
    /\ UNCHANGED <<allowed, weight, status, changes, rejected, crashes>>

\* _check_only_tighten: the platform's weight is not lowered; the failure is swallowed.
CheckOnlyTighten(c) ==
    /\ pc[c] = "check"
    /\ Go(c, IF ValueOf[c.rec] < Effective THEN "fetched" ELSE "write")
    /\ UNCHANGED <<allowed, weight, status, changes, rejected, crashes>>

\* set_override writes the weight and the change, and commits.
Write(c, by, next) ==
    /\ weight' = ValueOf[c.rec]
    /\ changes' = changes \cup {[by |-> by, rec |-> c.rec, value |-> ValueOf[c.rec]]}
    /\ Go(c, next)
    /\ UNCHANGED <<allowed, status, rejected, crashes>>

AutoWrite(c) == pc[c] = "write" /\ Write(c, "fetch", "mark")

\* Only a pending row becomes auto_applied.
AutoMark(c) ==
    /\ pc[c] = "mark"
    /\ status' = [status EXCEPT ![c.rec] = IF @ = "pending" THEN "auto_applied" ELSE @]
    /\ Go(c, "fetched")
    /\ UNCHANGED <<allowed, weight, changes, rejected, crashes>>

\* The next fetch of the same envelope.
FetchAgain(c) ==
    /\ pc[c] = "fetched"
    /\ Go(c, "idle")
    /\ UNCHANGED <<allowed, weight, status, changes, rejected, crashes>>

\* _decide: the row is looked at, and updated where it is pending; nothing is asked of the
\* number of rows that were.
LookPending(c) ==
    /\ pc[c] = "idle" /\ c.op # "fetch" /\ status[c.rec] # None
    /\ Go(c, IF status[c.rec] = "pending" THEN "decide" ELSE "refused")
    /\ UNCHANGED <<allowed, weight, status, changes, rejected, crashes>>

Decide(c) ==
    LET verdict == IF c.op = "approve" THEN "approved" ELSE "rejected"
    IN /\ pc[c] = "decide"
       /\ status' = [status EXCEPT ![c.rec] = IF @ = "pending" THEN verdict ELSE @]
       /\ rejected' = IF c.op = "reject" /\ status[c.rec] = "pending"
                      THEN rejected \cup {c.rec} ELSE rejected
       /\ Go(c, IF c.op = "approve" THEN "apply" ELSE "decided")
       /\ UNCHANGED <<allowed, weight, changes, crashes>>

\* approve_recommendation sets the weight, lower or not, and marks the row whatever it says.
ApproveWrite(c) == pc[c] = "apply" /\ Write(c, "approve", "applied")

ApproveMark(c) ==
    /\ pc[c] = "applied"
    /\ status' = [status EXCEPT ![c.rec] = "applied"]
    /\ Go(c, "decided")
    /\ UNCHANGED <<allowed, weight, changes, rejected, crashes>>

\* set_override raises, which leaves an approval without effect.
ApplyFails(c) ==
    /\ pc[c] \in {"write", "apply"}
    /\ Go(c, IF c.op = "fetch" THEN "fetched" ELSE "decided")
    /\ UNCHANGED <<allowed, weight, status, changes, rejected, crashes>>

\* A process ends; a fetch is repeated by the next one.
Crash(c) ==
    /\ crashes < MaxCrashes /\ pc[c] \notin {"idle", "fetched", "decided", "refused"}
    /\ crashes' = crashes + 1
    /\ Go(c, IF c.op = "fetch" THEN "fetched" ELSE "decided")
    /\ UNCHANGED <<allowed, weight, status, changes, rejected>>

\* An operator sets the platform's weight, with allow_platform_decrease.
Operate(v) ==
    /\ weight # v
    /\ weight' = v
    /\ changes' = changes \cup {[by |-> "operator", rec |-> None, value |-> v]}
    /\ UNCHANGED <<allowed, status, pc, rejected, crashes>>

Next ==
    \/ \E c \in Calls :
        \/ Persist(c) \/ CheckOnlyTighten(c) \/ AutoWrite(c) \/ AutoMark(c) \/ FetchAgain(c)
        \/ LookPending(c) \/ Decide(c) \/ ApproveWrite(c) \/ ApproveMark(c)
        \/ ApplyFails(c) \/ Crash(c)
    \/ \E v \in Chosen : Operate(v)

Spec == Init /\ [][Next]_vars
-----------------------------------------------------------------------------
Statuses == {None, "pending", "auto_applied", "approved", "applied", "rejected"}

\* Rows have a status, changes are those of recommendations and of operators.
TypeOK ==
    /\ weight \in Nat \cup {None} /\ status \in [Recs -> Statuses]
    /\ pc \in [Calls -> {"idle", "check", "write", "mark", "fetched", "refused", "decide",
                        "apply", "applied", "decided"}]
    /\ \A g \in changes : g.by = "operator" <=> g.rec = None

\* What a row says was applied was set, by a fetch or by an approval as it says.
AppliedTookEffect ==
    \A r \in Recs :
        /\ status[r] = "auto_applied" => \E g \in changes : g.rec = r /\ g.by = "fetch"
        /\ status[r] = "applied" => \E g \in changes : g.rec = r /\ g.by = "approve"

\* Only the allowlist acts without an operator, and it never takes the weight below what is
\* built in or a human set, whichever writes come between its check and its write
\* (tenant_weights.py:243-262).
HumanChoices == {Default} \cup {g.value : g \in {h \in changes : h.by # "fetch"}}
HumanFloor == Min(HumanChoices)

OnlyTightened ==
    /\ Effective >= HumanFloor
    /\ \A g \in changes : g.by = "fetch" => g.rec \in allowed

InboundKept == AppliedTookEffect /\ OnlyTightened

\* A rejection stands: what an operator rejected is never marked as applied.
RejectionStands == \A r \in rejected : status[r] = "rejected"
-----------------------------------------------------------------------------
(* The strengthening of InboundKept that is inductive.                     *)

\* A fetch checks, writes and marks for the allowlist alone; a call marks a row after its
\* write, and only such a write is a change.
Marks ==
    /\ \A c \in Calls :
        /\ pc[c] \in {"check", "write", "mark"} => c.op = "fetch" /\ c.rec \in allowed
        /\ pc[c] \in {"decide", "apply", "applied"} => c.op # "fetch"
        /\ pc[c] \in {"apply", "applied"} => c.op = "approve"
        /\ pc[c] = "mark" => \E g \in changes : g.rec = c.rec /\ g.by = "fetch"
        /\ pc[c] = "applied" => \E g \in changes : g.rec = c.rec /\ g.by = "approve"
    /\ \A g \in changes : g.value \in Nat

\* Of the weights that are built in or a human set one is the lowest; what is in effect,
\* and what a fetch that has looked is about to write, is not below all of them.
AboveHumans(v) == \E h \in HumanChoices : h <= v
Floored ==
    /\ \E low \in HumanChoices : \A h \in HumanChoices : low <= h
    /\ AboveHumans(Effective)
    /\ \A c \in Calls : pc[c] = "write" => AboveHumans(ValueOf[c.rec])

InboundInv ==
    /\ TypeOK /\ Marks /\ Floored /\ AppliedTookEffect
    /\ \A g \in changes : g.by = "fetch" => g.rec \in allowed
    /\ allowed \subseteq Recs
=============================================================================
