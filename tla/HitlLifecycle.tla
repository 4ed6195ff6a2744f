--------------------------- MODULE HitlLifecycle ---------------------------
(***************************************************************************)
(* What the pending-invocations table promises to the gateway, the         *)
(* approvers and the auditor: every parked request is decided at most      *)
(* once, by one approver, or expires undecided; only an approved request   *)
(* is resumed, and once. Requests that expire do so in batches.            *)
(***************************************************************************)
CONSTANTS Ids, Users, None

VARIABLES state, decider

vars == <<state, decider>>

Init ==
    /\ state = [id \in Ids |-> "absent"]
    /\ decider = [id \in Ids |-> None]

Submit(id) ==
    /\ state[id] = "absent"
    /\ state' = [state EXCEPT ![id] = "pending"]
    /\ UNCHANGED decider

Decide(id, user, decision) ==
    /\ state[id] = "pending"
    /\ state' = [state EXCEPT ![id] = decision]
    /\ decider' = [decider EXCEPT ![id] = user]

Expire(batch) ==
    /\ \A id \in batch : state[id] = "pending"
    /\ state' = [id \in Ids |-> IF id \in batch THEN "expired" ELSE state[id]]
    /\ UNCHANGED decider

Resume(id) ==
    /\ state[id] = "approved"
    /\ state' = [state EXCEPT ![id] = "resumed"]
    /\ UNCHANGED decider

Next ==
    \/ \E id \in Ids : Submit(id)
    \/ \E id \in Ids, user \in Users, decision \in {"approved", "denied"} :
          Decide(id, user, decision)
    \/ \E batch \in SUBSET Ids : Expire(batch)
    \/ \E id \in Ids : Resume(id)

Spec == Init /\ [][Next]_vars
=============================================================================
