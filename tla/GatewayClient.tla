---------------------------- MODULE GatewayClient ----------------------------
(***************************************************************************)
(* KyaGatewayClient.invoke_with_hitl (kya/gateway_client.py) against the   *)
(* table of pending invocations: an agent's client posts a request, and    *)
(* when the gateway parks it polls the row until it is decided, resumes it *)
(* if it was approved, and gives up after WaitTimeout.  Approvers, sweeps  *)
(* and other resume attempts are those of PendingInvocations; a client's   *)
(* own resume attempt bears its name.                                      *)
(***************************************************************************)
EXTENDS PendingInvocations

CONSTANTS
    Clients,       \* clients, each making one call; a subset of Resumes
    WaitTimeout    \* wait_timeout_sec in clock ticks

ClientsAssumption == Clients \subseteq Resumes /\ WaitTimeout \in Nat

VARIABLES
    c_pc,          \* idle, waiting, resuming, posted, and how the call ended
    c_id,          \* the X-Kya-Pending-Id of the 428
    c_started

c_vars == <<c_pc, c_id, c_started>>
allVars == <<vars, c_vars>>

\* How the call can end: with an answer (of /mcp or of the resume), or with one of
\* the client's exceptions.
Ends == {"answered", "resumed", "refused", "denied", "expired", "taken", "timeout",
         "error"}

ClientInit ==
    /\ Init
    /\ c_pc = [c \in Clients |-> "idle"]
    /\ c_id = [c \in Clients |-> None]
    /\ c_started = [c \in Clients |-> 0]

Becomes(c, end) ==
    /\ c_pc' = [c_pc EXCEPT ![c] = end]
    /\ UNCHANGED <<c_id, c_started>>

\* No 428, no connection, or a 428 without an id because the row was not written.
InvokeReturns(c) ==
    /\ c_pc[c] = "idle"
    /\ \E end \in {"answered", "error"} : Becomes(c, end)
    /\ UNCHANGED vars

\* The gateway answers 428 with the id of a row. (Within MaxClock the call can time out.)
InvokeParked(c, id, t) ==
    /\ c_pc[c] = "idle"
    /\ clock + WaitTimeout <= MaxClock
    /\ CreatePending(id, t)
    /\ c_pc' = [c_pc EXCEPT ![c] = "waiting"]
    /\ c_id' = [c_id EXCEPT ![c] = id]
    /\ c_started' = [c_started EXCEPT ![c] = clock]

\* Seeded fault: the time is never looked at.
TimedOutNever(c) == FALSE

TimedOut(c) == clock - c_started[c] >= WaitTimeout

\* After each sleep the time is looked at first, ...
GiveUp(c) ==
    /\ c_pc[c] = "waiting" /\ TimedOut(c)
    /\ Becomes(c, "timeout")
    /\ UNCHANGED vars

\* Seeded fault: a request that somebody else resumed counts as this client's.
SeenAsMine == [approved |-> "resuming", denied |-> "denied", expired |-> "expired",
               resumed |-> "resumed"]

\* ... then the row. (A pending row, an unknown status and a transport error leave the
\* client as it is, until the next poll.)
Seen == [approved |-> "resuming", denied |-> "denied", expired |-> "expired",
         resumed |-> "taken"]

Poll(c) ==
    /\ c_pc[c] = "waiting" /\ ~ TimedOut(c)
    /\ status[c_id[c]] \in DOMAIN Seen
    /\ Becomes(c, Seen[status[c_id[c]]])
    /\ UNCHANGED vars

\* The dashboard answers the poll with an error, or the body does not parse.
PollRefused(c) ==
    /\ c_pc[c] = "waiting" /\ ~ TimedOut(c)
    /\ Becomes(c, "error")
    /\ UNCHANGED vars

PostResume(c) ==
    /\ c_pc[c] = "resuming"
    /\ ResumeCall(c, c_id[c])
    /\ Becomes(c, "posted")

\* What the resume endpoint answers is returned as it is ...
ResumeAnswered(c) ==
    /\ c_pc[c] = "posted"
    /\ \/ r_pc[c] = "resumed" /\ Becomes(c, "resumed")
       \/ r_pc[c] \in {"refused", "late", "failed"} /\ Becomes(c, "refused")
    /\ UNCHANGED vars

\* ... and a connection lost meanwhile raises, whatever the endpoint goes on to do.
ResumeLost(c) ==
    /\ c_pc[c] = "posted"
    /\ Becomes(c, "error")
    /\ UNCHANGED vars

\* A step of the table that is not the beginning of a client's attempt.
TableStep ==
    /\ Next
    /\ \A c \in Clients : r_pc[c] = "idle" => r_pc'[c] = "idle"
    /\ UNCHANGED c_vars

Act(c) == GiveUp(c) \/ Poll(c) \/ PostResume(c) \/ ResumeAnswered(c) \/ ResumeLost(c)

ClientNext ==
    \/ TableStep
    \/ \E c \in Clients :
        \/ InvokeReturns(c) \/ PollRefused(c) \/ Act(c)
        \/ \E id \in Ids, t \in Tenants : InvokeParked(c, id, t)

\* The clock runs and a client that was called gets on: its sleeps end, its requests
\* time out.
ClientFairness ==
    /\ WF_allVars(Tick /\ UNCHANGED c_vars)
    /\ \A c \in Clients : WF_allVars(Act(c))

ClientSpec == ClientInit /\ [][ClientNext]_allVars
FairClientSpec == ClientSpec /\ ClientFairness
-----------------------------------------------------------------------------
ClientTypeOK ==
    /\ TypeOK
    /\ c_pc \in [Clients -> Ends \cup {"idle", "waiting", "resuming", "posted"}]
    /\ c_id \in [Clients -> Ids \cup {None}]
    /\ c_started \in [Clients -> Time]

\* What the client tells its agent is and stays true of the row, although sweeps,
\* approvers and other clients go on: a denial, an expiry, an answer that is the
\* result of its own resume, or the resume of somebody else.
ClientHonest ==
    \A c \in Clients :
        LET id == c_id[c] IN
        /\ c_pc[c] = "denied" => status[id] = "denied"
        /\ c_pc[c] = "expired" => status[id] = "expired"
        /\ c_pc[c] = "taken" => resume_ev[id] \in Resumes \ {c}
        /\ c_pc[c] = "resumed" => status[id] = "resumed" /\ resume_ev[id] = c

\* A client that saw the approval resumes the request, unless it was resumed by
\* another, its replay failed, or it expired between the poll and the resume.
ApprovalNotWasted ==
    \A c \in Clients : r_pc[c] \in {"refused", "late"} =>
        resume_ev[c_id[c]] \in Resumes \ {c} \/ expires_at[c_id[c]] <= clock

\* With the table's own promises while clients, approvers of every tenant and other
\* resume attempts race for a row: one of two attempts that pass the gate is told True.
\* (Without RETURNING, decide() may answer True across tenants.)
ClientKept ==
    ClientHonest /\ ApprovalNotWasted /\ OneResume /\ (Returning => TenantScoped)

\* Every call that waits for a human ends, decided or not.
Waiting == \E c \in Clients : c_pc[c] \in {"waiting", "resuming", "posted"}
CallsEnd == Waiting ~> ~ Waiting
-----------------------------------------------------------------------------
(* The strengthening of ClientKept that is inductive, next to IInv.        *)

\* The evidence a row links is that of an attempt that was told True.
EvidenceResumed == \A id \in Ids : resume_ev[id] # None => r_pc[resume_ev[id]] = "resumed"

AttemptsDated == \A r \in Resumes : r_ts[r] <= clock

\* A client has the id it polls with; its attempt begins when it posts, and is for
\* that id.
ClientHasId ==
    \A c \in Clients :
        /\ c_pc[c] \notin {"idle", "answered", "error"} => c_id[c] \in Ids
        /\ r_pc[c] # "idle" =>
              /\ c_pc[c] \in {"posted", "resumed", "refused", "error"}
              /\ c_id[c] \in Ids /\ r_id[c] = c_id[c]
        /\ c_pc[c] = "resumed" => r_pc[c] = "resumed"

\* What a client resumes was approved: nothing takes that back.
ApprovalStands ==
    \A c \in Clients :
        c_pc[c] = "resuming" \/ r_pc[c] # "idle" => status[c_id[c]] \in {"approved", "resumed"}

ClientInv ==
    /\ EvidenceResumed
    /\ AttemptsDated
    /\ ClientHasId
    /\ ApprovalStands
    /\ ClientHonest
    /\ ApprovalNotWasted
=============================================================================
