----------------------------- MODULE MCDelivery -----------------------------
(***************************************************************************)
(* Instances of what is handed on and must arrive: a client that waits for *)
(* a human, a backlog of requests that wait for one, the rows of the       *)
(* dual-write sink, and a red-team run on record.  The module extends the  *)
(* client's, whose constants the configuration gives.  Each behaviour is   *)
(* one of one of the parts: "part" says which; in the others the client    *)
(* has not called yet, and the variables of sink and run keep Unused.      *)
(***************************************************************************)
EXTENDS GatewayClient, TLC

CONSTANTS i1, i2, i3, t1, t2, alice, d1, r1, r2, w1, w2, Unused

VARIABLES
    part,
    queue, stopped, open, failures, w_pc, batch, attempt,
    active, emitter, m_pc, m_op, e_sink, outcome, accepted, received,
    kind, u_status, asked, age, used, u_pc, ending, entry, turn, sent, talked, beatAge,
    calls, late, cut, entryAge, missed, troubles

sinkVars == <<queue, stopped, open, failures, w_pc, batch, attempt,
              active, emitter, m_pc, m_op, e_sink, outcome, accepted, received>>
campaignVars == <<kind, u_status, asked, age, used, u_pc, ending, entry, turn, sent, talked,
                  beatAge, calls, late, cut, entryAge, missed, troubles>>
deliveryVars == <<part, allVars, sinkVars, campaignVars>>

\* One row of either of two tenants, its client, an approver, another resume attempt and
\* a sweep: the constants of GatewayClient.
Approver == d1 :> alice

\* Three overdue rows that nobody decides, batches of two in chunks of one, sweeps that
\* can deadlock.
Backlog == INSTANCE PendingInvocations WITH
    Ids <- {i1, i2, i3}, Tenants <- {t1}, Sweepers <- {w1, w2}, BatchSize <- 2, MaxAborts <- 1

\* Two rows, a sink and its successor.
Sink == INSTANCE DualWrite WITH
    MaxRows <- 2, MaxSinks <- 2, QueueMax <- 1, BatchMax <- 2, MaxRetries <- 1,
    Threshold <- 1

\* One run of each kind, with a failure anywhere.
Run == INSTANCE CampaignRuns WITH
    Runs <- {r1}, Kinds <- {"prompts", "turns", "tree"}, Entries <- 2, Turns <- 2,
    Branches <- 2, MaxPrompts <- 3, Monthly <- 3, Stale <- 3, Beat <- 1, MaxFailures <- 1,
    status <- u_status, pc <- u_pc, outcome <- ending, failures <- troubles

ASSUME
    ClientsAssumption /\ Run!RunsAssumption /\ Sink!BoundsAssumption /\ Sink!NoneAssumption

NoSink ==
    /\ queue = Unused /\ stopped = Unused /\ open = Unused /\ failures = Unused
    /\ w_pc = Unused /\ batch = Unused /\ attempt = Unused /\ active = Unused
    /\ emitter = Unused /\ m_pc = Unused /\ m_op = Unused /\ e_sink = Unused
    /\ outcome = Unused /\ accepted = Unused /\ received = Unused

NoRun ==
    /\ kind = Unused /\ u_status = Unused /\ asked = Unused /\ age = Unused
    /\ used = Unused /\ u_pc = Unused /\ ending = Unused /\ entry = Unused
    /\ turn = Unused /\ sent = Unused /\ talked = Unused /\ beatAge = Unused
    /\ calls = Unused /\ late = Unused /\ cut = Unused /\ entryAge = Unused
    /\ missed = Unused /\ troubles = Unused

NoCall ==
    /\ c_pc = [c \in Clients |-> "idle"] /\ c_id = [c \in Clients |-> None]
    /\ c_started = [c \in Clients |-> 0]

DeliveryInit ==
    \/ part = "client" /\ ClientInit /\ NoSink /\ NoRun
    \/ part = "backlog" /\ Backlog!Init /\ NoCall /\ NoSink /\ NoRun
    \/ part = "sink" /\ Sink!Init /\ ClientInit /\ NoRun
    \/ part = "campaign" /\ Run!Init /\ ClientInit /\ NoSink

BacklogStep ==
    /\ part = "backlog" /\ UNCHANGED <<d_vars, r_vars, c_vars, sinkVars, campaignVars>>
    /\ Backlog!Next

ClientStep ==
    /\ part = "client" /\ ClientNext
    /\ UNCHANGED <<sinkVars, campaignVars>>

SinkStep ==
    /\ part = "sink" /\ Sink!Next
    /\ UNCHANGED <<allVars, campaignVars>>

CampaignStep ==
    /\ part = "campaign" /\ Run!Next
    /\ UNCHANGED <<allVars, sinkVars>>

DeliveryNext ==
    /\ UNCHANGED part
    /\ BacklogStep \/ ClientStep \/ SinkStep \/ CampaignStep

\* Each part is as fair as its module says.
BacklogFairness ==
    /\ WF_vars(part = "backlog" /\ Backlog!Tick)
    /\ WF_vars(part = "backlog" /\ \E w \in {w1, w2} : Backlog!SweepDeadlock(w))
    /\ \A w \in {w1, w2} :
        /\ WF_vars(part = "backlog" /\ Backlog!Sweep(w))
        /\ SF_vars(part = "backlog" /\ s_expired[w] # {} /\ Backlog!SweepUpdate(w))

WaitFairness ==
    /\ WF_allVars(part = "client" /\ Tick /\ UNCHANGED c_vars)
    /\ WF_allVars(part = "client" /\ Act(r1))

SinkFairness ==
    /\ \A s \in 1..2 : WF_sinkVars(part = "sink" /\ Sink!Work(s))
    /\ WF_sinkVars(part = "sink" /\ Sink!Manage)

CampaignFairness ==
    /\ WF_campaignVars(part = "campaign" /\ Run!Tick)
    /\ WF_campaignVars(part = "campaign" /\ Run!Reconcile)
    /\ WF_campaignVars(part = "campaign" /\ Run!Work(r1))

DeliverySpec ==
    /\ DeliveryInit /\ [][DeliveryNext]_deliveryVars
    /\ BacklogFairness /\ WaitFairness /\ SinkFairness /\ CampaignFairness
-----------------------------------------------------------------------------
\* The type invariants of the parts.
DeliveryTypeOK ==
    /\ part = "backlog" => Backlog!TypeOK
    /\ part # "backlog" => ClientTypeOK
    /\ part = "sink" => Sink!TypeOK
    /\ part = "campaign" => Run!TypeOK

\* The properties of sink and run, stated in their modules; ClientKept is checked as it is.
SinkAccounts == part = "sink" => Sink!SinkAccounts
RunsKept == part = "campaign" => Run!RunsKept

\* PendingResolved of PendingInvocations (the rows of a backlog are interchangeable);
\* CallsEnd of GatewayClient, RowsSettle of DualWrite and RunsEnd of CampaignRuns.
BacklogResolved ==
    (part = "backlog" /\ status[i1] = "pending")
        ~> (part = "backlog" => status[i1] # "pending")

Unfinished ==
    \/ part = "client" /\ Waiting
    \/ part = "sink" /\ Sink!Unsettled
    \/ part = "campaign" /\ Run!OnRecord(r1)
WaitsEnd == Unfinished ~> ~ Unfinished
=============================================================================
