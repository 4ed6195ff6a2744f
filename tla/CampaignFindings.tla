--------------------------- MODULE CampaignFindings ---------------------------
(***************************************************************************)
(* What a red-team run leaves behind (kya_redteam/campaigns.py,            *)
(* pyrit_orchestrator.py, multi_turn.py): a finding for what the scorer    *)
(* objects to, the progress in the row of the run, an event, an incident   *)
(* if the campaign and the tenant's policy allow one; and the policy,      *)
(* which administrators change meanwhile.  The run has one session for all *)
(* of it: after a statement that failed, PostgreSQL refuses every other    *)
(* until somebody rolls back.                                              *)
(* Left out: budgets, cancels and heartbeats as such, in CampaignRuns.     *)
(***************************************************************************)
EXTENDS Naturals, FiniteSets

CONSTANTS
    Kinds,          \* subset of AllKinds
    Modes,          \* auto_incident_mode of the campaign
    Entries,        \* of the dataset
    PerEntry,       \* bound on the hits of a probe family
    Admins,
    CeilingOf,      \* Admins -> the ceiling that they ask for, None if another field
    MaxFaults,      \* bound on statements that fail
    None

\* garak's probes are sent as they are, or the library makes attempts of its own.
AllKinds == {"prompts", "turns", "native", "family"}
Rank == [never |-> 0, critical_only |-> 1, always |-> 2]
Severities == {"high", "critical"}

FindingsAssumption ==
    /\ Kinds \subseteq AllKinds /\ Modes \subseteq DOMAIN Rank
    /\ CeilingOf \in [Admins -> DOMAIN Rank \cup {None}]
    /\ Entries \in Nat /\ PerEntry \in Nat /\ MaxFaults \in Nat

VARIABLES
    kind, campaign, \* constants: of the run, and its campaign's auto_incident_mode
    ceiling,        \* max_auto_incident_mode of the tenant's policy
    a_pc, a_read,   \* an administrator's call, and the ceiling that it read
    pc,
    mode,           \* effective mode, worked out when the run starts
    entry, hit,     \* entries begun, hits of this entry
    severity,       \* of the hit at hand
    aborted,        \* the run's transaction has failed and was not rolled back
    saved, linked,  \* findings: all, and those with promoted_incident_id
    incidents,      \* rows of governance_incidents
    report, row,    \* counts of findings and incidents: of the worker, and in the run's row
    status,
    hits,           \* history: everything the scorer objected to
    posted,         \* history: hits whose event was accepted
    drowned,        \* history: hits that were lost to an earlier failure
    then,           \* history: ceiling when the run started
    asked,          \* history: ceiling that was asked for last
    raced,          \* history: a ceiling was overwritten by a call that asked for none
    unwritten,      \* history: the latest progress did not get into the row
    faults

policyVars == <<ceiling, a_pc, a_read, asked, raced>>
setup == <<kind, campaign>>
outcome == <<saved, linked, incidents, posted, drowned>>
counts == <<report, row, unwritten>>
vars == <<setup, policyVars, pc, mode, entry, hit, severity, aborted, outcome, counts, status,
          hits, then, faults>>

Zero == [findings |-> 0, incidents |-> 0]
Garak == kind \in {"native", "family"}
This == <<entry, hit>>

Init ==
    /\ kind \in Kinds /\ campaign \in Modes
    /\ ceiling \in DOMAIN Rank
    /\ a_pc = [a \in Admins |-> "new"] /\ a_read = [a \in Admins |-> None]
    /\ pc = "new" /\ mode = None /\ entry = 0 /\ hit = 0 /\ severity = None /\ aborted = FALSE
    /\ saved = {} /\ linked = {} /\ incidents = 0 /\ report = Zero /\ row = Zero
    /\ status = "running" /\ hits = {} /\ posted = {} /\ drowned = {} /\ then = None
    /\ asked = ceiling /\ raced = FALSE /\ unwritten = FALSE /\ faults = 0

Fault == faults < MaxFaults /\ faults' = faults + 1
-----------------------------------------------------------------------------
(* The policy: set_tenant_policy reads every field, ...                    *)

ReadPolicy(a) ==
    /\ a_pc[a] = "new"
    /\ a_pc' = [a_pc EXCEPT ![a] = "write"] /\ a_read' = [a_read EXCEPT ![a] = ceiling]
    /\ UNCHANGED <<setup, ceiling, asked, raced, pc, mode, entry, hit, severity, aborted,
                   outcome, counts, status, hits, then, faults>>

\* ... and writes every field: the ones nobody asked for, as it read them.
WritePolicy(a) ==
    /\ a_pc[a] = "write" /\ a_pc' = [a_pc EXCEPT ![a] = "done"]
    /\ IF CeilingOf[a] # None
       THEN ceiling' = CeilingOf[a] /\ asked' = CeilingOf[a] /\ raced' = FALSE
       ELSE /\ ceiling' = a_read[a] /\ UNCHANGED asked
            /\ raced' = (raced \/ a_read[a] # ceiling)
    /\ UNCHANGED <<setup, a_read, pc, mode, entry, hit, severity, aborted, outcome, counts,
                   status, hits, then, faults>>

\* effective_auto_incident_mode: the policy is a ceiling for the campaign.
Effective(wanted, limit) == IF Rank[wanted] <= Rank[limit] THEN wanted ELSE limit

\* _should_auto_incident.
Should(m, s) == m = "always" \/ (m = "critical_only" /\ s = "critical")

\* The run reads the policy once.
Start ==
    /\ pc = "new" /\ pc' = "entry"
    /\ mode' = Effective(campaign, ceiling) /\ then' = ceiling
    /\ UNCHANGED <<setup, policyVars, entry, hit, severity, aborted, outcome, counts, status,
                   hits, faults>>
-----------------------------------------------------------------------------
(* An entry                                                                *)

\* The top of the loop asks the database for a cancel, which raises if the transaction has
\* failed: the worker rolls back and gives up.  garak's loop asks Valkey alone.
Crash ==
    /\ pc = "entry" /\ entry < Entries /\ aborted /\ ~ Garak
    /\ pc' = "done" /\ aborted' = FALSE /\ status' = "failed"
    /\ UNCHANGED <<setup, policyVars, mode, entry, hit, severity, outcome, counts, hits, then,
                   faults>>

Cancelled ==
    /\ pc = "entry" /\ entry < Entries /\ status' = "cancelled" /\ pc' = "finalise"
    /\ UNCHANGED <<setup, policyVars, mode, entry, hit, severity, aborted, outcome, counts,
                   hits, then, faults>>

NextEntry ==
    /\ pc = "entry" /\ entry < Entries /\ (Garak \/ ~ aborted)
    /\ entry' = entry + 1 /\ hit' = 0 /\ pc' = "score"
    /\ UNCHANGED <<setup, policyVars, mode, severity, aborted, outcome, counts, status, hits,
                   then, faults>>

\* The scorer objects, or does not; a family of probes is asked again.
Score ==
    /\ pc = "score" /\ hit < (IF kind = "family" THEN PerEntry ELSE 1)
    /\ hit' = hit + 1 /\ severity' \in Severities
    /\ hits' = hits \cup {<<entry, hit'>>} /\ pc' = "save"
    /\ UNCHANGED <<setup, policyVars, mode, entry, aborted, outcome, counts, status, then,
                   faults>>

\* A probe that was sent as it is ends with a heartbeat, which writes if it is due and rolls
\* back when it cannot; elsewhere no transaction that has failed comes to one.
Pass ==
    /\ pc = "score" /\ pc' = "entry"
    /\ \/ UNCHANGED aborted
       \/ kind = "native" /\ aborted' = FALSE
    /\ UNCHANGED <<setup, policyVars, mode, entry, hit, severity, outcome, counts, status, hits,
                   then, faults>>

\* record_finding, which commits.
Save ==
    /\ pc = "save" /\ ~ aborted
    /\ saved' = saved \cup {This} /\ report' = [report EXCEPT !.findings = @ + 1]
    /\ pc' = IF Garak THEN "post" ELSE "progress"
    /\ UNCHANGED <<setup, policyVars, mode, entry, hit, severity, aborted, linked, incidents,
                   posted, drowned, row, unwritten, status, hits, then, faults>>

\* What a loop does when it could not keep a hit: no rollback.
GiveUp == pc' = IF kind = "prompts" \/ kind = "turns" THEN "entry" ELSE "score"

\* It raises before it asks the database, or the database refuses it.
SaveFails ==
    /\ pc = "save" /\ ~ aborted /\ Fault
    /\ aborted' \in BOOLEAN /\ GiveUp
    /\ UNCHANGED <<setup, policyVars, mode, entry, hit, severity, outcome, counts, status, hits,
                   then>>

SaveRefused ==
    /\ pc = "save" /\ aborted
    /\ drowned' = drowned \cup {This} /\ GiveUp
    /\ UNCHANGED <<setup, policyVars, mode, entry, hit, severity, aborted, saved, linked,
                   incidents, posted, counts, status, hits, then, faults>>

\* update_run_progress: what it was given, or a rollback.
Written(which) == row' = [c \in DOMAIN row |-> IF c \in which THEN report[c] ELSE row[c]]

Progress ==
    /\ pc = "progress" /\ pc' = "post"
    /\ \/ Written({"findings"}) /\ unwritten' = FALSE /\ UNCHANGED faults
       \/ Fault /\ unwritten' = TRUE /\ UNCHANGED row
    /\ UNCHANGED <<setup, policyVars, mode, entry, hit, severity, aborted, outcome, report,
                   status, hits, then>>

\* The event is accepted, or not; garak's findings do not become incidents.
Post ==
    /\ pc = "post"
    /\ pc' = IF Garak THEN "score" ELSE IF Should(mode, severity) THEN "promote" ELSE "entry"
    /\ posted' \in {posted, posted \cup {This}}
    /\ UNCHANGED <<setup, policyVars, mode, entry, hit, severity, aborted, saved, linked,
                   incidents, drowned, counts, status, hits, then, faults>>

\* _maybe_create_incident: the incident and the link to it, in one transaction.
Promote ==
    /\ pc = "promote" /\ pc' = "entry"
    /\ incidents' = incidents + 1 /\ linked' = linked \cup {This}
    /\ report' = [report EXCEPT !.incidents = @ + 1]
    /\ UNCHANGED <<setup, policyVars, mode, entry, hit, severity, aborted, saved, posted,
                   drowned, row, unwritten, status, hits, then, faults>>

PromoteFails ==
    /\ pc = "promote" /\ pc' = "entry" /\ Fault
    /\ UNCHANGED <<setup, policyVars, mode, entry, hit, severity, aborted, outcome, counts,
                   status, hits, then>>
-----------------------------------------------------------------------------
(* The end                                                                 *)

Complete ==
    /\ pc = "entry" /\ entry = Entries /\ pc' = "finalise" /\ status' = "completed"
    /\ UNCHANGED <<setup, policyVars, mode, entry, hit, severity, aborted, outcome, counts,
                   hits, then, faults>>

\* The progress once more, refused if the transaction has failed, which is rolled back; then
\* finalize_run.
Finalise ==
    /\ pc = "finalise" /\ pc' = "done" /\ aborted' = FALSE
    /\ \/ ~ aborted /\ Written(DOMAIN row) /\ unwritten' = FALSE /\ UNCHANGED faults
       \/ aborted /\ unwritten' = TRUE /\ UNCHANGED <<row, faults>>
       \/ ~ aborted /\ Fault /\ unwritten' = TRUE /\ UNCHANGED row
    /\ UNCHANGED <<setup, policyVars, mode, entry, hit, severity, outcome, report, status, hits,
                   then>>

Next ==
    \/ \E a \in Admins : ReadPolicy(a) \/ WritePolicy(a)
    \/ Start \/ Crash \/ Cancelled \/ NextEntry \/ Score \/ Pass \/ Save \/ SaveFails
    \/ SaveRefused \/ Progress \/ Post \/ Promote \/ PromoteFails \/ Complete \/ Finalise

Spec == Init /\ [][Next]_vars
-----------------------------------------------------------------------------
TypeOK ==
    /\ kind \in Kinds /\ campaign \in Modes /\ ceiling \in DOMAIN Rank
    /\ pc \in {"new", "entry", "score", "save", "progress", "post", "promote", "finalise",
               "done"}
    /\ entry \in 0..Entries /\ hit \in 0..(IF kind = "family" THEN PerEntry ELSE 1)
    /\ aborted \in BOOLEAN /\ report \in [{"findings", "incidents"} -> Nat]
    /\ status \in {"running", "completed", "cancelled", "failed"} /\ faults \in 0..MaxFaults

\* A ceiling that an administrator asked for stays, unless a call that asked for another
\* field had read the policy before.
CeilingKept == ceiling = asked \/ raced

\* Each incident has its finding and each finding at most one incident; there is none that
\* the campaign or the ceiling at the start of the run forbids, nor for a probe of garak's.
IncidentsAllowed ==
    /\ incidents = Cardinality(linked) /\ report.incidents = incidents
    /\ linked \subseteq saved
    /\ incidents > 0 => ~ Garak /\ campaign # "never" /\ then # "never"
    /\ pc = "promote" => Should(campaign, severity) /\ Should(then, severity)

\* Outside garak's loops no hit is lost because another one was.
LostAlone == ~ Garak => drowned = {}

\* No event without a finding; and the row of a finished run says how many there are, or
\* the last attempt to say so has failed.
CountsTrue ==
    /\ posted \subseteq saved /\ report.findings = Cardinality(saved)
    /\ (pc = "done" /\ ~ unwritten) => row.findings = Cardinality(saved)

FindingsKept == CeilingKept /\ IncidentsAllowed /\ LostAlone /\ CountsTrue
=============================================================================
