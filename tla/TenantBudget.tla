---------------------------- MODULE TenantBudget ----------------------------
(***************************************************************************)
(* The cost budget of one tenant in one scope and window                   *)
(* (kya/tenant_budget.py): the platform's default caps and the tenant's    *)
(* own, the spend counter in Valkey, the ledger of cost events, and calls  *)
(* that ask should_refuse, spend, and report what they cost.  Every cap is *)
(* a hard one (hard_refuse); the log of the changes is left out.           *)
(***************************************************************************)
EXTENDS Naturals, Sequences, FiniteSets, Functions

CONSTANTS
    Caps,          \* the thresholds that may be set
    Events,        \* the cost events, each with a request id of its own
    Cost,          \* what each of them costs
    Window, Life,  \* the window's length and its counter's lifetime, longer
    Horizon,       \* bound on the clock
    MaxChanges,    \* bound on the changes of caps
    MaxReports,    \* bound on the reports of cost events
    None

CapsAssumption == Caps \subseteq Nat \ {0} /\ None \notin Nat
EventsAssumption == IsFiniteSet(Events) /\ Cost \in Nat
WindowAssumption == Window \in Nat /\ Life \in Nat /\ Window < Life
NumbersAssumption == Horizon \in Nat /\ MaxChanges \in Nat /\ MaxReports \in Nat

VARIABLES
    platform,      \* the rows with tenant_id NULL, which do not conflict
    override,      \* the tenant's row or None
    checking,      \* a cap of the tenant that passed _check_only_tighten, or None
    edits,         \* changes of caps so far
    now,
    counter, dies, \* the spend counter and the time its key expires
    ledger,        \* when an event was booked, or None
    pc,            \* of an event: idle, asking, admitted, counted, done, refused
    seenCap,       \* the cap that the call asking for it has read, or None
    reports,       \* reports so far
    moved,         \* history: the default changed after the override was checked
    missed,        \* history: a report did not reach the counter
    capsMoved,     \* history: a cap changed after the first call asked
    peak,          \* history: the most calls admitted and not counted at once
    unchecked      \* history: the events let through because a read failed

config == <<platform, override, checking, edits, moved, capsMoved>>
spending == <<counter, dies, ledger, pc, seenCap, reports, missed, peak, unchecked>>
vars == <<config, spending, now>>
-----------------------------------------------------------------------------
Defaults == Range(platform)

\* The tenant's row wins over the platform's; of several platform rows the database
\* returns any.
EffectiveCaps == IF override # None THEN {override} ELSE Defaults

Spend == IF now < dies THEN counter ELSE 0
InFlight == {e \in Events : pc[e] = "admitted"}

Init ==
    /\ platform = <<>> /\ override = None /\ checking = None /\ edits = 0
    /\ now = 0
    /\ counter = 0 /\ dies = 0
    /\ ledger = [e \in Events |-> None]
    /\ pc = [e \in Events |-> "idle"]
    /\ reports = 0
    /\ seenCap = [e \in Events |-> None]
    /\ moved = FALSE /\ missed = FALSE /\ capsMoved = FALSE /\ peak = 0 /\ unchecked = {}

Changed ==
    /\ edits < MaxChanges
    /\ edits' = edits + 1
    /\ capsMoved' = (capsMoved \/ \E e \in Events : pc[e] # "idle")

\* set_budget of the platform: the upsert's key holds a NULL, so that it inserts.
SetDefault(cap) ==
    /\ platform' = Append(platform, cap)
    /\ moved' = TRUE
    /\ Changed
    /\ UNCHANGED <<override, checking, spending, now>>

\* set_budget of the tenant first compares with a default ...
CheckOnlyTighten(cap) ==
    /\ checking = None
    /\ platform = <<>> \/ \E default \in Defaults : cap <= default
    /\ checking' = cap
    /\ moved' = FALSE
    /\ UNCHANGED <<platform, override, edits, capsMoved, spending, now>>

\* ... and then writes.
SetOverride ==
    /\ checking # None
    /\ override' = checking
    /\ checking' = None
    /\ Changed
    /\ UNCHANGED <<platform, moved, spending, now>>

DeleteDefault ==
    /\ platform # <<>>
    /\ platform' = <<>>
    /\ moved' = TRUE
    /\ Changed
    /\ UNCHANGED <<override, checking, spending, now>>

\* delete_budget takes the default for the tenant's row, and deletes nothing then.
DeleteOverride ==
    /\ EffectiveCaps # {}
    /\ override' = None
    /\ Changed
    /\ UNCHANGED <<platform, checking, moved, spending, now>>

Admit(e) ==
    /\ pc' = [pc EXCEPT ![e] = "admitted"]
    /\ peak' = IF Cardinality(InFlight) >= peak THEN Cardinality(InFlight) + 1 ELSE peak

\* should_refuse first reads the caps: without any, and when the database fails, the call
\* is let through at once.
ReadCaps(e) ==
    /\ pc[e] = "idle"
    /\ \/ \E cap \in EffectiveCaps :
            /\ seenCap' = [seenCap EXCEPT ![e] = cap]
            /\ pc' = [pc EXCEPT ![e] = "asking"]
            /\ UNCHANGED <<peak, unchecked>>
       \/ /\ Admit(e)
          /\ unchecked' = IF EffectiveCaps = {} THEN unchecked ELSE unchecked \cup {e}
          /\ UNCHANGED seenCap
    /\ UNCHANGED <<config, now, counter, dies, ledger, reports, missed>>

\* Then, for the cost the call expects, it reads the spend, which is nothing if Valkey
\* fails: an unreachable cap refuses, a forecast of a breach only slows down.
ShouldRefuse(e) ==
    /\ pc[e] = "asking"
    /\ \E spend \in {Spend, 0} :
        \/ /\ spend + Cost < seenCap[e]
           /\ Admit(e)
           /\ unchecked' = IF Spend + Cost < seenCap[e] THEN unchecked ELSE unchecked \cup {e}
        \/ /\ spend + Cost >= seenCap[e]
           /\ pc' = [pc EXCEPT ![e] = "refused"]
           /\ UNCHANGED <<peak, unchecked>>
    /\ seenCap' = [seenCap EXCEPT ![e] = None]
    /\ UNCHANGED <<config, now, counter, dies, ledger, reports, missed>>

\* Seeded fault: the lifetime runs from the first report of a window.
IncrementWindowsOnce(e) ==
    /\ pc[e] = "admitted" /\ reports < MaxReports
    /\ counter' = Spend + Cost
    /\ dies' = IF now < dies THEN dies ELSE now + Life
    /\ pc' = [pc EXCEPT ![e] = "counted"]
    /\ reports' = reports + 1
    /\ UNCHANGED <<config, now, ledger, seenCap, missed, peak, unchecked>>

\* record_cost_event: first the counter, whose lifetime starts anew, ...
IncrementWindows(e) ==
    /\ pc[e] = "admitted" /\ reports < MaxReports
    /\ counter' = Spend + Cost
    /\ dies' = now + Life
    /\ pc' = [pc EXCEPT ![e] = "counted"]
    /\ reports' = reports + 1
    /\ UNCHANGED <<config, now, ledger, seenCap, missed, peak, unchecked>>

IncrementFails(e) ==
    /\ pc[e] = "admitted" /\ reports < MaxReports
    /\ missed' = TRUE
    /\ pc' = [pc EXCEPT ![e] = "counted"]
    /\ reports' = reports + 1
    /\ UNCHANGED <<config, now, counter, dies, ledger, seenCap, peak, unchecked>>

\* ... then the ledger, where a request id is booked once; any failure is swallowed.
BookEvent(e) ==
    /\ pc[e] = "counted"
    /\ \/ ledger' = IF ledger[e] = None THEN [ledger EXCEPT ![e] = now] ELSE ledger
       \/ UNCHANGED ledger
    /\ pc' = [pc EXCEPT ![e] = "done"]
    /\ UNCHANGED <<config, now, counter, dies, seenCap, reports, missed, peak, unchecked>>

\* A caller that was not answered reports the same request id again.
ReportAgain(e) ==
    /\ pc[e] = "done"
    /\ Admit(e)
    /\ UNCHANGED <<config, now, counter, dies, ledger, seenCap, reports, missed, unchecked>>

\* The counter's grace over its window is longer than a report takes (30 s at least):
\* no tick passes between its two halves.
Tick ==
    /\ now < Horizon
    /\ \A e \in Events : pc[e] # "counted"
    /\ now' = now + 1
    /\ UNCHANGED <<config, spending>>

Next ==
    \/ \E cap \in Caps : SetDefault(cap) \/ CheckOnlyTighten(cap)
    \/ SetOverride \/ DeleteDefault \/ DeleteOverride
    \/ \E e \in Events :
        \/ ReadCaps(e) \/ ShouldRefuse(e) \/ IncrementWindows(e) \/ IncrementFails(e)
        \/ BookEvent(e) \/ ReportAgain(e)
    \/ Tick

Spec == Init /\ [][Next]_vars
-----------------------------------------------------------------------------
TypeOK ==
    /\ platform \in Seq(Caps) /\ override \in Caps \cup {None}
    /\ checking \in Caps \cup {None}
    /\ edits \in 0..MaxChanges
    /\ now \in 0..Horizon /\ dies \in 0..(Horizon + Life)
    /\ counter \in Nat /\ reports \in 0..MaxReports
    /\ ledger \in [Events -> 0..Horizon \cup {None}]
    /\ pc \in [Events -> {"idle", "asking", "admitted", "counted", "done", "refused"}]
    /\ seenCap \in [Events -> Caps \cup {None}]
    /\ peak \in 0..Cardinality(Events) /\ unchecked \subseteq Events

\* A tenant's cap is above the platform's latest default only if the default was set
\* after the cap was compared with it, or there are several defaults to compare with.
TightUnlessDefaultMoved ==
    (override # None /\ checking = None /\ ~ moved /\ Len(platform) = 1) =>
        override <= platform[1]

\* The counter never shows less than what the ledger booked within the window, though
\* both are written apart, expire, fail and are repeated: only a report that could
\* not reach the counter is missing from it.
Booked == {e \in Events : ledger[e] # None /\ now - ledger[e] <= Window}
NeverUnderCounted ==
    ~ missed => Cost * Cardinality(Booked) <= Spend

\* Calls that ask one after the other stay below a cap; calls in flight together pass
\* it by no more than what all of them but one cost, and each call that a failing read
\* let through by what it costs, as long as each reports once.
Reported == {e \in Events : pc[e] \in {"counted", "done"}}
ReportedOnce == reports = Cardinality(Reported)
Excess == Cost * (peak - 1 + Cardinality(unchecked))
OvershootBounded ==
    (~ missed /\ ~ capsMoved /\ ReportedOnce) =>
        \A cap \in Caps :
            (EffectiveCaps = {cap} /\ Booked # {}) =>
                Cost * Cardinality(Booked) < cap + Excess

BudgetKept == TightUnlessDefaultMoved /\ NeverUnderCounted /\ OvershootBounded
-----------------------------------------------------------------------------
(* What makes it inductive.                                                *)

\* A cap was compared with the defaults that are still there: the one to be written, or
\* the one that was.
Tight(cap) == platform = <<>> \/ \E default \in Defaults : cap <= default
ComparedCaps ==
    ~ moved =>
        /\ checking # None => Tight(checking)
        /\ (checking = None /\ override # None) => Tight(override)

\* Whatever the ledger holds was counted less than a lifetime before the counter's end,
\* and the counter shows it, together with what is about to be booked.
Counted == {e \in Events : pc[e] = "counted"}
CounterAhead ==
    ~ missed =>
        /\ Counted # {} => dies = now + Life
        /\ \A e \in Events : ledger[e] # None => ledger[e] + Life <= dies
        /\ Cost * Cardinality(Booked \cup Counted) <= Spend
LedgerBehind ==
    /\ dies <= now + Life
    /\ \A e \in Events : ledger[e] # None =>
        ledger[e] <= now /\ pc[e] \in {"admitted", "counted", "done"}

\* A call in the middle of asking has read a cap that is in force, and only calls that have
\* asked are let through and spend.
Asked == {e \in Events : pc[e] \in {"admitted", "counted", "done"}}
LimitsInForce ==
    /\ \A e \in Events : pc[e] = "asking" =>
        /\ seenCap[e] # None
        /\ ~ capsMoved => seenCap[e] \in EffectiveCaps
    /\ unchecked \subseteq Asked
    /\ Asked = {} => counter = 0

\* What is spent and what is in flight stayed below the cap when the last call asked, but
\* for the calls that were let through blindly.
FlightsBounded ==
    (~ capsMoved /\ ReportedOnce) =>
        \A cap \in Caps : (EffectiveCaps = {cap} /\ Asked # {}) =>
            Spend + Cost * Cardinality(InFlight) < cap + Excess

BudgetInv ==
    /\ TypeOK /\ ComparedCaps /\ CounterAhead /\ LedgerBehind /\ LimitsInForce
    /\ FlightsBounded
    /\ Cardinality(Reported) <= reports

\* The last default that the platform set is the one in force.
LatestDefaultApplies ==
    (platform # <<>> /\ override = None) => EffectiveCaps = {platform[Len(platform)]}
=============================================================================
