------------------------- MODULE WeightSuggestions -------------------------
(***************************************************************************)
(* Suggestions to raise one risk weight (kya/feedback.py): proposed from a *)
(* critical incident, unless one is pending, and decided by a reviewer; an *)
(* approval is committed before its value, computed when it was proposed,  *)
(* is written through set_override (kya/tenant_weights.py), which other    *)
(* operators call meanwhile.                                               *)
(*                                                                         *)
(* A call that fails or whose process dies is one that takes no more steps.*)
(***************************************************************************)
EXTENDS Integers, FiniteSets

CONSTANTS
    Proposals,   \* [layer, incident]: calls of propose_from_incident, each with one
                 \* candidate, layer being that of the incident's tenant
    Decisions,   \* [about, verdict]: approve_suggestion and reject_suggestion
    Changes,     \* [layer, value, lower]: other calls of set_override
    Owns,        \* weights the tenant may have of its own at first, or None
    Default,     \* the built-in weight
    Delta,       \* what a suggestion adds
    None

Layers == {"platform", "tenant"}

CallsAssumption ==
    /\ \A p \in Proposals : p.layer \in Layers
    /\ \A d \in Decisions : d.about \in Proposals /\ d.verdict \in {"approved", "rejected"}
    /\ \A c \in Changes : c.layer \in Layers /\ c.value \in Nat /\ c.lower \in BOOLEAN
    /\ Proposals \cap Decisions = {} /\ Proposals \cap Changes = {} /\ Decisions \cap Changes = {}

Statuses == {"pending", "approved", "rejected", "applied"}
Weights == [current : Nat, own : BOOLEAN]
Suggestions == [value : Nat, status : Statuses]

NumbersAssumption ==
    /\ Owns \subseteq Nat \cup {None} /\ Default \in Nat /\ Delta \in Nat \ {0}
    /\ None \notin Nat \cup Weights \cup Suggestions

VARIABLES
    override,    \* kya_weight_overrides: Layers -> value, None for no row
    pc,
    read,        \* [current, own]: the platform's weight as a proposal read it, and whether
                 \* the tenant's own was above what it suggests (history)
    suggestion,  \* kya_weight_suggestions: Proposals -> [value, status], None for no row
    overlap,     \* history: pairs of proposals made at the same time
    moved,       \* history: those whose layer changed since they read, by other calls
    live,        \* history: those whose value was written
    lowered      \* history: those that lowered the weight in force

vars == <<override, pc, read, suggestion, overlap, moved, live, lowered>>

Calls == Proposals \cup Decisions \cup Changes

Platform == IF override["platform"] # None THEN override["platform"] ELSE Default
InForce(layer) ==
    IF layer = "tenant" /\ override["tenant"] # None THEN override["tenant"] ELSE Platform

Init ==
    /\ \E own \in Owns : override = [platform |-> None, tenant |-> own]
    /\ pc = [c \in Calls |-> "idle"]
    /\ read = [p \in Proposals |-> None]
    /\ suggestion = [p \in Proposals |-> None]
    /\ overlap = {} /\ moved = {} /\ live = {} /\ lowered = {}

Go(c, step) == pc' = [pc EXCEPT ![c] = step]
-----------------------------------------------------------------------------
(* propose_from_incident                                                   *)

Proposing(p) == pc[p] \in {"look", "insert"}

\* The weight read is the platform's, whoever the incident's tenant is.
ReadWeight(p) ==
    /\ pc[p] = "idle"
    /\ read' = [read EXCEPT ![p] =
        [current |-> Platform,
         own |-> p.layer = "tenant" /\ InForce("tenant") > Platform + Delta]]
    /\ overlap' = overlap \cup {{p, q} : q \in {q \in Proposals : Proposing(q)}}
    /\ Go(p, "look")
    /\ UNCHANGED <<override, suggestion, moved, live, lowered>>

Pending(p) == suggestion[p] # None /\ suggestion[p].status = "pending"

LookPending(p) ==
    /\ pc[p] = "look"
    /\ Go(p, IF \E q \in Proposals : Pending(q) /\ q.layer = p.layer
             THEN "done" ELSE "insert")
    /\ UNCHANGED <<override, read, suggestion, overlap, moved, live, lowered>>

Insert(p) ==
    /\ pc[p] = "insert"
    /\ suggestion' = [suggestion EXCEPT ![p] =
                        [value |-> read[p].current + Delta, status |-> "pending"]]
    /\ Go(p, "done")
    /\ UNCHANGED <<override, read, overlap, moved, live, lowered>>
-----------------------------------------------------------------------------
(* approve_suggestion and reject_suggestion                                *)

\* UPDATE ... WHERE status = 'pending'; without a row it raises.
Decide(d) ==
    /\ pc[d] = "idle" /\ suggestion[d.about] # None
    /\ IF Pending(d.about)
       THEN /\ suggestion' = [suggestion EXCEPT ![d.about].status = d.verdict]
            /\ Go(d, IF d.verdict = "approved" THEN "check" ELSE "done")
       ELSE UNCHANGED suggestion /\ Go(d, "refused")
    /\ UNCHANGED <<override, read, overlap, moved, live, lowered>>

\* How a call calls set_override: a reviewer may lower the platform's weight.
Layer(c) == IF c \in Decisions THEN c.about.layer ELSE c.layer
Value(c) == IF c \in Decisions THEN suggestion[c.about].value ELSE c.value
MayLower(c) == Layer(c) = "platform" /\ (c \in Decisions \/ c.lower)

\* Only-tighten.  An approval that is refused here stays approved and is not applied.
Tighten(c) ==
    /\ pc[c] = IF c \in Decisions THEN "check" ELSE "idle"
    /\ Go(c, IF Value(c) < Platform /\ ~ MayLower(c) THEN "unapplied" ELSE "write")
    /\ UNCHANGED <<override, read, suggestion, overlap, moved, live, lowered>>

\* The row and its audit are committed.
WriteRow(c) ==
    LET own == IF c \in Decisions THEN {c.about} ELSE {}
    IN  /\ pc[c] = "write"
        /\ override' = [override EXCEPT ![Layer(c)] = Value(c)]
        /\ live' = live \cup own
        /\ lowered' = lowered \cup
                {p \in own : InForce(Layer(c))' < InForce(Layer(c))}
        /\ moved' = moved \cup
                {p \in Proposals \ own : read[p] # None /\ InForce(p.layer)' # InForce(p.layer)}
        /\ Go(c, IF c \in Decisions THEN "mark" ELSE "done")
        /\ UNCHANGED <<read, suggestion, overlap>>

MarkApplied(d) ==
    /\ pc[d] = "mark"
    /\ suggestion' = [suggestion EXCEPT ![d.about].status = "applied"]
    /\ Go(d, "done")
    /\ UNCHANGED <<override, read, overlap, moved, live, lowered>>

Next ==
    \/ \E p \in Proposals : ReadWeight(p) \/ LookPending(p) \/ Insert(p)
    \/ \E d \in Decisions : Decide(d) \/ MarkApplied(d)
    \/ \E c \in Decisions \cup Changes : Tighten(c) \/ WriteRow(c)

Spec == Init /\ [][Next]_vars
-----------------------------------------------------------------------------
TypeOK ==
    /\ override \in [Layers -> Nat \cup {None}]
    /\ pc \in [Calls -> {"idle", "look", "insert", "check", "write", "mark", "done",
                         "refused", "unapplied"}]
    /\ read \in [Proposals -> Weights \cup {None}]
    /\ suggestion \in [Proposals -> Suggestions \cup {None}]
    /\ moved \subseteq Proposals /\ live \subseteq Proposals /\ lowered \subseteq Proposals

\* Of the reviewers who decide on a suggestion at the same time, one does.
DecidedOnce ==
    \A p \in Proposals :
        Cardinality({d \in Decisions : d.about = p /\ pc[d] \notin {"idle", "refused"}}) <= 1

\* The status tells what became of the weight: applied only after the value was written,
\* and nothing is written for a suggestion that is pending or rejected.
StatusTold ==
    \A p \in Proposals :
        /\ p \in live => suggestion[p].status \in {"approved", "applied"}
        /\ (suggestion[p] # None /\ suggestion[p].status = "applied") => p \in live

\* Two suggestions for one weight are pending only if they were proposed at once.
PendingOnce ==
    \A p \in Proposals, q \in Proposals :
        (p # q /\ Pending(p) /\ Pending(q) /\ p.layer = q.layer) => {p, q} \in overlap

\* An approved suggestion lowers the weight it was to raise only if somebody changed that
\* weight after it was proposed, or the tenant's own was above it to begin with.
LoweringExplained == \A p \in lowered : p \in moved \/ read[p].own

SuggestionsKept == DecidedOnce /\ StatusTold /\ PendingOnce /\ LoweringExplained
-----------------------------------------------------------------------------
(* The strengthening of SuggestionsKept that is inductive.                 *)

\* A proposal reads when it begins and files what it read, raised, when it ends.
FiledAsRead ==
    \A p \in Proposals :
        /\ read[p] = None <=> pc[p] = "idle"
        /\ suggestion[p] # None =>
            pc[p] = "done" /\ suggestion[p].value = read[p].current + Delta
        /\ p \in live => suggestion[p] # None
        /\ p \in lowered => p \in live

\* Who has decided was alone; the status is his verdict until he marks it.
Decided(d) == pc[d] \notin {"idle", "refused"}
DeciderAlone ==
    \A d \in Decisions : Decided(d) =>
        /\ suggestion[d.about] # None /\ suggestion[d.about].status # "pending"
        /\ \A e \in Decisions : (e.about = d.about /\ Decided(e)) => e = d
        /\ pc[d] # "done" => suggestion[d.about].status = "approved"
        /\ pc[d] \in {"check", "write"} => d.about \notin live
        /\ pc[d] = "mark" => d.about \in live

\* Proposals at work at the same time overlap, and so do one that found nothing pending and
\* one that is now.
OverlapsSeen ==
    \A p \in Proposals, q \in Proposals :
        (/\ p # q /\ Proposing(p)
         /\ Proposing(q) \/ (pc[p] = "insert" /\ Pending(q) /\ p.layer = q.layer))
            => {p, q} \in overlap

\* As long as nobody else moved it the weight in force is not above what is suggested.
ReadStands ==
    \A p \in Proposals :
        (read[p] # None /\ p \notin moved \cup live) =>
            IF p.layer = "platform" THEN Platform = read[p].current
            ELSE read[p].own \/ InForce("tenant") <= read[p].current + Delta

\* StatusTold, PendingOnce and LoweringExplained; DecidedOnce follows from DeciderAlone.
SuggestionsInv ==
    /\ TypeOK /\ FiledAsRead /\ DeciderAlone /\ OverlapsSeen /\ ReadStands
    /\ StatusTold /\ PendingOnce /\ LoweringExplained
=============================================================================
