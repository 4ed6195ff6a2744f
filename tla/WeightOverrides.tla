--------------------------- MODULE WeightOverrides ---------------------------
(***************************************************************************)
(* Overrides of risk weights for one tenant and for the platform           *)
(* (kya/tenant_weights.py), and the hash of the weights in force that      *)
(* every verdict is stamped with (kya/policy_hash.py): computed by two     *)
(* queries per scope, and cached in each process for a while.  A write is  *)
(* checked, committed, and then drops the entries of its own process.      *)
(*                                                                         *)
(* One weight stands for each scope, and a hash is the weights it is of.   *)
(* Each query sees what is committed, as in PostgreSQL.                    *)
(***************************************************************************)
EXTENDS Integers, FiniteSets

CONSTANTS
    Writes,      \* [proc, layer, scope, value, lower]: calls of set_override, lower being
                 \* allow_platform_decrease, and of delete_override, with the value None
    Hashes,      \* [proc, layer, nth]: calls of get_effective_policy_hash
    Plans,       \* sets of calls: those that one behaviour makes
    Processes,
    Scopes,      \* 1..n, in the order they are read
    Default,     \* the built-in weight of a scope
    Life,        \* _POLICY_HASH_CACHE_TTL_SECONDS
    Horizon,     \* bound: the clock stops here
    None

\* The platform's weights, or the tenant's over the platform's.
Layers == {"platform", "tenant"}

WritesAssumption ==
    \A w \in Writes : /\ w.proc \in Processes /\ w.layer \in Layers /\ w.scope \in Scopes
                      /\ w.value \in Nat \cup {None} /\ w.lower \in BOOLEAN
HashesAssumption == \A h \in Hashes : h.proc \in Processes /\ h.layer \in Layers
PlansAssumption == Plans \subseteq SUBSET (Writes \cup Hashes) /\ Writes \cap Hashes = {}

\* An entry of the cache: the weights it is of, when it expires, and two facts of its history:
\* another process wrote since, or somebody wrote while it was computed.
Entries == [policy : [Scopes -> Nat], until : 0..(Horizon + Life),
            foreign : BOOLEAN, disturbed : BOOLEAN]

NumbersAssumption ==
    /\ IsFiniteSet(Scopes) /\ Scopes = 1..Cardinality(Scopes)
    /\ Default \in Nat /\ None \notin Nat \cup Entries
    /\ Life \in Nat \ {0} /\ Horizon \in Nat

VARIABLES
    now,
    override,   \* kya_weight_overrides: Layers -> Scopes -> value, None for no row
    cache,      \* of a process: Layers -> an entry, None for none
    pc,
    under,      \* the platform's weight of the scope a tenant's hash is at, or None
    read,       \* what a hash has read so far, None for the rest
    met,        \* what it met: the views of its computation
    raised      \* scopes whose platform weight was raised in this history

table == <<now, override>>
vars == <<table, cache, pc, under, read, met, raised>>

\* get_effective_weights: the tenant's row, the platform's, the built-in weight.
WeightIn(layer, s) ==
    IF layer = "tenant" /\ override["tenant"][s] # None THEN override["tenant"][s]
    ELSE IF override["platform"][s] # None THEN override["platform"][s] ELSE Default
Policy(layer) == [s \in Scopes |-> WeightIn(layer, s)]
Platform(s) == WeightIn("platform", s)

\* What a layer's hash is about: the platform's weights, and the tenant's rows over them.
Nothing == [s \in Scopes |-> None]
View(layer) == [platform |-> Policy("platform"),
                tenant |-> IF layer = "tenant" THEN override["tenant"] ELSE Nothing]
In(view, s) == IF view.tenant[s] # None THEN view.tenant[s] ELSE view.platform[s]

Computing(h) == pc[h] \in {"reading", "storing"}

Init ==
    /\ now = 0
    /\ override = [layer \in Layers |-> Nothing]
    /\ cache = [p \in Processes |-> [layer \in Layers |-> None]]
    /\ \E plan \in Plans :
        pc = [c \in Writes \cup Hashes |-> IF c \in plan THEN "idle" ELSE "never"]
    /\ under = [h \in Hashes |-> Nothing]
    /\ read = [h \in Hashes |-> Nothing]
    /\ met = [h \in Hashes |-> {}]
    /\ raised = {}

Go(c, step) == pc' = [pc EXCEPT ![c] = step]
-----------------------------------------------------------------------------
(* set_override and delete_override                                        *)

\* Only-tighten: a tenant is compared with the platform, and so is the platform itself
\* unless its caller says otherwise.
Loosens(w) == w.value < Platform(w.scope) /\ ~ (w.layer = "platform" /\ w.lower)

\* A deletion only asks whether there is a row.
Check(w) ==
    /\ pc[w] = "idle"
    /\ Go(w, CASE w.value = None -> IF override[w.layer][w.scope] = None THEN "done" ELSE "write"
               [] w.value # None -> IF Loosens(w) THEN "refused" ELSE "write")
    /\ UNCHANGED <<table, cache, under, read, met, raised>>

\* The row and its audit are committed; every hash at work may meet the new weights.
WriteRow(w) ==
    /\ pc[w] = "write"
    /\ override' = [override EXCEPT ![w.layer][w.scope] = w.value]
    /\ raised' = IF WeightIn("platform", w.scope)' > Platform(w.scope)
                 THEN raised \cup {w.scope} ELSE raised
    /\ met' = [h \in Hashes |->
                IF Computing(h) THEN met[h] \cup {View(h.layer)'} ELSE met[h]]
    /\ cache' = [p \in Processes |-> [layer \in Layers |->
                IF cache[p][layer] = None \/ p = w.proc THEN cache[p][layer]
                ELSE [cache[p][layer] EXCEPT !.foreign = TRUE]]]
    /\ Go(w, "invalidate")
    /\ UNCHANGED <<now, under, read>>

\* A platform write empties the cache of its process, a tenant's drops the tenant's entry.
Dropped(w) ==
    cache' = [cache EXCEPT ![w.proc] =
        [layer \in Layers |-> IF layer = w.layer \/ w.layer = "platform" THEN None ELSE @[layer]]]

\* Seeded fault: only the entry of the layer that was written is dropped.
InvalidateLayer(w) ==
    /\ pc[w] = "invalidate"
    /\ cache' = [cache EXCEPT ![w.proc][w.layer] = None]
    /\ Go(w, "done")
    /\ UNCHANGED <<table, under, read, met, raised>>

Invalidate(w) ==
    /\ pc[w] = "invalidate"
    /\ Dropped(w)
    /\ Go(w, "done")
    /\ UNCHANGED <<table, under, read, met, raised>>
-----------------------------------------------------------------------------
(* get_effective_policy_hash                                               *)

Live(e) == e # None /\ now < e.until

\* An entry that has not expired is the answer ...
Lookup(h) ==
    LET e == cache[h.proc][h.layer]
    IN  /\ pc[h] = "idle"
        /\ IF Live(e)
           THEN Go(h, "done") /\ UNCHANGED met
           ELSE Go(h, "reading") /\ met' = [met EXCEPT ![h] = {View(h.layer)}]
        /\ UNCHANGED <<table, cache, under, read, raised>>

\* ... and otherwise the scopes are read one by one: the platform's rows, ...
ToRead(h, s) ==
    /\ pc[h] = "reading"
    /\ read[h][s] = None /\ \A r \in 1..(s - 1) : read[h][r] # None

HasRead(h, s, weight) ==
    /\ read' = [read EXCEPT ![h][s] = weight]
    /\ Go(h, IF s + 1 \in Scopes THEN "reading" ELSE "storing")
    /\ UNCHANGED <<table, cache, met, raised>>

ReadPlatform(h) ==
    \E s \in Scopes :
        /\ ToRead(h, s) /\ under[h][s] = None
        /\ \/ h.layer = "platform" /\ HasRead(h, s, Platform(s)) /\ UNCHANGED under
           \/ /\ h.layer = "tenant"
              /\ under' = [under EXCEPT ![h][s] = Platform(s)]
              /\ UNCHANGED <<table, cache, pc, read, met, raised>>

\* ... and, if there is a tenant, its rows over those, ...
ReadTenant(h) ==
    \E s \in Scopes :
        /\ ToRead(h, s) /\ under[h][s] # None
        /\ HasRead(h, s, IF override["tenant"][s] # None THEN override["tenant"][s]
                         ELSE under[h][s])
        /\ under' = [under EXCEPT ![h][s] = None]

\* ... and the hash is stored, whatever was done to the cache meanwhile.
Store(h) ==
    /\ pc[h] = "storing"
    /\ cache' = [cache EXCEPT ![h.proc][h.layer] =
            [policy |-> read[h], until |-> now + Life, foreign |-> FALSE,
             disturbed |-> Cardinality(met[h]) > 1]]
    /\ Go(h, "done")
    /\ UNCHANGED <<table, under, read, met, raised>>

Tick ==
    /\ now < Horizon /\ now' = now + 1
    /\ UNCHANGED <<override, cache, pc, under, read, met, raised>>

Next ==
    \/ \E w \in Writes : Check(w) \/ WriteRow(w) \/ Invalidate(w)
    \/ \E h \in Hashes : Lookup(h) \/ ReadPlatform(h) \/ ReadTenant(h) \/ Store(h)
    \/ Tick

Spec == Init /\ [][Next]_vars
-----------------------------------------------------------------------------
Weights == Nat \cup {None}
Views == [platform : [Scopes -> Nat], tenant : [Scopes -> Weights]]

TypeOK ==
    /\ now \in 0..Horizon /\ override \in [Layers -> [Scopes -> Weights]]
    /\ cache \in [Processes -> [Layers -> Entries \cup {None}]]
    /\ pc \in [Writes \cup Hashes ->
                {"idle", "never", "write", "invalidate", "refused", "reading", "storing", "done"}]
    /\ under \in [Hashes -> [Scopes -> Weights]]
    /\ read \in [Hashes -> [Scopes -> Weights]]
    /\ met \in [Hashes -> SUBSET Views]
    /\ raised \subseteq Scopes

\* A tenant's weight is below the platform's only where the platform was raised, before
\* the tenant's check was acted on or long after: nothing looks at it again.
TenantsTighten ==
    \A s \in Scopes : WeightIn("tenant", s) < Platform(s) => s \in raised

\* A weight that was in force at no moment: the platform's of a moment at which a row of
\* the tenant's lay over it, and that row was deleted, and the platform's changed, before
\* the second query.
Torn(h, s, weight) ==
    \E first, second \in met[h] :
        /\ weight = first.platform[s] /\ first.tenant[s] # None
        /\ second.tenant[s] = None /\ second.platform[s] # weight

\* A hash is of weights each of which was in force at a moment of its computation, or is
\* torn between two; and of a policy that existed if nothing of it was written meanwhile.
HashesMet ==
    \A h \in Hashes : pc[h] = "storing" =>
        /\ \A s \in Scopes :
            (\E view \in met[h] : read[h][s] = In(view, s)) \/ Torn(h, s, read[h][s])
        /\ Cardinality(met[h]) = 1 => read[h] = Policy(h.layer)

\* A live entry is out of date only while a writer of its process has yet to drop it, or
\* if a write met its computation, or if another process wrote: for the last two there is
\* only its expiry.
CacheExplained ==
    \A p \in Processes, layer \in Layers :
        LET e == cache[p][layer]
        IN  (Live(e) /\ e.policy # Policy(layer)) =>
                \/ e.disturbed \/ e.foreign
                \/ \E w \in Writes : w.proc = p /\ pc[w] = "invalidate"

WeightsKept == TenantsTighten /\ HashesMet /\ CacheExplained
-----------------------------------------------------------------------------
(* The strengthening of WeightsKept that is inductive.                     *)

\* A write of the tenant's that was let through is one its check would let through still,
\* but where the platform was raised.
ChecksStand ==
    \A w \in Writes :
        (pc[w] = "write" /\ w.layer = "tenant" /\ w.value # None) =>
            w.value >= Platform(w.scope) \/ w.scope \in raised

\* A computation has met what is in force, and has read what it met; it stores what it has
\* read in full.
Met(h, s) ==
    /\ under[h][s] # None =>
        h.layer = "tenant" /\ \E view \in met[h] : under[h][s] = view.platform[s]
    /\ read[h][s] # None =>
        (\E view \in met[h] : read[h][s] = In(view, s)) \/ Torn(h, s, read[h][s])

ReadsMet ==
    \A h \in Hashes :
        /\ IsFiniteSet(met[h])
        /\ Computing(h) => View(h.layer) \in met[h] /\ \A s \in Scopes : Met(h, s)
        /\ pc[h] = "idle" => \A s \in Scopes : read[h][s] = None /\ under[h][s] = None
        /\ pc[h] = "storing" => \A s \in Scopes : read[h][s] # None

\* CacheExplained by a writer that is going to drop this very entry, expired or not.
EntriesExplained ==
    \A p \in Processes, layer \in Layers :
        LET e == cache[p][layer]
        IN  (e # None /\ e.policy # Policy(layer)) =>
                \/ e.disturbed \/ e.foreign
                \/ \E w \in Writes : /\ w.proc = p /\ pc[w] = "invalidate"
                                     /\ w.layer \in {layer, "platform"}

OverridesInv == TypeOK /\ ChecksStand /\ TenantsTighten /\ ReadsMet /\ EntriesExplained
=============================================================================
