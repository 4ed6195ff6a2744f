----------------------------- MODULE RuntimeBinding -----------------------------
(***************************************************************************)
(* Whose event a runtime sensor's alert is (kya/runtime/_bridge.py and     *)
(* _resolvers.py): the bindings of containers made by the program, an LRU  *)
(* cache; the labels of the container, asked of Docker and kept for a      *)
(* while; and, where neither knows, its name or its user.  Then the event  *)
(* goes to the attack chains, and to the ledger where there is a tenant.   *)
(***************************************************************************)
EXTENDS Integers, FiniteSets, Sequences, SequencesExt

CONSTANTS
    Containers,
    LabelOf,     \* Containers -> principal of its labels, None without
    NameOf,      \* Containers -> principal by its name or its user, None without
    Owner,       \* principal that the program binds containers to
    Events,
    ContainerOf, \* Events -> Containers
    Hints,       \* what events may say: "bound" and to whom, "hint" without tenant, or None
    Starts,      \* bindings there may be at first, the latest last
    MaxEntries,  \* _max_entries
    Binds,       \* bound on bindings made and undone
    TTL,         \* cache_ttl
    MaxFaults,   \* bound on times Docker does not answer
    Horizon,     \* bound: the clock stops here
    None

EventsAssumption ==
    /\ ContainerOf \in [Events -> Containers]
    /\ Hints \subseteq [Events -> {"bound", "hint", None}]
    /\ \A bound \in Starts : bound \in Seq(Containers) /\ Len(bound) <= MaxEntries
NumbersAssumption ==
    /\ {MaxEntries, TTL} \subseteq Nat \ {0}
    /\ {Binds, MaxFaults, Horizon} \subseteq Nat /\ None \notin Nat

VARIABLES
    clock,
    hints,       \* constant: what each event says
    explicit,    \* ExplicitBindingCache: containers, the least recently used first
    used,        \* history: containers whose binding was ever used, the latest last
    unbound,     \* history: containers whose binding was taken back
    binds,
    running,     \* containers that Docker knows
    client,      \* _client_ready: None, TRUE or FALSE
    labels,      \* cache of the Docker resolver: [until, whose], None for no entry
    pc,
    read,        \* time an event read before it waits for the lock
    whose, method, \* what an event was resolved to, and how
    ledger,      \* events in the ledger
    unanswered,  \* history: containers Docker did not answer for or did not know, with when
    faults

bindings == <<explicit, used, unbound, binds>>
docker == <<running, client, labels, unanswered, faults>>
events == <<pc, read, whose, method, ledger>>
vars == <<clock, hints, bindings, docker, events>>

Init ==
    /\ clock = 0 /\ hints \in Hints /\ explicit \in Starts /\ used = explicit
    /\ unbound = {} /\ binds = 0 /\ running = {} /\ client = None
    /\ labels = [c \in Containers |-> None]
    /\ pc = [e \in Events |-> "new"] /\ read = [e \in Events |-> None]
    /\ whose = [e \in Events |-> None] /\ method = [e \in Events |-> None]
    /\ ledger = {} /\ unanswered = {} /\ faults = 0

Tick == clock < Horizon /\ clock' = clock + 1 /\ UNCHANGED <<hints, bindings, docker, events>>

\* Containers come and go; an event may be late or early (those without do not matter).
Start(c) ==
    /\ c \notin running /\ running' = running \cup {c}
    /\ UNCHANGED <<clock, hints, bindings, client, labels, unanswered, faults, events>>

Exit(c) ==
    /\ c \in running /\ running' = running \ {c}
    /\ UNCHANGED <<clock, hints, bindings, client, labels, unanswered, faults, events>>
-----------------------------------------------------------------------------
(* ExplicitBindingCache                                                    *)

Touch(c) == used' = Append(Remove(used, c), c)
MovedToEnd(c) == Append(Remove(explicit, c), c)
Bounded(cache) ==
    IF Len(cache) > MaxEntries THEN SubSeq(cache, Len(cache) - MaxEntries + 1, Len(cache))
    ELSE cache

Bind(c) ==
    /\ binds < Binds /\ binds' = binds + 1
    /\ explicit' = Bounded(MovedToEnd(c))
    /\ Touch(c)
    /\ unbound' = unbound \ {c}
    /\ UNCHANGED <<clock, hints, docker, events>>

Unbind(c) ==
    /\ binds < Binds /\ binds' = binds + 1
    /\ explicit' = Remove(explicit, c)
    /\ unbound' = unbound \cup {c}
    /\ UNCHANGED <<clock, hints, used, docker, events>>
-----------------------------------------------------------------------------
(* _resolve_principal: what the event says, then the chain of resolvers    *)

Go(e, step) == pc' = [pc EXCEPT ![e] = step]
Resolve(e, principal, how) ==
    /\ whose' = [whose EXCEPT ![e] = principal] /\ method' = [method EXCEPT ![e] = how]
    /\ Go(e, "chains")

\* The binding is looked up under the lock of its cache, and moved to its end.
Lookup(e) ==
    LET c == ContainerOf[e]
    IN  /\ pc[e] = "new"
        /\ \/ /\ hints[e] # None /\ Resolve(e, e, hints[e])
              /\ UNCHANGED <<explicit, used>>
           \/ /\ hints[e] = None /\ c \in ToSet(explicit)
              /\ explicit' = MovedToEnd(c) /\ Touch(c)
              /\ Resolve(e, Owner, "explicit")
           \/ /\ hints[e] = None /\ c \notin ToSet(explicit)
              /\ Go(e, "clock") /\ UNCHANGED <<explicit, used, whose, method>>
        /\ UNCHANGED <<clock, hints, unbound, binds, docker, read, ledger>>

\* The time is read before the lock, which others hold while they ask Docker.
ReadClock(e) ==
    /\ pc[e] = "clock" /\ read' = [read EXCEPT ![e] = clock]
    /\ Go(e, "docker")
    /\ UNCHANGED <<clock, hints, bindings, docker, whose, method, ledger>>

Fresh(c, now) == labels[c] # None /\ labels[c].until > now
Learn(e, principal) ==
    labels' = [labels EXCEPT ![ContainerOf[e]] = [until |-> read[e] + TTL, whose |-> principal]]

Labelled(e, principal) ==
    IF principal # None THEN Resolve(e, principal, "label")
    ELSE Go(e, "name") /\ UNCHANGED <<whose, method>>

Known(e) ==
    LET c == ContainerOf[e]
    IN  /\ pc[e] = "docker" /\ Fresh(c, read[e])
        /\ Labelled(e, labels[c].whose)
        /\ UNCHANGED <<clock, hints, bindings, docker, read, ledger>>

\* _lookup: a client that could not be made is never tried again; no answer is kept as
\* long as an answer.
Ask(e) ==
    LET c == ContainerOf[e]
        Nothing(ready) ==
            /\ client' = ready /\ Learn(e, None) /\ Labelled(e, None)
            /\ unanswered' = unanswered \cup {<<c, read[e]>>}
    IN  /\ pc[e] = "docker" /\ ~ Fresh(c, read[e])
        /\ \/ client = FALSE /\ Nothing(FALSE) /\ UNCHANGED faults
           \/ /\ client # FALSE /\ faults < MaxFaults /\ faults' = faults + 1
              /\ Nothing(IF client = None THEN FALSE ELSE TRUE)
           \/ client # FALSE /\ c \notin running /\ Nothing(TRUE) /\ UNCHANGED faults
           \/ /\ client # FALSE /\ c \in running
              /\ client' = TRUE /\ Learn(e, LabelOf[c]) /\ Labelled(e, LabelOf[c])
              /\ UNCHANGED <<faults, unanswered>>
        /\ UNCHANGED <<clock, hints, bindings, running, read, ledger>>

ByName(e) ==
    LET principal == NameOf[ContainerOf[e]]
    IN  /\ pc[e] = "name"
        /\ Resolve(e, principal, IF principal = None THEN "unbound" ELSE "name")
        /\ UNCHANGED <<clock, hints, bindings, docker, read, ledger>>
-----------------------------------------------------------------------------
(* The rest of record_runtime_event                                        *)

\* The attack chains see every event, whoever it is of; the ledger those with a tenant, if
\* the write succeeds.
HasTenant(e) == method[e] \notin {"unbound", "hint"}

Deliver(e) ==
    /\ pc[e] = "chains"
    /\ ledger' \in {ledger} \cup (IF HasTenant(e) THEN {ledger \cup {e}} ELSE {})
    /\ Go(e, "done")
    /\ UNCHANGED <<clock, hints, bindings, docker, read, whose, method>>

Next ==
    \/ Tick
    \/ \E c \in Containers : Bind(c) \/ Unbind(c)
    \/ \E e \in Events :
        \/ Start(ContainerOf[e]) \/ Exit(ContainerOf[e])
        \/ Lookup(e) \/ ReadClock(e) \/ Known(e) \/ Ask(e) \/ ByName(e)
        \/ Deliver(e)

Spec == Init /\ [][Next]_vars
-----------------------------------------------------------------------------
TypeOK ==
    /\ clock \in 0..Horizon /\ hints \in Hints /\ explicit \in Seq(Containers)
    /\ unbound \subseteq Containers /\ binds \in 0..Binds
    /\ running \subseteq Containers /\ client \in {None, TRUE, FALSE}
    /\ pc \in [Events -> {"new", "clock", "docker", "name", "chains", "done"}]
    /\ method \in [Events -> {"bound", "hint", "explicit", "label", "name", "unbound", None}]
    /\ ledger \subseteq Events /\ faults \in 0..MaxFaults

\* A binding that was made and not taken back is there unless as many others as the cache
\* holds were used since.
UsedKept ==
    \A c \in Containers :
        (c \in ToSet(used) \ unbound /\ c \notin ToSet(explicit)) =>
            \E i \in DOMAIN used : used[i] = c /\ Len(used) - i >= MaxEntries

\* An event of a labelled container goes to somebody else, by a weaker sign than its
\* labels, or to nobody, only after Docker gave no answer about it within the TTL.
WeakerExplained ==
    \A e \in Events :
        LET c == ContainerOf[e]
        IN  (method[e] \in {"name", "unbound"} /\ LabelOf[c] # None) =>
                \E miss \in unanswered :
                    miss[1] = c /\ read[e] < miss[2] + TTL

\* What is in the ledger is of somebody, in a tenant.
LedgerTenanted == \A e \in ledger : whose[e] # None /\ method[e] # "hint"

BindingsKept == UsedKept /\ WeakerExplained /\ LedgerTenanted
=============================================================================
