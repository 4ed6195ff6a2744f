---------------------------- MODULE AttackChains ----------------------------
(***************************************************************************)
(* kya/attack_chains: one rule and one correlate key of the engine that    *)
(* reports an attack when its steps are seen one by one.  An event is      *)
(* processed in the thread, or the process, it arrives in: it reads the    *)
(* partial match, decides, changes what it holds and stores it, with no    *)
(* lock over the four.  The store in memory hands out the match itself,    *)
(* the one in Valkey a copy of it.                                         *)
(* A match is the sequence of the steps taken, [step, event]; a linear     *)
(* match does not say which step an entry is for, its position does.       *)
(* Rules of one step, which keep no state, and the attribution of a signal *)
(* to the principals of the match are left out.                            *)
(***************************************************************************)
EXTENDS Integers, FiniteSets, FiniteSetsExt, Sequences

CONSTANTS
    Rules,          \* [mode, steps : Seq([kind, after, within]), window], 0 for no limit
    Events, KindOf, \* what arrives, and the kind each event has
    Clocks,         \* the timestamps of the events: occurred_at need not follow the arrival
    None

\* What the constants must satisfy, for any instance.
RulesAssumption ==
    \A r \in Rules :
        /\ r.mode \in {"linear", "dag"} /\ r.window \in Nat
        /\ r.steps \in Seq({r.steps[s] : s \in DOMAIN r.steps}) /\ Len(r.steps) > 1
        /\ \A s \in DOMAIN r.steps :
            /\ r.steps[s].after \subseteq 1..(s - 1) /\ r.steps[s].within \in Nat
            /\ r.steps[s].within > 0 => r.steps[s].after # {}

EventsAssumption ==
    IsFiniteSet(Events) /\ None \notin Events /\ Clocks \subseteq [Events -> Nat]

VARIABLES
    rule, kept, at, \* the rule, the kind of store, the timestamps: never change
    store,          \* the event whose match the store holds, or None
    match,          \* the match each event made, or copied
    held, taken,    \* the match an event works on, and how long it was when read
    ready,          \* the step the event fills
    pc,
    emitted,        \* the matches for which the rule fired
    order,          \* the events, in the order they read the store
    raced,          \* a match was advanced that had changed since it was read
    disturbed       \* two events were processed at once, or the store lost or missed a match

vars == <<rule, kept, at, store, match, held, taken, ready, pc, emitted, order, raced,
          disturbed>>
-----------------------------------------------------------------------------
Steps == DOMAIN rule.steps
Matches(e, s) == KindOf[e] = rule.steps[s].kind
Filled(m) == {m[i].step : i \in DOMAIN m}

\* The step the event fills: the next one, or in a dag the first that is ready; 0 if none.
NextStep(e, m) ==
    LET candidates == IF rule.mode = "linear"
                      THEN Steps \cap {Len(m) + 1}
                      ELSE {s \in Steps \ Filled(m) : rule.steps[s].after \subseteq Filled(m)}
        fitting == {s \in candidates : Matches(e, s)}
    IN IF fitting = {} THEN 0 ELSE Min(fitting)

\* A seeded fault, the mutant of ChainsHonest: no step is too late.
TooLateNever(e, s, m) == FALSE

\* The entries for the predecessors of step s; of a step that was taken twice, the last one.
Preds(s, m) ==
    {i \in DOMAIN m : /\ m[i].step \in rule.steps[s].after
                      /\ \A j \in DOMAIN m : m[j].step = m[i].step => j <= i}

\* Event e comes too long after the latest predecessor of step s in the match.
TooLate(e, s, m) ==
    LET preds == {at[m[i].event] : i \in Preds(s, m)}
    IN rule.steps[s].within > 0 /\ preds # {} /\ at[e] - Max(preds) > rule.steps[s].within

\* A seeded fault, the mutant of ChainsDetected: a rule without a window has none to spare.
OutlivedAtOnce(e, m) == m # <<>> /\ at[e] - at[m[1].event] >= rule.window

Outlived(e, m) == rule.window > 0 /\ m # <<>> /\ at[e] - at[m[1].event] > rule.window

Complete(m) ==
    IF rule.mode = "linear" THEN Len(m) >= Len(rule.steps) ELSE Steps \subseteq Filled(m)

Active(e) == pc[e] \in {"advance", "finish", "clear"}
-----------------------------------------------------------------------------
Init ==
    /\ rule \in Rules /\ kept \in {"memory", "valkey"} /\ at \in Clocks
    /\ store = None /\ emitted = {} /\ order = <<>> /\ raced = FALSE /\ disturbed = FALSE
    /\ match = [e \in Events |-> <<>>] /\ held = [e \in Events |-> None]
    /\ taken = [e \in Events |-> 0] /\ ready = [e \in Events |-> 0]
    /\ pc = [e \in Events |-> "idle"]

\* What an event does with the match it read: a whole one that was left behind goes, and so
\* does one whose window or whose step's time is over; the window is looked at only when the
\* event fills no step.
Decided(e, m) ==
    LET s == NextStep(e, m)
    IN IF rule.mode = "linear" /\ Len(m) >= Len(rule.steps) THEN "clear"
       ELSE IF s = 0 THEN IF Outlived(e, m) THEN "clear" ELSE "done"
       ELSE IF TooLate(e, s, m) THEN "clear" ELSE "advance"

Current == IF store = None THEN <<>> ELSE match[store]

\* What a read finds: the failure of a read from Valkey looks like no match.
Found == {Current} \cup (IF kept = "valkey" THEN {<<>>} ELSE {})

Read(e) ==
    LET own == store = None \/ kept = "valkey"
    IN \E m \in Found :
       /\ pc[e] = "idle"
       /\ held' = [held EXCEPT ![e] = IF own THEN e ELSE store]
       /\ match' = IF own THEN [match EXCEPT ![e] = m] ELSE match
       /\ taken' = [taken EXCEPT ![e] = Len(m)]
       /\ ready' = [ready EXCEPT ![e] = NextStep(e, m)]
       /\ pc' = [pc EXCEPT ![e] = Decided(e, m)]
       /\ order' = Append(order, e)
       /\ disturbed' = (disturbed \/ m # Current \/ \E f \in Events : Active(f))
       /\ UNCHANGED <<rule, kept, at, store, emitted, raced>>

\* update, and delete as Put(None): a write to Valkey that fails is logged, and the event
\* goes on as if it were done.
Put(m) ==
    \/ store' = m /\ UNCHANGED disturbed
    \/ kept = "valkey" /\ UNCHANGED store /\ disturbed' = TRUE

Keep == UNCHANGED <<store, disturbed>>

\* The match in hand gets its entry; a linear one is stored before it is looked at again.
Advance(e) ==
    LET h == held[e]
        step == IF rule.mode = "linear" THEN Len(match[h]) + 1 ELSE ready[e]
    IN /\ pc[e] = "advance"
       /\ match' = [match EXCEPT ![h] = Append(@, [step |-> step, event |-> e])]
       /\ IF rule.mode = "linear" THEN Put(h) ELSE Keep
       /\ raced' = (raced \/ Len(match[h]) # taken[e])
       /\ pc' = [pc EXCEPT ![e] = "finish"]
       /\ UNCHANGED <<rule, kept, at, held, taken, ready, emitted, order>>

\* A whole match fires the rule and is deleted, another one of a dag is stored.
Finish(e) ==
    LET m == match[held[e]]
    IN /\ pc[e] = "finish"
       /\ emitted' = IF Complete(m) THEN emitted \cup {m} ELSE emitted
       /\ IF rule.mode = "dag" /\ ~ Complete(m) THEN Put(held[e]) ELSE Keep
       /\ pc' = [pc EXCEPT ![e] = IF Complete(m) THEN "clear" ELSE "done"]
       /\ UNCHANGED <<rule, kept, at, match, held, taken, ready, order, raced>>

Clear(e) ==
    /\ pc[e] = "clear"
    /\ Put(None)
    /\ pc' = [pc EXCEPT ![e] = "done"]
    /\ UNCHANGED <<rule, kept, at, match, held, taken, ready, emitted, order, raced>>

\* A key of Valkey lives for an hour after its last write.
Expire ==
    /\ kept = "valkey" /\ store # None
    /\ store' = None /\ disturbed' = TRUE
    /\ UNCHANGED <<rule, kept, at, match, held, taken, ready, pc, emitted, order, raced>>

Next ==
    \/ \E e \in Events : Read(e) \/ Advance(e) \/ Finish(e) \/ Clear(e)
    \/ Expire

Spec == Init /\ [][Next]_vars
-----------------------------------------------------------------------------
\* Entries name events that were processed, what is stored is a match, and what was
\* reported a whole one.
TypeOK ==
    /\ rule \in Rules /\ kept \in {"memory", "valkey"} /\ at \in Clocks
    /\ store \in Events \cup {None} /\ held \in [Events -> Events \cup {None}]
    /\ match \in [Events -> Seq([step : Nat \ {0}, event : Events])]
    /\ taken \in [Events -> Nat] /\ ready \in [Events -> Nat]
    /\ pc \in [Events -> {"idle", "advance", "finish", "clear", "done"}]
    /\ order \in Seq(Events) /\ raced \in BOOLEAN /\ disturbed \in BOOLEAN
    /\ store # None => match[store] # <<>>
    /\ \A e \in Events : \A i \in DOMAIN match[e] :
        match[e][i].event \in {order[k] : k \in DOMAIN order}
    /\ \A m \in emitted : Complete(m)

\* Entry i of a match is for step s: its event is of the step's kind, after the step's
\* predecessors and no longer after them than it may be.
Justified(m, i, s) ==
    /\ Matches(m[i].event, s)
    /\ \A p \in rule.steps[s].after : \E j \in 1..(i - 1) : m[j].step = p
    /\ rule.steps[s].within > 0 => \E j \in 1..(i - 1) :
        /\ m[j].step \in rule.steps[s].after
        /\ at[m[i].event] - at[m[j].event] <= rule.steps[s].within

\* Every step of the rule was taken.
Genuine(m) == \A s \in Steps : \E i \in DOMAIN m : m[i].step = s /\ Justified(m, i, s)

\* The rule fires for what happened: whatever events are processed at once, in any order of
\* their timestamps, and whatever call of Valkey fails, a match that is reported has every
\* step.  The exception is a linear rule in memory: two events that hold one match both
\* advance it, one of them past the next step, which nobody took (_engine.py:295-353).
ChainsHonest == \A m \in emitted : (raced /\ rule.mode = "linear") \/ Genuine(m)

\* The steps in D are among the first n events that were processed, in an order the rule
\* allows.
Before(s) == rule.steps[s].after \cup (IF rule.mode = "linear" THEN 1..(s - 1) ELSE {})
Present(D, n) ==
    \E f \in [D -> 1..n] :
        \A s \in D :
            /\ Matches(order[f[s]], s)
            /\ \A p \in D \ {s} : f[p] # f[s]
            /\ \A p \in Before(s) : p \in D /\ f[p] < f[s]

Unlimited == rule.window = 0 /\ \A s \in Steps : rule.steps[s].within = 0
Distinct ==
    rule.mode = "dag" =>
        \A s, t \in Steps : rule.steps[s].kind = rule.steps[t].kind => s = t
Quiet == \A e \in Events : ~ Active(e)

\* Nothing is missed for taking the first match there is: events processed one at a time,
\* under a rule without time limits, fire it if they hold its steps (a dag's steps being of
\* different kinds).
ChainsDetected ==
    (Unlimited /\ Distinct /\ ~ disturbed /\ Quiet /\ Present(Steps, Len(order)))
        => emitted # {}

\* What the rule format says of window_seconds, an "optional global cap" (_loader.py:165):
\* the steps of a chain that fires lie within it.
WithinWindow ==
    \A m \in emitted : rule.window > 0 =>
        at[m[Len(m)].event] - at[m[1].event] <= rule.window
-----------------------------------------------------------------------------
(* What these rest on.                                                     *)

Linear == rule.mode = "linear"

\* Nobody has anything of an event that has not read the store yet; who is at work has a
\* match, and has put an entry into it before it looks whether it is a whole one.
HandsKnown ==
    \A e \in Events :
        /\ pc[e] = "idle" => store # e /\ match[e] = <<>> /\ \A f \in Events : held[f] # e
        /\ pc[e] # "idle" => \E k \in DOMAIN order : order[k] = e
        /\ Active(e) => held[e] \in Events
        /\ pc[e] = "finish" => match[held[e]] # <<>>

\* The entries of a match are justified, and so will be the one an event is about to make;
\* in a linear match each is for the step of its position.
EntryReady(e) ==
    LET m == match[held[e]]  s == ready[e]
    IN  /\ s \in Steps /\ Matches(e, s)
        /\ Linear => s = taken[e] + 1
        /\ \A p \in rule.steps[s].after : \E j \in DOMAIN m : m[j].step = p
        /\ rule.steps[s].within > 0 => \E j \in DOMAIN m :
            m[j].step \in rule.steps[s].after /\ at[e] - at[m[j].event] <= rule.steps[s].within
EntriesJustified ==
    (raced /\ Linear) \/
        /\ \A e \in Events : pc[e] = "advance" => EntryReady(e)
        /\ \A e \in Events : \A i \in DOMAIN match[e] :
            /\ match[e][i].step \in Steps /\ Justified(match[e], i, match[e][i].step)
            /\ Linear => match[e][i].step = i

\* Undisturbed, one event at a time has the match that is stored or that it is about to
\* store, and until the rule fires, that is not a whole one.
OneAtATime ==
    ~ disturbed =>
        /\ \A e, f \in Events : Active(e) /\ Active(f) => e = f
        /\ \A e \in Events :
            /\ pc[e] = "advance" => Len(match[held[e]]) = taken[e]
            /\ pc[e] = "finish" /\ Linear => store = held[e]
        /\ ~ raced
Sound == Unlimited /\ Distinct /\ ~ disturbed /\ emitted = {}
NothingMissed ==
    Sound =>
        /\ Quiet => /\ ~ Complete(Current)
                    /\ \A D \in SUBSET Steps : Present(D, Len(order)) => D \subseteq Filled(Current)
        /\ \A e \in Events :
            /\ pc[e] # "clear"
            /\ pc[e] \in {"advance", "finish"} => \A D \in SUBSET Steps :
                Present(D, Len(order)) =>
                    D \subseteq Filled(match[held[e]])
                        \cup (IF pc[e] = "advance" THEN {ready[e]} ELSE {})

ChainsInv ==
    TypeOK /\ HandsKnown /\ EntriesJustified /\ ChainsHonest /\ OneAtATime /\ NothingMissed
=============================================================================
