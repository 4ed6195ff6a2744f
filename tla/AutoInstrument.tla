----------------------------- MODULE AutoInstrument -----------------------------
(***************************************************************************)
(* The capture of calls to language models by patches of their SDKs        *)
(* (kya/autoinstrument.py).  A patch is for the whole process and keeps    *)
(* the recorder it was made with; whose call it is comes from a context    *)
(* variable of the task that calls, which the tasks it starts inherit.     *)
(***************************************************************************)
EXTENDS Integers, FiniteSets, Sequences

CONSTANTS
    Tasks,
    ParentOf,    \* Tasks -> Tasks \cup {None}: the task that starts it, None for a thread
    Instruments, \* calls of autoinstrument, each with the context it makes
    TaskOf,      \* Instruments -> Tasks
    StoreOf,     \* Instruments -> store of its recorder
    Targets,     \* subsets of Sdks that a call may ask to patch
    Sdks,
    Stores,
    Billed,      \* subset of Stores: those written to directly, where costs go too
    Calls,       \* calls of a language model
    CallerOf, SdkOf, \* Calls -> Tasks, Calls -> Sdks
    Undoers,     \* tasks that call deinstrument, each once
    MaxFaults,   \* bound on writes that fail
    None

CallsAssumption ==
    /\ TaskOf \in [Instruments -> Tasks] /\ StoreOf \in [Instruments -> Stores]
    /\ CallerOf \in [Calls -> Tasks] /\ SdkOf \in [Calls -> Sdks]
    /\ ParentOf \in [Tasks -> Tasks \cup {None}]
SetsAssumption ==
    /\ Billed \subseteq Stores /\ Undoers \subseteq Tasks
    /\ \A wanted \in Targets : wanted \subseteq Sdks
    /\ MaxFaults \in Nat

VARIABLES
    method,      \* recorders wrapped around the method of an SDK, the outermost first
    patched,     \* _PATCHED: the method each patch replaced, None where there is none
    context,     \* _CONTEXT of a task
    started,     \* tasks that run
    invocation,  \* invocation_id of a context
    pc,          \* of a call
    wraps,       \* wrappers a call has yet to return through
    ended,       \* how the call itself ended
    whose,       \* history: context a call was made in
    inv,         \* invocation a capture writes under
    i_pc, u_pc,  \* of autoinstrument and of deinstrument
    opened,      \* rows of the invocation tables, each the context it is of
    evidence, costs,
    passes,      \* history: times a call was captured
    via,         \* history: stores a context was recorded in
    raced,       \* history: contexts two calls saw without invocation at once
    failed,      \* history: calls one of whose writes failed
    faults

patches == <<method, patched, i_pc, u_pc>>
tasks == <<context, started>>
tables == <<opened, evidence, costs>>
tale == <<passes, via, raced, failed, faults>>
vars == <<patches, tasks, invocation, pc, wraps, ended, whose, inv, tables, tale>>

Init ==
    /\ method = [s \in Sdks |-> << >>] /\ patched = [s \in Sdks |-> None]
    /\ context = [t \in Tasks |-> None]
    /\ started = {t \in Tasks : ParentOf[t] = None}
    /\ invocation = [i \in Instruments |-> None]
    /\ pc = [c \in Calls |-> "new"] /\ wraps = [c \in Calls |-> << >>]
    /\ ended = [c \in Calls |-> None] /\ whose = [c \in Calls |-> None]
    /\ inv = [c \in Calls |-> None]
    /\ i_pc = [i \in Instruments |-> "new"] /\ u_pc = [t \in Undoers |-> "new"]
    /\ opened = [s \in Stores |-> << >>] /\ evidence = {} /\ costs = {}
    /\ passes = [c \in Calls |-> 0] /\ via = [i \in Instruments |-> {}]
    /\ raced = {} /\ failed = {} /\ faults = 0

\* A task does one thing at a time.
Free(t) ==
    /\ t \in started
    /\ \A c \in Calls : CallerOf[c] = t => pc[c] \in {"new", "done"}
    /\ \A i \in Instruments : TaskOf[i] = t => i_pc[i] \in {"new", "done"}
    /\ t \in Undoers => u_pc[t] \in {"new", "done"}

\* A task starts with a copy of the context of the one that creates it.
Spawn(t) ==
    /\ t \notin started /\ Free(ParentOf[t])
    /\ started' = started \cup {t}
    /\ context' = [context EXCEPT ![t] = context[ParentOf[t]]]
    /\ UNCHANGED <<patches, invocation, pc, wraps, ended, whose, inv, tables, tale>>
-----------------------------------------------------------------------------
(* autoinstrument and deinstrument                                         *)

\* The context is set for the task that calls, ...
Instrument(i) ==
    /\ i_pc[i] = "new" /\ Free(TaskOf[i])
    /\ context' = [context EXCEPT ![TaskOf[i]] = i]
    /\ i_pc' = [i_pc EXCEPT ![i] = "patch"]
    /\ UNCHANGED <<method, patched, u_pc, started, invocation, pc, wraps, ended, whose, inv,
                   tables, tale>>

\* ... then, under _PATCHED_LOCK, what it asks for and is not patched yet is wrapped.
ToPatch(wanted) == {s \in wanted : patched[s] = None}

Patch(i) ==
    /\ i_pc[i] = "patch"
    /\ \E wanted \in Targets :
        LET fresh == ToPatch(wanted)
        IN  /\ patched' = [s \in Sdks |-> IF s \in fresh THEN method[s] ELSE patched[s]]
            /\ method' = [s \in Sdks |-> IF s \in fresh THEN <<StoreOf[i]>> \o method[s]
                                         ELSE method[s]]
    /\ i_pc' = [i_pc EXCEPT ![i] = "done"]
    /\ UNCHANGED <<u_pc, tasks, invocation, pc, wraps, ended, whose, inv, tables, tale>>

\* deinstrument puts back what was replaced, under the lock, ...
Restore(t) ==
    /\ u_pc[t] = "new" /\ Free(t)
    /\ method' = [s \in Sdks |-> IF patched[s] = None THEN method[s] ELSE patched[s]]
    /\ patched' = [s \in Sdks |-> None]
    /\ u_pc' = [u_pc EXCEPT ![t] = "forget"]
    /\ UNCHANGED <<i_pc, tasks, invocation, pc, wraps, ended, whose, inv, tables, tale>>

\* ... and then drops the context, of its own task only.
Forget(t) ==
    /\ u_pc[t] = "forget"
    /\ context' = [context EXCEPT ![t] = None]
    /\ u_pc' = [u_pc EXCEPT ![t] = "done"]
    /\ UNCHANGED <<method, patched, i_pc, started, invocation, pc, wraps, ended, whose, inv,
                   tables, tale>>
-----------------------------------------------------------------------------
(* A call and its capture                                                  *)

\* The recorder reads the context when it records, not when it was made.
Of(c) == context[CallerOf[c]]
Via(c) == wraps[c][1]
Go(c, step) == pc' = [pc EXCEPT ![c] = step]

Fault(c) ==
    /\ faults < MaxFaults /\ faults' = faults + 1
    /\ failed' = failed \cup {c}
NoFault == UNCHANGED <<failed, faults>>

\* The method is looked up when it is called: a patch made or undone later is not met.
Call(c) ==
    /\ pc[c] = "new" /\ Free(CallerOf[c])
    /\ wraps' = [wraps EXCEPT ![c] = method[SdkOf[c]]]
    /\ Go(c, "out")
    /\ whose' = [whose EXCEPT ![c] = Of(c)]
    /\ UNCHANGED <<patches, tasks, invocation, ended, inv, tables, tale>>

\* It is answered, raises, or is cancelled, which no wrapper catches.
Return(c) ==
    /\ pc[c] = "out"
    /\ \E how \in {"answered", "raised", "cancelled"} :
        /\ ended' = [ended EXCEPT ![c] = how]
        /\ Go(c, IF wraps[c] = << >> \/ how = "cancelled" THEN "done" ELSE "check")
    /\ UNCHANGED <<patches, tasks, invocation, wraps, whose, inv, tables, tale>>

\* _capture_call and _capture_error, which leave a task without context alone: is there
\* an invocation yet?
Check(c) ==
    LET i == Of(c)
    IN  /\ pc[c] = "check"
        /\ IF i = None
           THEN Go(c, "next") /\ UNCHANGED <<via, raced>>
           ELSE /\ Go(c, IF invocation[i] = None THEN "open" ELSE "rows")
                /\ via' = [via EXCEPT ![i] = @ \cup {Via(c)}]
                /\ raced' = IF invocation[i] = None
                               /\ \E d \in Calls : Of(d) = i /\ pc[d] = "open"
                            THEN raced \cup {i} ELSE raced
        /\ UNCHANGED <<patches, tasks, invocation, wraps, ended, whose, inv, tables, passes,
                       failed, faults>>

\* record_inv: an invocation in the store of the wrapper, or none.
Open(c) ==
    LET i == Of(c)
        s == Via(c)
    IN  /\ pc[c] = "open"
        /\ \/ /\ opened' = [opened EXCEPT ![s] = Append(@, i)]
              /\ invocation' = [invocation EXCEPT ![i] = Len(opened[s]) + 1]
              /\ NoFault
           \/ /\ invocation' = [invocation EXCEPT ![i] = None]
              /\ UNCHANGED opened /\ Fault(c)
        /\ Go(c, "rows")
        /\ UNCHANGED <<patches, tasks, wraps, ended, whose, inv, evidence, costs, passes, via,
                       raced>>

\* The rows of the call under the invocation that is there by now, a failed write of one
\* without the others; none without an invocation.
Rows(c) ==
    LET i == Of(c)
        kinds == {"prompt", IF ended[c] = "answered" THEN "response" ELSE "error"}
        Row(kind) == [call |-> c, kind |-> kind, of |-> i, store |-> Via(c),
                      under |-> invocation[i]]
    IN  /\ pc[c] = "rows"
        /\ IF invocation[i] = None
           THEN UNCHANGED <<evidence, passes>> /\ NoFault
           ELSE /\ passes' = [passes EXCEPT ![c] = @ + 1]
                /\ \/ evidence' = evidence \cup {Row(kind) : kind \in kinds} /\ NoFault
                   \/ \E lost \in kinds :
                        /\ evidence' = evidence \cup {Row(kind) : kind \in kinds \ {lost}}
                        /\ Fault(c)
        /\ inv' = [inv EXCEPT ![c] = invocation[i]]
        /\ Go(c, IF ended[c] = "answered" THEN "cost" ELSE "next")
        /\ UNCHANGED <<patches, tasks, invocation, wraps, ended, whose, opened, costs, via, raced>>

\* _capture_cost reads the invocation once more, and writes without one too; only what is
\* written to directly takes costs, and only where there is a price.
Cost(c) ==
    LET i == Of(c)
    IN  /\ pc[c] = "cost"
        /\ \/ /\ Via(c) \in Billed
              /\ costs' = costs \cup {[call |-> c, of |-> i, store |-> Via(c),
                                       under |-> invocation[i]]}
           \/ UNCHANGED costs
        /\ Go(c, "next")
        /\ UNCHANGED <<patches, tasks, invocation, wraps, ended, whose, inv, opened, evidence,
                       tale>>

\* The wrapper returns, to the one around it if there is one.
Unwrap(c) ==
    /\ pc[c] = "next"
    /\ wraps' = [wraps EXCEPT ![c] = Tail(@)]
    /\ Go(c, IF Len(wraps[c]) > 1 THEN "check" ELSE "done")
    /\ UNCHANGED <<patches, tasks, invocation, ended, whose, inv, tables, tale>>

Next ==
    \/ \E t \in Tasks : Spawn(t)
    \/ \E i \in Instruments : Instrument(i) \/ Patch(i)
    \/ \E t \in Undoers : Restore(t) \/ Forget(t)
    \/ \E c \in Calls :
        \/ Call(c) \/ Return(c) \/ Check(c) \/ Open(c) \/ Rows(c) \/ Cost(c) \/ Unwrap(c)

Spec == Init /\ [][Next]_vars
-----------------------------------------------------------------------------
TypeOK ==
    /\ \A s \in Sdks : method[s] \in Seq(Stores)
    /\ context \in [Tasks -> Instruments \cup {None}]
    /\ started \subseteq Tasks
    /\ \A i \in Instruments : invocation[i] \in Nat \cup {None}
    /\ pc \in [Calls -> {"new", "out", "check", "open", "rows", "cost", "next", "done"}]
    /\ \A s \in Stores : opened[s] \in Seq(Instruments)
    /\ passes \in [Calls -> Nat] /\ faults \in 0..MaxFaults

\* A call is captured once, by whichever instrumentation came first: patches never pile
\* up, whoever instruments and undoes it in whatever order.
CapturedOnce ==
    /\ \A s \in Sdks : Len(method[s]) <= 1
    /\ \A c \in Calls : passes[c] <= 1

\* What is recorded of a call is under the invocation of the agent that made it, as long
\* as all that its context recorded went to one store.
Attributed ==
    \A r \in evidence \cup costs :
        (Cardinality(via[r.of]) = 1 /\ r.under # None) =>
            /\ r.under \in DOMAIN opened[r.store]
            /\ opened[r.store][r.under] = whose[r.call]

\* A context has more invocations than one only if two calls saw it without any at once.
OneInvocation ==
    \A s \in Stores : \A m \in DOMAIN opened[s], n \in DOMAIN opened[s] :
        (m # n /\ opened[s][m] = opened[s][n]) => opened[s][m] \in raced

\* The cost of a call is under the invocation its rows are under, with the same exception
\* and that of a call that could not open its invocation.
CostBeside ==
    \A r \in costs : r.under = inv[r.call] \/ r.of \in raced \/ r.call \in failed

\* A call of an instrumented task that was patched when it began is on record when it has
\* returned, unless it was cancelled or a write failed.
Recorded ==
    \A c \in Calls :
        (pc[c] = "cost" /\ c \notin failed /\ Of(c) \notin raced) =>
            \A kind \in {"prompt", "response"} :
                \E r \in evidence : r.call = c /\ r.kind = kind

CallsKept == CapturedOnce /\ Attributed /\ OneInvocation /\ CostBeside /\ Recorded
=============================================================================
