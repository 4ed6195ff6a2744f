------------------------------- MODULE MCCapture -------------------------------
(***************************************************************************)
(* Instances of how what happens is noticed, and whose it is taken to be:  *)
(* the calls of a language model that are patched into, the events of a    *)
(* runtime sensor, the keys that tokens are verified with, and the         *)
(* counters of telemetry.  "what" says which of them a behaviour is of;    *)
(* the variables of the others keep the value Unused.                      *)
(***************************************************************************)
EXTENDS Integers, FiniteSets, Sequences

CONSTANTS None, Unused

VARIABLES
    what,
    c_pc, c_faults, c_method, c_whose, c_clock,
    patched, context, started, invocation, wraps, ended, inv, i_pc, u_pc, opened,
    evidence, costs, passes, via, raced, failed,
    hints, explicit, used, unbound, binds, c_running, client, labels, c_read, ledger,
    unanswered,
    published, goneAt, ttl, c_cache, holder, came, since, c_found, shownAt,
    disabled, tx, c_lock, stop, w_pc, e_pc, window, taken, posted, dropped, flushes, last,
    overlapped

callVars == <<patched, context, started, invocation, wraps, ended, inv, i_pc, u_pc, opened,
              evidence, costs, passes, via, raced, failed>>
eventVars == <<hints, explicit, used, unbound, binds, c_running, client, labels, c_read,
               ledger, unanswered>>
keyVars == <<published, goneAt, ttl, c_cache, holder, came, since, c_found, shownAt>>
counterVars == <<disabled, tx, c_lock, stop, w_pc, e_pc, window, taken, posted, dropped,
                 flushes, last, overlapped>>

\* Two agents instrument the process; one of them has a task that shares its context.
Patched == INSTANCE AutoInstrument WITH
    Tasks <- {"a", "b", "c"}, ParentOf <- [a |-> None, b |-> None, c |-> "a"],
    Instruments <- {"i", "j"}, TaskOf <- [i |-> "a", j |-> "b"],
    StoreOf <- [i |-> 1, j |-> 2], Targets <- {{"x"}, {"x", "y"}}, Sdks <- {"x", "y"},
    Stores <- {1, 2}, Billed <- {1}, Calls <- {"k", "m"}, CallerOf <- [k |-> "a", m |-> "c"],
    SdkOf <- [k |-> "x", m |-> "y"], Undoers <- {"a"}, MaxFaults <- 1,
    pc <- c_pc, faults <- c_faults, method <- c_method, whose <- c_whose

\* Two events of a labelled container and one of another, which nobody knows; a binding is
\* made or undone.
Event == INSTANCE RuntimeBinding WITH
    Containers <- {"a", "b", "c"}, LabelOf <- [a |-> "p", b |-> None, c |-> None],
    NameOf <- [a |-> "n", b |-> None, c |-> "n"], Owner <- "o",
    Events <- {1, 2, 3}, ContainerOf <- <<"a", "a", "b">>,
    Hints <- {<<None, None, None>>, <<"bound", "hint", "hint">>},
    Starts <- {<<"a", "b">>}, MaxEntries <- 2, Binds <- 1, TTL <- 1, MaxFaults <- 1,
    Horizon <- 1, pc <- c_pc, faults <- c_faults, method <- c_method, whose <- c_whose,
    clock <- c_clock, running <- c_running, read <- c_read

\* A token of a key that may be withdrawn, and one of a key that is new.
Token == INSTANCE JwksCache WITH
    Keys <- {"k", "l"}, First <- {"k"}, Calls <- {"a", "b"},
    KeyOf <- [a |-> "k", b |-> "l"], TtlOf <- [a |-> 1, b |-> 2],
    Timeout <- 1, MaxFaults <- 1, Horizon <- 3, pc <- c_pc, faults <- c_faults,
    now <- c_clock, cache <- c_cache, found <- c_found

\* Telemetry is enabled twice and disabled, in any order.
Counter == INSTANCE Telemetry WITH
    Events <- {"e", "f"}, Controls <- {"c", "d", "b"},
    KindOf <- [c |-> "enable", d |-> "disable", b |-> "enable"],
    Transmitters <- {"x", "y"}, MaxFlushes <- 1, pc <- c_pc, lock <- c_lock

CaptureAssumptions ==
    /\ Patched!CallsAssumption /\ Patched!SetsAssumption
    /\ Event!EventsAssumption /\ Event!NumbersAssumption
    /\ Token!CallsAssumption /\ Token!NumbersAssumption /\ Token!NoneAssumption
    /\ Counter!ControlsAssumption /\ Counter!BoundAssumption /\ Counter!NoneAssumption

NoCall ==
    /\ patched = Unused /\ context = Unused /\ started = Unused /\ invocation = Unused
    /\ wraps = Unused /\ ended = Unused /\ inv = Unused /\ i_pc = Unused /\ u_pc = Unused
    /\ opened = Unused /\ evidence = Unused /\ costs = Unused /\ passes = Unused
    /\ via = Unused /\ raced = Unused /\ failed = Unused

NoEvent ==
    /\ hints = Unused /\ explicit = Unused /\ used = Unused /\ unbound = Unused
    /\ binds = Unused /\ c_running = Unused /\ client = Unused /\ labels = Unused
    /\ c_read = Unused /\ ledger = Unused /\ unanswered = Unused

NoKey ==
    /\ published = Unused /\ goneAt = Unused /\ ttl = Unused /\ c_cache = Unused
    /\ holder = Unused /\ came = Unused /\ since = Unused /\ c_found = Unused
    /\ shownAt = Unused

NoCounter ==
    /\ disabled = Unused /\ tx = Unused /\ c_lock = Unused /\ stop = Unused /\ w_pc = Unused
    /\ e_pc = Unused /\ window = Unused /\ taken = Unused /\ posted = Unused
    /\ dropped = Unused /\ flushes = Unused /\ last = Unused /\ overlapped = Unused

Init ==
    \/ what = "calls" /\ Patched!Init /\ c_clock = Unused /\ NoEvent /\ NoKey /\ NoCounter
    \/ what = "events" /\ Event!Init /\ NoCall /\ NoKey /\ NoCounter
    \/ what = "keys" /\ Token!Init /\ c_method = Unused /\ c_whose = Unused
       /\ NoCall /\ NoEvent /\ NoCounter
    \/ what = "counters" /\ Counter!Init /\ c_method = Unused /\ c_whose = Unused
       /\ c_clock = Unused /\ c_faults = Unused /\ NoCall /\ NoEvent /\ NoKey

Next ==
    /\ UNCHANGED what
    /\ \/ what = "calls" /\ Patched!Next
          /\ UNCHANGED <<c_clock, eventVars, keyVars, counterVars>>
       \/ what = "events" /\ Event!Next /\ UNCHANGED <<callVars, keyVars, counterVars>>
       \/ what = "keys" /\ Token!Next
          /\ UNCHANGED <<c_method, c_whose, callVars, eventVars, counterVars>>
       \/ what = "counters" /\ Counter!Next
          /\ UNCHANGED <<c_faults, c_method, c_whose, c_clock, callVars, eventVars, keyVars>>
-----------------------------------------------------------------------------
\* The type invariants of the parts.
TypeOK ==
    /\ what = "calls" => Patched!TypeOK
    /\ what = "events" => Event!TypeOK
    /\ what = "keys" => Token!TypeOK
    /\ what = "counters" => Counter!TypeOK

\* The properties of the parts, stated in their modules.
CaptureKept ==
    /\ what = "calls" => Patched!CallsKept
    /\ what = "events" => Event!BindingsKept
    /\ what = "keys" => Token!KeysKept
    /\ what = "counters" => Counter!TelemetryKept
=============================================================================
