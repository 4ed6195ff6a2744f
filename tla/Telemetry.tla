------------------------------- MODULE Telemetry -------------------------------
(***************************************************************************)
(* The counters of aggregate telemetry and the thread that posts them      *)
(* (kya/telemetry.py), as telemetry is enabled and disabled: a flag that   *)
(* is set before the lock is taken, and a transmitter that is replaced     *)
(* under the lock.  A window whose post fails is lost, by design.          *)
(***************************************************************************)
EXTENDS Integers, FiniteSets

CONSTANTS
    Events,
    Controls,    \* calls of enable_telemetry and disable_telemetry
    KindOf,      \* Controls -> {"enable", "count", "disable"}, "count" to enable without URL
    Transmitters, \* those that may be made
    MaxFlushes,  \* bound on flushes of the threads
    None

ControlsAssumption ==
    /\ KindOf \in [Controls -> {"enable", "count", "disable"}]
    /\ IsFiniteSet(Controls) /\ IsFiniteSet(Transmitters)
    /\ Controls \cap Transmitters = {}
    /\ Cardinality(Transmitters) >= Cardinality({c \in Controls : KindOf[c] = "enable"})
BoundAssumption == MaxFlushes \in Nat
NoneAssumption ==
    None \notin Controls /\ None \notin Transmitters /\ None \notin BOOLEAN

VARIABLES
    disabled,    \* _DISABLED
    tx,          \* _TX
    lock,        \* control that holds _TX_LOCK
    stop,        \* _stop of a transmitter, None before it is made
    w_pc,        \* of the thread of a transmitter
    pc,          \* of a control
    e_pc,        \* of record_event
    window,      \* events the aggregator has counted since its last reset
    taken,       \* window a transmitter's thread or a control has taken and posts
    posted,      \* times an event was posted
    dropped,     \* events whose post failed
    flushes,
    last,        \* history: the control that set the flag last
    overlapped   \* history: controls that met another one

control == <<disabled, tx, lock, stop, pc, last, overlapped>>
counts == <<window, taken, posted, dropped>>
vars == <<control, w_pc, e_pc, counts, flushes>>

Posters == Transmitters \cup Controls

Init ==
    /\ disabled \in BOOLEAN /\ tx = None /\ lock = None
    /\ stop = [x \in Transmitters |-> None] /\ w_pc = [x \in Transmitters |-> "new"]
    /\ pc = [c \in Controls |-> "new"] /\ e_pc = [e \in Events |-> "new"]
    /\ window = {} /\ taken = [p \in Posters |-> {}]
    /\ posted = [e \in Events |-> 0] /\ dropped = {}
    /\ flushes = 0 /\ last = None /\ overlapped = {}
-----------------------------------------------------------------------------
(* record_event: the flag, then the lock of the aggregator                 *)

Record(e) ==
    /\ e_pc[e] = "new"
    /\ e_pc' = [e_pc EXCEPT ![e] = IF disabled THEN "ignored" ELSE "counting"]
    /\ UNCHANGED <<control, w_pc, counts, flushes>>

Count(e) ==
    /\ e_pc[e] = "counting"
    /\ e_pc' = [e_pc EXCEPT ![e] = "counted"]
    /\ window' = window \cup {e}
    /\ UNCHANGED <<control, w_pc, taken, posted, dropped, flushes>>
-----------------------------------------------------------------------------
(* _flush: snapshot_and_reset, and a post that is not tried again          *)

Take(p) ==
    /\ taken' = [taken EXCEPT ![p] = window] /\ window' = {}
    /\ UNCHANGED <<posted, dropped>>

Post(p) ==
    /\ \/ posted' = [e \in Events |-> posted[e] + IF e \in taken[p] THEN 1 ELSE 0]
          /\ UNCHANGED dropped
       \/ dropped' = dropped \cup taken[p] /\ UNCHANGED posted
    /\ taken' = [taken EXCEPT ![p] = {}]
    /\ UNCHANGED window

\* The thread of a transmitter: when the interval is over, unless it is to stop.
Flush(x) ==
    /\ w_pc[x] = "wait" /\ ~ stop[x] /\ flushes < MaxFlushes
    /\ flushes' = flushes + 1
    /\ Take(x) /\ w_pc' = [w_pc EXCEPT ![x] = "post"]
    /\ UNCHANGED <<control, e_pc>>

Posted(x) ==
    /\ w_pc[x] = "post" /\ Post(x) /\ w_pc' = [w_pc EXCEPT ![x] = "wait"]
    /\ UNCHANGED <<control, e_pc, flushes>>

Stopped(x) ==
    /\ w_pc[x] = "wait" /\ stop[x] /\ w_pc' = [w_pc EXCEPT ![x] = "ended"]
    /\ UNCHANGED <<control, e_pc, counts, flushes>>
-----------------------------------------------------------------------------
(* enable_telemetry and disable_telemetry                                  *)

Go(c, step) == pc' = [pc EXCEPT ![c] = step]
Busy(c) == pc[c] \notin {"new", "done"}

\* The flag first, without the lock.
Flag(c) ==
    /\ pc[c] = "new"
    /\ disabled' = (KindOf[c] = "disable")
    /\ last' = c
    /\ LET others == {d \in Controls \ {c} : Busy(d)}
       IN  overlapped' = IF others = {} THEN overlapped ELSE overlapped \cup others \cup {c}
    /\ Go(c, "lock")
    /\ UNCHANGED <<tx, lock, stop, w_pc, e_pc, counts, flushes>>

\* What transmits is told to stop, ...
Acquire(c) ==
    /\ pc[c] = "lock" /\ lock = None /\ lock' = c
    /\ IF tx = None THEN Go(c, "make") /\ UNCHANGED stop
       ELSE stop' = [stop EXCEPT ![tx] = TRUE] /\ Go(c, "flush")
    /\ UNCHANGED <<disabled, tx, w_pc, e_pc, counts, flushes, last, overlapped>>

\* ... what is left is posted by the caller, ...
LastFlush(c) ==
    /\ pc[c] = "flush" /\ Take(c) /\ Go(c, "post")
    /\ UNCHANGED <<disabled, tx, lock, stop, w_pc, e_pc, flushes, last, overlapped>>

LastPost(c) ==
    /\ pc[c] = "post" /\ Post(c) /\ Go(c, "join")
    /\ UNCHANGED <<disabled, tx, lock, stop, w_pc, e_pc, flushes, last, overlapped>>

\* ... and its thread is waited for, but not for as long as it may post.
Join(c) ==
    /\ pc[c] = "join" /\ w_pc[tx] \in {"ended", "post"}
    /\ tx' = None /\ Go(c, "make")
    /\ UNCHANGED <<disabled, lock, stop, w_pc, e_pc, counts, flushes, last, overlapped>>

\* Then there is a new one, if there is a URL to post to.
Make(c) ==
    /\ pc[c] = "make" /\ lock' = None /\ Go(c, "done")
    /\ IF KindOf[c] = "enable"
       THEN LET x == CHOOSE y \in Transmitters : stop[y] = None
            IN  /\ stop' = [stop EXCEPT ![x] = FALSE] /\ tx' = x
                /\ w_pc' = [w_pc EXCEPT ![x] = "wait"]
       ELSE UNCHANGED <<stop, tx, w_pc>>
    /\ UNCHANGED <<disabled, e_pc, counts, flushes, last, overlapped>>

Next ==
    \/ \E e \in Events : Record(e) \/ Count(e)
    \/ \E x \in Transmitters : Flush(x) \/ Posted(x) \/ Stopped(x)
    \/ \E c \in Controls :
        Flag(c) \/ Acquire(c) \/ LastFlush(c) \/ LastPost(c) \/ Join(c) \/ Make(c)

Spec == Init /\ [][Next]_vars
-----------------------------------------------------------------------------
TypeOK ==
    /\ disabled \in BOOLEAN /\ tx \in Transmitters \cup {None}
    /\ lock \in Controls \cup {None} /\ stop \in [Transmitters -> BOOLEAN \cup {None}]
    /\ w_pc \in [Transmitters -> {"new", "wait", "post", "ended"}]
    /\ pc \in [Controls -> {"new", "lock", "flush", "post", "join", "make", "done"}]
    /\ e_pc \in [Events -> {"new", "ignored", "counting", "counted"}]
    /\ taken \in [Posters -> SUBSET Events] /\ posted \in [Events -> Nat]
    /\ window \subseteq Events /\ dropped \subseteq Events /\ flushes \in 0..MaxFlushes
    /\ last \in Controls \cup {None} /\ overlapped \subseteq Controls

\* An event that was counted is in one place: the window, a window that is being posted,
\* the collector, or lost with a post; no two posts carry it.
Places(e) ==
    (IF e \in window THEN 1 ELSE 0) + Cardinality({p \in Posters : e \in taken[p]})
        + posted[e] + (IF e \in dropped THEN 1 ELSE 0)
CountedOnce == \A e \in Events : Places(e) = IF e_pc[e] = "counted" THEN 1 ELSE 0

\* No transmitter is left running: one that was not told to stop is the current one.
NoneLeft == \A x \in Transmitters : stop[x] = FALSE => tx = x

\* When all controls have returned, the flag and the transmitter are as the last of them
\* wants, unless it met another one.
FlagAgrees ==
    (last # None /\ (\A c \in Controls : ~ Busy(c)) /\ last \notin overlapped) =>
        /\ disabled = (KindOf[last] = "disable")
        /\ (tx # None) = (KindOf[last] = "enable")

TelemetryKept == CountedOnce /\ NoneLeft /\ FlagAgrees
-----------------------------------------------------------------------------
(* The strengthening of the proofs.                                        *)

\* The lock is held from the moment a control has it to the moment it is done; what it
\* stops is the current transmitter, and it makes one when there is none.
Holding ==
    /\ tx # None => stop[tx] # None
    /\ \A c \in Controls :
        /\ (pc[c] \in {"flush", "post", "join", "make"}) <=> (lock = c)
        /\ pc[c] \in {"flush", "post", "join"} => tx # None /\ stop[tx] = TRUE
        /\ pc[c] = "make" => tx = None

\* Only who posts has taken a window, and a thread does nothing before it is made.
Posting ==
    /\ \A x \in Transmitters : stop[x] = None => w_pc[x] = "new"
    /\ \A x \in Transmitters : taken[x] # {} => w_pc[x] = "post"
    /\ \A c \in Controls : taken[c] # {} => pc[c] = "post"

\* As many transmitters were made as controls that enable are done.
Made ==
    Cardinality({x \in Transmitters : stop[x] # None})
        = Cardinality({c \in Controls : KindOf[c] = "enable" /\ pc[c] = "done"})

\* A control that set the flag last and met no other one is alone since.
LastAlone ==
    last # None =>
        /\ disabled = (KindOf[last] = "disable") /\ pc[last] # "new"
        /\ last \notin overlapped =>
            /\ \A c \in Controls \ {last} : ~ Busy(c)
            /\ pc[last] = "done" => (tx # None) = (KindOf[last] = "enable")

TelemetryInv == TypeOK /\ CountedOnce /\ NoneLeft /\ Holding /\ Posting /\ Made /\ LastAlone
=============================================================================
