----------------------------- MODULE RateLimit ------------------------------
(***************************************************************************)
(* The limiter of one target or principal in Valkey                        *)
(* (kya_redteam/runtime.py, called by kya/rate_limit.py): a counter per    *)
(* second from one call per second on, the time of the last call below     *)
(* that, and a bucket of fractions of a call when a multiplier tightens    *)
(* the rate.  The gateway is answered at once; the other primitives wait.  *)
(* Time runs in ticks, TicksPerSecond to the second.  Where Valkey fails,  *)
(* a call goes ahead: the limiter then has not let it through.             *)
(***************************************************************************)
EXTENDS Integers, FiniteSets, FiniteSetsExt

CONSTANTS
    Callers,
    Waiting,           \* the callers of acquire_rate_token; the others check_rate
    Limits,            \* a rule without and one with the multiplier: calls per second, or
                       \* (cap 0) the ticks that every call takes
    TicksPerSecond,
    Burst, Refill,     \* the bucket: capacity and refill per tick, in parts of a call
    Call,              \* ... and how many of those parts a call costs
    MaxWait,           \* max_wait_s in ticks
    CountLife,         \* ticks the count of a second is kept at least (2 s)
    KeyLife,           \* ticks the time of the last call is kept (300 s)
    Never,             \* no last call on record
    Horizon,           \* bound on the clock
    MaxCount,          \* bound on the calls of a second
    MaxFaults,         \* bound on the commands that fail
    MaxSwitches        \* bound on the changes of the multiplier

VARIABLES
    limit,             \* constant
    now,
    tight, switches,   \* a multiplier below 1 is in force, and how often that changed
    count, countUntil, \* calls counted under the key of each second, and its expiry
    last, lastUntil,   \* the time of the last call and when its key expires
    tokens, tokensAt,  \* the bucket and the time it was written
    call,              \* of a caller: where it is (pc), the rule it asks by, since when, the
                       \* time it has read (clock), the last call it has seen, and whether
                       \* that one was written since (overtaken)
    grants,            \* history: calls let through by each limiter, by the time it read
    failed,            \* commands that failed so far
    raced              \* history: one who was overtaken wrote the last call

vars == <<limit, now, tight, switches, failed, count, countUntil, last, lastUntil, tokens,
          tokensAt, call, grants, raced>>
shared == <<limit, now, tight, switches>>
counts == <<count, countUntil>>
bucket == <<tokens, tokensAt>>
lasts == <<last, lastUntil, raced>>
-----------------------------------------------------------------------------
Times == 0..Horizon
Seconds == 0..(Horizon \div TicksPerSecond)
Forever == Horizon + CountLife
Idle == [pc |-> "idle", rule |-> [cap |-> 0, gap |-> 0], since |-> 0, clock |-> 0,
         seen |-> Never, overtaken |-> FALSE]
AtMost(a, b) == IF a < b THEN a ELSE b

Init ==
    /\ limit \in Limits
    /\ now = 0 /\ tight \in BOOLEAN /\ switches = 0 /\ failed = 0
    /\ count = [s \in Seconds |-> 0] /\ countUntil = [s \in Seconds |-> 0]
    /\ last = Never /\ lastUntil = 0
    /\ tokens = Burst /\ tokensAt = 0
    /\ call = [c \in Callers |-> Idle]
    /\ grants = [limiter \in {"second", "gap", "bucket"} |-> [t \in Times |-> 0]]
    /\ raced = FALSE

Fail == failed < MaxFaults /\ failed' = failed + 1

Grant(limiter, t) == grants' = [grants EXCEPT ![limiter][t] = @ + 1]

LastCall == IF now < lastUntil THEN last ELSE Never
Clear(c) == call[c].seen # Never => now >= call[c].seen + call[c].rule.gap
Goes(c, pc) == call' = [call EXCEPT ![c].pc = pc]
Ends(c) == call' = [call EXCEPT ![c] = Idle]

\* The script refills the bucket, spends and writes back.
SpendFrom(level) ==
    /\ tokens' = IF level >= Call THEN level - Call ELSE level
    /\ tokensAt' = now

\* Seeded fault: the bucket is refilled beyond its capacity.
CheckBucketUncapped(c) ==
    LET level == tokens + (now - tokensAt) * Refill
    IN  /\ tight /\ c \notin Waiting /\ call[c].pc = "idle"
        /\ SpendFrom(level)
        /\ IF level >= Call THEN Grant("bucket", now) ELSE UNCHANGED grants
        /\ UNCHANGED <<shared, failed, counts, lasts, call>>

\* With a multiplier the bucket decides ...
Level == AtMost(Burst, tokens + (now - tokensAt) * Refill)
CheckBucket(c) ==
    /\ tight /\ c \notin Waiting /\ call[c].pc = "idle"
    /\ SpendFrom(Level)
    /\ IF Level >= Call THEN Grant("bucket", now) ELSE UNCHANGED grants
    /\ UNCHANGED <<shared, failed, counts, lasts, call>>

\* ... and if the script fails, spent or not, the other limiters at the tightened rate.
BucketFails(c) ==
    /\ tight /\ c \notin Waiting /\ call[c].pc = "idle"
    /\ Fail
    /\ SpendFrom(Level) \/ UNCHANGED bucket
    /\ Goes(c, "fell")
    /\ UNCHANGED <<shared, counts, lasts, grants>>

\* A call that begins with the counter or the last call, or goes on with it.
Begins(c, asked) ==
    \/ call[c].pc = "fell" /\ asked = limit.tight
    \/ call[c].pc = "idle" /\ (c \in Waiting \/ ~ tight) /\ asked = limit.full

\* From one call per second on the clock is read, which names the key, again and again by
\* one that waits ...
ReadClock(c) ==
    /\ \/ \E asked \in {limit.full, limit.tight} :
            /\ asked.cap > 0 /\ Begins(c, asked)
            /\ call' = [call EXCEPT ![c] = [Idle EXCEPT
                   !.pc = "counting", !.rule = asked, !.since = now, !.clock = now]]
       \/ /\ call[c].pc = "waiting"
          /\ call' = [call EXCEPT ![c].pc = "counting", ![c].clock = now]
    /\ UNCHANGED <<shared, failed, counts, bucket, lasts, grants>>

\* ... and then the key is counted up, whatever the time is now. EXPIRE follows the first
\* INCR, and if it fails the key stays.
Second(c) == call[c].clock \div TicksPerSecond
CountOf(s) == IF now < countUntil[s] THEN count[s] ELSE 0
CountUp(s, until) ==
    /\ CountOf(s) < MaxCount
    /\ count' = [count EXCEPT ![s] = CountOf(s) + 1]
    /\ countUntil' = [countUntil EXCEPT ![s] = IF CountOf(s) = 0 THEN until ELSE @]

\* Over the cap the gateway refuses, and the others wait; the history leaves out calls
\* that come when the key may have expired.
InTime(c) == now < Second(c) * TicksPerSecond + CountLife
Incr(c) ==
    /\ call[c].pc = "counting"
    /\ CountUp(Second(c), now + CountLife)
    /\ LET within == count'[Second(c)] <= call[c].rule.cap
       IN  /\ IF within /\ InTime(c) THEN Grant("second", call[c].clock) ELSE UNCHANGED grants
           /\ IF ~ within /\ c \in Waiting THEN Goes(c, "waiting") ELSE Ends(c)
    /\ UNCHANGED <<shared, failed, bucket, lasts>>

\* The call goes ahead, counted or not.
IncrFails(c) ==
    /\ call[c].pc = "counting"
    /\ Fail
    /\ CountUp(Second(c), Forever) \/ UNCHANGED counts
    /\ Ends(c)
    /\ UNCHANGED <<shared, bucket, lasts, grants>>

\* After MaxWait one who waits goes ahead all the same, or raises.
GiveUpWaiting(c) ==
    /\ call[c].pc = "waiting" /\ now - call[c].since >= MaxWait
    /\ Ends(c)
    /\ UNCHANGED <<shared, failed, counts, bucket, lasts, grants>>

\* Below one call per second the last call is read. If that fails the gateway lets the
\* call through, and the others take it that there was none.
ReadLast(c) ==
    /\ \E asked \in {limit.full, limit.tight} :
        /\ asked.cap = 0 /\ Begins(c, asked)
        /\ LET begun == [Idle EXCEPT !.rule = asked, !.since = now]
           IN  \/ /\ call' = [call EXCEPT ![c] = [begun EXCEPT
                          !.pc = IF c \in Waiting THEN "sleeping" ELSE "asking",
                          !.seen = LastCall]]
                  /\ UNCHANGED failed
               \/ /\ Fail
                  /\ IF c \in Waiting
                     THEN call' = [call EXCEPT ![c] = [begun EXCEPT !.pc = "blind"]]
                     ELSE Ends(c)
    /\ UNCHANGED <<shared, counts, bucket, lasts, grants>>

\* The clock is read and compared with it: the gap is over, or the gateway refuses ...
CheckGap(c) ==
    /\ call[c].pc = "asking"
    /\ IF Clear(c) THEN call' = [call EXCEPT ![c].pc = "granting", ![c].clock = now]
       ELSE Ends(c)
    /\ UNCHANGED <<shared, failed, counts, bucket, lasts, grants>>

\* ... and the others sleep until it is over, or for MaxWait, and go ahead.
AcquireGap(c) ==
    /\ \/ /\ call[c].pc = "sleeping" /\ Clear(c)
          /\ call' = [call EXCEPT ![c].pc = "granting", ![c].clock = now]
       \/ /\ \/ call[c].pc = "blind"
             \/ call[c].pc = "sleeping" /\ ~ Clear(c) /\ now - call[c].since >= MaxWait
          /\ call' = [call EXCEPT ![c].pc = "writing", ![c].clock = now]
    /\ UNCHANGED <<shared, failed, counts, bucket, lasts, grants>>

\* The time that was read is written in another command, over whatever was written in
\* between; if it fails the call goes ahead, and no one will know of it.
OnGap(c) == call[c].pc \in {"asking", "sleeping", "blind", "granting", "writing"}
SetLast(c) ==
    /\ call[c].pc \in {"granting", "writing"}
    /\ \/ /\ last' = call[c].clock /\ lastUntil' = now + KeyLife
          /\ raced' = (raced \/ call[c].overtaken)
          /\ call' = [d \in Callers |->
                 IF d = c THEN Idle ELSE [call[d] EXCEPT !.overtaken = OnGap(d)]]
          /\ IF call[c].pc = "granting" THEN Grant("gap", call[c].clock) ELSE UNCHANGED grants
          /\ UNCHANGED failed
       \/ /\ Fail
          /\ Ends(c)
          /\ UNCHANGED <<last, lastUntil, raced, grants>>
    /\ UNCHANGED <<shared, counts, bucket>>

\* A resolver returns a multiplier below 1, or no longer does.
Tighten ==
    /\ switches < MaxSwitches
    /\ switches' = switches + 1
    /\ tight' = ~ tight
    /\ UNCHANGED <<limit, now, failed, counts, bucket, lasts, call, grants>>

\* Nobody who sleeps or is between two commands need be on time.
Tick ==
    /\ now < Horizon
    /\ now' = now + 1
    /\ UNCHANGED <<limit, tight, switches, failed, counts, bucket, lasts, call, grants>>

Next ==
    \/ \E c \in Callers :
        \/ CheckBucket(c) \/ BucketFails(c)
        \/ ReadClock(c) \/ Incr(c) \/ IncrFails(c) \/ GiveUpWaiting(c)
        \/ ReadLast(c) \/ CheckGap(c) \/ AcquireGap(c) \/ SetLast(c)
    \/ Tighten \/ Tick

Spec == Init /\ [][Next]_vars
-----------------------------------------------------------------------------
Granted(limiter, from, to) ==
    MapThenSumSet(LAMBDA t : grants[limiter][t], {t \in Times : from <= t /\ t <= to})

TypeOK ==
    /\ limit \in Limits /\ now \in Times /\ tight \in BOOLEAN
    /\ switches \in 0..MaxSwitches /\ failed \in 0..MaxFaults
    /\ count \in [Seconds -> 0..MaxCount] /\ countUntil \in [Seconds -> 0..Forever]
    /\ tokens \in 0..Burst /\ tokensAt \in Times
    /\ last \in Times \cup {Never} /\ lastUntil \in 0..(Horizon + KeyLife)
    /\ call \in [Callers -> [
           pc : {"idle", "fell", "counting", "waiting", "asking", "sleeping", "blind",
                 "granting", "writing"},
           rule : {limit.full, limit.tight, Idle.rule}, since : Times, clock : Times,
           seen : Times \cup {Never}, overtaken : BOOLEAN]]
    /\ raced \in BOOLEAN

\* What each limiter lets through, however callers mix, are delayed and find Valkey failing,
\* and multipliers come and go: the cap in every second, of calls whose key still lives;
\* between any two instants the burst and what was refilled; and one call per gap (as long
\* as its key lives), of those whose time was written, unless one was overtaken.
Rules == {limit.full, limit.tight}
SecondKept ==
    \A s \in Seconds : \A cap \in {r.cap : r \in Rules} :
        (cap > 0 /\ \A r \in Rules : r.cap <= cap) =>
            Granted("second", s * TicksPerSecond, (s + 1) * TicksPerSecond - 1) <= cap
BucketKept ==
    \A a \in Times : \A b \in a..Horizon :
        Granted("bucket", a, b) * Call <= Burst + (b - a) * Refill
GapKept ==
    ~ raced =>
        \A a \in Times : \A b \in a..Horizon :
            (\A r \in Rules : r.cap = 0 => b - a < AtMost(r.gap, KeyLife)) =>
                Granted("gap", a, b) <= 1
RateKept == SecondKept /\ BucketKept /\ GapKept
=============================================================================
