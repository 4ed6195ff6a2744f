-------------------------- MODULE ReplayProtection --------------------------
(***************************************************************************)
(* The nonce of one request and its repetitions (kya/replay_protection.py, *)
(* verify_request_nonce).  A presentation is first judged by its timestamp *)
(* alone, which must be within MaxAge of the clock, either way; then a SET *)
(* NX, later by as much as the commands in between take, accepts it unless *)
(* its nonce is held, and holds the nonce for MaxAge.  Whenever Valkey     *)
(* does not answer, the request is let through unchecked.                  *)
(***************************************************************************)
EXTENDS Integers, FiniteSets

CONSTANTS
    Presented,     \* the presentations of the request
    MaxAge,        \* KYA_REPLAY_MAX_AGE_SECONDS
    Stamps,        \* the timestamps a client may put on the request
    Untimed,       \* a request without a timestamp
    None,
    Horizon        \* bound on the clock

VARIABLES
    now,           \* the clock
    stamp,         \* constant: the timestamp of the request
    judged,        \* of each presentation: when its timestamp was found fresh, None
                   \* unless its SET is still to come
    heldUntil,     \* the key of the nonce lives while now < heldUntil
    accepted       \* history: what Valkey accepted, when it was judged and set

vars == <<now, stamp, judged, heldUntil, accepted>>
-----------------------------------------------------------------------------
Times == 0..Horizon

Init ==
    /\ now = 0
    /\ stamp \in Stamps \cup {Untimed}
    /\ judged = [c \in Presented |-> None]
    /\ heldUntil = 0
    /\ accepted = {}

Fresh == stamp # Untimed => now - stamp <= MaxAge /\ stamp - now <= MaxAge
Held == now < heldUntil

\* A presentation with another timestamp is refused; that changes nothing here.
Judge(c) ==
    /\ judged[c] = None /\ Fresh
    /\ judged' = [judged EXCEPT ![c] = now]
    /\ UNCHANGED <<now, stamp, heldUntil, accepted>>

Answered(c) ==
    /\ judged[c] # None
    /\ judged' = [judged EXCEPT ![c] = None]
    /\ UNCHANGED <<now, stamp>>

\* Seeded fault: the key expires one second too early.
AcceptShort(c) ==
    /\ Answered(c) /\ ~ Held
    /\ heldUntil' = now + MaxAge - 1
    /\ accepted' = accepted \cup {[judged |-> judged[c], at |-> now]}

\* SET key NX EX max_age finds no key ...
Accept(c) ==
    /\ Answered(c) /\ ~ Held
    /\ heldUntil' = now + MaxAge
    /\ accepted' = accepted \cup {[judged |-> judged[c], at |-> now]}

\* ... or the key, and the request is refused.
Refuse(c) ==
    /\ Answered(c) /\ Held
    /\ UNCHANGED <<heldUntil, accepted>>

\* There is no Valkey, or the SET raises, done or not: the request is let through.
FailOpen(c) ==
    /\ Answered(c)
    /\ heldUntil' \in {heldUntil, IF Held THEN heldUntil ELSE now + MaxAge}
    /\ UNCHANGED accepted

Tick ==
    /\ now < Horizon
    /\ now' = now + 1
    /\ UNCHANGED <<stamp, judged, heldUntil, accepted>>

Next ==
    \/ \E c \in Presented : Judge(c) \/ Accept(c) \/ Refuse(c) \/ FailOpen(c)
    \/ Tick

Spec == Init /\ [][Next]_vars
-----------------------------------------------------------------------------
\* heldUntil is used only to tell whether the key is there.
TypeOK ==
    /\ now \in Times /\ stamp \in Stamps \cup {Untimed}
    /\ judged \in [Presented -> Times \cup {None}]
    /\ heldUntil \in 0..(Horizon + MaxAge)
    /\ accepted \subseteq [judged : Times, at : Times]

\* When the nonce of an accepted request is forgotten its timestamp is too old: it is
\* accepted again only if that presentation was held up between the judgement of its
\* timestamp and the SET for as long as the first was late (or if the timestamp was not
\* in the past, or there was none).
OnceUnlessHeldUp ==
    stamp # Untimed =>
        \A x, y \in accepted : x.at < y.at => y.at - y.judged >= x.at - stamp

\* Whatever its timestamp says, two acceptances are a nonce's lifetime apart ...
LifetimeApart ==
    \A x, y \in accepted : x.at < y.at => y.at - x.at >= MaxAge

\* ... and three at most come while the timestamp is fresh: one ahead of it, one at it,
\* one behind.
WhileFresh == {x.at : x \in {y \in accepted : y.at - stamp <= MaxAge}}
ThreeWhileFresh == stamp # Untimed => Cardinality(WhileFresh) <= 3

NoncesKept == OnceUnlessHeldUp /\ LifetimeApart /\ ThreeWhileFresh
-----------------------------------------------------------------------------
(* What the theorem of NoncesKept assumes, and the strengthening that is   *)
(* inductive (see ComponentProofs).                                        *)

NoncesAssumption ==
    /\ MaxAge \in Nat /\ Horizon \in Nat /\ Stamps \subseteq Int
    /\ None \notin Times

\* A time at which the timestamp was fresh.
Judged(t) == stamp # Untimed => t - stamp <= MaxAge /\ stamp - t <= MaxAge

\* Whatever waits for its SET was fresh, and so was what is accepted; the key of the
\* nonce lives from the latest acceptance for MaxAge.
HeldSince ==
    /\ \A c \in Presented : judged[c] # None => judged[c] <= now /\ Judged(judged[c])
    /\ \A x \in accepted :
        /\ x.judged <= x.at /\ Judged(x.judged)
        /\ x.at <= now /\ x.at + MaxAge <= heldUntil

NoncesInv == TypeOK /\ HeldSince /\ OnceUnlessHeldUp /\ LifetimeApart
=============================================================================
