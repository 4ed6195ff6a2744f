----------------------------- MODULE ValkeyClient -----------------------------
(***************************************************************************)
(* The client of the shared store that the limiter, the nonces and the     *)
(* counters of a process use (kya/_valkey.py).  It is made by whoever asks *)
(* first, under a lock, and from then on read without it; the application  *)
(* may register a factory of its own at any time.  Nothing here raises: no *)
(* client means that those checks let everything pass.                     *)
(***************************************************************************)
EXTENDS Naturals

CONSTANTS
    Calls,          \* of get_valkey
    Changes,        \* of register_valkey_factory and reset_valkey_cache
    FactoryOf,      \* Changes -> what is registered: a factory, None, or "reset"
    Environments,   \* subset of {"redis", "no url", "no library"}
    Cooldown,       \* KYA_VALKEY_RETRY_COOLDOWN_S
    Horizon,        \* bound on the clock
    None

Factories == {FactoryOf[x] : x \in Changes} \ {None, "reset"}

ValkeyAssumption ==
    /\ DOMAIN FactoryOf = Changes /\ "environment" \notin Factories
    /\ Environments \subseteq {"redis", "no url", "no library"}
    /\ Cooldown \in Nat \ {0} /\ Horizon \in Nat
    /\ None \notin Calls \cup Changes /\ Calls \cap Changes = {}

\* A client: where it comes from, in which epoch, and who made it.
Clients == [source : Factories \cup {"environment"}, epoch : Nat, by : Calls]
NoneAssumption == None \notin Clients \cup Nat

VARIABLES
    env,            \* constant: one of Environments
    now,
    factory,        \* _FACTORY
    client,         \* _CLIENT
    resolved,       \* _CLIENT_RESOLVED
    retryAfter,     \* _CLIENT_RETRY_AFTER, 0 for none
    lock,           \* _CLIENT_LOCK: a call, a change, or None
    pc,
    got,            \* what a call has in hand and, once it is done, returns
    epoch,          \* history: changes completed
    began,          \* history: epoch at the start of a call
    crossed,        \* history: calls that ran beside a change
    failedAt,       \* history: time of the last ping that failed since the last reset
    barren,         \* history: epochs whose factory once had no client to give
    blind,          \* history: calls that returned None for no reason of the present
    hurried         \* history: a ping began within the cooldown

cache == <<factory, client, resolved, retryAfter>>
history == <<epoch, began, crossed, failedAt, barren, blind, hurried>>
vars == <<env, now, cache, lock, pc, got, history>>

Init ==
    /\ env \in Environments /\ now = 0
    /\ factory = None /\ client = None /\ resolved = FALSE /\ retryAfter = 0 /\ lock = None
    /\ pc = [a \in Calls \cup Changes |-> "new"] /\ got = [c \in Calls |-> None]
    /\ epoch = 0 /\ began = [c \in Calls |-> 0] /\ crossed = {} /\ failedAt = None
    /\ barren = {} /\ blind = {} /\ hurried = FALSE

Tick ==
    /\ now < Horizon /\ now' = now + 1
    /\ UNCHANGED <<env, cache, lock, pc, got, history>>

Go(a, step) == pc' = [pc EXCEPT ![a] = step]

\* A ping that failed at this time still counts.
Recent(time) == time # None /\ now < time + Cooldown
Cooling == retryAfter # 0 /\ now < retryAfter

Return(c, answer) ==
    /\ Go(c, "done") /\ got' = [got EXCEPT ![c] = answer]
    /\ blind' = IF answer = None /\ env = "redis" /\ ~ Recent(failedAt')
                THEN blind \cup {c} ELSE blind
-----------------------------------------------------------------------------
(* get_valkey                                                              *)

\* The fast path is two reads: of the flag, ...
Look(c) ==
    /\ pc[c] = "new"
    /\ Go(c, IF resolved THEN "take" ELSE "cool")
    /\ began' = [began EXCEPT ![c] = epoch]
    /\ crossed' = IF lock \in Changes THEN crossed \cup {c} ELSE crossed
    /\ UNCHANGED <<env, now, cache, lock, got, epoch, failedAt, barren, blind, hurried>>

\* ... and of the client.
Take(c) ==
    /\ pc[c] = "take"
    /\ UNCHANGED failedAt /\ Return(c, client)
    /\ UNCHANGED <<env, now, cache, lock, epoch, began, crossed, barren, hurried>>

Cool(c) ==
    /\ pc[c] = "cool"
    /\ UNCHANGED failedAt
    /\ IF Cooling THEN Return(c, None) ELSE Go(c, "wait") /\ UNCHANGED <<got, blind>>
    /\ UNCHANGED <<env, now, cache, lock, epoch, began, crossed, barren, hurried>>

\* Both questions again, with the lock, which is kept until there is an answer.
Acquire(c) ==
    /\ pc[c] = "wait" /\ lock = None
    /\ UNCHANGED failedAt
    /\ IF resolved \/ Cooling
       THEN Return(c, IF resolved THEN client ELSE None) /\ UNCHANGED lock
       ELSE /\ Go(c, IF factory # None THEN "factory" ELSE "environment") /\ lock' = c
            /\ UNCHANGED <<got, blind>>
    /\ UNCHANGED <<env, now, cache, epoch, began, crossed, barren, hurried>>

Made(c, source) ==
    /\ got' = [got EXCEPT ![c] = [source |-> source, epoch |-> epoch, by |-> c]]
    /\ Go(c, "publish")

\* A factory that raises is as good as one that returns None.
AskFactory(c) ==
    /\ pc[c] = "factory"
    /\ \/ Made(c, factory) /\ UNCHANGED barren
       \/ Go(c, "environment") /\ barren' = barren \cup {epoch} /\ UNCHANGED got
    /\ UNCHANGED <<env, now, cache, lock, epoch, began, crossed, failedAt, blind, hurried>>

\* Without the library or a URL there is no client, and never will be.
NoStore(c) ==
    /\ pc[c] = "environment" /\ env # "redis"
    /\ client' = None /\ resolved' = TRUE /\ lock' = None
    /\ UNCHANGED failedAt /\ Return(c, None)
    /\ UNCHANGED <<env, now, factory, retryAfter, epoch, began, crossed, barren, hurried>>

Ping(c) ==
    /\ pc[c] = "environment" /\ env = "redis"
    /\ hurried' = (hurried \/ Recent(failedAt))
    /\ Made(c, "environment")
    /\ UNCHANGED <<env, now, cache, lock, epoch, began, crossed, failedAt, barren, blind>>

\* A connection that fails is tried again after the cooldown.
PingFails(c) ==
    /\ pc[c] = "environment" /\ env = "redis"
    /\ hurried' = (hurried \/ Recent(failedAt))
    /\ client' = None /\ retryAfter' = now + Cooldown /\ lock' = None
    /\ failedAt' = now /\ Return(c, None)
    /\ UNCHANGED <<env, now, factory, resolved, epoch, began, crossed, barren>>

\* The client first, so that whoever sees the flag sees it; the flag last.
Publish(c) ==
    /\ pc[c] = "publish" /\ client' = got[c] /\ Go(c, "flag")
    /\ UNCHANGED <<env, now, factory, resolved, retryAfter, lock, got, history>>

Flag(c) ==
    /\ pc[c] = "flag"
    /\ resolved' = TRUE /\ retryAfter' = 0 /\ lock' = None
    /\ UNCHANGED failedAt /\ Return(c, got[c])
    /\ UNCHANGED <<env, now, factory, client, epoch, began, crossed, barren, hurried>>
-----------------------------------------------------------------------------
(* register_valkey_factory and reset_valkey_cache                          *)

Underway == {c \in Calls : pc[c] \notin {"new", "done"}}

\* The client goes before the flag does; a reset leaves the factory where it is.
Drop(x) ==
    /\ pc[x] = "new" /\ lock = None /\ lock' = x
    /\ factory' = IF FactoryOf[x] = "reset" THEN factory ELSE FactoryOf[x]
    /\ client' = None /\ Go(x, "flag")
    /\ crossed' = crossed \cup Underway
    /\ UNCHANGED <<env, now, resolved, retryAfter, got, epoch, began, failedAt, barren,
                   blind, hurried>>

\* A registration does not end the cooldown, a reset does.
Change(x) ==
    /\ pc[x] = "flag" /\ Go(x, "done")
    /\ resolved' = FALSE /\ lock' = None
    /\ IF FactoryOf[x] = "reset" THEN retryAfter' = 0 /\ failedAt' = None
       ELSE UNCHANGED <<retryAfter, failedAt>>
    /\ epoch' = epoch + 1 /\ crossed' = crossed \cup Underway
    /\ UNCHANGED <<env, now, factory, client, got, began, barren, blind, hurried>>

Next ==
    \/ Tick
    \/ \E c \in Calls :
        \/ Look(c) \/ Take(c) \/ Cool(c) \/ Acquire(c) \/ AskFactory(c)
        \/ NoStore(c) \/ Ping(c) \/ PingFails(c) \/ Publish(c) \/ Flag(c)
    \/ \E x \in Changes : Drop(x) \/ Change(x)

Spec == Init /\ [][Next]_vars
-----------------------------------------------------------------------------
Steps ==
    {"new", "take", "cool", "wait", "factory", "environment", "publish", "flag", "done"}

TypeOK ==
    /\ env \in Environments /\ now \in 0..Horizon
    /\ factory \in Factories \cup {None} /\ client \in Clients \cup {None}
    /\ resolved \in BOOLEAN /\ retryAfter \in 0..(Horizon + Cooldown)
    /\ lock \in Calls \cup Changes \cup {None} /\ got \in [Calls -> Clients \cup {None}]
    /\ pc \in [Calls \cup Changes -> Steps]
    /\ epoch \in Nat /\ began \in [Calls -> Nat] /\ failedAt \in 0..Horizon \cup {None}
    /\ crossed \subseteq Calls /\ blind \subseteq Calls /\ hurried \in BOOLEAN

Given == {c \in Calls : pc[c] = "done" /\ got[c] # None}

\* Who gets no client, although there is a store and no ping failed just now, ran beside a
\* change: with the flag still set, the client that it reads is already gone.
NoneExplained == blind \subseteq crossed

\* A failed connection is not remembered for good.
NotLatched == (resolved /\ client = None /\ lock = None) => env # "redis"

\* Between two changes all get one client, never one from before the last change that was
\* over when they asked; and it is the factory's unless that had none to give.
ClientFresh ==
    /\ \A c \in Given : got[c].epoch >= began[c]
    /\ \A c, d \in Given : got[c].epoch = got[d].epoch => got[c] = got[d]
    /\ (lock = None /\ client # None /\ factory # None) =>
          (client.source = factory \/ (client.source = "environment" /\ epoch \in barren))

\* However many calls come, the store is asked once in a cooldown, unless someone resets it.
PingsSpaced == ~ hurried

ValkeyKept == NoneExplained /\ NotLatched /\ ClientFresh /\ PingsSpaced
-----------------------------------------------------------------------------
(* A strengthening of ValkeyKept that every step preserves.                *)

Making == {"factory", "environment", "publish"}

\* Between its lock and its answer a call or a change has the lock, and a call finds no
\* client that is taken for settled.
LockKept ==
    /\ \A c \in Calls : pc[c] \in Making \cup {"flag"} => lock = c
    /\ \A x \in Changes : pc[x] \in {"new", "flag", "done"} /\ (pc[x] = "flag" => lock = x)
    /\ lock \in Calls => pc[lock] \in Making \cup {"flag"} /\ ~ resolved
    /\ lock \in Changes => pc[lock] = "flag"

\* What is published was made in this epoch, and comes from the factory unless that once had
\* none to give.
Sourced(k) == factory # None => k.source = factory \/ (k.source = "environment" /\ epoch \in barren)
ClientMade ==
    /\ client # None => client.epoch = epoch /\ Sourced(client) /\ lock \notin Changes
    /\ (lock = None /\ ~ resolved) => client = None
    /\ \A c \in Calls :
        /\ began[c] <= epoch
        /\ pc[c] \in Making => client = None
        /\ (pc[c] = "environment" /\ factory # None) => epoch \in barren
        /\ pc[c] = "factory" => factory # None
        /\ pc[c] \in {"publish", "flag"} => got[c] # None /\ got[c].epoch = epoch /\ Sourced(got[c])
        /\ pc[c] = "flag" => client = got[c]

\* What was given in this epoch is the client, until a change takes it away.
GivenNow ==
    \A c \in Given :
        /\ got[c].epoch <= epoch
        /\ got[c].epoch = epoch => client = got[c] \/ lock \in Changes

\* A call that saw the flag and ran beside no change finds it set.
FlagStands ==
    \A c \in Calls : (pc[c] = "take" /\ c \notin crossed) => resolved /\ lock \notin Changes

\* A cooldown is that of a ping which failed, and holds whoever comes back as long as the
\* ping counts.
CooldownKept ==
    /\ retryAfter # 0 => failedAt # None /\ retryAfter <= failedAt + Cooldown
    /\ Recent(failedAt) => retryAfter = failedAt + Cooldown /\ lock \notin Calls
    /\ failedAt # None => failedAt <= now

ValkeyInv ==
    /\ TypeOK /\ ValkeyKept
    /\ LockKept /\ ClientMade /\ GivenNow /\ FlagStands /\ CooldownKept
=============================================================================
