------------------------------- MODULE JwksCache -------------------------------
(***************************************************************************)
(* The keys of an issuer of OIDC tokens, fetched and kept for a while      *)
(* (kya/oidc.py): one cache for the process, whose lock is held while the  *)
(* keys are fetched, and the verification of a token with the key it       *)
(* names.                                                                  *)
(***************************************************************************)
EXTENDS Integers, FiniteSets

CONSTANTS
    Keys,
    First,       \* keys the issuer has at first
    Calls,       \* calls of verify_oidc_token
    KeyOf,       \* Calls -> key its token names and is signed with
    TtlOf,       \* Calls -> ttl_seconds it asks for
    Timeout,     \* fetch_timeout_seconds
    MaxFaults,   \* bound on fetches that fail
    Horizon,     \* bound: the clock stops here
    None

CallsAssumption ==
    /\ KeyOf \in [Calls -> Keys] /\ TtlOf \in [Calls -> Nat \ {0}]
NumbersAssumption ==
    /\ First \subseteq Keys /\ {Timeout, MaxFaults, Horizon} \subseteq Nat /\ None \notin Nat

\* What is kept, and what a fetch brings.
Caches == [until : Nat, keys : SUBSET Keys]
Answers == [at : Nat, keys : SUBSET Keys]
NoneAssumption == None \notin Caches \cup Answers \cup Calls

VARIABLES
    now,
    published,   \* keys the issuer has now
    goneAt,      \* history: when a key was withdrawn, None if it was not
    ttl,         \* that of the cache, None before there is one
    cache,       \* [until, keys], None for no entry
    holder,      \* call that holds the lock of the cache
    pc,
    came, since, \* when a call began, and when it began to fetch
    found,       \* what a fetch brought
    shownAt,     \* history: when the keys in the cache were those of the issuer
    faults

vars == <<now, published, goneAt, ttl, cache, holder, pc, came, since, found, shownAt, faults>>

Init ==
    /\ now = 0 /\ published = First
    /\ goneAt = [k \in Keys |-> None]
    /\ ttl = None /\ cache = None /\ holder = None
    /\ pc = [c \in Calls |-> "new"] /\ came = [c \in Calls |-> None]
    /\ since = [c \in Calls |-> None] /\ found = [c \in Calls |-> None]
    /\ shownAt = None /\ faults = 0

\* A fetch ends in time.
Tick ==
    /\ now < Horizon /\ \A c \in Calls : pc[c] = "fetch" => now - since[c] < Timeout
    /\ now' = now + 1
    /\ UNCHANGED <<published, goneAt, ttl, cache, holder, pc, came, since, found, shownAt,
                   faults>>

\* The issuer withdraws a key, or has a new one.
Withdraw(k) ==
    /\ k \in published /\ published' = published \ {k}
    /\ goneAt' = [goneAt EXCEPT ![k] = now]
    /\ UNCHANGED <<now, ttl, cache, holder, pc, came, since, found, shownAt, faults>>

Publish(k) ==
    /\ k \notin published /\ goneAt[k] = None
    /\ published' = published \cup {k}
    /\ UNCHANGED <<now, goneAt, ttl, cache, holder, pc, came, since, found, shownAt, faults>>
-----------------------------------------------------------------------------
(* _resolve_cache and _JWKSCache.get                                       *)

Go(c, step) == pc' = [pc EXCEPT ![c] = step]

\* The first call makes the cache, with its ttl; the time is read before the lock.
Enter(c) ==
    /\ pc[c] = "new"
    /\ ttl' = IF ttl = None THEN TtlOf[c] ELSE ttl
    /\ came' = [came EXCEPT ![c] = now]
    /\ Go(c, "lock")
    /\ UNCHANGED <<now, published, goneAt, cache, holder, since, found, shownAt, faults>>

Fresh(c) ==
    /\ cache # None /\ came[c] < cache.until
    /\ KeyOf[c] \in cache.keys

\* Whoever has the lock takes the key that is there, or keeps the lock and fetches.
Look(c) ==
    /\ pc[c] = "lock" /\ holder = None
    /\ IF Fresh(c)
       THEN Go(c, "verified") /\ UNCHANGED <<holder, since>>
       ELSE Go(c, "fetch") /\ holder' = c /\ since' = [since EXCEPT ![c] = now]
    /\ UNCHANGED <<now, published, goneAt, ttl, cache, came, found, shownAt, faults>>

\* The issuer answers with the keys it has at some time while the fetch is under way; an
\* answer without any key is an error.
Answer(c) ==
    /\ pc[c] = "fetch" /\ found[c] = None /\ published # {}
    /\ found' = [found EXCEPT ![c] = [at |-> now, keys |-> published]]
    /\ UNCHANGED <<now, published, goneAt, ttl, cache, holder, pc, came, since, shownAt,
                   faults>>

\* Its keys replace those that were kept, from when the call came; a token with a key they
\* do not have is refused.
Store(c) ==
    /\ pc[c] = "fetch" /\ found[c] # None
    /\ cache' = [until |-> came[c] + ttl, keys |-> found[c].keys]
    /\ shownAt' = found[c].at
    /\ holder' = None
    /\ Go(c, IF KeyOf[c] \in found[c].keys THEN "verified" ELSE "refused")
    /\ UNCHANGED <<now, published, goneAt, ttl, came, since, found, faults>>

\* A fetch that fails refuses the token and leaves what was kept.
Fail(c) ==
    /\ pc[c] = "fetch" /\ found[c] = None
    /\ published = {} \/ faults < MaxFaults
    /\ faults' = IF published = {} THEN faults ELSE faults + 1
    /\ holder' = None /\ Go(c, "failed")
    /\ UNCHANGED <<now, published, goneAt, ttl, cache, came, since, found, shownAt>>

Next ==
    \/ Tick
    \/ \E k \in Keys : Withdraw(k) \/ Publish(k)
    \/ \E c \in Calls : Enter(c) \/ Look(c) \/ Answer(c) \/ Store(c) \/ Fail(c)

Spec == Init /\ [][Next]_vars
-----------------------------------------------------------------------------
Times == Nat \cup {None}

TypeOK ==
    /\ now \in 0..Horizon /\ published \subseteq Keys
    /\ goneAt \in [Keys -> Times] /\ ttl \in Times \ {0} /\ shownAt \in Times
    /\ cache \in Caches \cup {None} /\ holder \in Calls \cup {None}
    /\ pc \in [Calls -> {"new", "lock", "fetch", "verified", "refused", "failed"}]
    /\ came \in [Calls -> Times] /\ since \in [Calls -> Times]
    /\ found \in [Calls -> Answers \cup {None}]
    /\ faults \in 0..MaxFaults

\* One fetch at a time.
OneFetch == Cardinality({c \in Calls : pc[c] = "fetch"}) <= 1

\* A key that was withdrawn verifies no token that came after the ttl, however long the
\* calls before it took to fetch.
WithdrawnInTime ==
    \A c \in Calls :
        (pc[c] = "verified" /\ goneAt[KeyOf[c]] # None) =>
            came[c] < goneAt[KeyOf[c]] + ttl

\* A token is refused for a key that the issuer did not have at some time since it came:
\* what was kept never refuses a key that is new.
RefusedRightly ==
    \A c \in Calls :
        pc[c] = "refused" => found[c].at >= came[c] /\ KeyOf[c] \notin found[c].keys

\* What is kept is trusted no longer than ttl after the issuer showed it.
KeptInTime == cache # None => cache.until <= shownAt + ttl

KeysKept == OneFetch /\ WithdrawnInTime /\ RefusedRightly /\ KeptInTime
-----------------------------------------------------------------------------
(* A strengthening of KeysKept that every step preserves.                  *)

\* The lock is with the call that fetches.
LockFetches ==
    /\ \A c \in Calls : pc[c] = "fetch" => holder = c
    /\ holder # None => pc[holder] = "fetch"

\* Who has come finds a cache; a fetch began after the call came and brings what is of later.
TimesInOrder ==
    \A c \in Calls :
        /\ pc[c] # "new" => ttl # None /\ came[c] \in 0..now
        /\ pc[c] = "fetch" => since[c] \in 0..now
        /\ found[c] # None => pc[c] # "new" /\ found[c].at \in came[c]..now

\* A key that is gone was there at each time the issuer showed it.
ShownBefore(k, time) == goneAt[k] # None => goneAt[k] >= time
KeysShown ==
    /\ \A k \in Keys : goneAt[k] # None => k \notin published /\ goneAt[k] <= now
    /\ \A c \in Calls : found[c] # None => \A k \in found[c].keys : ShownBefore(k, found[c].at)
    /\ cache # None =>
        shownAt \in 0..now /\ ttl # None /\ \A k \in cache.keys : ShownBefore(k, shownAt)

KeysInv == TypeOK /\ LockFetches /\ TimesInOrder /\ KeysShown /\ KeysKept
=============================================================================
