-------------------------- MODULE ComponentProofs --------------------------
(***************************************************************************)
(* Theorems about components that stand alone, for every value of their    *)
(* constants: Inbound, an instance of each of the others, and the proof    *)
(* that what its runs check follows from the strengthening its module      *)
(* defines.  No theorem is about two of them: what bears one name in       *)
(* several modules is declared once here, and nothing is assumed of it but *)
(* what the theorem names.                                                 *)
(***************************************************************************)
EXTENDS Inbound, FiniteSetTheorems, SequenceTheorems, TLAPS

CONSTANTS
    Presented, MaxAge, Stamps, Untimed, Horizon, Writes, Hashes, Plans, Processes, Scopes,
    Life, Proposals, Decisions, Changes, Owns, Delta, Principals, Starts, Binds,
    Signals, Erasures, Trusted, Runs, Kinds, Entries, Turns, Branches, MaxPrompts,
    Monthly, Stale, Beat, MaxFailures, Judges, Panels, Scored, Verdicts

VARIABLES
    now, stamp, judged, heldUntil, accepted, override, cache, under, read, met, raised,
    suggestion, overlap, moved, live, lowered, rows, edges, existing, found, clock,
    tally, revived, erased, overwritten, bearers, kind, asked, age, used, outcome,
    entry, turn, sent, talked, beatAge, calls, late, cut, entryAge, missed,
    failures, panel, running, results, consensus, perDim

Nonce == INSTANCE ReplayProtection
Weight == INSTANCE WeightOverrides
Sug == INSTANCE WeightSuggestions
Bound == INSTANCE IdpBinding
Run == INSTANCE CampaignRuns
Panel == INSTANCE Consensus
-----------------------------------------------------------------------------
(* Signed recommendations for one weight.  The lowest weight that is built *)
(* in or that a human chose bounds what the fetches of the allowlist make  *)
(* of it, whatever comes between the look and the write.                   *)

\* The lowest of the weights humans chose.
LEMMA FloorIsLowest ==
    ASSUME Floored, HumanChoices \subseteq Nat, NEW v \in Nat, AboveHumans(v)
    PROVE  v >= HumanFloor
<1>1. PICK low \in HumanChoices : \A h \in HumanChoices : low <= h
  BY DEF Floored
<1>2. HumanFloor \in HumanChoices /\ \A h \in HumanChoices : HumanFloor <= h
  BY <1>1 DEF HumanFloor, Min
<1> QED
  BY <1>2 DEF AboveHumans

\* What humans chose stays chosen.
LEMMA ChoicesGrow ==
    ASSUME changes \subseteq changes' PROVE HumanChoices \subseteq HumanChoices'
BY DEF HumanChoices

\* A change keeps the lowest choice attained, and takes the weight below it only if a
\* human says so.
LEMMA FlooredByWrite ==
    ASSUME Floored, HumanChoices \subseteq Nat, NEW v \in Nat, NEW g,
           g.value = v, changes' = changes \cup {g}, weight' = v, v # None,
           AboveHumans(v) \/ g.by # "fetch",
           \A c \in Calls : pc'[c] = "write" => pc[c] = "write"
    PROVE  Floored'
<1>1. HumanChoices' = HumanChoices \cup (IF g.by # "fetch" THEN {v} ELSE {})
  BY DEF HumanChoices
<1>2. \E low \in HumanChoices' : \A h \in HumanChoices' : low <= h
  <2>1. PICK low \in HumanChoices : \A h \in HumanChoices : low <= h
    BY DEF Floored
  <2>2. low \in Nat
    BY <2>1
  <2>3. CASE g.by # "fetch" /\ v < low
    <3>1. v \in HumanChoices' /\ \A h \in HumanChoices' : v <= h
      BY <1>1, <2>1, <2>2, <2>3
    <3> QED
      BY <3>1
  <2>4. CASE g.by = "fetch" \/ low <= v
    <3>1. low \in HumanChoices' /\ \A h \in HumanChoices' : low <= h
      BY <1>1, <2>1, <2>2, <2>4
    <3> QED
      BY <3>1
  <2> QED
    BY <2>2, <2>3, <2>4
<1>3. \E h \in HumanChoices' : h <= v
  <2>1. CASE g.by # "fetch"
    <3>1. v \in HumanChoices' /\ v <= v
      BY <1>1, <2>1
    <3> QED
      BY <3>1
  <2>2. CASE AboveHumans(v)
    <3>1. HumanChoices \subseteq HumanChoices'
      BY <1>1
    <3> QED
      BY <2>2, <3>1 DEF AboveHumans
  <2> QED
    BY <2>1, <2>2
<1>4. AboveHumans(Effective)'
  BY <1>3 DEF AboveHumans, Effective
<1>5. ASSUME NEW c \in Calls, pc'[c] = "write" PROVE \E h \in HumanChoices' : h <= ValueOf[c.rec]
  BY <1>1, <1>5 DEF Floored, AboveHumans
<1> QED
  BY <1>2, <1>4, <1>5 DEF Floored, AboveHumans

\* A step that changes no weight, of a call that does not go on to write.
LEMMA FlooredByRest ==
    ASSUME Floored, changes' = changes, weight' = weight,
           \A c \in Calls : pc'[c] = "write" => pc[c] = "write"
    PROVE  Floored'
<1>1. HumanChoices' = HumanChoices
  BY DEF HumanChoices
<1> QED
  BY <1>1 DEF Floored, AboveHumans, Effective

LEMMA InboundTypeStep ==
    ASSUME RecsAssumption, CallsAssumption, TypeOK, Marks, [Next]_vars
    PROVE  /\ TypeOK' /\ Marks' /\ changes \subseteq changes'
           /\ AppliedTookEffect => AppliedTookEffect'
<1> DEFINE Good == /\ TypeOK' /\ Marks' /\ changes \subseteq changes'
                   /\ AppliedTookEffect => AppliedTookEffect'
<1> SUFFICES Good
  OBVIOUS
<1>r. \A c \in Calls : c.rec \in Recs /\ ValueOf[c.rec] \in Nat /\ c.rec # None
  BY DEF CallsAssumption, RecsAssumption
<1> USE DEF TypeOK, Statuses, Go
<1>1. ASSUME NEW c \in Calls, Persist(c) PROVE Good
  BY <1>r, <1>1 DEF Persist, Marks, AppliedTookEffect
<1>2. ASSUME NEW c \in Calls, CheckOnlyTighten(c) PROVE Good
  <2>1. /\ pc[c] = "check"
        /\ pc' = [pc EXCEPT ![c] = "fetched"] \/ pc' = [pc EXCEPT ![c] = "write"]
        /\ UNCHANGED <<allowed, weight, status, changes, rejected, crashes>>
    BY <1>2 DEF CheckOnlyTighten
  <2> QED
    BY <1>2, <2>1 DEF Marks, AppliedTookEffect, CheckOnlyTighten
<1>3. ASSUME NEW c \in Calls, AutoWrite(c) PROVE Good
  <2> DEFINE g == [by |-> "fetch", rec |-> c.rec, value |-> ValueOf[c.rec]]
  <2>1. /\ pc[c] = "write" /\ weight' = ValueOf[c.rec] /\ changes' = changes \cup {g}
        /\ pc' = [pc EXCEPT ![c] = "mark"] /\ UNCHANGED <<allowed, status>>
    BY <1>3 DEF AutoWrite, Write
  <2>2. g.by = "fetch" /\ g.rec = c.rec /\ g.rec # None /\ g.value \in Nat
    BY <1>r
  <2> HIDE DEF g
  <2>3. TypeOK'
    BY <1>r, <2>1, <2>2
  <2>4. Marks'
    BY <2>1, <2>2 DEF Marks
  <2>5. changes \subseteq changes' /\ (AppliedTookEffect => AppliedTookEffect')
    BY <2>1 DEF AppliedTookEffect
  <2> QED
    BY <2>3, <2>4, <2>5
<1>4. ASSUME NEW c \in Calls, AutoMark(c) PROVE Good
  BY <1>r, <1>4 DEF AutoMark, Marks, AppliedTookEffect
<1>5. ASSUME NEW c \in Calls, FetchAgain(c) PROVE Good
  BY <1>5 DEF FetchAgain, Marks, AppliedTookEffect
<1>6. ASSUME NEW c \in Calls, LookPending(c) PROVE Good
  BY <1>6 DEF LookPending, Marks, AppliedTookEffect
<1>7. ASSUME NEW c \in Calls, Decide(c) PROVE Good
  BY <1>r, <1>7 DEF Decide, Marks, AppliedTookEffect
<1>8. ASSUME NEW c \in Calls, ApproveWrite(c) PROVE Good
  <2> DEFINE g == [by |-> "approve", rec |-> c.rec, value |-> ValueOf[c.rec]]
  <2>1. /\ pc[c] = "apply" /\ weight' = ValueOf[c.rec] /\ changes' = changes \cup {g}
        /\ pc' = [pc EXCEPT ![c] = "applied"] /\ UNCHANGED <<allowed, status>>
    BY <1>8 DEF ApproveWrite, Write
  <2>2. g.by = "approve" /\ g.rec = c.rec /\ g.rec # None /\ g.value \in Nat
    BY <1>r
  <2> HIDE DEF g
  <2>3. TypeOK'
    BY <1>r, <2>1, <2>2
  <2>4. Marks'
    BY <2>1, <2>2 DEF Marks
  <2>5. changes \subseteq changes' /\ (AppliedTookEffect => AppliedTookEffect')
    BY <2>1 DEF AppliedTookEffect
  <2> QED
    BY <2>3, <2>4, <2>5
<1>9. ASSUME NEW c \in Calls, ApproveMark(c) PROVE Good
  BY <1>r, <1>9 DEF ApproveMark, Marks, AppliedTookEffect
<1>10. ASSUME NEW c \in Calls, ApplyFails(c) PROVE Good
  BY <1>10 DEF ApplyFails, Marks, AppliedTookEffect
<1>11. ASSUME NEW c \in Calls, Crash(c) PROVE Good
  BY <1>11 DEF Crash, Marks, AppliedTookEffect
<1>12. ASSUME NEW v \in Chosen, Operate(v) PROVE Good
  BY <1>12 DEF Operate, Marks, AppliedTookEffect, RecsAssumption
<1>13. CASE UNCHANGED vars
  BY <1>13 DEF vars, Marks, AppliedTookEffect
<1> HIDE DEF Good
<1> QED
  BY <1>1, <1>2, <1>3, <1>4, <1>5, <1>6, <1>7, <1>8, <1>9, <1>10, <1>11, <1>12, <1>13
     DEF Next

\* The check and the write of a fetch are two transactions: what comes between them lowers
\* the floor if it lowers the weight, because only a human does.
LEMMA FlooredStep ==
    ASSUME RecsAssumption, CallsAssumption, TypeOK, Marks, Floored, [Next]_vars
    PROVE  Floored'
<1>n. /\ HumanChoices \subseteq Nat
      /\ \A c \in Calls : ValueOf[c.rec] \in Nat
      /\ None \notin Nat /\ Chosen \subseteq Nat
  BY DEF HumanChoices, Marks, RecsAssumption, CallsAssumption
<1>1. ASSUME NEW c \in Calls, CheckOnlyTighten(c) PROVE Floored'
  <2>1. HumanChoices' = HumanChoices /\ Effective' = Effective
    BY <1>1 DEF CheckOnlyTighten, HumanChoices, Effective
  <2>2. Effective \in Nat /\ ValueOf[c.rec] \in Nat
    BY <1>n DEF Effective, TypeOK, RecsAssumption
  <2>3. CASE ValueOf[c.rec] < Effective
    BY <1>1, <2>3, FlooredByRest DEF CheckOnlyTighten, Go, TypeOK
  <2>4. CASE ~ (ValueOf[c.rec] < Effective)
    <3>1. AboveHumans(ValueOf[c.rec])
      <4>1. PICK h \in HumanChoices : h <= Effective
        BY DEF Floored, AboveHumans
      <4> QED
        BY <1>n, <2>2, <2>4, <4>1 DEF AboveHumans
    <3>2. \A b \in Calls : pc'[b] = "write" => b = c \/ pc[b] = "write"
      BY <1>1 DEF CheckOnlyTighten, Go, TypeOK
    <3> QED
      BY <2>1, <3>1, <3>2 DEF Floored, AboveHumans
  <2> QED
    BY <2>3, <2>4
<1>2. ASSUME NEW c \in Calls, AutoWrite(c) PROVE Floored'
  <2> DEFINE g == [by |-> "fetch", rec |-> c.rec, value |-> ValueOf[c.rec]]
  <2>1. /\ pc[c] = "write" /\ weight' = ValueOf[c.rec] /\ changes' = changes \cup {g}
        /\ pc' = [pc EXCEPT ![c] = "mark"]
    BY <1>2 DEF AutoWrite, Write, Go
  <2>2. AboveHumans(ValueOf[c.rec]) /\ \A b \in Calls : pc'[b] = "write" => pc[b] = "write"
    BY <2>1 DEF Floored, TypeOK
  <2>3. ValueOf[c.rec] \in Nat /\ ValueOf[c.rec] # None /\ g.value = ValueOf[c.rec]
    BY <1>n
  <2> HIDE DEF g
  <2> QED
    BY <1>n, <2>1, <2>2, <2>3, FlooredByWrite
<1>3. ASSUME NEW c \in Calls, ApproveWrite(c) PROVE Floored'
  <2> DEFINE g == [by |-> "approve", rec |-> c.rec, value |-> ValueOf[c.rec]]
  <2>1. /\ weight' = ValueOf[c.rec] /\ changes' = changes \cup {g}
        /\ pc' = [pc EXCEPT ![c] = "applied"]
    BY <1>3 DEF ApproveWrite, Write, Go
  <2>2. \A b \in Calls : pc'[b] = "write" => pc[b] = "write"
    BY <2>1 DEF TypeOK
  <2>3. /\ ValueOf[c.rec] \in Nat /\ ValueOf[c.rec] # None
        /\ g.value = ValueOf[c.rec] /\ g.by # "fetch"
    BY <1>n
  <2> HIDE DEF g
  <2> QED
    BY <1>n, <2>1, <2>2, <2>3, FlooredByWrite
<1>4. ASSUME NEW v \in Chosen, Operate(v) PROVE Floored'
  <2> DEFINE g == [by |-> "operator", rec |-> None, value |-> v]
  <2>1. /\ weight' = v /\ changes' = changes \cup {g} /\ pc' = pc
        /\ v \in Nat /\ v # None /\ g.value = v /\ g.by # "fetch"
    BY <1>4, <1>n DEF Operate
  <2> HIDE DEF g
  <2> QED
    BY <1>n, <2>1, FlooredByWrite
<1>5. ASSUME NEW c \in Calls,
             \/ Persist(c) \/ AutoMark(c) \/ FetchAgain(c) \/ LookPending(c) \/ Decide(c)
             \/ ApproveMark(c) \/ ApplyFails(c) \/ Crash(c)
      PROVE  /\ changes' = changes /\ weight' = weight
             /\ \A b \in Calls : pc'[b] = "write" => pc[b] = "write"
  BY <1>5 DEF Persist, AutoMark, FetchAgain, LookPending, Decide, ApproveMark, ApplyFails,
     Crash, Go, TypeOK
<1>6. CASE UNCHANGED vars
  BY <1>6, FlooredByRest DEF vars
<1> QED
  BY <1>1, <1>2, <1>3, <1>4, <1>5, <1>6, FlooredByRest DEF Next

\* For any recommendations, allowlists and calls: what a row says was applied took effect,
\* and no fetch takes the weight below what is built in or a human chose.
THEOREM InboundKeptHolds ==
    ASSUME RecsAssumption, CallsAssumption PROVE Spec => [](TypeOK /\ InboundKept)
<1>1. Init => InboundInv
  <2> SUFFICES ASSUME Init PROVE InboundInv
    OBVIOUS
  <2>0. TypeOK
    BY DEF Init, TypeOK, Statuses
  <2>1. TypeOK /\ Marks /\ AppliedTookEffect
    BY <2>0 DEF Init, Marks, AppliedTookEffect, RecsAssumption
  <2>2. HumanChoices = {Default} /\ Effective = Default /\ Default \in Nat
    BY DEF Init, HumanChoices, Effective, RecsAssumption
  <2>3. Floored
    BY <2>2 DEF Floored, AboveHumans, Init
  <2> QED
    BY <2>1, <2>3 DEF InboundInv, Init, RecsAssumption
<1>2. InboundInv /\ [Next]_vars => InboundInv'
  <2> SUFFICES ASSUME InboundInv, [Next]_vars PROVE InboundInv'
    OBVIOUS
  <2>1. TypeOK' /\ Marks' /\ AppliedTookEffect'
    BY InboundTypeStep DEF InboundInv
  <2>2. Floored'
    BY FlooredStep DEF InboundInv
  <2>3. allowed' = allowed
    BY DEF Next, vars, Persist, CheckOnlyTighten, AutoWrite, AutoMark, FetchAgain, LookPending,
       Decide, ApproveWrite, Write, ApproveMark, ApplyFails, Crash, Operate
  <2>4. \/ \E c \in Calls : AutoWrite(c)
        \/ \A g \in changes' : g.by = "fetch" => g \in changes
    BY DEF Next, vars, Persist, CheckOnlyTighten, AutoMark, FetchAgain, LookPending,
       Decide, ApproveWrite, Write, ApproveMark, ApplyFails, Crash, Operate
  <2>5. \A g \in changes' : g.by = "fetch" => g.rec \in allowed'
    <3>1. ASSUME NEW c \in Calls, AutoWrite(c)
          PROVE  \A g \in changes' : g.by = "fetch" => g.rec \in allowed'
      BY <2>3, <3>1 DEF AutoWrite, Write, InboundInv, Marks
    <3> QED
      BY <2>3, <2>4, <3>1 DEF InboundInv
  <2> QED
    BY <2>1, <2>2, <2>3, <2>5 DEF InboundInv
<1>3. ASSUME InboundInv PROVE TypeOK /\ InboundKept
  <2>1. HumanChoices \subseteq Nat /\ Effective \in Nat
    BY <1>3 DEF InboundInv, HumanChoices, Effective, Marks, TypeOK, RecsAssumption
  <2>2. Effective >= HumanFloor
    BY <1>3, <2>1, FloorIsLowest DEF InboundInv, Floored
  <2> QED
    BY <1>3, <2>2 DEF InboundInv, InboundKept, OnlyTightened
<1> QED
  BY <1>1, <1>2, <1>3, PTL DEF Spec
-----------------------------------------------------------------------------
(* The nonces of requests.  An acceptance holds the key for MaxAge, so two *)
(* acceptances are MaxAge apart: while the timestamp is fresh, which is    *)
(* MaxAge before it and MaxAge after, there is room for three.             *)

\* ReplayProtection counts sets as the theorems of the library do.
LEMMA NonceSets ==
    ASSUME NEW S
    PROVE  Nonce!Cardinality(S) = Cardinality(S) /\ (Nonce!IsFiniteSet(S) <=> IsFiniteSet(S))
BY DEF Nonce!Cardinality, Cardinality, Nonce!IsFiniteSet, IsFiniteSet

\* One more element adds at most one.
LEMMA OneMore ==
    ASSUME NEW S, IsFiniteSet(S), NEW n \in Nat, Cardinality(S) <= n, NEW e
    PROVE  IsFiniteSet(S \cup {e}) /\ Cardinality(S \cup {e}) <= n + 1
<1>1. Cardinality(S) \in Nat
  BY FS_CardinalityType
<1>2. /\ IsFiniteSet(S \cup {e})
      /\ \/ Cardinality(S \cup {e}) = Cardinality(S)
         \/ Cardinality(S \cup {e}) = Cardinality(S) + 1
  BY FS_AddElement
<1> QED
  BY <1>1, <1>2

\* At first nothing is accepted.
LEMMA NoncesInit == ASSUME Nonce!NoncesAssumption, Nonce!Init PROVE Nonce!NoncesInv
<1>1. /\ accepted = {} /\ now = 0 /\ heldUntil = 0 /\ stamp \in Stamps \cup {Untimed}
      /\ judged = [c \in Presented |-> None]
  BY DEF Nonce!Init
<1>2. 0 \in Nonce!Times /\ 0 \in 0..(Horizon + MaxAge)
  BY DEF Nonce!NoncesAssumption, Nonce!Times
<1>3. Nonce!TypeOK
  BY <1>1, <1>2 DEF Nonce!TypeOK
<1>4. Nonce!HeldSince /\ Nonce!OnceUnlessHeldUp /\ Nonce!LifetimeApart
  BY <1>1 DEF Nonce!HeldSince, Nonce!OnceUnlessHeldUp, Nonce!LifetimeApart
<1> QED
  BY <1>3, <1>4 DEF Nonce!NoncesInv

\* A judgement puts down a time at which the timestamp is fresh.
LEMMA JudgeKeeps ==
    ASSUME Nonce!NoncesAssumption, Nonce!NoncesInv, NEW c \in Presented, Nonce!Judge(c)
    PROVE  Nonce!NoncesInv'
<1> USE DEF Nonce!NoncesInv, Nonce!TypeOK
<1>1. /\ judged' = [judged EXCEPT ![c] = now] /\ Nonce!Judged(now)
      /\ now' = now /\ stamp' = stamp /\ heldUntil' = heldUntil /\ accepted' = accepted
  <2>1. stamp # Untimed => stamp \in Int /\ now \in Int
    BY DEF Nonce!NoncesAssumption, Nonce!Times
  <2> QED  BY <2>1 DEF Nonce!Judge, Nonce!Fresh, Nonce!Judged
<1>2. Nonce!TypeOK'
  BY <1>1
<1>3. Nonce!HeldSince'
  <2>1. ASSUME NEW d \in Presented, judged'[d] # None
        PROVE  judged'[d] <= now /\ Nonce!Judged(judged'[d])
    <3>1. CASE d = c
      BY <1>1, <3>1, now <= now DEF Nonce!NoncesAssumption, Nonce!Times
    <3>2. CASE d # c
      BY <1>1, <2>1, <3>2 DEF Nonce!HeldSince
    <3> QED  BY <3>1, <3>2
  <2> QED  BY <1>1, <2>1 DEF Nonce!HeldSince, Nonce!Judged
<1> QED
  BY <1>1, <1>2, <1>3 DEF Nonce!OnceUnlessHeldUp, Nonce!LifetimeApart

\* An answer leaves every other presentation as it was.
LEMMA AnsweredKeeps ==
    ASSUME Nonce!NoncesInv, NEW c \in Presented, Nonce!Answered(c)
    PROVE  /\ now' = now /\ stamp' = stamp
           /\ judged' \in [Presented -> Nonce!Times \cup {None}]
           /\ \A d \in Presented :
                judged'[d] # None => judged'[d] <= now /\ Nonce!Judged(judged'[d])
BY DEF Nonce!NoncesInv, Nonce!TypeOK, Nonce!Answered, Nonce!HeldSince

\* Whoever is accepted has found the key expired, and sets it again.
LEMMA AcceptKeeps ==
    ASSUME Nonce!NoncesAssumption, Nonce!NoncesInv, NEW c \in Presented, Nonce!Accept(c)
    PROVE  Nonce!NoncesInv'
<1> USE DEF Nonce!NoncesAssumption, Nonce!NoncesInv, Nonce!TypeOK, Nonce!Times
<1> DEFINE z == [judged |-> judged[c], at |-> now]
<1>1. /\ accepted' = accepted \cup {z} /\ heldUntil' = now + MaxAge
      /\ heldUntil <= now /\ judged[c] # None
  BY DEF Nonce!Accept, Nonce!Held, Nonce!Answered
<1>2. z.at = now /\ z.judged = judged[c] /\ z \in [judged : 0..Horizon, at : 0..Horizon]
  BY <1>1
<1>3. z.judged <= now /\ Nonce!Judged(z.judged)
  BY <1>1, <1>2 DEF Nonce!HeldSince
<1>4. \A x \in accepted : x.at \in Int /\ x.at + MaxAge <= now
  BY <1>1 DEF Nonce!HeldSince
<1>5. /\ now' = now /\ stamp' = stamp /\ judged' \in [Presented -> Nonce!Times \cup {None}]
      /\ \A d \in Presented : judged'[d] # None => judged'[d] <= now /\ Nonce!Judged(judged'[d])
  BY AnsweredKeeps DEF Nonce!Accept
<1> HIDE DEF z
<1>6. Nonce!TypeOK'
  BY <1>1, <1>2, <1>5
<1>7. Nonce!HeldSince'
  <2>1. ASSUME NEW x \in accepted'
        PROVE  /\ x.judged <= x.at /\ Nonce!Judged(x.judged)
               /\ x.at <= now /\ x.at + MaxAge <= now + MaxAge
    <3>1. CASE x \in accepted
      BY <1>4, <3>1 DEF Nonce!HeldSince
    <3>2. CASE x = z
      BY <1>2, <1>3, <3>2
    <3> QED  BY <1>1, <3>1, <3>2
  <2> QED  BY <1>1, <1>5, <2>1 DEF Nonce!HeldSince, Nonce!Judged
<1>8. ASSUME NEW x \in accepted', NEW y \in accepted', x.at < y.at
      PROVE  /\ y.at - x.at >= MaxAge
             /\ stamp # Untimed => y.at - y.judged >= x.at - stamp
  <2>1. x \in accepted
    BY <1>1, <1>2, <1>4, <1>8
  <2>2. CASE y \in accepted
    BY <1>8, <2>1, <2>2 DEF Nonce!OnceUnlessHeldUp, Nonce!LifetimeApart
  <2>3. CASE y = z
    <3>1. y.at - x.at >= MaxAge
      BY <1>2, <1>4, <2>1, <2>3
    <3>2. ASSUME stamp # Untimed PROVE y.at - y.judged >= x.at - stamp
      <4>1. stamp \in Int /\ y.judged - stamp <= MaxAge
        BY <1>3, <2>3, <3>2 DEF Nonce!Judged
      <4>2. y.at \in Int /\ x.at \in Int /\ y.judged \in Int
        BY <1>2, <1>4, <2>1, <2>3
      <4> QED  BY <3>1, <4>1, <4>2
    <3> QED  BY <3>1, <3>2
  <2> QED  BY <1>1, <2>2, <2>3
<1> QED
  BY <1>5, <1>6, <1>7, <1>8 DEF Nonce!OnceUnlessHeldUp, Nonce!LifetimeApart

\* An answer that accepts nothing does not shorten the life of the key.
LEMMA PassKeeps ==
    ASSUME Nonce!NoncesAssumption, Nonce!NoncesInv, NEW c \in Presented,
           Nonce!Refuse(c) \/ Nonce!FailOpen(c)
    PROVE  Nonce!NoncesInv'
<1> USE DEF Nonce!NoncesAssumption, Nonce!NoncesInv, Nonce!TypeOK, Nonce!Times
<1>1. /\ accepted' = accepted
      /\ heldUntil' \in 0..(Horizon + MaxAge) /\ heldUntil' >= heldUntil
  BY DEF Nonce!Refuse, Nonce!FailOpen, Nonce!Held
<1>2. /\ now' = now /\ stamp' = stamp /\ judged' \in [Presented -> Nonce!Times \cup {None}]
      /\ \A d \in Presented : judged'[d] # None => judged'[d] <= now /\ Nonce!Judged(judged'[d])
  BY AnsweredKeeps DEF Nonce!Refuse, Nonce!FailOpen
<1>3. Nonce!HeldSince'
  BY <1>1, <1>2 DEF Nonce!HeldSince, Nonce!Judged
<1> QED
  BY <1>1, <1>2, <1>3 DEF Nonce!OnceUnlessHeldUp, Nonce!LifetimeApart

\* Every step keeps what is known of the key and of what it accepted.
LEMMA NoncesStep ==
    ASSUME Nonce!NoncesAssumption, Nonce!NoncesInv, [Nonce!Next]_(Nonce!vars)
    PROVE  Nonce!NoncesInv'
<1>1. CASE \E c \in Presented :
              Nonce!Judge(c) \/ Nonce!Accept(c) \/ Nonce!Refuse(c) \/ Nonce!FailOpen(c)
  BY <1>1, JudgeKeeps, AcceptKeeps, PassKeeps
<1>2. CASE Nonce!Tick
  <2> USE DEF Nonce!NoncesAssumption, Nonce!NoncesInv, Nonce!TypeOK, Nonce!Times
  <2>1. /\ now' = now + 1 /\ now' \in 0..Horizon /\ stamp' = stamp /\ judged' = judged
        /\ heldUntil' = heldUntil /\ accepted' = accepted
    BY <1>2 DEF Nonce!Tick
  <2>2. Nonce!HeldSince'
    BY <2>1 DEF Nonce!HeldSince, Nonce!Judged
  <2> QED  BY <2>1, <2>2 DEF Nonce!OnceUnlessHeldUp, Nonce!LifetimeApart
<1>3. CASE UNCHANGED Nonce!vars
  BY <1>3 DEF Nonce!vars, Nonce!NoncesInv, Nonce!TypeOK, Nonce!HeldSince, Nonce!Judged,
              Nonce!OnceUnlessHeldUp, Nonce!LifetimeApart
<1> QED
  BY <1>1, <1>2, <1>3 DEF Nonce!Next

\* Of moments a lifetime apart, and within one of the timestamp, three at most.
LEMMA ThreeAtMost ==
    ASSUME Nonce!NoncesAssumption, Nonce!NoncesInv, stamp # Untimed
    PROVE  Cardinality(Nonce!WhileFresh) <= 3
<1> DEFINE S == Nonce!WhileFresh
<1>1. \A a \in S : a \in Int /\ a - stamp <= MaxAge /\ stamp - a <= MaxAge
  <2>1. SUFFICES ASSUME NEW x \in accepted, x.at - stamp <= MaxAge
                 PROVE  x.at \in Int /\ stamp - x.at <= MaxAge
    BY DEF Nonce!WhileFresh
  <2> QED
    BY DEF Nonce!NoncesAssumption, Nonce!NoncesInv, Nonce!TypeOK, Nonce!Times,
           Nonce!HeldSince, Nonce!Judged
<1>2. \A a, b \in S : a < b => b - a >= MaxAge
  BY DEF Nonce!WhileFresh, Nonce!NoncesInv, Nonce!LifetimeApart
<1>3. stamp \in Int /\ MaxAge \in Nat
  BY DEF Nonce!NoncesAssumption, Nonce!NoncesInv, Nonce!TypeOK
<1> HIDE DEF S
<1>4. PICK x \in Int : \A a \in S : a < stamp => a = x
  <2>1. CASE \E a \in S : a < stamp
    <3>1. PICK x \in S : x < stamp
      BY <2>1
    <3>2. ASSUME NEW a \in S, a < stamp PROVE a = x
      BY <1>1, <1>2, <1>3, <3>1, <3>2
    <3> QED  BY <1>1, <3>1, <3>2
  <2>2. CASE ~ \E a \in S : a < stamp
    BY <2>2, 0 \in Int
  <2> QED  BY <2>1, <2>2
<1>5. PICK y \in Int : \A a \in S : a > stamp => a = y
  <2>1. CASE \E a \in S : a > stamp
    <3>1. PICK y \in S : y > stamp
      BY <2>1
    <3>2. ASSUME NEW a \in S, a > stamp PROVE a = y
      BY <1>1, <1>2, <1>3, <3>1, <3>2
    <3> QED  BY <1>1, <3>1, <3>2
  <2>2. CASE ~ \E a \in S : a > stamp
    BY <2>2, 0 \in Int
  <2> QED  BY <2>1, <2>2
<1>6. S \subseteq {x, stamp, y}
  BY <1>1, <1>3, <1>4, <1>5
<1>7. IsFiniteSet({x, stamp, y}) /\ Cardinality({x, stamp, y}) <= 3
  <2>1. IsFiniteSet({x}) /\ Cardinality({x}) <= 1
    <3>1. IsFiniteSet({x}) /\ Cardinality({x}) = 1
      BY FS_Singleton
    <3> QED
      BY <3>1
  <2>2. IsFiniteSet({x} \cup {stamp}) /\ Cardinality({x} \cup {stamp}) <= 1 + 1
    BY <2>1, OneMore, 1 \in Nat, Zenon
  <2>3. /\ IsFiniteSet(({x} \cup {stamp}) \cup {y})
        /\ Cardinality(({x} \cup {stamp}) \cup {y}) <= (1 + 1) + 1
    BY <2>2, OneMore, 1 + 1 \in Nat, Zenon
  <2>4. ({x} \cup {stamp}) \cup {y} = {x, stamp, y}
    OBVIOUS
  <2> QED  BY <2>3, <2>4
<1>8. IsFiniteSet(S) /\ Cardinality(S) <= Cardinality({x, stamp, y})
  BY <1>6, <1>7, FS_Subset
<1>9. Cardinality(S) \in Nat /\ Cardinality({x, stamp, y}) \in Nat
  BY <1>7, <1>8, FS_CardinalityType
<1> QED
  BY <1>7, <1>8, <1>9 DEF S

\* For any clock, timestamp and lifetime, and however long a presentation waits for its
\* SET: a request with a timestamp is accepted again only by a presentation held up for
\* as long as the first was late, any two acceptances are a lifetime of the nonce apart,
\* and three at most come while the timestamp is fresh.
THEOREM NoncesKeptHolds == ASSUME Nonce!NoncesAssumption PROVE Nonce!Spec => []Nonce!NoncesKept
<1>1. Nonce!Init => Nonce!NoncesInv
  BY NoncesInit
<1>2. Nonce!NoncesInv /\ [Nonce!Next]_(Nonce!vars) => Nonce!NoncesInv'
  BY NoncesStep
<1>3. Nonce!NoncesInv => Nonce!NoncesKept
  BY ThreeAtMost, NonceSets DEF Nonce!NoncesInv, Nonce!NoncesKept, Nonce!ThreeWhileFresh
<1> QED  BY <1>1, <1>2, <1>3, PTL DEF Nonce!Spec

-----------------------------------------------------------------------------
(* The weights.  A check stands until its write; a hash has met what it    *)
(* reads, layer by layer; an entry of a cache tells why it is out of date. *)

\* So does WeightOverrides,
LEMMA WeightSets ==
    ASSUME NEW S
    PROVE  Weight!Cardinality(S) = Cardinality(S) /\ (Weight!IsFiniteSet(S) <=> IsFiniteSet(S))
BY DEF Weight!Cardinality, Cardinality, Weight!IsFiniteSet, IsFiniteSet

OverridesAssumption ==
    /\ Weight!WritesAssumption /\ Weight!HashesAssumption /\ Weight!PlansAssumption
    /\ Weight!NumbersAssumption

\* The weights in force, as functions of the rows.
LEMMA WeightsInForce ==
    ASSUME OverridesAssumption, Weight!TypeOK
    PROVE  /\ \A layer \in Weight!Layers, s \in Scopes : Weight!WeightIn(layer, s) \in Nat
           /\ \A layer \in Weight!Layers :
                /\ Weight!Policy(layer) \in [Scopes -> Nat]
                /\ \A s \in Scopes : Weight!Policy(layer)[s] = Weight!WeightIn(layer, s)
<1>1. ASSUME NEW layer \in Weight!Layers, NEW s \in Scopes
      PROVE  Weight!WeightIn(layer, s) \in Nat
  <2>1. /\ override["tenant"][s] \in Nat \cup {None}
        /\ override["platform"][s] \in Nat \cup {None} /\ Default \in Nat
    BY DEF OverridesAssumption, Weight!NumbersAssumption, Weight!TypeOK, Weight!Weights,
           Weight!Layers
  <2> QED  BY <2>1 DEF Weight!WeightIn
<1>2. ASSUME NEW layer \in Weight!Layers
      PROVE  /\ Weight!Policy(layer) \in [Scopes -> Nat]
             /\ \A s \in Scopes : Weight!Policy(layer)[s] = Weight!WeightIn(layer, s)
  BY <1>1 DEF Weight!Policy
<1> QED  BY <1>1, <1>2

\* The view of a layer, and what it makes of a scope.
LEMMA WeightsInView ==
    ASSUME OverridesAssumption, Weight!TypeOK, NEW layer \in Weight!Layers
    PROVE  /\ Weight!View(layer) \in Weight!Views
           /\ \A s \in Scopes : /\ Weight!In(Weight!View(layer), s) = Weight!WeightIn(layer, s)
                                /\ Weight!View(layer).platform[s] = Weight!Platform(s)
<1>1. /\ Weight!Policy("platform") \in [Scopes -> Nat]
      /\ \A s \in Scopes : Weight!Policy("platform")[s] = Weight!Platform(s)
  BY WeightsInForce DEF Weight!Layers, Weight!Platform
<1>2. /\ override["tenant"] \in [Scopes -> Weight!Weights]
      /\ Weight!Nothing \in [Scopes -> Weight!Weights] /\ Weight!Nothing = [s \in Scopes |-> None]
  BY DEF Weight!TypeOK, Weight!Layers, Weight!Nothing, Weight!Weights
<1>3. ASSUME NEW s \in Scopes
      PROVE  Weight!In(Weight!View(layer), s) = Weight!WeightIn(layer, s)
  <2>1. CASE layer = "tenant"
    BY <1>1, <2>1 DEF Weight!In, Weight!View, Weight!WeightIn, Weight!Platform
  <2>2. CASE layer = "platform"
    BY <1>1, <1>2, <2>2 DEF Weight!In, Weight!View, Weight!WeightIn, Weight!Platform
  <2> QED  BY <2>1, <2>2 DEF Weight!Layers
<1> QED
  BY <1>1, <1>2, <1>3 DEF Weight!View, Weight!Views

\* Where no row changes no weight does.
LEMMA WeightsStay ==
    ASSUME override' = override
    PROVE  /\ \A layer \in Weight!Layers, s \in Scopes :
                Weight!WeightIn(layer, s)' = Weight!WeightIn(layer, s)
           /\ \A layer \in Weight!Layers :
                /\ Weight!Policy(layer)' = Weight!Policy(layer)
                /\ Weight!View(layer)' = Weight!View(layer)
BY DEF Weight!WeightIn, Weight!Policy, Weight!View, Weight!Layers

\* What a write makes of the rows, and of the weights in force.
LEMMA WeightWritten ==
    ASSUME OverridesAssumption, Weight!TypeOK, NEW w \in Writes, Weight!WriteRow(w)
    PROVE  /\ override' \in [Weight!Layers -> [Scopes -> Weight!Weights]]
           /\ \A layer \in Weight!Layers, s \in Scopes :
                override'[layer][s] =
                    IF layer = w.layer /\ s = w.scope THEN w.value ELSE override[layer][s]
<1>1. /\ w.layer \in Weight!Layers /\ w.scope \in Scopes /\ w.value \in Weight!Weights
      /\ override \in [Weight!Layers -> [Scopes -> Weight!Weights]]
      /\ override' = [override EXCEPT ![w.layer][w.scope] = w.value]
  BY DEF OverridesAssumption, Weight!WritesAssumption, Weight!Weights, Weight!TypeOK,
         Weight!WriteRow
<1> QED  BY <1>1

\* A write gives a row a weight or None, and a hash reads weights.
LEMMA WeightTypeStep ==
    ASSUME OverridesAssumption, Weight!TypeOK, Weight!ReadsMet, [Weight!Next]_(Weight!vars)
    PROVE  Weight!TypeOK'
<1> USE DEF OverridesAssumption, Weight!TypeOK, Weight!Go, Weight!table
<1>1. ASSUME NEW w \in Writes, Weight!Check(w) PROVE Weight!TypeOK'
  BY <1>1 DEF Weight!Check
<1>2. ASSUME NEW w \in Writes, Weight!WriteRow(w) PROVE Weight!TypeOK'
  <2>1. override' \in [Weight!Layers -> [Scopes -> Weight!Weights]]
    BY <1>2, WeightWritten
  <2>2. met' \in [Hashes -> SUBSET Weight!Views]
    <3>1. ASSUME NEW s \in Scopes PROVE Weight!WeightIn("platform", s)' \in Nat
      BY <2>1 DEF Weight!WeightIn, Weight!NumbersAssumption, Weight!Weights, Weight!Layers
    <3>2. ASSUME NEW h \in Hashes PROVE Weight!View(h.layer)' \in Weight!Views
      BY <2>1, <3>1 DEF Weight!View, Weight!Views, Weight!Policy, Weight!Layers, Weight!Nothing,
                        Weight!Weights
    <3>3. met' = [h \in Hashes |->
                    IF Weight!Computing(h) THEN met[h] \cup {Weight!View(h.layer)'} ELSE met[h]]
      BY <1>2 DEF Weight!WriteRow
    <3> QED  BY <3>2, <3>3
  <2>3. cache' \in [Processes -> [Weight!Layers -> Weight!Entries \cup {None}]]
    <3>1. ASSUME NEW p \in Processes, NEW layer \in Weight!Layers, cache[p][layer] # None
          PROVE  [cache[p][layer] EXCEPT !.foreign = TRUE] \in Weight!Entries
      <4>1. cache[p][layer] \in Weight!Entries
        BY <3>1
      <4> QED  BY <4>1 DEF Weight!Entries
    <3>2. cache' = [p \in Processes |-> [layer \in Weight!Layers |->
                    IF cache[p][layer] = None \/ p = w.proc THEN cache[p][layer]
                    ELSE [cache[p][layer] EXCEPT !.foreign = TRUE]]]
      BY <1>2 DEF Weight!WriteRow
    <3>3. ASSUME NEW p \in Processes, NEW layer \in Weight!Layers
          PROVE  cache[p][layer] \in Weight!Entries \cup {None}
      OBVIOUS
    <3> QED  BY <3>1, <3>2, <3>3
  <2>4. raised' \subseteq Scopes
    BY <1>2 DEF Weight!WriteRow, Weight!WritesAssumption
  <2> QED
    BY <1>2, <2>1, <2>2, <2>3, <2>4 DEF Weight!WriteRow
<1>3. ASSUME NEW w \in Writes, Weight!Invalidate(w) PROVE Weight!TypeOK'
  <2>1. w.proc \in Processes
    BY DEF Weight!WritesAssumption
  <2>2. cache' \in [Processes -> [Weight!Layers -> Weight!Entries \cup {None}]]
    BY <1>3, <2>1 DEF Weight!Invalidate, Weight!Dropped
  <2> QED  BY <1>3, <2>2 DEF Weight!Invalidate
<1>4. ASSUME NEW h \in Hashes, Weight!Lookup(h) PROVE Weight!TypeOK'
  <2>1. Weight!View(h.layer) \in Weight!Views
    BY WeightsInView DEF Weight!HashesAssumption
  <2>2. met' \in [Hashes -> SUBSET Weight!Views]
    BY <1>4, <2>1 DEF Weight!Lookup
  <2> QED  BY <1>4, <2>2 DEF Weight!Lookup
<1>5. ASSUME NEW h \in Hashes, Weight!ReadPlatform(h) \/ Weight!ReadTenant(h)
      PROVE  Weight!TypeOK'
  <2>1. PICK s \in Scopes :
            \/ /\ \/ Weight!HasRead(h, s, Weight!Platform(s))
                  \/ UNCHANGED <<Weight!table, cache, pc, read, met, raised>>
               /\ under' \in {under, [under EXCEPT ![h][s] = Weight!Platform(s)]}
            \/ /\ Weight!HasRead(h, s, IF override["tenant"][s] # None
                                        THEN override["tenant"][s] ELSE under[h][s])
               /\ under' = [under EXCEPT ![h][s] = None]
    BY <1>5 DEF Weight!ReadPlatform, Weight!ReadTenant
  <2>2. /\ Weight!Platform(s) \in Weight!Weights /\ None \in Weight!Weights
        /\ override["tenant"][s] \in Weight!Weights /\ under[h][s] \in Weight!Weights
    BY WeightsInForce DEF Weight!Weights, Weight!Layers, Weight!Platform
  <2>3. under' \in [Hashes -> [Scopes -> Weight!Weights]]
    <3>1. \A v \in Weight!Weights :
              [under EXCEPT ![h][s] = v] \in [Hashes -> [Scopes -> Weight!Weights]]
      OBVIOUS
    <3> QED  BY <2>1, <2>2, <3>1
  <2>4. ASSUME NEW v \in Weight!Weights, Weight!HasRead(h, s, v)
        PROVE  /\ read' \in [Hashes -> [Scopes -> Weight!Weights]]
               /\ UNCHANGED <<now, override, cache, met, raised>>
               /\ pc' \in {[pc EXCEPT ![h] = "reading"], [pc EXCEPT ![h] = "storing"]}
    BY <2>4 DEF Weight!HasRead
  <2>5. CASE UNCHANGED <<Weight!table, cache, pc, read, met, raised>>
    BY <2>3, <2>5
  <2>6. CASE \E v \in Weight!Weights : Weight!HasRead(h, s, v)
    BY <2>3, <2>4, <2>6
  <2> QED  BY <2>1, <2>2, <2>5, <2>6
<1>6. ASSUME NEW h \in Hashes, Weight!Store(h) PROVE Weight!TypeOK'
  <2>1. read[h] \in [Scopes -> Nat]
    BY <1>6 DEF Weight!Store, Weight!ReadsMet, Weight!Weights
  <2>2. now + Life \in 0..(Horizon + Life)
    BY DEF Weight!NumbersAssumption
  <2>3. (Cardinality(met[h]) > 1) \in BOOLEAN
    OBVIOUS
  <2>4. [policy |-> read[h], until |-> now + Life, foreign |-> FALSE,
         disturbed |-> Cardinality(met[h]) > 1] \in Weight!Entries
    BY <2>1, <2>2, <2>3, Zenon DEF Weight!Entries
  <2>5. h.proc \in Processes /\ h.layer \in Weight!Layers
    BY DEF Weight!HashesAssumption
  <2>6. cache' \in [Processes -> [Weight!Layers -> Weight!Entries \cup {None}]]
    <3> DEFINE e == [policy |-> read[h], until |-> now + Life, foreign |-> FALSE,
                     disturbed |-> Cardinality(met[h]) > 1]
    <3>1. cache' = [cache EXCEPT ![h.proc][h.layer] = e] /\ e \in Weight!Entries
      BY <1>6, <2>4, WeightSets DEF Weight!Store
    <3> HIDE DEF e
    <3> QED  BY <2>5, <3>1
  <2> QED  BY <1>6, <2>6 DEF Weight!Store
<1>7. CASE Weight!Tick
  BY <1>7 DEF Weight!Tick, Weight!NumbersAssumption
<1>8. CASE UNCHANGED Weight!vars
  BY <1>8 DEF Weight!vars
<1> QED
  BY <1>1, <1>2, <1>3, <1>4, <1>5, <1>6, <1>7, <1>8 DEF Weight!Next

\* A query of a hash changes what that hash has read, and nothing else.
LEMMA ScopeQueried ==
    ASSUME OverridesAssumption, Weight!TypeOK, NEW h \in Hashes,
           Weight!ReadPlatform(h) \/ Weight!ReadTenant(h)
    PROVE  /\ UNCHANGED <<now, override, cache, met, raised>>
           /\ pc[h] = "reading" /\ pc'[h] \in {"reading", "storing"}
           /\ \A c \in Writes \cup Hashes : c # h => pc'[c] = pc[c]
           /\ \A g \in Hashes : g # h => read'[g] = read[g] /\ under'[g] = under[g]
BY DEF Weight!ReadPlatform, Weight!ReadTenant, Weight!ToRead, Weight!HasRead, Weight!Go,
       Weight!table, Weight!TypeOK

\* What lets a tenant fall below the platform is a raise of the platform's weight.
LEMMA TightenStep ==
    ASSUME OverridesAssumption, Weight!TypeOK, Weight!ChecksStand, Weight!TenantsTighten,
           [Weight!Next]_(Weight!vars)
    PROVE  Weight!ChecksStand' /\ Weight!TenantsTighten'
<1> USE DEF OverridesAssumption, Weight!Go
<1>0. /\ Weight!TypeOK /\ Writes \cap Hashes = {} /\ "tenant" \in Weight!Layers
      /\ "platform" \in Weight!Layers
  BY DEF Weight!PlansAssumption, Weight!Layers
<1>1. ASSUME NEW w \in Writes, Weight!Check(w)
      PROVE  Weight!ChecksStand' /\ Weight!TenantsTighten'
  <2>1. override' = override /\ raised' = raised
    BY <1>1 DEF Weight!Check, Weight!table
  <2>2. Weight!TenantsTighten'
    BY <1>0, <2>1, WeightsStay DEF Weight!TenantsTighten, Weight!Platform
  <2>3. ASSUME NEW v \in Writes, pc'[v] = "write", v.layer = "tenant", v.value # None
        PROVE  v.value >= Weight!Platform(v.scope)' \/ v.scope \in raised'
    <3>1. v.scope \in Scopes
      BY DEF Weight!WritesAssumption
    <3>2. /\ Weight!Platform(v.scope)' = Weight!Platform(v.scope)
          /\ Weight!Platform(v.scope) \in Nat /\ v.value \in Nat
      BY <1>0, <2>1, <2>3, <3>1, WeightsStay, WeightsInForce
         DEF Weight!Platform, Weight!WritesAssumption
    <3>3. CASE v = w
      BY <1>0, <1>1, <2>3, <3>2, <3>3 DEF Weight!Check, Weight!Loosens, Weight!TypeOK
    <3>4. CASE v # w
      BY <1>0, <1>1, <2>1, <2>3, <3>2, <3>4 DEF Weight!Check, Weight!ChecksStand, Weight!TypeOK
    <3> QED  BY <3>3, <3>4
  <2> QED  BY <2>2, <2>3 DEF Weight!ChecksStand
<1>2. ASSUME NEW w \in Writes, Weight!WriteRow(w)
      PROVE  Weight!ChecksStand' /\ Weight!TenantsTighten'
  <2>1. \A layer \in Weight!Layers, s \in Scopes :
            override'[layer][s] =
                IF layer = w.layer /\ s = w.scope THEN w.value ELSE override[layer][s]
    BY <1>0, <1>2, WeightWritten
  <2>2. w.layer \in Weight!Layers /\ w.scope \in Scopes /\ w.value \in Nat \cup {None}
    BY DEF Weight!WritesAssumption
  <2>3. ASSUME NEW s \in Scopes
        PROVE  /\ Weight!Platform(s) \in Nat /\ Weight!Platform(s)' \in Nat
               /\ (s # w.scope \/ w.layer = "tenant") => Weight!Platform(s)' = Weight!Platform(s)
    BY <1>0, <2>1, <2>2, WeightsInForce
       DEF Weight!Platform, Weight!WeightIn, Weight!NumbersAssumption
  <2>4. \A s \in Scopes :
            s \in raised' \/ (s \notin raised /\ Weight!Platform(s)' <= Weight!Platform(s))
    BY <1>2, <2>2, <2>3 DEF Weight!WriteRow, Weight!Platform
  <2>5. raised \subseteq raised'
    BY <1>2 DEF Weight!WriteRow
  <2>6. ASSUME NEW v \in Writes, pc'[v] = "write", v.layer = "tenant", v.value # None
        PROVE  v.value >= Weight!Platform(v.scope)' \/ v.scope \in raised'
    <3>1. v.scope \in Scopes /\ v.value \in Nat /\ pc[v] = "write"
      BY <1>0, <1>2, <2>6 DEF Weight!WritesAssumption, Weight!WriteRow, Weight!TypeOK
    <3> QED  BY <2>3, <2>4, <2>5, <2>6, <3>1 DEF Weight!ChecksStand
  <2>7. ASSUME NEW s \in Scopes, Weight!WeightIn("tenant", s)' < Weight!Platform(s)'
        PROVE  s \in raised'
    <3>1. SUFFICES ASSUME s \notin raised' PROVE FALSE
      OBVIOUS
    <3>2. s \notin raised /\ Weight!Platform(s)' <= Weight!Platform(s)
      BY <2>4, <3>1
    <3>3. /\ override'["tenant"][s] # None
          /\ Weight!WeightIn("tenant", s)' = override'["tenant"][s]
      BY <2>3, <2>7 DEF Weight!WeightIn, Weight!Platform
    <3>4. CASE w.layer = "tenant" /\ s = w.scope
      <4>1. override'["tenant"][s] = w.value /\ pc[w] = "write"
        BY <1>0, <1>2, <2>1, <3>4 DEF Weight!WriteRow
      <4>2. w.value >= Weight!Platform(s)
        BY <3>2, <3>3, <3>4, <4>1 DEF Weight!ChecksStand
      <4> QED  BY <2>2, <2>3, <2>7, <3>2, <3>3, <4>1, <4>2
    <3>5. CASE ~ (w.layer = "tenant" /\ s = w.scope)
      <4>1. override'["tenant"][s] = override["tenant"][s]
        BY <1>0, <2>1, <3>5
      <4>2. /\ Weight!WeightIn("tenant", s) = override["tenant"][s]
            /\ Weight!WeightIn("tenant", s) \in Nat
        BY <1>0, <3>3, <4>1, WeightsInForce DEF Weight!WeightIn
      <4>3. Weight!WeightIn("tenant", s) >= Weight!Platform(s)
        BY <2>3, <3>2, <4>2 DEF Weight!TenantsTighten
      <4> QED  BY <2>3, <2>7, <3>2, <3>3, <4>1, <4>2, <4>3
    <3> QED  BY <3>4, <3>5
  <2> QED  BY <2>6, <2>7 DEF Weight!ChecksStand, Weight!TenantsTighten
<1>3. ASSUME override' = override, raised' = raised,
             \A w \in Writes : pc'[w] = "write" => pc[w] = "write"
      PROVE  Weight!ChecksStand' /\ Weight!TenantsTighten'
  <2>1. Weight!TenantsTighten'
    BY <1>0, <1>3, WeightsStay DEF Weight!TenantsTighten, Weight!Platform
  <2>2. ASSUME NEW v \in Writes, pc'[v] = "write", v.layer = "tenant", v.value # None
        PROVE  v.value >= Weight!Platform(v.scope)' \/ v.scope \in raised'
    <3>1. v.scope \in Scopes /\ pc[v] = "write"
      BY <1>3, <2>2 DEF Weight!WritesAssumption
    <3>2. Weight!Platform(v.scope)' = Weight!Platform(v.scope)
      BY <1>0, <1>3, <3>1, WeightsStay DEF Weight!Platform
    <3> QED  BY <1>3, <2>2, <3>1, <3>2 DEF Weight!ChecksStand
  <2> QED  BY <2>1, <2>2 DEF Weight!ChecksStand
<1>4. ASSUME NEW w \in Writes, Weight!Invalidate(w)
      PROVE  Weight!ChecksStand' /\ Weight!TenantsTighten'
  BY <1>0, <1>3, <1>4 DEF Weight!Invalidate, Weight!table, Weight!TypeOK
<1>5. ASSUME NEW h \in Hashes,
             \/ Weight!Lookup(h) \/ Weight!Store(h)
             \/ Weight!ReadPlatform(h) \/ Weight!ReadTenant(h)
      PROVE  Weight!ChecksStand' /\ Weight!TenantsTighten'
  <2>1. CASE Weight!Lookup(h) \/ Weight!Store(h)
    <3>1. override' = override /\ raised' = raised
      BY <2>1 DEF Weight!Lookup, Weight!Store, Weight!table
    <3>2. ASSUME NEW w \in Writes PROVE pc'[w] = pc[w]
      BY <1>0, <2>1 DEF Weight!Lookup, Weight!Store, Weight!TypeOK
    <3> QED  BY <1>3, <3>1, <3>2
  <2>2. CASE Weight!ReadPlatform(h) \/ Weight!ReadTenant(h)
    BY <1>0, <1>3, <2>2, ScopeQueried
  <2> QED  BY <1>5, <2>1, <2>2
<1>6. CASE Weight!Tick \/ UNCHANGED Weight!vars
  BY <1>3, <1>6 DEF Weight!Tick, Weight!vars, Weight!table
<1> QED
  BY <1>1, <1>2, <1>4, <1>5, <1>6 DEF Weight!Next

\* Who computes a hash meets what is in force from the first step on.
LEMMA ScopesReadStep ==
    ASSUME OverridesAssumption, Weight!TypeOK, Weight!ReadsMet, [Weight!Next]_(Weight!vars)
    PROVE  Weight!ReadsMet'
<1> USE DEF OverridesAssumption, Weight!Go
<1>0. Weight!TypeOK /\ Writes \cap Hashes = {} /\ \A h \in Hashes : h.layer \in Weight!Layers
  BY DEF Weight!PlansAssumption, Weight!HashesAssumption
<1> DEFINE Reads(h) ==
        /\ IsFiniteSet(met[h])
        /\ Weight!Computing(h) =>
            Weight!View(h.layer) \in met[h] /\ \A s \in Scopes : Weight!Met(h, s)
        /\ pc[h] = "idle" => \A s \in Scopes : read[h][s] = None /\ under[h][s] = None
        /\ pc[h] = "storing" => \A s \in Scopes : read[h][s] # None
<1>r. \A h \in Hashes : Reads(h)
  BY WeightSets DEF Weight!ReadsMet
<1>s. SUFFICES ASSUME NEW h \in Hashes PROVE Reads(h)'
  BY WeightSets DEF Weight!ReadsMet
<1>1. ASSUME override' = override, met'[h] = met[h], read'[h] = read[h],
             under'[h] = under[h], pc'[h] \in {pc[h], "done"}
      PROVE  Reads(h)'
  <2>1. \A s \in Scopes : Weight!Met(h, s) => Weight!Met(h, s)'
    BY <1>1 DEF Weight!Met, Weight!Torn, Weight!In
  <2> QED
    BY <1>0, <1>1, <1>r, <2>1, WeightsStay DEF Weight!Computing
<1>2. ASSUME NEW w \in Writes, Weight!Check(w) \/ Weight!Invalidate(w) PROVE Reads(h)'
  <2>1. /\ override' = override /\ met' = met /\ read' = read /\ under' = under
        /\ pc'[h] = pc[h]
    BY <1>0, <1>2 DEF Weight!Check, Weight!Invalidate, Weight!table, Weight!TypeOK
  <2> QED  BY <1>1, <2>1
<1>3. ASSUME NEW w \in Writes, Weight!WriteRow(w) PROVE Reads(h)'
  <2>1. /\ read'[h] = read[h] /\ under'[h] = under[h] /\ pc'[h] = pc[h]
        /\ met'[h] = IF Weight!Computing(h) THEN met[h] \cup {Weight!View(h.layer)'} ELSE met[h]
    BY <1>0, <1>3 DEF Weight!WriteRow, Weight!TypeOK
  <2>2. IsFiniteSet(met'[h])
    BY <1>r, <2>1, FS_AddElement
  <2>3. Weight!Computing(h)' <=> Weight!Computing(h)
    BY <2>1 DEF Weight!Computing
  <2>4. ASSUME NEW s \in Scopes, Weight!Met(h, s) PROVE Weight!Met(h, s)'
    <3>1. met[h] \subseteq met'[h]
      BY <2>1
    <3> QED  BY <2>1, <2>4, <3>1 DEF Weight!Met, Weight!Torn, Weight!In
  <2> QED  BY <1>r, <2>1, <2>2, <2>3, <2>4
<1>4. ASSUME NEW g \in Hashes, g # h,
             \/ Weight!Lookup(g) \/ Weight!Store(g)
             \/ Weight!ReadPlatform(g) \/ Weight!ReadTenant(g)
      PROVE  Reads(h)'
  <2>1. CASE Weight!Lookup(g) \/ Weight!Store(g)
    <3>1. /\ override' = override /\ met'[h] = met[h] /\ read' = read /\ under' = under
          /\ pc'[h] = pc[h]
      BY <1>0, <1>4, <2>1 DEF Weight!Lookup, Weight!Store, Weight!table, Weight!TypeOK
    <3> QED  BY <1>1, <3>1
  <2>2. CASE Weight!ReadPlatform(g) \/ Weight!ReadTenant(g)
    BY <1>0, <1>1, <1>4, <2>2, ScopeQueried
  <2> QED  BY <1>4, <2>1, <2>2
<1>5. CASE Weight!Lookup(h)
  <2>1. /\ pc[h] = "idle" /\ read' = read /\ under' = under /\ override' = override
        /\ \/ pc'[h] = "done" /\ met' = met
           \/ pc'[h] = "reading" /\ met'[h] = {Weight!View(h.layer)}
    BY <1>0, <1>5 DEF Weight!Lookup, Weight!table, Weight!TypeOK
  <2>2. CASE pc'[h] = "done" /\ met' = met
    BY <1>1, <2>1, <2>2
  <2>3. CASE pc'[h] = "reading" /\ met'[h] = {Weight!View(h.layer)}
    <3>1. IsFiniteSet(met'[h])
      BY <2>3, FS_Singleton
    <3>2. Weight!View(h.layer)' = Weight!View(h.layer)
      BY <1>0, <2>1, WeightsStay
    <3>3. \A s \in Scopes : read'[h][s] = None /\ under'[h][s] = None
      BY <1>r, <2>1
    <3>4. \A s \in Scopes : Weight!Met(h, s)'
      BY <3>3 DEF Weight!Met
    <3> QED  BY <2>3, <3>1, <3>2, <3>4
  <2> QED  BY <2>1, <2>2, <2>3
<1>6. CASE Weight!ReadPlatform(h) \/ Weight!ReadTenant(h)
  <2> DEFINE V == Weight!View(h.layer)
  <2>1. /\ met'[h] = met[h] /\ V' = V /\ V \in met[h] /\ pc[h] = "reading"
        /\ pc'[h] \in {"reading", "storing"} /\ IsFiniteSet(met[h])
        /\ \A s \in Scopes : Weight!Met(h, s)
    BY <1>0, <1>6, <1>r, ScopeQueried, WeightsStay DEF Weight!Computing
  <2>2. PICK s \in Scopes : Weight!ToRead(h, s) /\
            \/ /\ under[h][s] = None /\ h.layer = "platform"
               /\ Weight!HasRead(h, s, Weight!Platform(s)) /\ UNCHANGED under
            \/ /\ under[h][s] = None /\ h.layer = "tenant"
               /\ under' = [under EXCEPT ![h][s] = Weight!Platform(s)]
               /\ UNCHANGED <<pc, read>>
            \/ /\ under[h][s] # None
               /\ Weight!HasRead(h, s, IF override["tenant"][s] # None
                                       THEN override["tenant"][s] ELSE under[h][s])
               /\ under' = [under EXCEPT ![h][s] = None]
    BY <1>6 DEF Weight!ReadPlatform, Weight!ReadTenant
  <2>3. \A v : Weight!HasRead(h, s, v) =>
            /\ \A r \in Scopes : read'[h][r] = IF r = s THEN v ELSE read[h][r]
            /\ pc'[h] = IF s + 1 \in Scopes THEN "reading" ELSE "storing"
    BY <1>0 DEF Weight!HasRead, Weight!TypeOK
  <2>4. /\ Weight!In(V, s) = Weight!WeightIn(h.layer, s) /\ V.platform[s] = Weight!Platform(s)
        /\ Weight!WeightIn(h.layer, s) # None
    BY <1>0, WeightsInView, WeightsInForce DEF Weight!NumbersAssumption
  <2> HIDE DEF V
  <2>5. ASSUME NEW r \in Scopes, r # s PROVE Weight!Met(h, r)'
    <3>1. read'[h][r] = read[h][r] /\ under'[h][r] = under[h][r]
      BY <1>0, <2>2, <2>3, <2>5 DEF Weight!TypeOK
    <3> QED  BY <2>1, <3>1 DEF Weight!Met, Weight!Torn, Weight!In
  <2>6. ASSUME NEW v, Weight!HasRead(h, s, v), v # None, under'[h][s] = None,
               (\E view \in met[h] : v = Weight!In(view, s)) \/ Weight!Torn(h, s, v)
        PROVE  Reads(h)'
    <3>1. read'[h][s] = v
      BY <2>3, <2>6
    <3>2. Weight!Met(h, s)'
      BY <2>1, <2>6, <3>1 DEF Weight!Met, Weight!Torn, Weight!In
    <3>3. \A r \in Scopes : Weight!Met(h, r)'
      BY <2>5, <3>2
    <3>4. ASSUME pc'[h] = "storing", NEW r \in Scopes PROVE read'[h][r] # None
      <4>1. s + 1 \notin Scopes
        BY <2>3, <2>6, <3>4
      <4>2. r = s \/ r \in 1..(s - 1)
        <5>1. Cardinality(Scopes) \in Nat /\ Scopes = 1..Cardinality(Scopes)
          BY FS_CardinalityType, WeightSets DEF Weight!NumbersAssumption
        <5> QED  BY <4>1, <5>1
      <4> QED  BY <2>2, <2>3, <2>6, <4>2 DEF Weight!ToRead
    <3> QED  BY <2>1, <3>3, <3>4 DEF V
  <2>7. CASE h.layer = "platform" /\ Weight!HasRead(h, s, Weight!Platform(s)) /\ under' = under
    BY <2>1, <2>2, <2>4, <2>6, <2>7 DEF Weight!Platform, Weight!Met
  <2>8. CASE /\ h.layer = "tenant" /\ under' = [under EXCEPT ![h][s] = Weight!Platform(s)]
             /\ UNCHANGED <<pc, read>>
    <3>1. under'[h][s] = V.platform[s]
      BY <1>0, <2>4, <2>8 DEF Weight!TypeOK
    <3>2. Weight!Met(h, s)'
      BY <2>1, <2>8, <3>1 DEF Weight!Met, Weight!Torn, Weight!In
    <3> QED  BY <2>1, <2>5, <2>8, <3>2 DEF V
  <2>9. CASE /\ under[h][s] # None /\ under' = [under EXCEPT ![h][s] = None]
             /\ Weight!HasRead(h, s, IF override["tenant"][s] # None
                                     THEN override["tenant"][s] ELSE under[h][s])
    <3>1. PICK first \in met[h] : h.layer = "tenant" /\ under[h][s] = first.platform[s]
      BY <2>1, <2>9 DEF Weight!Met
    <3>2. under'[h][s] = None
      BY <1>0, <2>9 DEF Weight!TypeOK
    <3>3. V.tenant[s] = override["tenant"][s]
      BY <3>1 DEF V, Weight!View
    <3>4. CASE override["tenant"][s] # None
      BY <2>1, <2>6, <2>9, <3>2, <3>3, <3>4 DEF Weight!In
    <3>5. CASE override["tenant"][s] = None /\ first.tenant[s] = None
      BY <2>6, <2>9, <3>1, <3>2, <3>5 DEF Weight!In
    <3>6. CASE override["tenant"][s] = None /\ V.platform[s] = under[h][s]
      BY <2>1, <2>6, <2>9, <3>2, <3>3, <3>6 DEF Weight!In
    <3>7. CASE /\ override["tenant"][s] = None /\ V.platform[s] # under[h][s]
               /\ first.tenant[s] # None
      BY <2>1, <2>6, <2>9, <3>1, <3>2, <3>3, <3>7 DEF Weight!Torn
    <3> QED  BY <3>4, <3>5, <3>6, <3>7
  <2> QED  BY <2>2, <2>7, <2>8, <2>9
<1>7. CASE Weight!Store(h)
  <2>1. /\ override' = override /\ met' = met /\ read' = read /\ under' = under
        /\ pc'[h] = "done"
    BY <1>0, <1>7 DEF Weight!Store, Weight!table, Weight!TypeOK
  <2> QED  BY <1>1, <2>1
<1>8. CASE Weight!Tick \/ UNCHANGED Weight!vars
  <2>1. override' = override /\ met' = met /\ read' = read /\ under' = under /\ pc' = pc
    BY <1>8 DEF Weight!Tick, Weight!vars, Weight!table
  <2> QED  BY <1>1, <2>1
<1> QED
  BY <1>2, <1>3, <1>4, <1>5, <1>6, <1>7, <1>8 DEF Weight!Next

\* A computation that met one view only has read its policy.
LEMMA OnePolicy ==
    ASSUME OverridesAssumption, Weight!TypeOK, Weight!ReadsMet,
           NEW h \in Hashes, pc[h] = "storing", ~ Cardinality(met[h]) > 1
    PROVE  read[h] = Weight!Policy(h.layer)
<1> DEFINE V == Weight!View(h.layer)
<1>1. /\ IsFiniteSet(met[h]) /\ V \in met[h] /\ h.layer \in Weight!Layers
      /\ \A s \in Scopes : read[h][s] # None /\ Weight!Met(h, s)
  BY WeightSets
     DEF Weight!ReadsMet, Weight!Computing, OverridesAssumption, Weight!HashesAssumption
<1>2. Cardinality(met[h]) = 1
  <2>1. Cardinality(met[h]) \in Nat /\ Cardinality(met[h]) # 0
    BY <1>1, FS_CardinalityType, FS_EmptySet
  <2> QED  BY <2>1
<1>3. met[h] = {V}
  <2>1. \E x : met[h] = {x}
    BY <1>1, <1>2, FS_Singleton
  <2> QED  BY <1>1, <2>1
<1>4. ASSUME NEW s \in Scopes PROVE read[h][s] = Weight!Policy(h.layer)[s]
  <2>1. read[h][s] = Weight!In(V, s)
    BY <1>1, <1>3 DEF Weight!Met, Weight!Torn
  <2> QED  BY <1>1, <2>1, WeightsInView DEF Weight!Policy
<1>5. read[h] \in [Scopes -> Weight!Weights] /\ Weight!Policy(h.layer) \in [Scopes -> Nat]
  BY <1>1, WeightsInForce DEF Weight!TypeOK
<1> QED  BY <1>4, <1>5

\* A write disturbs the entries of other processes, and is going to drop those of its own.
LEMMA EntriesStep ==
    ASSUME OverridesAssumption, Weight!TypeOK, Weight!ReadsMet, Weight!EntriesExplained,
           [Weight!Next]_(Weight!vars)
    PROVE  Weight!EntriesExplained'
<1> USE DEF OverridesAssumption, Weight!Go
<1>0. /\ Weight!TypeOK /\ Writes \cap Hashes = {}
      /\ \A w \in Writes : w.layer \in Weight!Layers /\ w.scope \in Scopes /\ w.proc \in Processes
      /\ \A h \in Hashes : h.layer \in Weight!Layers /\ h.proc \in Processes
  BY DEF Weight!PlansAssumption, Weight!WritesAssumption, Weight!HashesAssumption
<1> DEFINE Drops(p, layer) ==
                \E w \in Writes : /\ w.proc = p /\ pc[w] = "invalidate"
                                  /\ w.layer \in {layer, "platform"}
           Explained(p, layer) ==
                (cache[p][layer] # None /\ cache[p][layer].policy # Weight!Policy(layer)) =>
                    cache[p][layer].disturbed \/ cache[p][layer].foreign \/ Drops(p, layer)
<1>e. \A p \in Processes, layer \in Weight!Layers : Explained(p, layer)
  BY DEF Weight!EntriesExplained
<1>s. SUFFICES ASSUME NEW p \in Processes, NEW layer \in Weight!Layers
               PROVE  Explained(p, layer)'
  BY DEF Weight!EntriesExplained
<1>1. ASSUME override' = override, cache'[p][layer] = cache[p][layer],
             \A w \in Writes : pc[w] = "invalidate" => pc'[w] = "invalidate"
      PROVE  Explained(p, layer)'
  <2>1. Weight!Policy(layer)' = Weight!Policy(layer)
    BY <1>1, WeightsStay
  <2>2. Drops(p, layer) => Drops(p, layer)'
    BY <1>1
  <2> QED  BY <1>1, <1>e, <2>1, <2>2
<1>2. ASSUME NEW w \in Writes, Weight!Check(w) PROVE Explained(p, layer)'
  <2>1. override' = override /\ cache' = cache
    BY <1>2 DEF Weight!Check, Weight!table
  <2>2. \A v \in Writes : pc[v] = "invalidate" => pc'[v] = "invalidate"
    BY <1>0, <1>2 DEF Weight!Check, Weight!TypeOK
  <2> QED  BY <1>1, <2>1, <2>2
<1>3. ASSUME NEW w \in Writes, Weight!WriteRow(w) PROVE Explained(p, layer)'
  <2>1. CASE p = w.proc /\ w.layer \in {layer, "platform"}
    <3>1. pc'[w] = "invalidate"
      BY <1>0, <1>3 DEF Weight!WriteRow, Weight!TypeOK
    <3> QED  BY <2>1, <3>1
  <2>2. CASE p = w.proc /\ w.layer \notin {layer, "platform"}
    <3>1. cache'[p][layer] = cache[p][layer]
      BY <1>3, <2>2 DEF Weight!WriteRow
    <3>2. \A v \in Writes : pc[v] = "invalidate" => pc'[v] = "invalidate"
      BY <1>0, <1>3 DEF Weight!WriteRow, Weight!TypeOK
    <3>3. layer = "platform" /\ w.layer = "tenant"
      BY <1>0, <2>2 DEF Weight!Layers
    <3>4. \A s \in Scopes : override'["platform"][s] = override["platform"][s]
      BY <1>0, <1>3, <3>3, WeightWritten DEF Weight!Layers
    <3>5. Weight!Policy(layer)' = Weight!Policy(layer)
      BY <3>3, <3>4 DEF Weight!Policy, Weight!WeightIn
    <3> QED  BY <1>e, <3>1, <3>2, <3>5
  <2>3. CASE p # w.proc
    <3>1. cache'[p][layer] = IF cache[p][layer] = None THEN cache[p][layer]
                             ELSE [cache[p][layer] EXCEPT !.foreign = TRUE]
      BY <1>3, <2>3 DEF Weight!WriteRow
    <3>2. CASE cache[p][layer] = None
      BY <3>1, <3>2
    <3>3. CASE cache[p][layer] # None
      <4>1. cache[p][layer] \in Weight!Entries
        BY <1>0, <3>3 DEF Weight!TypeOK
      <4>2. cache'[p][layer].foreign = TRUE
        BY <3>1, <3>3, <4>1 DEF Weight!Entries
      <4> QED  BY <4>2
    <3> QED  BY <3>2, <3>3
  <2> QED  BY <2>1, <2>2, <2>3
<1>4. ASSUME NEW w \in Writes, Weight!Invalidate(w) PROVE Explained(p, layer)'
  <2>1. override' = override
    BY <1>4 DEF Weight!Invalidate, Weight!table
  <2>2. CASE p = w.proc /\ w.layer \in {layer, "platform"}
    <3>1. cache'[p][layer] = None
      BY <1>0, <1>4, <2>2 DEF Weight!Invalidate, Weight!Dropped, Weight!TypeOK
    <3> QED  BY <3>1
  <2>3. CASE ~ (p = w.proc /\ w.layer \in {layer, "platform"})
    <3>1. cache'[p][layer] = cache[p][layer]
      BY <1>0, <1>4, <2>3 DEF Weight!Invalidate, Weight!Dropped, Weight!TypeOK
    <3>2. Weight!Policy(layer)' = Weight!Policy(layer)
      BY <2>1, WeightsStay
    <3>3. \A v \in Writes : v # w => pc'[v] = pc[v]
      BY <1>0, <1>4 DEF Weight!Invalidate, Weight!TypeOK
    <3>4. Drops(p, layer) => Drops(p, layer)'
      BY <2>3, <3>3
    <3> QED  BY <1>e, <3>1, <3>2, <3>4
  <2> QED  BY <2>2, <2>3
<1>5. ASSUME NEW h \in Hashes,
             Weight!Lookup(h) \/ Weight!ReadPlatform(h) \/ Weight!ReadTenant(h)
      PROVE  Explained(p, layer)'
  <2>1. CASE Weight!Lookup(h)
    <3>1. override' = override /\ cache' = cache
      BY <2>1 DEF Weight!Lookup, Weight!table
    <3>2. \A w \in Writes : pc'[w] = pc[w]
      BY <1>0, <2>1 DEF Weight!Lookup, Weight!TypeOK
    <3> QED  BY <1>1, <3>1, <3>2
  <2>2. CASE Weight!ReadPlatform(h) \/ Weight!ReadTenant(h)
    BY <1>0, <1>1, <2>2, ScopeQueried
  <2> QED  BY <1>5, <2>1, <2>2
<1>6. ASSUME NEW h \in Hashes, Weight!Store(h) PROVE Explained(p, layer)'
  <2>1. override' = override /\ pc[h] = "storing"
    BY <1>6 DEF Weight!Store, Weight!table
  <2>2. \A w \in Writes : pc'[w] = pc[w]
    BY <1>0, <1>6 DEF Weight!Store, Weight!TypeOK
  <2>3. CASE p = h.proc /\ layer = h.layer
    <3> DEFINE e == [policy |-> read[h], until |-> now + Life, foreign |-> FALSE,
                     disturbed |-> Cardinality(met[h]) > 1]
    <3>1. cache' = [cache EXCEPT ![h.proc][h.layer] = e]
      BY <1>6, WeightSets DEF Weight!Store
    <3>2. /\ e.policy = read[h]
          /\ Cardinality(met[h]) > 1 => e.disturbed
      OBVIOUS
    <3>3. ~ Cardinality(met[h]) > 1 => e.policy = Weight!Policy(layer)
      BY <1>0, <2>1, <2>3, <3>2, OnePolicy
    <3> HIDE DEF e
    <3>4. cache'[p][layer] = e
      BY <1>0, <2>3, <3>1 DEF Weight!TypeOK
    <3>5. Weight!Policy(layer)' = Weight!Policy(layer)
      BY <2>1, WeightsStay
    <3> QED  BY <3>2, <3>3, <3>4, <3>5
  <2>4. CASE ~ (p = h.proc /\ layer = h.layer)
    <3>1. cache'[p][layer] = cache[p][layer]
      <4> DEFINE e == [policy |-> read[h], until |-> now + Life, foreign |-> FALSE,
                       disturbed |-> Cardinality(met[h]) > 1]
      <4>1. cache' = [cache EXCEPT ![h.proc][h.layer] = e]
        BY <1>6, WeightSets DEF Weight!Store
      <4> HIDE DEF e
      <4> QED  BY <1>0, <2>4, <4>1 DEF Weight!TypeOK
    <3> QED  BY <1>1, <2>1, <2>2, <3>1
  <2> QED  BY <2>3, <2>4
<1>7. CASE Weight!Tick \/ UNCHANGED Weight!vars
  BY <1>1, <1>7 DEF Weight!Tick, Weight!vars, Weight!table
<1> QED
  BY <1>2, <1>3, <1>4, <1>5, <1>6, <1>7 DEF Weight!Next

\* At first there are no rows, no entries and no readers.
LEMMA OverridesInit == ASSUME OverridesAssumption, Weight!Init PROVE Weight!OverridesInv
<1> USE DEF OverridesAssumption
<1>1. /\ now = 0 /\ override = [layer \in Weight!Layers |-> Weight!Nothing]
      /\ cache = [p \in Processes |-> [layer \in Weight!Layers |-> None]]
      /\ under = [h \in Hashes |-> Weight!Nothing] /\ read = [h \in Hashes |-> Weight!Nothing]
      /\ met = [h \in Hashes |-> {}] /\ raised = {}
  BY DEF Weight!Init
<1>2. pc \in [Writes \cup Hashes -> {"idle", "never"}]
  BY DEF Weight!Init
<1>3. Weight!TypeOK
  <2>1. /\ now \in 0..Horizon /\ override \in [Weight!Layers -> [Scopes -> Weight!Weights]]
        /\ under \in [Hashes -> [Scopes -> Weight!Weights]]
        /\ read \in [Hashes -> [Scopes -> Weight!Weights]] /\ raised \subseteq Scopes
    BY <1>1 DEF Weight!Nothing, Weight!Weights, Weight!NumbersAssumption
  <2>2. /\ cache \in [Processes -> [Weight!Layers -> Weight!Entries \cup {None}]]
        /\ met \in [Hashes -> SUBSET Weight!Views]
    BY <1>1
  <2> QED  BY <1>2, <2>1, <2>2 DEF Weight!TypeOK
<1>4. Weight!ChecksStand
  BY <1>2 DEF Weight!ChecksStand
<1>5. Weight!TenantsTighten
  <2>1. ASSUME NEW s \in Scopes
        PROVE  Weight!WeightIn("tenant", s) = Default /\ Weight!Platform(s) = Default
    BY <1>1 DEF Weight!WeightIn, Weight!Platform, Weight!Nothing, Weight!Layers
  <2> QED  BY <2>1 DEF Weight!TenantsTighten, Weight!NumbersAssumption
<1>6. Weight!ReadsMet
  BY <1>1, <1>2, FS_EmptySet, WeightSets DEF Weight!ReadsMet, Weight!Computing, Weight!Nothing
<1>7. Weight!EntriesExplained
  BY <1>1 DEF Weight!EntriesExplained
<1> QED  BY <1>3, <1>4, <1>5, <1>6, <1>7 DEF Weight!OverridesInv

\* A tenant's weights are at least the platform's but where that was raised; a hash is of
\* weights that were in force while it was computed, or torn by two writes between the
\* queries of a scope; and an entry of a cache is out of date only for the reasons
\* CacheExplained names: for any calls, processes and scopes.
THEOREM WeightsKeptHolds ==
    ASSUME OverridesAssumption
    PROVE  Weight!Spec => []Weight!WeightsKept
<1>1. Weight!Init => Weight!OverridesInv
  BY OverridesInit
<1>2. Weight!OverridesInv /\ [Weight!Next]_(Weight!vars) => Weight!OverridesInv'
  BY WeightTypeStep, TightenStep, ScopesReadStep, EntriesStep DEF Weight!OverridesInv
<1>3. Weight!OverridesInv => Weight!WeightsKept
  <2> SUFFICES ASSUME Weight!OverridesInv PROVE Weight!WeightsKept
    OBVIOUS
  <2>1. Weight!TypeOK /\ Weight!TenantsTighten /\ Weight!ReadsMet /\ Weight!EntriesExplained
    BY DEF Weight!OverridesInv
  <2>2. ASSUME NEW h \in Hashes, pc[h] = "storing"
        PROVE  /\ \A s \in Scopes : \/ \E view \in met[h] : read[h][s] = Weight!In(view, s)
                                    \/ Weight!Torn(h, s, read[h][s])
               /\ Cardinality(met[h]) = 1 => read[h] = Weight!Policy(h.layer)
    <3>1. \A s \in Scopes : read[h][s] # None /\ Weight!Met(h, s)
      BY <2>1, <2>2 DEF Weight!ReadsMet, Weight!Computing
    <3>2. Cardinality(met[h]) = 1 => read[h] = Weight!Policy(h.layer)
      BY <2>1, <2>2, OnePolicy
    <3> QED  BY <3>1, <3>2 DEF Weight!Met
  <2>3. Weight!CacheExplained
    BY <2>1 DEF Weight!EntriesExplained, Weight!CacheExplained, Weight!Live
  <2> QED  BY <2>1, <2>2, <2>3, WeightSets DEF Weight!WeightsKept, Weight!HashesMet
<1> QED  BY <1>1, <1>2, <1>3, PTL DEF Weight!Spec

-----------------------------------------------------------------------------
(* The suggestions.  What is filed is what was read, raised; a suggestion has *)
(* one decider, whose steps its status follows.                            *)

\* so does WeightSuggestions,
LEMMA SugSets ==
    ASSUME NEW S
    PROVE  Sug!Cardinality(S) = Cardinality(S) /\ (Sug!IsFiniteSet(S) <=> IsFiniteSet(S))
BY DEF Sug!Cardinality, Cardinality, Sug!IsFiniteSet, IsFiniteSet

SuggestionsAssumption == Sug!CallsAssumption /\ Sug!NumbersAssumption

\* The weights in force are numbers.
LEMMA InForceType ==
    ASSUME SuggestionsAssumption, Sug!TypeOK
    PROVE  /\ Sug!Platform \in Nat /\ Sug!InForce("tenant") \in Nat
           /\ Sug!InForce("platform") = Sug!Platform
BY DEF SuggestionsAssumption, Sug!NumbersAssumption, Sug!TypeOK, Sug!Platform, Sug!InForce,
       Sug!Layers

\* What is read, filed and written are weights.
LEMMA SuggestionTypeStep ==
    ASSUME SuggestionsAssumption, Sug!SuggestionsInv, [Sug!Next]_(Sug!vars)
    PROVE  Sug!TypeOK'
<1> USE DEF SuggestionsAssumption, Sug!CallsAssumption, Sug!NumbersAssumption,
            Sug!SuggestionsInv, Sug!TypeOK, Sug!Calls, Sug!Go, Sug!Decided, Sug!Weights,
            Sug!Suggestions, Sug!Statuses
<1>1. ASSUME NEW p \in Proposals, Sug!ReadWeight(p) PROVE Sug!TypeOK'
  <2>1. [current |-> Sug!Platform,
         own |-> p.layer = "tenant" /\ Sug!InForce("tenant") > Sug!Platform + Delta] \in Sug!Weights
    <3>1. Sug!Platform \in Nat
      BY InForceType
    <3>2. (p.layer = "tenant" /\ Sug!InForce("tenant") > Sug!Platform + Delta) \in BOOLEAN
      OBVIOUS
    <3> QED  BY <3>1, <3>2, Zenon
  <2> DEFINE w == [current |-> Sug!Platform,
                   own |-> p.layer = "tenant" /\ Sug!InForce("tenant") > Sug!Platform + Delta]
  <2>2. read' = [read EXCEPT ![p] = w] /\ w \in Sug!Weights
    BY <1>1, <2>1 DEF Sug!ReadWeight
  <2> HIDE DEF w
  <2>3. read' \in [Proposals -> Sug!Weights \cup {None}]
    BY <2>2
  <2>. QED  BY <1>1, <2>3 DEF Sug!ReadWeight
<1>2. ASSUME NEW p \in Proposals, Sug!LookPending(p) PROVE Sug!TypeOK'
  BY <1>2 DEF Sug!LookPending
<1>3. ASSUME NEW p \in Proposals, Sug!Insert(p) PROVE Sug!TypeOK'
  <2>1. read[p] # None
    BY <1>3 DEF Sug!Insert, Sug!FiledAsRead
  <2>2. read[p].current + Delta \in Nat
    BY <2>1
  <2>. QED  BY <1>3, <2>2 DEF Sug!Insert
<1>4. ASSUME NEW d \in Decisions, Sug!Decide(d) PROVE Sug!TypeOK'
  <2>1. suggestion' \in [Proposals -> Sug!Suggestions \cup {None}]
    BY <1>4 DEF Sug!Decide, Sug!Pending
  <2>. QED  BY <1>4, <2>1 DEF Sug!Decide
<1>5. ASSUME NEW d \in Decisions, Sug!MarkApplied(d) PROVE Sug!TypeOK'
  <2>1. suggestion' \in [Proposals -> Sug!Suggestions \cup {None}]
    BY <1>5 DEF Sug!MarkApplied, Sug!DeciderAlone
  <2>. QED  BY <1>5, <2>1 DEF Sug!MarkApplied
<1>6. ASSUME NEW c \in Decisions \cup Changes, Sug!Tighten(c) PROVE Sug!TypeOK'
  BY <1>6 DEF Sug!Tighten
<1>7. ASSUME NEW c \in Decisions \cup Changes, Sug!WriteRow(c) PROVE Sug!TypeOK'
  <2>1. Sug!Layer(c) \in Sug!Layers
    BY DEF Sug!Layer
  <2>2. Sug!Value(c) \in Nat
    BY <1>7 DEF Sug!WriteRow, Sug!Value, Sug!DeciderAlone
  <2>3. override' \in [Sug!Layers -> Nat \cup {None}]
    BY <1>7, <2>1, <2>2 DEF Sug!WriteRow
  <2>. QED  BY <1>7, <2>3 DEF Sug!WriteRow
<1>8. CASE UNCHANGED Sug!vars
  BY <1>8 DEF Sug!vars
<1>. QED
  BY <1>1, <1>2, <1>3, <1>4, <1>5, <1>6, <1>7, <1>8 DEF Sug!Next

\* What is filed is what was read, raised.
LEMMA FiledStep ==
    ASSUME SuggestionsAssumption, Sug!SuggestionsInv, [Sug!Next]_(Sug!vars)
    PROVE  Sug!FiledAsRead'
<1> USE DEF SuggestionsAssumption, Sug!CallsAssumption, Sug!NumbersAssumption,
            Sug!SuggestionsInv, Sug!TypeOK, Sug!Calls, Sug!Go, Sug!FiledAsRead
<1>1. ASSUME NEW p \in Proposals, Sug!ReadWeight(p) PROVE Sug!FiledAsRead'
  <2> DEFINE w == [current |-> Sug!Platform,
                   own |-> p.layer = "tenant" /\ Sug!InForce("tenant") > Sug!Platform + Delta]
  <2>1. read' = [read EXCEPT ![p] = w] /\ w # None
    <3>1. w = [current |-> Sug!Platform,
               own |-> (p.layer = "tenant" /\ Sug!InForce("tenant") > Sug!Platform + Delta)]
      OBVIOUS
    <3>2. w \in Sug!Weights
      <4>1. Sug!Platform \in Nat
        BY InForceType
      <4>2. (p.layer = "tenant" /\ Sug!InForce("tenant") > Sug!Platform + Delta) \in BOOLEAN
        OBVIOUS
      <4> QED  BY <4>1, <4>2, Zenon DEF Sug!Weights
    <3> QED  BY <1>1, <3>2 DEF Sug!ReadWeight
  <2> HIDE DEF w
  <2>. QED  BY <1>1, <2>1 DEF Sug!ReadWeight
<1>2. ASSUME NEW p \in Proposals, Sug!LookPending(p) PROVE Sug!FiledAsRead'
  BY <1>2 DEF Sug!LookPending
<1>3. ASSUME NEW p \in Proposals, Sug!Insert(p) PROVE Sug!FiledAsRead'
  BY <1>3 DEF Sug!Insert
<1>4. ASSUME NEW d \in Decisions, Sug!Decide(d) PROVE Sug!FiledAsRead'
  <2>1. /\ \A p \in Proposals : pc'[p] = pc[p] /\ read'[p] = read[p]
        /\ live' = live /\ lowered' = lowered
    BY <1>4 DEF Sug!Decide
  <2>2. \A p \in Proposals :
            /\ suggestion'[p] = None <=> suggestion[p] = None
            /\ suggestion[p] # None => suggestion'[p].value = suggestion[p].value
    <3>1. CASE Sug!Pending(d.about)
      <4>1. /\ suggestion[d.about] \in Sug!Suggestions /\ d.about \in Proposals
            /\ d.verdict \in Sug!Statuses
        BY <3>1 DEF Sug!Pending, Sug!Statuses
      <4>2. \A p \in Proposals :
                suggestion'[p] = IF p = d.about THEN [suggestion[p] EXCEPT !.status = d.verdict]
                                 ELSE suggestion[p]
        BY <1>4, <3>1, <4>1 DEF Sug!Decide
      <4>3. /\ suggestion[d.about] # None /\ suggestion'[d.about] # None
            /\ suggestion'[d.about].value = suggestion[d.about].value
        <5>1. suggestion'[d.about] = [suggestion[d.about] EXCEPT !.status = d.verdict]
          BY <4>1, <4>2
        <5>. QED  BY <4>1, <5>1 DEF Sug!Suggestions, Sug!Statuses
      <4>. QED  BY <4>2, <4>3
    <3>2. CASE ~ Sug!Pending(d.about)
      BY <1>4, <3>2 DEF Sug!Decide
    <3>. QED  BY <3>1, <3>2
  <2>. QED  BY <2>1, <2>2
<1>5. ASSUME NEW d \in Decisions, Sug!MarkApplied(d) PROVE Sug!FiledAsRead'
  <2>1. /\ \A p \in Proposals : pc'[p] = pc[p] /\ read'[p] = read[p]
        /\ live' = live /\ lowered' = lowered /\ suggestion[d.about] # None
    BY <1>5 DEF Sug!MarkApplied, Sug!DeciderAlone, Sug!Decided
  <2>2. \A p \in Proposals :
            /\ suggestion'[p] = None <=> suggestion[p] = None
            /\ suggestion[p] # None => suggestion'[p].value = suggestion[p].value
    <3>1. suggestion[d.about] \in Sug!Suggestions /\ d.about \in Proposals
      BY <2>1
    <3>2. \A p \in Proposals :
              suggestion'[p] = IF p = d.about THEN [suggestion[p] EXCEPT !.status = "applied"]
                               ELSE suggestion[p]
      BY <1>5, <3>1 DEF Sug!MarkApplied
    <3>3. /\ suggestion[d.about] # None /\ suggestion'[d.about] # None
          /\ suggestion'[d.about].value = suggestion[d.about].value
      <4>1. suggestion'[d.about] = [suggestion[d.about] EXCEPT !.status = "applied"]
        BY <3>1, <3>2
      <4>. QED  BY <3>1, <4>1 DEF Sug!Suggestions, Sug!Statuses
    <3>. QED  BY <3>2, <3>3
  <2>. QED  BY <2>1, <2>2
<1>6. ASSUME NEW c \in Decisions \cup Changes, Sug!Tighten(c) PROVE Sug!FiledAsRead'
  BY <1>6 DEF Sug!Tighten
<1>7. ASSUME NEW c \in Decisions \cup Changes, Sug!WriteRow(c) PROVE Sug!FiledAsRead'
  <2>1. /\ \A p \in Proposals : pc'[p] = pc[p] /\ read'[p] = read[p]
        /\ suggestion' = suggestion
    BY <1>7 DEF Sug!WriteRow
  <2> DEFINE own == IF c \in Decisions THEN {c.about} ELSE {}
  <2>2. \A p \in own : suggestion[p] # None
    BY <1>7 DEF Sug!WriteRow, Sug!DeciderAlone, Sug!Decided
  <2>3. live' = live \cup own /\ lowered' \subseteq lowered \cup own
    BY <1>7 DEF Sug!WriteRow
  <2> HIDE DEF own
  <2>. QED  BY <2>1, <2>2, <2>3
<1>8. CASE UNCHANGED Sug!vars
  BY <1>8 DEF Sug!vars
<1>. QED
  BY <1>1, <1>2, <1>3, <1>4, <1>5, <1>6, <1>7, <1>8 DEF Sug!Next

\* The compare-and-set of Decide leaves a suggestion to one decider.
LEMMA DeciderStep ==
    ASSUME SuggestionsAssumption, Sug!SuggestionsInv, [Sug!Next]_(Sug!vars)
    PROVE  Sug!DeciderAlone'
<1> USE DEF SuggestionsAssumption, Sug!CallsAssumption, Sug!NumbersAssumption,
            Sug!SuggestionsInv, Sug!TypeOK, Sug!Calls, Sug!Go, Sug!FiledAsRead,
            Sug!DeciderAlone, Sug!Decided, Sug!StatusTold, Sug!Pending
<1>1. ASSUME NEW p \in Proposals, Sug!ReadWeight(p) PROVE Sug!DeciderAlone'
  BY <1>1 DEF Sug!ReadWeight
<1>2. ASSUME NEW p \in Proposals, Sug!LookPending(p) PROVE Sug!DeciderAlone'
  BY <1>2 DEF Sug!LookPending
<1>3. ASSUME NEW p \in Proposals, Sug!Insert(p) PROVE Sug!DeciderAlone'
  BY <1>3 DEF Sug!Insert
<1>4. ASSUME NEW d \in Decisions, Sug!Decide(d) PROVE Sug!DeciderAlone'
  <2>1. CASE Sug!Pending(d.about)
    <3>1. /\ suggestion[d.about] \in Sug!Suggestions /\ suggestion[d.about].status = "pending"
          /\ suggestion' = [suggestion EXCEPT ![d.about].status = d.verdict]
          /\ pc' = [pc EXCEPT ![d] = IF d.verdict = "approved" THEN "check" ELSE "done"]
          /\ live' = live /\ d.verdict \in {"approved", "rejected"} /\ d.about \in Proposals
          /\ pc[d] = "idle"
      BY <1>4, <2>1 DEF Sug!Decide
    <3>2. \A e \in Decisions : e.about = d.about => ~ Sug!Decided(e)
      BY <3>1
    <3>3. d.about \notin live
      BY <3>1
    <3>4. suggestion'[d.about] # None /\ suggestion'[d.about].status = d.verdict
      <4>1. suggestion'[d.about] = [suggestion[d.about] EXCEPT !.status = d.verdict]
        BY <3>1
      <4>. QED  BY <3>1, <4>1 DEF Sug!Suggestions, Sug!Statuses
    <3>5. \A p \in Proposals : p # d.about => suggestion'[p] = suggestion[p]
      BY <3>1
    <3>6. \A e \in Decisions : e # d => pc'[e] = pc[e]
      BY <3>1
    <3>7. pc'[d] = IF d.verdict = "approved" THEN "check" ELSE "done"
      BY <3>1
    <3>. QED  BY <3>1, <3>2, <3>3, <3>4, <3>5, <3>6, <3>7
  <2>2. CASE ~ Sug!Pending(d.about)
    BY <1>4, <2>2 DEF Sug!Decide
  <2>. QED  BY <2>1, <2>2
<1>5. ASSUME NEW d \in Decisions, Sug!MarkApplied(d) PROVE Sug!DeciderAlone'
  <2>1. /\ pc[d] = "mark" /\ d.about \in Proposals /\ suggestion[d.about] \in Sug!Suggestions
        /\ suggestion' = [suggestion EXCEPT ![d.about].status = "applied"]
        /\ pc' = [pc EXCEPT ![d] = "done"] /\ live' = live
    BY <1>5 DEF Sug!MarkApplied
  <2>2. suggestion'[d.about] # None /\ suggestion'[d.about].status = "applied"
    <3>1. suggestion'[d.about] = [suggestion[d.about] EXCEPT !.status = "applied"]
      BY <2>1
    <3>. QED  BY <2>1, <3>1 DEF Sug!Suggestions, Sug!Statuses
  <2>3. \A p \in Proposals : p # d.about => suggestion'[p] = suggestion[p]
    BY <2>1
  <2>4. \A e \in Decisions : (e.about = d.about /\ Sug!Decided(e)) => e = d
    BY <2>1
  <2>5. \A e \in Decisions : e # d => pc'[e] = pc[e]
    BY <2>1
  <2>6. pc'[d] = "done"
    BY <2>1
  <2>. QED  BY <2>1, <2>2, <2>3, <2>4, <2>5, <2>6
<1>6. ASSUME NEW c \in Decisions \cup Changes, Sug!Tighten(c) PROVE Sug!DeciderAlone'
  BY <1>6 DEF Sug!Tighten
<1>7. ASSUME NEW c \in Decisions \cup Changes, Sug!WriteRow(c) PROVE Sug!DeciderAlone'
  BY <1>7 DEF Sug!WriteRow
<1>8. CASE UNCHANGED Sug!vars
  BY <1>8 DEF Sug!vars
<1>. QED
  BY <1>1, <1>2, <1>3, <1>4, <1>5, <1>6, <1>7, <1>8 DEF Sug!Next

\* Who proposes at the same time as others is on record while they do.
LEMMA OverlapStep ==
    ASSUME SuggestionsAssumption, Sug!SuggestionsInv, [Sug!Next]_(Sug!vars)
    PROVE  Sug!OverlapsSeen'
<1> USE DEF SuggestionsAssumption, Sug!CallsAssumption, Sug!NumbersAssumption,
            Sug!SuggestionsInv, Sug!TypeOK, Sug!Calls, Sug!Go, Sug!OverlapsSeen,
            Sug!FiledAsRead, Sug!Proposing, Sug!Pending, Sug!Suggestions
<1>1. ASSUME NEW p \in Proposals, Sug!ReadWeight(p) PROVE Sug!OverlapsSeen'
  BY <1>1 DEF Sug!ReadWeight
<1>2. ASSUME NEW p \in Proposals, Sug!LookPending(p) PROVE Sug!OverlapsSeen'
  BY <1>2 DEF Sug!LookPending
<1>3. ASSUME NEW p \in Proposals, Sug!Insert(p) PROVE Sug!OverlapsSeen'
  BY <1>3 DEF Sug!Insert
<1>4. ASSUME NEW d \in Decisions, Sug!Decide(d) PROVE Sug!OverlapsSeen'
  BY <1>4 DEF Sug!Decide
<1>5. ASSUME NEW d \in Decisions, Sug!MarkApplied(d) PROVE Sug!OverlapsSeen'
  BY <1>5 DEF Sug!MarkApplied
<1>6. ASSUME NEW c \in Decisions \cup Changes, Sug!Tighten(c) PROVE Sug!OverlapsSeen'
  BY <1>6 DEF Sug!Tighten
<1>7. ASSUME NEW c \in Decisions \cup Changes, Sug!WriteRow(c) PROVE Sug!OverlapsSeen'
  BY <1>7 DEF Sug!WriteRow
<1>8. CASE UNCHANGED Sug!vars
  BY <1>8 DEF Sug!vars
<1>. QED
  BY <1>1, <1>2, <1>3, <1>4, <1>5, <1>6, <1>7, <1>8 DEF Sug!Next

\* The status says whether the weight was written.
LEMMA StatusStep ==
    ASSUME SuggestionsAssumption, Sug!SuggestionsInv, [Sug!Next]_(Sug!vars)
    PROVE  Sug!StatusTold'
<1> USE DEF SuggestionsAssumption, Sug!CallsAssumption, Sug!NumbersAssumption,
            Sug!SuggestionsInv, Sug!TypeOK, Sug!Calls, Sug!Go, Sug!FiledAsRead,
            Sug!DeciderAlone, Sug!Decided, Sug!StatusTold, Sug!Pending, Sug!Suggestions
<1>1. ASSUME NEW p \in Proposals, Sug!ReadWeight(p) PROVE Sug!StatusTold'
  BY <1>1 DEF Sug!ReadWeight
<1>2. ASSUME NEW p \in Proposals, Sug!LookPending(p) PROVE Sug!StatusTold'
  BY <1>2 DEF Sug!LookPending
<1>3. ASSUME NEW p \in Proposals, Sug!Insert(p) PROVE Sug!StatusTold'
  BY <1>3 DEF Sug!Insert
<1>4. ASSUME NEW d \in Decisions, Sug!Decide(d) PROVE Sug!StatusTold'
  BY <1>4 DEF Sug!Decide
<1>5. ASSUME NEW d \in Decisions, Sug!MarkApplied(d) PROVE Sug!StatusTold'
  BY <1>5 DEF Sug!MarkApplied
<1>6. ASSUME NEW c \in Decisions \cup Changes, Sug!Tighten(c) PROVE Sug!StatusTold'
  BY <1>6 DEF Sug!Tighten
<1>7. ASSUME NEW c \in Decisions \cup Changes, Sug!WriteRow(c) PROVE Sug!StatusTold'
  BY <1>7 DEF Sug!WriteRow
<1>8. CASE UNCHANGED Sug!vars
  BY <1>8 DEF Sug!vars
<1>. QED
  BY <1>1, <1>2, <1>3, <1>4, <1>5, <1>6, <1>7, <1>8 DEF Sug!Next

\* A second suggestion is filed only by one that looked before the first was there.
LEMMA PendingStep ==
    ASSUME SuggestionsAssumption, Sug!SuggestionsInv, [Sug!Next]_(Sug!vars)
    PROVE  Sug!PendingOnce'
<1> USE DEF SuggestionsAssumption, Sug!CallsAssumption, Sug!NumbersAssumption,
            Sug!SuggestionsInv, Sug!TypeOK, Sug!Calls, Sug!Go, Sug!OverlapsSeen,
            Sug!PendingOnce, Sug!FiledAsRead, Sug!Proposing, Sug!Pending, Sug!Suggestions
<1>1. ASSUME NEW p \in Proposals, Sug!ReadWeight(p) PROVE Sug!PendingOnce'
  BY <1>1 DEF Sug!ReadWeight
<1>2. ASSUME NEW p \in Proposals, Sug!LookPending(p) PROVE Sug!PendingOnce'
  BY <1>2 DEF Sug!LookPending
<1>3. ASSUME NEW p \in Proposals, Sug!Insert(p) PROVE Sug!PendingOnce'
  BY <1>3 DEF Sug!Insert
<1>4. ASSUME NEW d \in Decisions, Sug!Decide(d) PROVE Sug!PendingOnce'
  BY <1>4 DEF Sug!Decide
<1>5. ASSUME NEW d \in Decisions, Sug!MarkApplied(d) PROVE Sug!PendingOnce'
  BY <1>5 DEF Sug!MarkApplied
<1>6. ASSUME NEW c \in Decisions \cup Changes, Sug!Tighten(c) PROVE Sug!PendingOnce'
  BY <1>6 DEF Sug!Tighten
<1>7. ASSUME NEW c \in Decisions \cup Changes, Sug!WriteRow(c) PROVE Sug!PendingOnce'
  BY <1>7 DEF Sug!WriteRow
<1>8. CASE UNCHANGED Sug!vars
  BY <1>8 DEF Sug!vars
<1>. QED
  BY <1>1, <1>2, <1>3, <1>4, <1>5, <1>6, <1>7, <1>8 DEF Sug!Next

\* What a proposal has read stands until somebody moves the weight.
LEMMA ProposalReadStep ==
    ASSUME SuggestionsAssumption, Sug!SuggestionsInv, [Sug!Next]_(Sug!vars)
    PROVE  Sug!ReadStands'
<1> USE DEF SuggestionsAssumption, Sug!CallsAssumption, Sug!NumbersAssumption,
            Sug!SuggestionsInv, Sug!TypeOK, Sug!Calls, Sug!Go, Sug!Decided
<1>0. ASSUME override' = override, read' = read, moved' = moved, live' = live
      PROVE  Sug!ReadStands'
  BY <1>0 DEF Sug!ReadStands, Sug!Platform, Sug!InForce
<1>1. ASSUME NEW p \in Proposals, Sug!ReadWeight(p) PROVE Sug!ReadStands'
  <2>1. override' = override /\ moved' = moved /\ live' = live
    BY <1>1 DEF Sug!ReadWeight
  <2>2. /\ Sug!Platform' = Sug!Platform /\ Sug!InForce("tenant")' = Sug!InForce("tenant")
        /\ Sug!Platform \in Nat /\ Sug!InForce("tenant") \in Nat
    BY <2>1, InForceType DEF Sug!Platform, Sug!InForce
  <2>3. \A q \in Proposals : q # p => read'[q] = read[q]
    BY <1>1 DEF Sug!ReadWeight
  <2>4. read'[p] = [current |-> Sug!Platform,
                    own |-> p.layer = "tenant" /\ Sug!InForce("tenant") > Sug!Platform + Delta]
    BY <1>1 DEF Sug!ReadWeight
  <2>5. /\ read'[p].current = Sug!Platform
        /\ (p.layer = "tenant" /\ Sug!InForce("tenant") > Sug!Platform + Delta) => read'[p].own
    <3> DEFINE own == p.layer = "tenant" /\ Sug!InForce("tenant") > Sug!Platform + Delta
    <3>1. read'[p] = [current |-> Sug!Platform, own |-> own]
      BY <2>4
    <3>2. read'[p].current = Sug!Platform /\ read'[p].own = own
      <4> HIDE DEF own
      <4>. QED  BY <3>1
    <3>. QED  BY <3>2
  <2>6. ASSUME NEW q \in Proposals, read'[q] # None, q \notin moved' \cup live'
        PROVE  IF q.layer = "platform" THEN Sug!Platform' = read'[q].current
               ELSE read'[q].own \/ Sug!InForce("tenant")' <= read'[q].current + Delta
    <3>1. CASE q = p
      <4>1. p.layer \in {"platform", "tenant"}
        BY DEF Sug!Layers
      <4>. QED  BY <2>2, <2>5, <3>1, <4>1
    <3>2. CASE q # p
      BY <2>1, <2>2, <2>3, <2>6, <3>2 DEF Sug!ReadStands
    <3>. QED  BY <3>1, <3>2
  <2>. QED  BY <2>6 DEF Sug!ReadStands
<1>2. ASSUME NEW p \in Proposals, Sug!LookPending(p) PROVE Sug!ReadStands'
  <2>1. override' = override /\ read' = read /\ moved' = moved /\ live' = live
    BY <1>2 DEF Sug!LookPending
  <2>. QED  BY <1>0, <2>1
<1>3. ASSUME NEW p \in Proposals, Sug!Insert(p) PROVE Sug!ReadStands'
  <2>1. override' = override /\ read' = read /\ moved' = moved /\ live' = live
    BY <1>3 DEF Sug!Insert
  <2>. QED  BY <1>0, <2>1
<1>4. ASSUME NEW d \in Decisions, Sug!Decide(d) PROVE Sug!ReadStands'
  <2>1. override' = override /\ read' = read /\ moved' = moved /\ live' = live
    BY <1>4 DEF Sug!Decide
  <2>. QED  BY <1>0, <2>1
<1>5. ASSUME NEW d \in Decisions, Sug!MarkApplied(d) PROVE Sug!ReadStands'
  <2>1. override' = override /\ read' = read /\ moved' = moved /\ live' = live
    BY <1>5 DEF Sug!MarkApplied
  <2>. QED  BY <1>0, <2>1
<1>6. ASSUME NEW c \in Decisions \cup Changes, Sug!Tighten(c) PROVE Sug!ReadStands'
  <2>1. override' = override /\ read' = read /\ moved' = moved /\ live' = live
    BY <1>6 DEF Sug!Tighten
  <2>. QED  BY <1>0, <2>1
<1>7. ASSUME NEW c \in Decisions \cup Changes, Sug!WriteRow(c) PROVE Sug!ReadStands'
  <2> DEFINE own == IF c \in Decisions THEN {c.about} ELSE {}
  <2>1. /\ read' = read /\ live' = live \cup own
        /\ moved' = moved \cup
              {p \in Proposals \ own :
                  read[p] # None /\ Sug!InForce(p.layer)' # Sug!InForce(p.layer)}
    BY <1>7 DEF Sug!WriteRow
  <2>2. ASSUME NEW q \in Proposals, read'[q] # None, q \notin moved' \cup live'
        PROVE  IF q.layer = "platform" THEN Sug!Platform' = read'[q].current
               ELSE read'[q].own \/ Sug!InForce("tenant")' <= read'[q].current + Delta
    <3>1. /\ Sug!InForce(q.layer)' = Sug!InForce(q.layer) /\ q \notin moved \cup live
          /\ read'[q] = read[q]
      <4> HIDE DEF own
      <4>. QED  BY <2>1, <2>2
    <3>2. CASE q.layer = "platform"
      <4>1. Sug!Platform' = Sug!Platform
        BY <3>1, <3>2 DEF Sug!InForce
      <4>. QED  BY <2>2, <3>1, <3>2, <4>1 DEF Sug!ReadStands
    <3>3. CASE q.layer # "platform"
      <4>1. Sug!InForce("tenant")' = Sug!InForce("tenant")
        <5>1. q.layer = "tenant"
          BY <3>3 DEF Sug!Layers
        <5>. QED  BY <3>1, <5>1
      <4>. QED  BY <2>2, <3>1, <3>3, <4>1 DEF Sug!ReadStands
    <3>. QED  BY <3>2, <3>3
  <2>. QED  BY <2>2 DEF Sug!ReadStands
<1>8. CASE UNCHANGED Sug!vars
  BY <1>0, <1>8 DEF Sug!vars
<1>. QED
  BY <1>1, <1>2, <1>3, <1>4, <1>5, <1>6, <1>7, <1>8 DEF Sug!Next

\* A raise that lowers is one that somebody else came before.
LEMMA LowerStep ==
    ASSUME SuggestionsAssumption, Sug!SuggestionsInv, [Sug!Next]_(Sug!vars)
    PROVE  Sug!LoweringExplained'
<1> USE DEF SuggestionsAssumption, Sug!CallsAssumption, Sug!NumbersAssumption,
            Sug!SuggestionsInv, Sug!TypeOK, Sug!Calls, Sug!Go, Sug!FiledAsRead,
            Sug!LoweringExplained
<1>1. ASSUME NEW p \in Proposals, Sug!ReadWeight(p) PROVE Sug!LoweringExplained'
  BY <1>1 DEF Sug!ReadWeight
<1>2. ASSUME NEW p \in Proposals, Sug!LookPending(p) PROVE Sug!LoweringExplained'
  BY <1>2 DEF Sug!LookPending
<1>3. ASSUME NEW p \in Proposals, Sug!Insert(p) PROVE Sug!LoweringExplained'
  BY <1>3 DEF Sug!Insert
<1>4. ASSUME NEW d \in Decisions, Sug!Decide(d) PROVE Sug!LoweringExplained'
  BY <1>4 DEF Sug!Decide
<1>5. ASSUME NEW d \in Decisions, Sug!MarkApplied(d) PROVE Sug!LoweringExplained'
  BY <1>5 DEF Sug!MarkApplied
<1>6. ASSUME NEW c \in Decisions \cup Changes, Sug!Tighten(c) PROVE Sug!LoweringExplained'
  BY <1>6 DEF Sug!Tighten
<1>7. ASSUME NEW c \in Decisions \cup Changes, Sug!WriteRow(c) PROVE Sug!LoweringExplained'
  <2>1. read' = read /\ moved \subseteq moved'
    BY <1>7 DEF Sug!WriteRow
  <2>2. ASSUME NEW p \in lowered', p \notin lowered, p \notin moved PROVE read[p].own
    <3>1. /\ c \in Decisions /\ p = c.about /\ pc[c] = "write"
          /\ /\ Sug!InForce(Sug!Layer(c))' < Sug!InForce(Sug!Layer(c))
             /\ override' = [override EXCEPT ![Sug!Layer(c)] = Sug!Value(c)]
      BY <1>7, <2>2 DEF Sug!WriteRow
    <3>2. /\ p \in Proposals /\ p \notin live /\ suggestion[p] # None
          /\ Sug!Layer(c) = p.layer /\ Sug!Value(c) = suggestion[p].value
      BY <3>1 DEF Sug!DeciderAlone, Sug!Decided, Sug!Layer, Sug!Value
    <3>3. read[p] # None /\ read[p].current \in Nat /\ Sug!Value(c) = read[p].current + Delta
      BY <3>2 DEF Sug!Weights
    <3>4. /\ p.layer \in Sug!Layers /\ override'[p.layer] = read[p].current + Delta
          /\ override'[p.layer] # None
      BY <3>1, <3>2, <3>3
    <3>5. Sug!InForce(p.layer)' = read[p].current + Delta
      BY <3>4 DEF Sug!InForce, Sug!Platform, Sug!Layers
    <3>6. IF p.layer = "platform" THEN Sug!Platform = read[p].current
          ELSE read[p].own \/ Sug!InForce("tenant") <= read[p].current + Delta
      BY <2>2, <3>2, <3>3 DEF Sug!ReadStands
    <3>7. /\ Sug!Platform \in Nat /\ Sug!InForce("tenant") \in Nat
          /\ Sug!InForce("platform") = Sug!Platform
      BY InForceType
    <3>8. CASE p.layer = "platform"
      BY <3>1, <3>2, <3>3, <3>5, <3>6, <3>7, <3>8
    <3>9. CASE p.layer = "tenant"
      BY <3>1, <3>2, <3>3, <3>5, <3>6, <3>7, <3>9
    <3>. QED  BY <3>4, <3>8, <3>9 DEF Sug!Layers
  <2>. QED  BY <2>1, <2>2
<1>8. CASE UNCHANGED Sug!vars
  BY <1>8 DEF Sug!vars
<1>. QED
  BY <1>1, <1>2, <1>3, <1>4, <1>5, <1>6, <1>7, <1>8 DEF Sug!Next

\* At first nothing is proposed, and a tenant may have a weight of its own.
LEMMA SuggestionsInit == ASSUME SuggestionsAssumption, Sug!Init PROVE Sug!SuggestionsInv
<1> USE DEF SuggestionsAssumption, Sug!CallsAssumption, Sug!NumbersAssumption, Sug!Calls
<1>1. /\ pc = [c \in Sug!Calls |-> "idle"] /\ read = [p \in Proposals |-> None]
      /\ suggestion = [p \in Proposals |-> None]
      /\ overlap = {} /\ moved = {} /\ live = {} /\ lowered = {}
      /\ override \in [Sug!Layers -> Nat \cup {None}]
  <2>1. PICK own \in Owns : override = [platform |-> None, tenant |-> own]
    BY DEF Sug!Init
  <2>2. own \in Nat \cup {None} /\ DOMAIN override = {"platform", "tenant"}
    BY <2>1
  <2>. QED  BY <2>1, <2>2 DEF Sug!Init, Sug!Layers
<1>2. Sug!TypeOK
  BY <1>1 DEF Sug!TypeOK
<1>3. Sug!FiledAsRead /\ Sug!DeciderAlone /\ Sug!OverlapsSeen /\ Sug!ReadStands
  BY <1>1
     DEF Sug!FiledAsRead, Sug!DeciderAlone, Sug!Decided, Sug!OverlapsSeen, Sug!Proposing,
         Sug!ReadStands
<1>4. Sug!StatusTold /\ Sug!PendingOnce /\ Sug!LoweringExplained
  BY <1>1 DEF Sug!StatusTold, Sug!PendingOnce, Sug!Pending, Sug!LoweringExplained
<1>. QED  BY <1>2, <1>3, <1>4 DEF Sug!SuggestionsInv

\* Of reviewers who decide at once one does; the status tells what became of the weight; two
\* suggestions are pending for it only if they were proposed at once; and none lowers it but for
\* the reasons LoweringExplained names: for any proposals, decisions and other changes.
THEOREM SuggestionsKeptHolds ==
    ASSUME SuggestionsAssumption
    PROVE  Sug!Spec => []Sug!SuggestionsKept
<1>1. Sug!Init => Sug!SuggestionsInv
  BY SuggestionsInit
<1>2. Sug!SuggestionsInv /\ [Sug!Next]_(Sug!vars) => Sug!SuggestionsInv'
  <2> SUFFICES ASSUME Sug!SuggestionsInv, [Sug!Next]_(Sug!vars) PROVE Sug!SuggestionsInv'
    OBVIOUS
  <2>1. Sug!TypeOK' /\ Sug!FiledAsRead' /\ Sug!DeciderAlone' /\ Sug!OverlapsSeen'
    BY SuggestionTypeStep, FiledStep, DeciderStep, OverlapStep
  <2>2. Sug!ReadStands' /\ Sug!StatusTold' /\ Sug!PendingOnce' /\ Sug!LoweringExplained'
    BY ProposalReadStep, StatusStep, PendingStep, LowerStep
  <2>. QED  BY <2>1, <2>2 DEF Sug!SuggestionsInv
<1>3. Sug!SuggestionsInv => Sug!SuggestionsKept
  <2> SUFFICES ASSUME Sug!SuggestionsInv, NEW p \in Proposals
               PROVE  Cardinality({d \in Decisions :
                            d.about = p /\ pc[d] \notin {"idle", "refused"}}) <= 1
    BY SugSets DEF Sug!SuggestionsInv, Sug!SuggestionsKept, Sug!DecidedOnce
  <2> DEFINE S == {d \in Decisions : d.about = p /\ pc[d] \notin {"idle", "refused"}}
  <2>1. \A d \in S, e \in S : d = e
    BY DEF Sug!SuggestionsInv, Sug!DeciderAlone, Sug!Decided
  <2> HIDE DEF S
  <2>2. Cardinality(S) <= 1
    <3>1. CASE S = {}
      BY <3>1, FS_EmptySet
    <3>2. CASE S # {}
      <4>1. PICK d \in S : S = {d}
        BY <2>1, <3>2
      <4>2. Cardinality(S) = 1
        BY <4>1, FS_Singleton
      <4>. QED  BY <4>2
    <3>. QED  BY <3>1, <3>2
  <2>. QED  BY <2>2 DEF S
<1>. QED  BY <1>1, <1>2, <1>3, PTL DEF Sug!Spec

-----------------------------------------------------------------------------
(* The bindings.  What a binding has read is there or was erased meanwhile; *)
(* the tally of a row begins with it; a subject is one that was bound.     *)

\* and so does IdpBinding.
LEMMA BoundSets ==
    ASSUME NEW S
    PROVE  Bound!Cardinality(S) = Cardinality(S) /\ (Bound!IsFiniteSet(S) <=> IsFiniteSet(S))
BY DEF Bound!Cardinality, Cardinality, Bound!IsFiniteSet, IsFiniteSet

BindingsAssumption == /\ Bound!BindsAssumption /\ Bound!SignalsAssumption
                      /\ Bound!StartsAssumption /\ Bound!NoneAssumption

\* What a signal makes of the rows.
LEMMA Signalled ==
    ASSUME BindingsAssumption, Bound!TypeOK, NEW s \in Signals, Bound!Signal(s)
    PROVE  /\ rows' \in [Principals -> Bound!Rows \cup {None}] /\ s.who \in Principals
           /\ \A p \in Principals : p # s.who => rows'[p] = rows[p]
           /\ rows'[s.who] # None
           /\ rows'[s.who].score = IF Bound!Present(s.who) THEN rows[s.who].score + 1 ELSE 1
           /\ rows'[s.who].attributes =
                (IF Bound!Present(s.who) THEN rows[s.who].attributes ELSE {}) \cup {s}
           /\ rows'[s.who].subject = IF Bound!Present(s.who) THEN rows[s.who].subject ELSE None
<1> DEFINE row == IF rows[s.who] = None THEN Bound!NoRow ELSE rows[s.who]
           score == row.score + 1
           at == clock + 1
           new == [row EXCEPT !.score = score, !.attributes = @ \cup {s}, !.at = at]
<1>1. s.who \in Principals /\ clock \in Nat /\ None \notin Bound!Rows
  BY DEF BindingsAssumption, Bound!SignalsAssumption, Bound!NoneAssumption, Bound!TypeOK
<1>2. row \in Bound!Rows
  <2>1. Bound!NoRow \in Bound!Rows
    BY DEF Bound!NoRow, Bound!Rows, Bound!Subjects
  <2>. QED  BY <1>1, <2>1 DEF Bound!TypeOK
<1>3. rows' = [rows EXCEPT ![s.who] = new]
  BY DEF Bound!Signal
<1>4. /\ row.score = (IF Bound!Present(s.who) THEN rows[s.who].score ELSE 0)
      /\ row.attributes = (IF Bound!Present(s.who) THEN rows[s.who].attributes ELSE {})
      /\ row.subject = (IF Bound!Present(s.who) THEN rows[s.who].subject ELSE None)
  BY DEF Bound!NoRow, Bound!Present
<1> HIDE DEF row
<1>5. /\ new \in Bound!Rows /\ new.score = row.score + 1
      /\ new.attributes = row.attributes \cup {s}
      /\ new.subject = row.subject
  <2>1. /\ row.score \in Nat /\ row.attributes \in SUBSET (Signals \cup Binds)
        /\ row.subject \in Bound!Subjects /\ row.at \in Nat
    BY <1>2 DEF Bound!Rows
  <2>2. score \in Nat /\ at \in Nat /\ score = row.score + 1
    BY <1>1, <2>1
  <2> HIDE DEF score, at
  <2>3. new \in Bound!Rows
    BY <1>2, <2>2 DEF Bound!Rows
  <2>4. /\ new.score = score /\ new.attributes = row.attributes \cup {s}
        /\ new.subject = row.subject
    BY <1>2, <2>2 DEF Bound!Rows
  <2> HIDE DEF new
  <2>. QED  BY <2>2, <2>3, <2>4
<1> HIDE DEF new
<1>6. rows'[s.who] = new /\ \A p \in Principals : p # s.who => rows'[p] = rows[p]
  BY <1>1, <1>3 DEF Bound!TypeOK
<1>7. rows' \in [Principals -> Bound!Rows \cup {None}]
  BY <1>1, <1>3, <1>5 DEF Bound!TypeOK
<1>. QED  BY <1>1, <1>4, <1>5, <1>6, <1>7 DEF Bound!Rows

\* What a binding makes of the rows.
LEMMA UpsertDone ==
    ASSUME BindingsAssumption, Bound!TypeOK, Bound!BindingsRead, NEW b \in Binds,
           Bound!Upsert(b)
    PROVE  /\ rows' \in [Principals -> Bound!Rows \cup {None}] /\ b.who \in Principals
           /\ \A p \in Principals : p # b.who => rows'[p] = rows[p]
           /\ rows'[b.who] # None /\ rows'[b.who].subject = b.subject
           /\ Bound!Present(b.who) => rows'[b.who].score = rows[b.who].score
           /\ (Bound!Present(b.who) /\ b.issuer = None) =>
                rows'[b.who].attributes = rows[b.who].attributes
           /\ b.issuer # None => rows'[b.who].attributes = existing[b].attributes \cup {b}
<1> DEFINE row == IF rows[b.who] = None THEN existing[b] ELSE rows[b.who]
           new == Bound!Bound(b, row)
<1>1. /\ b.who \in Principals /\ clock \in Nat /\ None \notin Bound!Rows
      /\ b.subject \in Bound!Subjects
  BY DEF BindingsAssumption, Bound!BindsAssumption, Bound!NoneAssumption, Bound!TypeOK,
         Bound!Subjects
<1>2. row \in Bound!Rows /\ existing[b] \in Bound!Rows
  BY <1>1 DEF Bound!TypeOK, Bound!BindingsRead, Bound!Upsert
<1>3. rows' = [rows EXCEPT ![b.who] = new]
  BY DEF Bound!Upsert
<1>4. Bound!Present(b.who) => row = rows[b.who]
  BY DEF Bound!Present
<1> HIDE DEF row
<1>5. /\ new \in Bound!Rows /\ new.score = row.score /\ new.subject = b.subject
      /\ b.issuer = None => new.attributes = row.attributes
      /\ b.issuer # None => new.attributes = existing[b].attributes \cup {b}
  <2>1. /\ row.score \in Nat /\ row.attributes \in SUBSET (Signals \cup Binds)
        /\ row.subject \in Bound!Subjects /\ row.at \in Nat
        /\ existing[b].attributes \in SUBSET (Signals \cup Binds)
    BY <1>2 DEF Bound!Rows
  <2> DEFINE given == IF b.issuer = None THEN row.attributes
                      ELSE existing[b].attributes \cup {b}
             at == clock + 1
  <2>2. given \in SUBSET (Signals \cup Binds) /\ at \in Nat
    BY <1>1, <2>1
  <2>3. new = [row EXCEPT !.subject = b.subject, !.at = at, !.attributes = given]
    BY <1>2 DEF Bound!Bound, Bound!Rows
  <2>4. /\ b.issuer = None => given = row.attributes
        /\ b.issuer # None => given = existing[b].attributes \cup {b}
    OBVIOUS
  <2> HIDE DEF given, at, new
  <2>5. /\ new \in Bound!Rows /\ new.score = row.score /\ new.subject = b.subject
        /\ new.attributes = given
    BY <1>1, <1>2, <2>2, <2>3 DEF Bound!Rows
  <2>. QED  BY <2>4, <2>5
<1> HIDE DEF new
<1>6. rows'[b.who] = new /\ \A p \in Principals : p # b.who => rows'[p] = rows[p]
  BY <1>1, <1>3 DEF Bound!TypeOK
<1>7. rows' \in [Principals -> Bound!Rows \cup {None}]
  BY <1>1, <1>3, <1>5 DEF Bound!TypeOK
<1>. QED  BY <1>1, <1>4, <1>5, <1>6, <1>7

\* A step keeps the types.
LEMMA BindingTypeStep ==
    ASSUME BindingsAssumption, Bound!BindingsInv, [Bound!Next]_(Bound!vars)
    PROVE  Bound!TypeOK'
<1> USE DEF BindingsAssumption, Bound!BindsAssumption, Bound!SignalsAssumption,
            Bound!NoneAssumption, Bound!BindingsInv, Bound!TypeOK, Bound!Present, Bound!Go,
            Bound!tale, Bound!BindingsRead, Bound!SubjectsBorne
<1>1. ASSUME NEW s \in Signals, Bound!Signal(s) PROVE Bound!TypeOK'
  <2>1. rows' \in [Principals -> Bound!Rows \cup {None}] /\ s.who \in Principals
    BY <1>1, Signalled
  <2>2. clock' \in Nat /\ tally' \in [Principals -> SUBSET Signals]
    BY <1>1, <2>1 DEF Bound!Signal
  <2>. QED  BY <1>1, <2>1, <2>2 DEF Bound!Signal
<1>2. ASSUME NEW e \in Erasures, Bound!Erase(e) PROVE Bound!TypeOK'
  BY <1>2 DEF Bound!Erase
<1>3. ASSUME NEW b \in Binds, Bound!Select(b) PROVE Bound!TypeOK'
  BY <1>3 DEF Bound!Select
<1>4. ASSUME NEW b \in Binds, Bound!Upsert(b) PROVE Bound!TypeOK'
  <2>1. rows' \in [Principals -> Bound!Rows \cup {None}]
    BY <1>4, UpsertDone
  <2>2. clock' \in Nat
    BY <1>4 DEF Bound!Upsert
  <2>. QED  BY <1>4, <2>1, <2>2 DEF Bound!Upsert
<1>5. ASSUME NEW b \in Binds, Bound!LookIssuer(b) PROVE Bound!TypeOK'
  <2>1. found' \in [Binds -> Principals \cup {None}]
    BY <1>5 DEF Bound!LookIssuer
  <2>. QED  BY <1>5, <2>1 DEF Bound!LookIssuer
<1>6. ASSUME NEW b \in Binds, Bound!Link(b) PROVE Bound!TypeOK'
  <2>1. found[b] \in Principals /\ b.who \in Principals
    BY <1>6 DEF Bound!Link
  <2>2. \A e \in edges' : e \in edges \/ (e.from = found[b] /\ e.to = b.who)
    BY <1>6 DEF Bound!Link
  <2>3. \A e \in edges' : e.from \in Principals /\ e.to \in Principals
    BY <2>1, <2>2
  <2>. QED  BY <1>6, <2>3 DEF Bound!Link
<1>7. ASSUME NEW b \in Binds, Bound!Fail(b) PROVE Bound!TypeOK'
  BY <1>7 DEF Bound!Fail
<1>8. CASE UNCHANGED Bound!vars
  BY <1>8 DEF Bound!vars
<1>. QED
  BY <1>1, <1>2, <1>3, <1>4, <1>5, <1>6, <1>7, <1>8 DEF Bound!Next

\* A tally begins with its row, and counts signals that are done.
LEMMA TallyStep ==
    ASSUME BindingsAssumption, Bound!BindingsInv, [Bound!Next]_(Bound!vars)
    PROVE  Bound!TallyTrue'
<1> USE DEF BindingsAssumption, Bound!BindsAssumption, Bound!SignalsAssumption,
            Bound!NoneAssumption, Bound!BindingsInv, Bound!TypeOK, Bound!Present, Bound!Go,
            Bound!tale, Bound!TallyTrue
<1>1. ASSUME NEW s \in Signals, Bound!Signal(s) PROVE Bound!TallyTrue'
  <2>1. /\ s.who \in Principals /\ rows'[s.who] # None
        /\ \A p \in Principals : p # s.who => rows'[p] = rows[p]
    BY <1>1, Signalled
  <2>2. /\ tally'[s.who] = tally[s.who] \cup {s}
        /\ \A p \in Principals : p # s.who => tally'[p] = tally[p]
        /\ pc'[s] = "done" /\ \A t \in Signals : pc[t] = "done" => pc'[t] = "done"
    BY <1>1, <2>1 DEF Bound!Signal
  <2>3. IsFiniteSet(tally[s.who] \cup {s})
    BY <2>1, FS_AddElement, BoundSets
  <2>4. ASSUME NEW p \in Principals
        PROVE  /\ IsFiniteSet(tally'[p]) /\ \A t \in tally'[p] : pc'[t] = "done"
               /\ rows'[p] = None => tally'[p] = {}
    <3>1. CASE p = s.who
      BY <2>1, <2>2, <2>3, <3>1
    <3>2. CASE p # s.who
      BY <2>1, <2>2, <3>2, BoundSets
    <3>. QED  BY <3>1, <3>2
  <2>. QED  BY <2>4, BoundSets
<1>2. ASSUME NEW e \in Erasures, Bound!Erase(e) PROVE Bound!TallyTrue'
  <2>1. /\ e.who \in Principals /\ tally'[e.who] = {}
        /\ \A p \in Principals : p # e.who => tally'[p] = tally[p] /\ rows'[p] = rows[p]
        /\ \A t \in Signals : pc'[t] = pc[t]
    BY <1>2 DEF Bound!Erase
  <2>2. IsFiniteSet({})
    BY FS_EmptySet
  <2>3. ASSUME NEW p \in Principals
        PROVE  /\ IsFiniteSet(tally'[p]) /\ \A t \in tally'[p] : pc'[t] = "done"
               /\ rows'[p] = None => tally'[p] = {}
    <3>1. CASE p = e.who
      BY <2>1, <2>2, <3>1
    <3>2. CASE p # e.who
      BY <2>1, <3>2, BoundSets
    <3>. QED  BY <3>1, <3>2
  <2>. QED  BY <2>3, BoundSets
<1>3. ASSUME NEW b \in Binds, Bound!Select(b) PROVE Bound!TallyTrue'
  BY <1>3 DEF Bound!Select
<1>4. ASSUME NEW b \in Binds, Bound!Upsert(b) PROVE Bound!TallyTrue'
  <2>1. /\ b.who \in Principals /\ rows'[b.who] # None
        /\ \A p \in Principals : p # b.who => rows'[p] = rows[p]
    BY <1>4, UpsertDone
  <2>2. tally' = tally /\ \A t \in Signals : pc'[t] = pc[t]
    BY <1>4 DEF Bound!Upsert
  <2>. QED  BY <2>1, <2>2
<1>5. ASSUME NEW b \in Binds, Bound!LookIssuer(b) PROVE Bound!TallyTrue'
  BY <1>5 DEF Bound!LookIssuer
<1>6. ASSUME NEW b \in Binds, Bound!Link(b) PROVE Bound!TallyTrue'
  BY <1>6 DEF Bound!Link
<1>7. ASSUME NEW b \in Binds, Bound!Fail(b) PROVE Bound!TallyTrue'
  BY <1>7 DEF Bound!Fail
<1>8. CASE UNCHANGED Bound!vars
  BY <1>8 DEF Bound!vars
<1>. QED
  BY <1>1, <1>2, <1>3, <1>4, <1>5, <1>6, <1>7, <1>8 DEF Bound!Next

\* The row a binding writes over is there, or was erased meanwhile.
LEMMA RowReadStep ==
    ASSUME BindingsAssumption, Bound!BindingsInv, [Bound!Next]_(Bound!vars)
    PROVE  Bound!BindingsRead'
<1> USE DEF BindingsAssumption, Bound!BindsAssumption, Bound!SignalsAssumption,
            Bound!NoneAssumption, Bound!BindingsInv, Bound!TypeOK, Bound!Present, Bound!Go,
            Bound!tale, Bound!BindingsRead
<1>1. ASSUME NEW s \in Signals, Bound!Signal(s) PROVE Bound!BindingsRead'
  <2>1. \A p \in Principals : rows[p] # None => rows'[p] # None
    <3>1. rows'[s.who] # None /\ \A p \in Principals : p # s.who => rows'[p] = rows[p]
      BY <1>1, Signalled
    <3> QED
      BY <3>1
  <2>2. /\ existing' = existing /\ erased' = erased
        /\ \A b \in Binds : pc'[b] = "upsert" => pc[b] = "upsert"
    BY <1>1 DEF Bound!Signal
  <2> QED
    BY <2>1, <2>2
<1>2. ASSUME NEW e \in Erasures, Bound!Erase(e) PROVE Bound!BindingsRead'
  BY <1>2 DEF Bound!Erase
<1>3. ASSUME NEW b \in Binds, Bound!Select(b) PROVE Bound!BindingsRead'
  BY <1>3 DEF Bound!Select
<1>4. ASSUME NEW b \in Binds, Bound!Upsert(b) PROVE Bound!BindingsRead'
  BY <1>4, UpsertDone DEF Bound!Upsert
<1>5. ASSUME NEW b \in Binds, Bound!LookIssuer(b) PROVE Bound!BindingsRead'
  BY <1>5 DEF Bound!LookIssuer
<1>6. ASSUME NEW b \in Binds, Bound!Link(b) PROVE Bound!BindingsRead'
  BY <1>6 DEF Bound!Link
<1>7. ASSUME NEW b \in Binds, Bound!Fail(b) PROVE Bound!BindingsRead'
  BY <1>7 DEF Bound!Fail
<1>8. CASE UNCHANGED Bound!vars
  BY <1>8 DEF Bound!vars
<1>. QED
  BY <1>1, <1>2, <1>3, <1>4, <1>5, <1>6, <1>7, <1>8 DEF Bound!Next

\* A row is bound to a subject by a binding that was committed.
LEMMA BorneStep ==
    ASSUME BindingsAssumption, Bound!BindingsInv, [Bound!Next]_(Bound!vars)
    PROVE  Bound!SubjectsBorne'
<1> USE DEF BindingsAssumption, Bound!BindsAssumption, Bound!SignalsAssumption,
            Bound!NoneAssumption, Bound!BindingsInv, Bound!TypeOK, Bound!Present, Bound!Go,
            Bound!tale, Bound!SubjectsBorne
<1>1. ASSUME NEW s \in Signals, Bound!Signal(s) PROVE Bound!SubjectsBorne'
  <2>1. /\ \A p \in Principals : p # s.who => rows'[p] = rows[p]
        /\ s.who \in Principals
        /\ rows'[s.who].subject = IF Bound!Present(s.who) THEN rows[s.who].subject ELSE None
    BY <1>1, Signalled
  <2>2. bearers' = bearers /\ found' = found /\ \A b \in Binds : pc'[b] = pc[b]
    BY <1>1 DEF Bound!Signal
  <2>3. ASSUME NEW p \in Principals, rows'[p] # None, rows'[p].subject # None
        PROVE  [who |-> p, subject |-> rows'[p].subject] \in bearers'
    BY <2>1, <2>2, <2>3
  <2>. QED  BY <2>2, <2>3
<1>2. ASSUME NEW e \in Erasures, Bound!Erase(e) PROVE Bound!SubjectsBorne'
  BY <1>2 DEF Bound!Erase
<1>3. ASSUME NEW b \in Binds, Bound!Select(b) PROVE Bound!SubjectsBorne'
  BY <1>3 DEF Bound!Select
<1>4. ASSUME NEW b \in Binds, Bound!Upsert(b) PROVE Bound!SubjectsBorne'
  <2>1. /\ \A p \in Principals : p # b.who => rows'[p] = rows[p]
        /\ b.who \in Principals /\ rows'[b.who].subject = b.subject
    BY <1>4, UpsertDone
  <2>2. /\ bearers' = bearers \cup {[who |-> b.who, subject |-> b.subject]} /\ found' = found
        /\ \A a \in Binds : a # b => pc'[a] = pc[a]
        /\ pc'[b] \in {"look", "done"} /\ (pc'[b] = "look" => b.issuer \in Trusted)
    BY <1>4 DEF Bound!Upsert
  <2>3. ASSUME NEW p \in Principals, rows'[p] # None, rows'[p].subject # None
        PROVE  [who |-> p, subject |-> rows'[p].subject] \in bearers'
    BY <2>1, <2>2, <2>3
  <2>4. ASSUME NEW a \in Binds
        PROVE  /\ pc'[a] \in {"look", "link"} =>
                    a.issuer # None /\ [who |-> a.who, subject |-> a.subject] \in bearers'
               /\ pc'[a] = "link" => [who |-> found'[a], subject |-> a.issuer] \in bearers'
                                     /\ found'[a] # None
    <3>1. CASE a = b
      BY <2>2, <3>1
    <3>2. CASE a # b
      BY <2>2, <3>2
    <3>. QED  BY <3>1, <3>2
  <2>. QED  BY <2>3, <2>4
<1>5. ASSUME NEW b \in Binds, Bound!LookIssuer(b) PROVE Bound!SubjectsBorne'
  <2>1. /\ bearers' = bearers /\ rows' = rows
        /\ \A a \in Binds : a # b => pc'[a] = pc[a] /\ found'[a] = found[a]
        /\ pc[b] = "look" /\ pc'[b] \in {"link", "done"}
    BY <1>5 DEF Bound!LookIssuer
  <2>2. ASSUME pc'[b] = "link"
        PROVE  /\ found'[b] \in Principals
               /\ rows[found'[b]] # None /\ rows[found'[b]].subject = b.issuer
    BY <1>5, <2>2 DEF Bound!LookIssuer
  <2>3. ASSUME NEW a \in Binds
        PROVE  /\ pc'[a] \in {"look", "link"} =>
                    a.issuer # None /\ [who |-> a.who, subject |-> a.subject] \in bearers'
               /\ pc'[a] = "link" => [who |-> found'[a], subject |-> a.issuer] \in bearers'
                                     /\ found'[a] # None
    <3>1. CASE a = b
      BY <2>1, <2>2, <3>1
    <3>2. CASE a # b
      BY <2>1, <3>2
    <3>. QED  BY <3>1, <3>2
  <2>. QED  BY <2>1, <2>3
<1>6. ASSUME NEW b \in Binds, Bound!Link(b) PROVE Bound!SubjectsBorne'
  BY <1>6 DEF Bound!Link
<1>7. ASSUME NEW b \in Binds, Bound!Fail(b) PROVE Bound!SubjectsBorne'
  BY <1>7 DEF Bound!Fail
<1>8. CASE UNCHANGED Bound!vars
  BY <1>8 DEF Bound!vars
<1>. QED
  BY <1>1, <1>2, <1>3, <1>4, <1>5, <1>6, <1>7, <1>8 DEF Bound!Next

\* A score is the number of the signals since its row was created.
LEMMA ScoresStep ==
    ASSUME BindingsAssumption, Bound!BindingsInv, [Bound!Next]_(Bound!vars)
    PROVE  Bound!ScoresKept'
<1> USE DEF BindingsAssumption, Bound!BindsAssumption, Bound!SignalsAssumption,
            Bound!NoneAssumption, Bound!BindingsInv, Bound!TypeOK, Bound!Present, Bound!Go,
            Bound!tale, Bound!ScoresKept, Bound!TallyTrue, Bound!BindingsKept
<1>1. ASSUME NEW s \in Signals, Bound!Signal(s) PROVE Bound!ScoresKept'
  <2>1. /\ s.who \in Principals
        /\ \A p \in Principals : p # s.who => rows'[p] = rows[p]
        /\ rows'[s.who].score = IF Bound!Present(s.who) THEN rows[s.who].score + 1 ELSE 1
    BY <1>1, Signalled
  <2>2. /\ tally'[s.who] = tally[s.who] \cup {s} /\ revived' = revived
        /\ \A p \in Principals : p # s.who => tally'[p] = tally[p]
    BY <1>1, <2>1 DEF Bound!Signal
  <2>3. s \notin tally[s.who] /\ IsFiniteSet(tally[s.who])
    BY <1>1, <2>1, BoundSets DEF Bound!Signal
  <2>4. Cardinality(tally[s.who] \cup {s}) = Cardinality(tally[s.who]) + 1
    BY <2>3, FS_AddElement
  <2>5. ~ Bound!Present(s.who) => Cardinality(tally[s.who]) = 0
    BY <2>1, FS_EmptySet
  <2>6. s.who \notin revived => rows'[s.who].score = Cardinality(tally'[s.who])
    BY <2>1, <2>2, <2>4, <2>5, BoundSets
  <2>7. ASSUME NEW p \in Principals, rows'[p] # None, p \notin revived'
        PROVE  rows'[p].score = Cardinality(tally'[p])
    <3>1. CASE p = s.who
      BY <2>2, <2>6, <2>7, <3>1
    <3>2. CASE p # s.who
      BY <2>1, <2>2, <2>7, <3>2, BoundSets
    <3>. QED  BY <3>1, <3>2
  <2>. QED  BY <2>7, BoundSets
<1>2. ASSUME NEW e \in Erasures, Bound!Erase(e) PROVE Bound!ScoresKept'
  BY <1>2, FS_EmptySet DEF Bound!Erase
<1>3. ASSUME NEW b \in Binds, Bound!Select(b) PROVE Bound!ScoresKept'
  BY <1>3 DEF Bound!Select
<1>4. ASSUME NEW b \in Binds, Bound!Upsert(b) PROVE Bound!ScoresKept'
  <2>1. /\ b.who \in Principals
        /\ \A p \in Principals : p # b.who => rows'[p] = rows[p]
        /\ Bound!Present(b.who) => rows'[b.who].score = rows[b.who].score
    BY <1>4, UpsertDone
  <2>2. /\ tally' = tally /\ revived \subseteq revived'
        /\ ~ Bound!Present(b.who) => b.who \in revived'
    BY <1>4 DEF Bound!Upsert
  <2>3. ASSUME NEW p \in Principals, rows'[p] # None, p \notin revived'
        PROVE  rows'[p].score = Cardinality(tally'[p])
    <3>1. CASE p = b.who
      BY <2>1, <2>2, <2>3, <3>1, BoundSets
    <3>2. CASE p # b.who
      BY <2>1, <2>2, <2>3, <3>2, BoundSets
    <3>. QED  BY <3>1, <3>2
  <2>. QED  BY <2>3, BoundSets
<1>5. ASSUME NEW b \in Binds, Bound!LookIssuer(b) PROVE Bound!ScoresKept'
  BY <1>5 DEF Bound!LookIssuer
<1>6. ASSUME NEW b \in Binds, Bound!Link(b) PROVE Bound!ScoresKept'
  BY <1>6 DEF Bound!Link
<1>7. ASSUME NEW b \in Binds, Bound!Fail(b) PROVE Bound!ScoresKept'
  BY <1>7 DEF Bound!Fail
<1>8. CASE UNCHANGED Bound!vars
  BY <1>8 DEF Bound!vars
<1>. QED
  BY <1>1, <1>2, <1>3, <1>4, <1>5, <1>6, <1>7, <1>8 DEF Bound!Next

\* A binding creates a row only where one was erased under it.
LEMMA NoneStep ==
    ASSUME BindingsAssumption, Bound!BindingsInv, [Bound!Next]_(Bound!vars)
    PROVE  Bound!NoneMade'
<1> USE DEF BindingsAssumption, Bound!BindsAssumption, Bound!SignalsAssumption,
            Bound!NoneAssumption, Bound!BindingsInv, Bound!TypeOK, Bound!Present, Bound!Go,
            Bound!tale, Bound!NoneMade, Bound!BindingsRead, Bound!BindingsKept
<1>1. ASSUME NEW s \in Signals, Bound!Signal(s) PROVE Bound!NoneMade'
  BY <1>1 DEF Bound!Signal
<1>2. ASSUME NEW e \in Erasures, Bound!Erase(e) PROVE Bound!NoneMade'
  BY <1>2 DEF Bound!Erase
<1>3. ASSUME NEW b \in Binds, Bound!Select(b) PROVE Bound!NoneMade'
  BY <1>3 DEF Bound!Select
<1>4. ASSUME NEW b \in Binds, Bound!Upsert(b) PROVE Bound!NoneMade'
  BY <1>4 DEF Bound!Upsert
<1>5. ASSUME NEW b \in Binds, Bound!LookIssuer(b) PROVE Bound!NoneMade'
  BY <1>5 DEF Bound!LookIssuer
<1>6. ASSUME NEW b \in Binds, Bound!Link(b) PROVE Bound!NoneMade'
  BY <1>6 DEF Bound!Link
<1>7. ASSUME NEW b \in Binds, Bound!Fail(b) PROVE Bound!NoneMade'
  BY <1>7 DEF Bound!Fail
<1>8. CASE UNCHANGED Bound!vars
  BY <1>8 DEF Bound!vars
<1>. QED
  BY <1>1, <1>2, <1>3, <1>4, <1>5, <1>6, <1>7, <1>8 DEF Bound!Next

\* What signals give a row is lost only to a credential.
LEMMA AttributesStep ==
    ASSUME BindingsAssumption, Bound!BindingsInv, [Bound!Next]_(Bound!vars)
    PROVE  Bound!AttributesKept'
<1> USE DEF BindingsAssumption, Bound!BindsAssumption, Bound!SignalsAssumption,
            Bound!NoneAssumption, Bound!BindingsInv, Bound!TypeOK, Bound!Present, Bound!Go,
            Bound!tale, Bound!AttributesKept, Bound!TallyTrue, Bound!BindingsRead,
            Bound!BindingsKept
<1>1. ASSUME NEW s \in Signals, Bound!Signal(s) PROVE Bound!AttributesKept'
  <2>1. /\ s.who \in Principals
        /\ \A p \in Principals : p # s.who => rows'[p] = rows[p]
        /\ rows'[s.who].attributes =
             (IF Bound!Present(s.who) THEN rows[s.who].attributes ELSE {}) \cup {s}
    BY <1>1, Signalled
  <2>2. /\ tally'[s.who] = tally[s.who] \cup {s} /\ overwritten' = overwritten
        /\ \A p \in Principals : p # s.who => tally'[p] = tally[p]
    BY <1>1, <2>1 DEF Bound!Signal
  <2>3. ~ Bound!Present(s.who) => tally[s.who] = {}
    BY <2>1
  <2>4. ASSUME NEW p \in Principals, rows'[p] # None, p \notin overwritten'
        PROVE  tally'[p] \subseteq rows'[p].attributes
    <3>1. CASE p = s.who
      BY <2>1, <2>2, <2>3, <2>4, <3>1
    <3>2. CASE p # s.who
      BY <2>1, <2>2, <2>4, <3>2
    <3>. QED  BY <3>1, <3>2
  <2>. QED  BY <2>4
<1>2. ASSUME NEW e \in Erasures, Bound!Erase(e) PROVE Bound!AttributesKept'
  BY <1>2 DEF Bound!Erase
<1>3. ASSUME NEW b \in Binds, Bound!Select(b) PROVE Bound!AttributesKept'
  BY <1>3 DEF Bound!Select
<1>4. ASSUME NEW b \in Binds, Bound!Upsert(b) PROVE Bound!AttributesKept'
  <2>1. /\ b.who \in Principals
        /\ \A p \in Principals : p # b.who => rows'[p] = rows[p]
        /\ (Bound!Present(b.who) /\ b.issuer = None) =>
             rows'[b.who].attributes = rows[b.who].attributes
        /\ b.issuer # None => rows'[b.who].attributes = existing[b].attributes \cup {b}
    BY <1>4, UpsertDone
  <2>2. /\ tally' = tally /\ overwritten \subseteq overwritten'
        /\ (Bound!Present(b.who) /\ b.issuer # None /\ b.who \notin overwritten') =>
             rows[b.who].attributes \subseteq existing[b].attributes
    BY <1>4 DEF Bound!Upsert
  <2>3. ~ Bound!Present(b.who) => tally[b.who] = {}
    BY <2>1
  <2>4. ASSUME NEW p \in Principals, rows'[p] # None, p \notin overwritten'
        PROVE  tally'[p] \subseteq rows'[p].attributes
    <3>1. CASE p = b.who
      BY <2>1, <2>2, <2>3, <2>4, <3>1
    <3>2. CASE p # b.who
      BY <2>1, <2>2, <2>4, <3>2
    <3>. QED  BY <3>1, <3>2
  <2>. QED  BY <2>4
<1>5. ASSUME NEW b \in Binds, Bound!LookIssuer(b) PROVE Bound!AttributesKept'
  BY <1>5 DEF Bound!LookIssuer
<1>6. ASSUME NEW b \in Binds, Bound!Link(b) PROVE Bound!AttributesKept'
  BY <1>6 DEF Bound!Link
<1>7. ASSUME NEW b \in Binds, Bound!Fail(b) PROVE Bound!AttributesKept'
  BY <1>7 DEF Bound!Fail
<1>8. CASE UNCHANGED Bound!vars
  BY <1>8 DEF Bound!vars
<1>. QED
  BY <1>1, <1>2, <1>3, <1>4, <1>5, <1>6, <1>7, <1>8 DEF Bound!Next

\* An edge is drawn between principals that were bound.
LEMMA EdgesStep ==
    ASSUME BindingsAssumption, Bound!BindingsInv, [Bound!Next]_(Bound!vars)
    PROVE  Bound!EdgesExplained'
<1> USE DEF BindingsAssumption, Bound!BindsAssumption, Bound!SignalsAssumption,
            Bound!NoneAssumption, Bound!BindingsInv, Bound!TypeOK, Bound!Present, Bound!Go,
            Bound!tale, Bound!EdgesExplained, Bound!SubjectsBorne, Bound!BindingsKept
<1>1. ASSUME NEW s \in Signals, Bound!Signal(s) PROVE Bound!EdgesExplained'
  BY <1>1 DEF Bound!Signal
<1>2. ASSUME NEW e \in Erasures, Bound!Erase(e) PROVE Bound!EdgesExplained'
  BY <1>2 DEF Bound!Erase
<1>3. ASSUME NEW b \in Binds, Bound!Select(b) PROVE Bound!EdgesExplained'
  BY <1>3 DEF Bound!Select
<1>4. ASSUME NEW b \in Binds, Bound!Upsert(b) PROVE Bound!EdgesExplained'
  BY <1>4 DEF Bound!Upsert
<1>5. ASSUME NEW b \in Binds, Bound!LookIssuer(b) PROVE Bound!EdgesExplained'
  BY <1>5 DEF Bound!LookIssuer
<1>6. ASSUME NEW b \in Binds, Bound!Link(b) PROVE Bound!EdgesExplained'
  <2>1. /\ [who |-> found[b], subject |-> b.issuer] \in bearers
        /\ [who |-> b.who, subject |-> b.subject] \in bearers /\ bearers' = bearers
    BY <1>6 DEF Bound!Link
  <2>2. \A e \in edges' :
            e \in edges \/ (e.from = found[b] /\ e.to = b.who /\ e.did = b.issuer)
    BY <1>6 DEF Bound!Link
  <2>. QED  BY <2>1, <2>2
<1>7. ASSUME NEW b \in Binds, Bound!Fail(b) PROVE Bound!EdgesExplained'
  BY <1>7 DEF Bound!Fail
<1>8. CASE UNCHANGED Bound!vars
  BY <1>8 DEF Bound!vars
<1>. QED
  BY <1>1, <1>2, <1>3, <1>4, <1>5, <1>6, <1>7, <1>8 DEF Bound!Next

\* At first rows have no signals, no subject and no edges.
LEMMA BindingsInit ==
    ASSUME BindingsAssumption, Bound!Init
    PROVE  Bound!BindingsInv
<1> USE DEF BindingsAssumption, Bound!BindsAssumption, Bound!SignalsAssumption,
            Bound!StartsAssumption, Bound!NoneAssumption, Bound!Init, Bound!Present
<1>1. \A p \in Principals : rows[p] \in {Bound!NoRow, None}
  OBVIOUS
<1>2. /\ Bound!NoRow \in Bound!Rows /\ Bound!NoRow.score = 0 /\ Bound!NoRow.attributes = {}
      /\ Bound!NoRow.subject = None
  BY DEF Bound!NoRow, Bound!Rows, Bound!Subjects
<1>3. Bound!TypeOK
  BY <1>1, <1>2 DEF Bound!TypeOK
<1>4. Bound!TallyTrue /\ Bound!BindingsRead
  BY FS_EmptySet, BoundSets DEF Bound!TallyTrue, Bound!BindingsRead
<1>5. Bound!SubjectsBorne
  BY <1>1, <1>2 DEF Bound!SubjectsBorne
<1>6. \A p \in Principals : tally[p] = {} /\ Cardinality(tally[p]) = 0
  BY FS_EmptySet
<1>7. Bound!BindingsKept
  <2>1. Bound!ScoresKept
    BY <1>1, <1>2, <1>6, BoundSets DEF Bound!ScoresKept
  <2>2. Bound!NoneMade /\ Bound!AttributesKept /\ Bound!EdgesExplained
    BY <1>6 DEF Bound!NoneMade, Bound!AttributesKept, Bound!EdgesExplained
  <2>. QED  BY <2>1, <2>2 DEF Bound!BindingsKept
<1>. QED  BY <1>3, <1>4, <1>5, <1>7 DEF Bound!BindingsInv

\* Whatever bindings, signals and deletions interleave: a score counts the signals of its row,
\* a binding creates no row but where one was deleted under it, only a credential costs a row
\* attributes, and edges run between principals that were bound to the DIDs they name.
THEOREM BindingsKeptHolds ==
    ASSUME BindingsAssumption
    PROVE  Bound!Spec => [](Bound!TypeOK /\ Bound!BindingsKept)
<1>1. Bound!Init => Bound!BindingsInv
  BY BindingsInit
<1>2. Bound!BindingsInv /\ [Bound!Next]_(Bound!vars) => Bound!BindingsInv'
  BY BindingTypeStep, TallyStep, RowReadStep, BorneStep, ScoresStep, NoneStep,
     AttributesStep, EdgesStep DEF Bound!BindingsInv, Bound!BindingsKept
<1>3. Bound!BindingsInv => Bound!TypeOK /\ Bound!BindingsKept
  BY DEF Bound!BindingsInv
<1>. QED
  BY <1>1, <1>2, <1>3, PTL DEF Bound!Spec

-----------------------------------------------------------------------------
(* The runs of campaigns.  RunsInv is of each run by itself: what a step does *)
(* to one run leaves the others as they are.                               *)

\* The least of two numbers.
LEMMA MinOfTwo ==
    ASSUME NEW a \in Int, NEW b \in Int
    PROVE  /\ Run!Min({a, b}) \in {a, b} /\ Run!Min({a, b}) <= a /\ Run!Min({a, b}) <= b
<1>1. CASE a <= b
  <2>1. a \in {a, b} /\ \A y \in {a, b} : a <= y
    BY <1>1
  <2> QED
    BY <2>1 DEF Run!Min
<1>2. CASE b <= a
  <2>1. b \in {a, b} /\ \A y \in {a, b} : b <= y
    BY <1>2
  <2> QED
    BY <2>1 DEF Run!Min
<1> QED
  BY <1>1, <1>2

\* What is left for an entry or a turn.
LEMMA Budgets ==
    ASSUME Run!RunsAssumption, NEW n \in Nat
    PROVE  /\ Run!Min({Entries, MaxPrompts}) \in Nat
           /\ Run!Min({Entries, MaxPrompts}) <= Entries
           /\ Run!Min({Entries, MaxPrompts}) <= MaxPrompts
           /\ Run!Min({Turns, MaxPrompts - n}) \in Int
           /\ Run!Min({Turns, MaxPrompts - n}) <= Turns
           /\ Run!Min({Turns, MaxPrompts - n}) <= MaxPrompts - n
<1>1. /\ Entries \in Nat /\ MaxPrompts \in Nat /\ Turns \in Nat
      /\ Entries \in Int /\ MaxPrompts \in Int /\ Turns \in Int /\ MaxPrompts - n \in Int
  BY DEF Run!RunsAssumption
<1>2. /\ Run!Min({Entries, MaxPrompts}) \in {Entries, MaxPrompts}
      /\ /\ Run!Min({Entries, MaxPrompts}) <= Entries
         /\ Run!Min({Entries, MaxPrompts}) <= MaxPrompts
  BY <1>1, MinOfTwo
<1>3. /\ Run!Min({Turns, MaxPrompts - n}) \in {Turns, MaxPrompts - n}
      /\ /\ Run!Min({Turns, MaxPrompts - n}) <= Turns
         /\ Run!Min({Turns, MaxPrompts - n}) <= MaxPrompts - n
  BY <1>1, MinOfTwo
<1> QED
  BY <1>1, <1>2, <1>3

\* Counters stay within what the budgets leave.
LEMMA RunsTypeStep ==
    ASSUME Run!RunsAssumption, Run!RunsInv, [Run!Next]_(Run!vars)
    PROVE  Run!TypeOK'
<1> USE DEF Run!TypeOK, Run!Statuses, Run!Steps, Run!Go, Run!Finish, Run!Fail, Run!rows,
            Run!loop, Run!Talks
<1>t. /\ Run!TypeOK /\ Entries \in Nat /\ Turns \in Nat /\ MaxPrompts \in Nat /\ Stale \in Nat
      /\ Branches \in Nat /\ Monthly \in Nat
  BY DEF Run!RunsInv, Run!RunsAssumption
<1>1. ASSUME NEW r \in Runs, Run!Start(r) PROVE Run!TypeOK'
  BY <1>t, <1>1 DEF Run!Start
<1>2. ASSUME NEW r \in Runs, Run!Complete(r) PROVE Run!TypeOK'
  BY <1>t, <1>2 DEF Run!Complete, Run!Exhausted
<1>3. ASSUME NEW r \in Runs, Run!NextEntry(r) PROVE Run!TypeOK'
  <2>1. entry[r] \in 0..Entries /\ (~ Run!Exhausted(r) => entry[r] + 1 \in 0..Entries)
    <3>1. entry[r] <= IF Run!Talks(r) THEN Entries ELSE Run!Min({Entries, MaxPrompts})
      BY DEF Run!RunsInv, Run!RunInv, Run!PromptsFit
    <3>2. Run!Min({Entries, MaxPrompts}) \in Nat /\ Run!Min({Entries, MaxPrompts}) <= Entries
      BY Budgets, 0 \in Nat
    <3>3. entry[r] \in Nat /\ entry[r] <= Entries /\ Entries \in Nat
      BY <1>t
    <3> HIDE DEF Run!TypeOK
    <3> QED
      BY <3>1, <3>2, <3>3 DEF Run!Exhausted
  <2> QED
    BY <1>t, <1>3, <2>1 DEF Run!NextEntry
<1>4. ASSUME NEW r \in Runs, Run!NextTurn(r) PROVE Run!TypeOK'
  <2>1. sent[r] \in Nat /\ turn[r] \in 0..Turns
    BY <1>t
  <2>2. ~ (turn[r] >= Run!Min({Turns, MaxPrompts - sent[r]})) => turn[r] + 1 \in 0..Turns
    <3>1. /\ Run!Min({Turns, MaxPrompts - sent[r]}) \in Int /\ turn[r] \in Nat /\ Turns \in Nat
          /\ Run!Min({Turns, MaxPrompts - sent[r]}) <= Turns
      BY <1>t, <2>1, Budgets
    <3> HIDE DEF Run!TypeOK
    <3> QED
      BY <3>1
  <2> QED
    BY <1>t, <1>4, <2>1, <2>2 DEF Run!NextTurn, Run!BrokenOff
<1>5. ASSUME NEW r \in Runs, Run!Consume(r) PROVE Run!TypeOK'
  BY <1>t, <1>5 DEF Run!Consume, Run!Charged
<1>6. ASSUME NEW r \in Runs, Run!ConsumeOpen(r) PROVE Run!TypeOK'
  BY <1>t, <1>6 DEF Run!ConsumeOpen
<1>7. ASSUME NEW r \in Runs, Run!Send(r) PROVE Run!TypeOK'
  BY <1>t, <1>7 DEF Run!Send
<1>8. ASSUME NEW r \in Runs, Run!SendFails(r) PROVE Run!TypeOK'
  BY <1>t, <1>8 DEF Run!SendFails
<1>9. ASSUME NEW r \in Runs, Run!Report(r) PROVE Run!TypeOK'
  BY <1>t, <1>9 DEF Run!Report, Run!BeatDue
<1>10. ASSUME NEW r \in Runs, Run!ReportFails(r) PROVE Run!TypeOK'
  BY <1>t, <1>10 DEF Run!ReportFails, Run!BeatDue
<1>11. ASSUME NEW r \in Runs, Run!Finalise(r) PROVE Run!TypeOK'
  BY <1>t, <1>11 DEF Run!Finalise, Run!RunsInv, Run!RunInv, Run!Ending
<1>12. ASSUME NEW r \in Runs, Run!FinaliseFails(r) PROVE Run!TypeOK'
  BY <1>t, <1>12 DEF Run!FinaliseFails
<1>13. ASSUME NEW r \in Runs, Run!Raise(r) PROVE Run!TypeOK'
  BY <1>t, <1>13 DEF Run!Raise
<1>14. ASSUME NEW r \in Runs, Run!Die(r) PROVE Run!TypeOK'
  BY <1>t, <1>14 DEF Run!Die
<1>15. ASSUME NEW r \in Runs, Run!RequestCancel(r) PROVE Run!TypeOK'
  BY <1>t, <1>15 DEF Run!RequestCancel
<1>16. CASE Run!Reconcile
  BY <1>t, <1>16 DEF Run!Reconcile
<1>17. CASE Run!Tick
  BY <1>t, <1>17 DEF Run!Tick, Run!Later
<1>18. CASE UNCHANGED Run!vars
  BY <1>t, <1>18 DEF Run!vars, Run!rows, Run!loop
<1> QED
  BY <1>1, <1>2, <1>3, <1>4, <1>5, <1>6, <1>7, <1>8, <1>9, <1>10, <1>11, <1>12, <1>13,
     <1>14, <1>15, <1>16, <1>17, <1>18 DEF Run!Next, Run!Work, Run!Trouble

\* What a run's invariant speaks of.
Same(q) ==
    /\ kind'[q] = kind[q] /\ status'[q] = status[q] /\ asked'[q] = asked[q]
    /\ age'[q] = age[q] /\ pc'[q] = pc[q] /\ outcome'[q] = outcome[q]
    /\ entry'[q] = entry[q] /\ turn'[q] = turn[q] /\ sent'[q] = sent[q]
    /\ talked'[q] = talked[q] /\ late'[q] = late[q] /\ cut'[q] = cut[q]
    /\ beatAge'[q] = beatAge[q] /\ entryAge'[q] = entryAge[q] /\ missed'[q] = missed[q]

\* What does not touch a run keeps its invariant.
LEMMA SameKeeps == ASSUME NEW q \in Runs, Run!RunInv(q), Same(q) PROVE Run!RunInv(q)'
BY DEF Same, Run!RunInv, Run!Ending, Run!CancelSeen, Run!PromptsFit, Run!Beating, Run!Talks,
       Run!Working

\* A run's worker and what happens to it leave the other runs alone.
LEMMA OthersSame ==
    ASSUME Run!TypeOK, NEW r \in Runs, Run!Work(r) \/ Run!Trouble(r) \/ Run!RequestCancel(r),
           NEW q \in Runs \ {r}
    PROVE  Same(q)
<1> USE DEF Run!TypeOK, Run!Go, Run!Finish, Run!rows, Run!loop, Same
<1>1. CASE Run!Start(r)
  BY <1>1 DEF Run!Start
<1>2. CASE Run!Complete(r)
  BY <1>2 DEF Run!Complete
<1>3. CASE Run!NextEntry(r)
  BY <1>3 DEF Run!NextEntry
<1>4. CASE Run!NextTurn(r)
  BY <1>4 DEF Run!NextTurn
<1>5. CASE Run!Consume(r)
  BY <1>5 DEF Run!Consume
<1>6. CASE Run!ConsumeOpen(r)
  BY <1>6 DEF Run!ConsumeOpen
<1>7. CASE Run!Send(r)
  BY <1>7 DEF Run!Send
<1>8. CASE Run!SendFails(r)
  BY <1>8 DEF Run!SendFails
<1>9. CASE Run!Report(r)
  BY <1>9 DEF Run!Report
<1>10. CASE Run!ReportFails(r)
  BY <1>10 DEF Run!ReportFails
<1>11. CASE Run!Finalise(r)
  BY <1>11 DEF Run!Finalise
<1>12. CASE Run!FinaliseFails(r)
  BY <1>12 DEF Run!FinaliseFails
<1>13. CASE Run!Raise(r)
  BY <1>13 DEF Run!Raise
<1>14. CASE Run!Die(r)
  BY <1>14 DEF Run!Die
<1>15. CASE Run!RequestCancel(r)
  BY <1>15 DEF Run!RequestCancel
<1> QED
  BY <1>1, <1>2, <1>3, <1>4, <1>5, <1>6, <1>7, <1>8, <1>9, <1>10, <1>11, <1>12, <1>13,
     <1>14, <1>15 DEF Run!Work, Run!Trouble

\* A run ends as its worker means it to.
LEMMA EndingStep ==
    ASSUME Run!RunsAssumption, Run!TypeOK, Run!TypeOK', NEW r \in Runs, Run!RunInv(r),
           Run!Work(r) \/ Run!Trouble(r) \/ Run!RequestCancel(r)
    PROVE  Run!Ending(r)'
<1> USE DEF Run!TypeOK, Run!Go, Run!Finish, Run!rows, Run!loop, Run!RunInv, Run!Ending,
            Run!Talks
<1>1. CASE Run!Start(r)
  BY <1>1 DEF Run!Start
<1>2. CASE Run!Complete(r)
  BY <1>2 DEF Run!Complete
<1>3. CASE Run!NextEntry(r)
  BY <1>3 DEF Run!NextEntry
<1>4. CASE Run!NextTurn(r)
  BY <1>4 DEF Run!NextTurn
<1>5. CASE Run!Consume(r)
  BY <1>5 DEF Run!Consume
<1>6. CASE Run!ConsumeOpen(r)
  BY <1>6 DEF Run!ConsumeOpen
<1>7. CASE Run!Send(r)
  BY <1>7 DEF Run!Send
<1>8. CASE Run!SendFails(r)
  BY <1>8 DEF Run!SendFails
<1>9. CASE Run!Report(r)
  BY <1>9 DEF Run!Report
<1>10. CASE Run!ReportFails(r)
  BY <1>10 DEF Run!ReportFails
<1>11. CASE Run!Finalise(r)
  BY <1>11 DEF Run!Finalise
<1>12. CASE Run!FinaliseFails(r)
  BY <1>12 DEF Run!FinaliseFails
<1>13. CASE Run!Raise(r)
  BY <1>13 DEF Run!Raise
<1>14. CASE Run!Die(r)
  BY <1>14 DEF Run!Die
<1>15. CASE Run!RequestCancel(r)
  BY <1>15 DEF Run!RequestCancel
<1> QED
  BY <1>1, <1>2, <1>3, <1>4, <1>5, <1>6, <1>7, <1>8, <1>9, <1>10, <1>11, <1>12, <1>13,
     <1>14, <1>15 DEF Run!Work, Run!Trouble

\* After a cancel was asked the worker finishes the call it is in.
LEMMA CancelSeenStep ==
    ASSUME Run!RunsAssumption, Run!TypeOK, Run!TypeOK', NEW r \in Runs, Run!RunInv(r),
           Run!Work(r) \/ Run!Trouble(r) \/ Run!RequestCancel(r)
    PROVE  Run!CancelSeen(r)'
<1> USE DEF Run!TypeOK, Run!Go, Run!Finish, Run!rows, Run!loop, Run!RunInv, Run!CancelSeen,
            Run!Talks
<1>1. CASE Run!Start(r)
  BY <1>1 DEF Run!Start
<1>2. CASE Run!Complete(r)
  BY <1>2 DEF Run!Complete, Run!Exhausted
<1>3. CASE Run!NextEntry(r)
  BY <1>3 DEF Run!NextEntry
<1>4. CASE Run!NextTurn(r)
  <2>1. /\ pc[r] = "turn" /\ pc'[r] \in {"report", "consume"}
        /\ asked[r] => pc'[r] = "report"
        /\ cut'[r] => cut[r] \/ asked[r]
        /\ UNCHANGED <<kind, asked, outcome, entry, late>>
    BY <1>4 DEF Run!NextTurn, Run!BrokenOff
  <2> QED
    BY <2>1 DEF Run!Ending
<1>5. CASE Run!Consume(r)
  BY <1>5 DEF Run!Consume
<1>6. CASE Run!ConsumeOpen(r)
  BY <1>6 DEF Run!ConsumeOpen
<1>7. CASE Run!Send(r)
  BY <1>7 DEF Run!Send
<1>8. CASE Run!SendFails(r)
  BY <1>8 DEF Run!SendFails
<1>9. CASE Run!Report(r)
  BY <1>9 DEF Run!Report
<1>10. CASE Run!ReportFails(r)
  BY <1>10 DEF Run!ReportFails
<1>11. CASE Run!Finalise(r)
  BY <1>11 DEF Run!Finalise
<1>12. CASE Run!FinaliseFails(r)
  BY <1>12 DEF Run!FinaliseFails
<1>13. CASE Run!Raise(r)
  BY <1>13 DEF Run!Raise
<1>14. CASE Run!Die(r)
  BY <1>14 DEF Run!Die
<1>15. CASE Run!RequestCancel(r)
  BY <1>15 DEF Run!RequestCancel
<1> QED
  BY <1>1, <1>2, <1>3, <1>4, <1>5, <1>6, <1>7, <1>8, <1>9, <1>10, <1>11, <1>12, <1>13,
     <1>14, <1>15 DEF Run!Work, Run!Trouble

\* Each call of the target is within what is left of the budget.
LEMMA PromptsFitStep ==
    ASSUME Run!RunsAssumption, Run!TypeOK, Run!TypeOK', NEW r \in Runs, Run!RunInv(r),
           Run!Work(r) \/ Run!Trouble(r) \/ Run!RequestCancel(r)
    PROVE  Run!PromptsFit(r)'
<1> USE DEF Run!TypeOK, Run!Go, Run!Finish, Run!rows, Run!loop, Run!RunInv, Run!PromptsFit,
            Run!Talks
<1>1. CASE Run!Start(r)
  BY <1>1 DEF Run!Start
<1>2. CASE Run!Complete(r)
  BY <1>2 DEF Run!Complete
<1>3. CASE Run!NextEntry(r)
  <2>1. /\ Run!Min({Entries, MaxPrompts}) \in Nat /\ entry[r] \in Nat /\ Entries \in Nat
        /\ MaxPrompts \in Nat
    <3>1. Run!Min({Entries, MaxPrompts}) \in Nat
      BY Budgets, 0 \in Nat
    <3> QED
      BY <3>1 DEF Run!RunsAssumption
  <2>2. ~ Run!Exhausted(r) =>
            entry[r] + 1 <= IF Run!Talks(r) THEN Entries ELSE Run!Min({Entries, MaxPrompts})
    <3>1. CASE Run!Talks(r)
      <4>1. entry[r] <= Entries /\ (~ Run!Exhausted(r) => entry[r] # Entries)
        BY <3>1 DEF Run!Exhausted
      <4> QED
        BY <2>1, <3>1, <4>1
    <3>2. CASE ~ Run!Talks(r)
      <4> DEFINE m == Run!Min({Entries, MaxPrompts})
      <4>1. entry[r] <= m /\ (~ Run!Exhausted(r) => entry[r] # m)
        BY <3>2 DEF Run!Exhausted
      <4>2. m \in Nat /\ entry[r] \in Nat
        BY <2>1
      <4> HIDE DEF m
      <4>3. ~ Run!Exhausted(r) => entry[r] + 1 <= m
        BY <4>1, <4>2
      <4> QED
        BY <3>2, <4>3 DEF m
    <3> QED
      BY <3>1, <3>2
  <2>3. /\ pc[r] = "entry" /\ ~ Run!Exhausted(r)
        /\ kind' = kind /\ sent' = sent /\ talked' = talked
        /\ \/ pc'[r] = "finalise" /\ entry' = entry
           \/ /\ entry'[r] = entry[r] + 1 /\ turn'[r] = 0
              /\ Run!Talks(r) => pc'[r] = "turn" /\ sent[r] < MaxPrompts
              /\ ~ Run!Talks(r) => pc'[r] = "consume"
    BY <1>3, <2>1 DEF Run!NextEntry
  <2>4. sent[r] \in Nat /\ talked[r] \in Nat /\ (Run!Talks(r)' <=> Run!Talks(r))
    BY <2>3
  <2>5. CASE pc'[r] = "finalise" /\ entry' = entry
    BY <2>1, <2>3, <2>4, <2>5
  <2>6. CASE /\ entry'[r] = entry[r] + 1 /\ turn'[r] = 0
             /\ Run!Talks(r) => pc'[r] = "turn" /\ sent[r] < MaxPrompts
             /\ ~ Run!Talks(r) => pc'[r] = "consume"
    BY <2>1, <2>2, <2>3, <2>4, <2>6
  <2> QED
    BY <2>3, <2>5, <2>6
<1>4. CASE Run!NextTurn(r)
  <2>1. /\ sent[r] \in Nat /\ turn[r] \in Nat /\ MaxPrompts \in Nat
        /\ Run!Min({Turns, MaxPrompts - sent[r]}) \in Int
        /\ Run!Min({Turns, MaxPrompts - sent[r]}) <= MaxPrompts - sent[r]
    BY Budgets DEF Run!RunsAssumption
  <2>2. /\ pc[r] = "turn" /\ kind' = kind /\ sent' = sent /\ talked' = talked /\ entry' = entry
        /\ \/ pc'[r] = "report" /\ turn' = turn
           \/ /\ pc'[r] = "consume" /\ turn'[r] = turn[r] + 1
              /\ turn[r] < Run!Min({Turns, MaxPrompts - sent[r]})
    BY <1>4, <2>1 DEF Run!NextTurn
  <2>3. pc'[r] = "consume" => sent[r] + turn'[r] <= MaxPrompts
    BY <2>1, <2>2
  <2>4. talked[r] \in Nat /\ (talked[r] <= turn[r] => talked[r] < turn[r] + 1)
    BY <2>1
  <2>5. /\ pc'[r] = "consume" => turn'[r] = turn[r] + 1
        /\ Run!Talks(r)
    BY <2>2 DEF Run!Ending
  <2>6. CASE pc'[r] = "consume"
    BY <2>2, <2>3, <2>4, <2>5, <2>6
  <2>7. CASE pc'[r] = "report" /\ turn' = turn
    BY <2>2, <2>7
  <2> QED
    BY <2>2, <2>6, <2>7
<1>5. CASE Run!Consume(r)
  <2>1. /\ pc[r] = "consume" /\ kind' = kind /\ talked' = talked /\ entry' = entry
        /\ turn' = turn
        /\ \/ pc'[r] = "send" /\ sent'[r] = IF Run!Talks(r) THEN sent[r] ELSE sent[r] + 1
           \/ pc'[r] = "finalise" /\ sent'[r] = sent[r] + talked[r]
    BY <1>5 DEF Run!Consume
  <2>2. sent[r] \in Nat /\ talked[r] \in Nat /\ entry[r] \in Nat /\ turn[r] \in Nat
        /\ MaxPrompts \in Nat
    BY DEF Run!RunsAssumption
  <2> QED
    BY <2>1, <2>2
<1>6. CASE Run!ConsumeOpen(r)
  BY <1>6 DEF Run!ConsumeOpen
<1>7. CASE Run!Send(r)
  BY <1>7 DEF Run!Send
<1>8. CASE Run!SendFails(r)
  BY <1>8 DEF Run!SendFails
<1>9. CASE Run!Report(r)
  <2>1. /\ pc[r] = "report" /\ pc'[r] = "entry" /\ kind' = kind /\ entry' = entry
        /\ turn' = turn
        /\ sent'[r] = sent[r] + talked[r] /\ talked'[r] = 0
    BY <1>9 DEF Run!Report
  <2>2. sent[r] \in Nat /\ talked[r] \in Nat /\ entry[r] \in Nat /\ turn[r] \in Nat
        /\ MaxPrompts \in Nat
    BY DEF Run!RunsAssumption
  <2> QED
    BY <2>1, <2>2
<1>10. CASE Run!ReportFails(r)
  <2>1. /\ pc[r] = "report" /\ pc'[r] = "entry" /\ kind' = kind /\ entry' = entry
        /\ turn' = turn
        /\ sent'[r] = sent[r] + talked[r] /\ talked'[r] = 0
    BY <1>10 DEF Run!ReportFails
  <2>2. sent[r] \in Nat /\ talked[r] \in Nat /\ entry[r] \in Nat /\ turn[r] \in Nat
        /\ MaxPrompts \in Nat
    BY DEF Run!RunsAssumption
  <2> QED
    BY <2>1, <2>2
<1>11. CASE Run!Finalise(r)
  BY <1>11 DEF Run!Finalise
<1>12. CASE Run!FinaliseFails(r)
  BY <1>12 DEF Run!FinaliseFails
<1>13. CASE Run!Raise(r)
  BY <1>13 DEF Run!Raise
<1>14. CASE Run!Die(r)
  BY <1>14 DEF Run!Die
<1>15. CASE Run!RequestCancel(r)
  BY <1>15 DEF Run!RequestCancel
<1> QED
  BY <1>1, <1>2, <1>3, <1>4, <1>5, <1>6, <1>7, <1>8, <1>9, <1>10, <1>11, <1>12, <1>13,
     <1>14, <1>15 DEF Run!Work, Run!Trouble

\* A heartbeat of the row is as old as the worker thinks, unless it was not written.
LEMMA BeatingStep ==
    ASSUME Run!RunsAssumption, Run!TypeOK, Run!TypeOK', NEW r \in Runs, Run!RunInv(r),
           Run!Work(r) \/ Run!Trouble(r) \/ Run!RequestCancel(r)
    PROVE  Run!Beating(r)'
<1> USE DEF Run!TypeOK, Run!Go, Run!Finish, Run!rows, Run!loop, Run!RunInv, Run!Beating,
            Run!Working
<1>1. CASE Run!Start(r)
  <2>1. /\ age'[r] = 0 /\ entryAge'[r] = 0 /\ beatAge' = beatAge /\ missed' = missed
    BY <1>1 DEF Run!Start
  <2> QED
    BY <2>1 DEF Run!RunsAssumption
<1>2. CASE Run!Complete(r)
  BY <1>2 DEF Run!Complete
<1>3. CASE Run!NextEntry(r)
  BY <1>3 DEF Run!NextEntry
<1>4. CASE Run!NextTurn(r)
  BY <1>4 DEF Run!NextTurn
<1>5. CASE Run!Consume(r)
  BY <1>5 DEF Run!Consume
<1>6. CASE Run!ConsumeOpen(r)
  BY <1>6 DEF Run!ConsumeOpen
<1>7. CASE Run!Send(r)
  BY <1>7 DEF Run!Send
<1>8. CASE Run!SendFails(r)
  BY <1>8 DEF Run!SendFails
<1>9. CASE Run!Report(r)
  <2>1. /\ entryAge'[r] = 0 /\ missed' = missed
        /\ \/ age'[r] = 0
           \/ age'[r] = age[r] /\ beatAge'[r] = beatAge[r] /\ beatAge[r] < Beat
        /\ beatAge'[r] \in Nat
    BY <1>9 DEF Run!Report, Run!BeatDue, Run!RunsAssumption
  <2> QED
    BY <2>1 DEF Run!RunsAssumption
<1>10. CASE Run!ReportFails(r)
  BY <1>10 DEF Run!ReportFails
<1>11. CASE Run!Finalise(r)
  BY <1>11 DEF Run!Finalise
<1>12. CASE Run!FinaliseFails(r)
  BY <1>12 DEF Run!FinaliseFails
<1>13. CASE Run!Raise(r)
  BY <1>13 DEF Run!Raise
<1>14. CASE Run!Die(r)
  BY <1>14 DEF Run!Die
<1>15. CASE Run!RequestCancel(r)
  BY <1>15 DEF Run!RequestCancel
<1> QED
  BY <1>1, <1>2, <1>3, <1>4, <1>5, <1>6, <1>7, <1>8, <1>9, <1>10, <1>11, <1>12, <1>13,
     <1>14, <1>15 DEF Run!Work, Run!Trouble

\* Time passes for the row and for the worker alike, and the sweep only ends runs.
LEMMA TimeStep ==
    ASSUME Run!RunsAssumption, Run!TypeOK, Run!TypeOK', NEW r \in Runs, Run!RunInv(r),
           Run!Tick \/ Run!Reconcile
    PROVE  Run!RunInv(r)'
<1>1. CASE Run!Reconcile
  <2>1. /\ status'[r] \in {status[r], "failed"}
        /\ UNCHANGED <<kind, asked, age, used, pc, outcome, Run!loop, beatAge, entryAge, missed,
                       failures>>
    BY <1>1 DEF Run!Reconcile
  <2> QED
    BY <2>1
       DEF Run!RunInv, Run!Ending, Run!CancelSeen, Run!PromptsFit, Run!Beating, Run!Talks,
           Run!Working, Run!loop
<1>2. CASE Run!Tick
  <2>1. /\ UNCHANGED <<kind, status, asked, used, pc, outcome, Run!loop, missed, failures>>
        /\ age'[r] = Run!Later(age[r]) /\ beatAge'[r] = Run!Later(beatAge[r])
        /\ entryAge'[r] = Run!Later(entryAge[r])
    BY <1>2 DEF Run!Tick
  <2>2. Run!Ending(r)' /\ Run!CancelSeen(r)' /\ Run!PromptsFit(r)'
    BY <2>1 DEF Run!RunInv, Run!Ending, Run!CancelSeen, Run!PromptsFit, Run!Talks, Run!loop
  <2>3. Run!Beating(r)'
    <3>1. /\ age[r] \in 0..(Stale + 1) /\ beatAge[r] \in 0..(Stale + 1)
          /\ entryAge[r] \in 0..(Stale + 1)
          /\ Stale \in Nat /\ Beat \in Nat \ {0}
      BY DEF Run!TypeOK, Run!RunsAssumption
    <3>2. age[r] <= beatAge[r] => age'[r] <= beatAge'[r]
      BY <2>1, <3>1 DEF Run!Later
    <3>3. age[r] < entryAge[r] + Beat => age'[r] < entryAge'[r] + Beat
      BY <2>1, <3>1 DEF Run!Later
    <3> QED
      BY <2>1, <3>2, <3>3 DEF Run!RunInv, Run!Beating, Run!Working, Run!loop
  <2> QED
    BY <2>2, <2>3 DEF Run!RunInv
<1> QED
  BY <1>1, <1>2

\* For any number of runs of any kind, whichever of them fail, die or are given up: after
\* a cancel the call in flight is the last and what the row says of it is so; no run
\* without branches reports more prompts than its budget; and as long as its heartbeats
\* are written, a run's row is fresh.
THEOREM RunsKeptHolds ==
    ASSUME Run!RunsAssumption
    PROVE  Run!Spec => [](Run!TypeOK /\ Run!RunsKept)
<1>1. Run!Init => Run!RunsInv
  <2> SUFFICES ASSUME Run!Init PROVE Run!RunsInv
    OBVIOUS
  <2>1. Run!Min({Entries, MaxPrompts}) \in Nat
    BY Budgets, 0 \in Nat
  <2>2. /\ Entries \in Nat /\ Turns \in Nat /\ MaxPrompts \in Nat /\ Stale \in Nat
        /\ Branches \in Nat \ {0} /\ Beat \in Nat \ {0}
    BY DEF Run!RunsAssumption
  <2>3. Run!TypeOK
    BY <2>2 DEF Run!Init, Run!TypeOK, Run!Statuses, Run!Steps
  <2>4. ASSUME NEW r \in Runs PROVE Run!RunInv(r)
    <3>1. /\ status[r] = "queued" /\ pc[r] = "queued" /\ outcome[r] = "none" /\ ~ asked[r]
          /\ age[r] = 0 /\ entry[r] = 0 /\ sent[r] = 0 /\ talked[r] = 0 /\ late[r] = 0
          /\ ~ cut[r] /\ beatAge[r] = Stale + 1 /\ entryAge[r] = 0
      BY DEF Run!Init
    <3>2. Run!Ending(r) /\ Run!CancelSeen(r)
      BY <2>2, <3>1 DEF Run!Ending, Run!CancelSeen
    <3>3. Run!PromptsFit(r)
      BY <2>1, <2>2, <3>1 DEF Run!PromptsFit
    <3>4. Run!Beating(r)
      BY <2>2, <3>1 DEF Run!Beating
    <3> QED
      BY <3>2, <3>3, <3>4 DEF Run!RunInv
  <2> QED
    BY <2>3, <2>4 DEF Run!RunsInv
<1>2. Run!RunsInv /\ [Run!Next]_(Run!vars) => Run!RunsInv'
  <2> SUFFICES ASSUME Run!RunsInv, [Run!Next]_(Run!vars) PROVE Run!RunsInv'
    OBVIOUS
  <2>1. Run!TypeOK /\ Run!TypeOK' /\ \A r \in Runs : Run!RunInv(r)
    BY RunsTypeStep DEF Run!RunsInv
  <2>2. ASSUME NEW r \in Runs, Run!Work(r) \/ Run!Trouble(r) \/ Run!RequestCancel(r),
               NEW q \in Runs
        PROVE  Run!RunInv(q)'
    <3>1. CASE q = r
      BY <2>1, <2>2, <3>1, EndingStep, CancelSeenStep, PromptsFitStep, BeatingStep
         DEF Run!RunInv
    <3>2. CASE q # r
      BY <2>1, <2>2, <3>2, OthersSame, SameKeeps
    <3> QED
      BY <3>1, <3>2
  <2>3. CASE Run!Tick \/ Run!Reconcile
    BY <2>1, <2>3, TimeStep DEF Run!RunsInv
  <2>4. CASE UNCHANGED Run!vars
    <3>1. \A q \in Runs : Same(q)
      BY <2>4 DEF Run!vars, Run!rows, Run!loop, Same
    <3> QED
      BY <2>1, <3>1, SameKeeps DEF Run!RunsInv
  <2> QED
    BY <2>1, <2>2, <2>3, <2>4 DEF Run!RunsInv, Run!Next
<1>3. ASSUME Run!RunsInv PROVE Run!TypeOK /\ Run!RunsKept
  <2> SUFFICES ASSUME NEW r \in Runs
               PROVE  /\ late[r] <= IF kind[r] = "tree" THEN Branches ELSE 1
                      /\ status[r] = "cancelled" => asked[r]
                      /\ (status[r] = "completed" /\ cut[r]) => entry[r] = Entries
                      /\ kind[r] # "tree" => sent[r] <= MaxPrompts
                      /\ (Run!Working(r) /\ ~ missed[r]) => age[r] < entryAge[r] + Beat
    BY <1>3 DEF Run!RunsInv, Run!RunsKept, Run!CancelKept, Run!CampaignKept, Run!HeartbeatFresh
  <2>1. Run!TypeOK /\ Run!RunInv(r)
    BY <1>3 DEF Run!RunsInv
  <2>2. kind[r] # "tree" => sent[r] <= MaxPrompts
    <3>1. kind[r] \in Kinds /\ sent[r] \in Nat /\ entry[r] \in 0..Entries
      BY <2>1 DEF Run!TypeOK
    <3>3. kind[r] \in {"prompts", "turns", "tree"}
      BY <3>1 DEF Run!RunsAssumption
    <3>2. Run!Min({Entries, MaxPrompts}) \in Nat /\ Run!Min({Entries, MaxPrompts}) <= MaxPrompts
          /\ MaxPrompts \in Nat
      BY Budgets, 0 \in Nat DEF Run!RunsAssumption
    <3> QED
      BY <2>1, <3>1, <3>2, <3>3 DEF Run!RunInv, Run!PromptsFit, Run!Talks
  <2>3. /\ late[r] <= IF kind[r] = "tree" THEN Branches ELSE 1
        /\ status[r] = "cancelled" => asked[r]
        /\ (status[r] = "completed" /\ cut[r]) => entry[r] = Entries
    BY <2>1 DEF Run!RunInv, Run!Ending, Run!CancelSeen
  <2>4. (Run!Working(r) /\ ~ missed[r]) => age[r] < entryAge[r] + Beat
    BY <2>1 DEF Run!RunInv, Run!Beating
  <2> QED
    BY <2>2, <2>3, <2>4
<1> QED
  BY <1>1, <1>2, <1>3, PTL DEF Run!Spec
-----------------------------------------------------------------------------
(* The verdicts of a panel.  What was concluded is the count of the results *)
(* there are, whatever finished after it; a vote more or less moves it one *)
(* way only.                                                               *)

\* Consensus counts sets as the theorems of the library do.
LEMMA PanelSets ==
    ASSUME NEW S
    PROVE  Panel!Cardinality(S) = Cardinality(S) /\ (Panel!IsFiniteSet(S) <=> IsFiniteSet(S))
BY DEF Panel!Cardinality, Cardinality, Panel!IsFiniteSet, IsFiniteSet

Result == [dim : Scored \cup {"any"}, verdict : Verdicts \cup {"ERROR"}]
Pool(rs, d, v) == {i \in DOMAIN rs : rs[i].dim \in {d, "any"} /\ rs[i].verdict = v}

\* From the mildest verdict to the harshest.
LEMMA SeverityOrder ==
    /\ Panel!Severity("UNCLEAR") = 1 /\ Panel!Severity("OK") = 2
    /\ Panel!Severity("SPLIT") = 3 /\ Panel!Severity("BREACH") = 4
<1>1. Panel!Severities[1] = "UNCLEAR" /\ Panel!Severities[2] = "OK"
      /\ Panel!Severities[3] = "SPLIT" /\ Panel!Severities[4] = "BREACH"
    BY DEF Panel!Severities
<1>2. 1..4 = {1, 2, 3, 4}
    OBVIOUS
<1>3. \A i \in 1..4 : Panel!Severities[i] = "UNCLEAR" <=> i = 1
    BY <1>1, <1>2
<1>4. \A i \in 1..4 : Panel!Severities[i] = "OK" <=> i = 2
    BY <1>1, <1>2
<1>5. \A i \in 1..4 : Panel!Severities[i] = "SPLIT" <=> i = 3
    BY <1>1, <1>2
<1>6. \A i \in 1..4 : Panel!Severities[i] = "BREACH" <=> i = 4
    BY <1>1, <1>2
<1>7. 1 \in 1..4 /\ 2 \in 1..4 /\ 3 \in 1..4 /\ 4 \in 1..4
    BY <1>2
<1> QED
    BY <1>3, <1>4, <1>5, <1>6, <1>7 DEF Panel!Severity

\* A panel's votes are counted over a finite set of results.
LEMMA PoolFinite ==
    ASSUME NEW rs \in Seq(Result), NEW d, NEW v
    PROVE  /\ DOMAIN rs = 1..Len(rs) /\ Panel!IsFiniteSet(DOMAIN rs)
           /\ Panel!IsFiniteSet(Pool(rs, d, v))
           /\ Pool(rs, d, v) \subseteq 1..Len(rs)
           /\ /\ Panel!Votes(rs, d, v) = Panel!Cardinality(Pool(rs, d, v))
              /\ Panel!Votes(rs, d, v) \in Nat
           /\ Panel!Votes(rs, d, v) = 0 <=> Pool(rs, d, v) = {}
<1>1. DOMAIN rs = 1..Len(rs) /\ Len(rs) \in Nat
    OBVIOUS
<1>2. Panel!IsFiniteSet(1..Len(rs))
    BY <1>1, FS_Interval, PanelSets
<1>3. Pool(rs, d, v) \subseteq 1..Len(rs)
    BY <1>1 DEF Pool
<1>4. Panel!IsFiniteSet(Pool(rs, d, v))
    BY <1>2, <1>3, FS_Subset, PanelSets
<1>5. Panel!Votes(rs, d, v) = Panel!Cardinality(Pool(rs, d, v))
    BY DEF Panel!Votes, Pool
<1> QED
    BY <1>1, <1>2, <1>3, <1>4, <1>5, FS_CardinalityType, FS_EmptySet, PanelSets

\* One judge out of the row: the others keep their votes, at a place of their own.
LEMMA WithoutOne ==
    ASSUME NEW rs \in Seq(Result), NEW i \in DOMAIN rs
    PROVE  LET others == Panel!RemoveAt(rs, i)
           IN  /\ others \in Seq(Result)
               /\ Len(others) = Len(rs) - 1
               /\ \A j \in 1..(Len(rs) - 1) : others[j] = IF j < i THEN rs[j] ELSE rs[j + 1]
<1> DEFINE front == SubSeq(rs, 1, i - 1)
           back == SubSeq(rs, i + 1, Len(rs))
<1>1. /\ i \in 1..Len(rs) /\ Len(rs) \in Nat
    OBVIOUS
<1>2. /\ front \in Seq(Result) /\ Len(front) = i - 1
      /\ \A j \in 1..(i - 1) : front[j] = rs[j]
    BY <1>1
<1>3. /\ back \in Seq(Result) /\ Len(back) = Len(rs) - i
      /\ \A j \in 1..(Len(rs) - i) : back[j] = rs[i + j]
    BY <1>1
<1> HIDE DEF front, back
<1>4. /\ front \o back \in Seq(Result) /\ Len(front \o back) = Len(rs) - 1
      /\ \A j \in 1..(Len(rs) - 1) :
            (front \o back)[j] = IF j <= Len(front) THEN front[j] ELSE back[j - Len(front)]
    <2>1. /\ front \o back \in Seq(Result) /\ Len(front \o back) = Len(front) + Len(back)
          /\ \A j \in 1..(Len(front) + Len(back)) :
                (front \o back)[j] = IF j <= Len(front) THEN front[j] ELSE back[j - Len(front)]
        BY <1>2, <1>3, ConcatProperties
    <2>2. Len(front) + Len(back) = Len(rs) - 1
        BY <1>1, <1>2, <1>3
    <2> QED
        BY <2>1, <2>2
<1>5. ASSUME NEW j \in 1..(Len(rs) - 1)
      PROVE  (front \o back)[j] = IF j < i THEN rs[j] ELSE rs[j + 1]
    <2>1. CASE j < i
        <3>1. j \in 1..(i - 1) /\ j <= Len(front)
            BY <1>1, <1>2, <2>1
        <3> QED
            BY <1>2, <1>4, <2>1, <3>1
    <2>2. CASE ~ (j < i)
        <3>1. /\ j - (i - 1) \in 1..(Len(rs) - i) /\ ~ (j <= Len(front))
              /\ i + (j - (i - 1)) = j + 1
            BY <1>1, <1>2, <2>2
        <3>2. (front \o back)[j] = back[j - (i - 1)]
            BY <1>2, <1>4, <3>1
        <3>3. back[j - (i - 1)] = rs[j + 1]
            BY <1>3, <3>1
        <3> QED
            BY <2>2, <3>2, <3>3
    <2> QED
        BY <2>1, <2>2
<1>6. Panel!RemoveAt(rs, i) = front \o back
    BY DEF Panel!RemoveAt, front, back
<1> QED
    BY <1>4, <1>5, <1>6

\* Removing a result leaves the votes of the other verdicts as they were.
LEMMA OthersVote ==
    ASSUME NEW rs \in Seq(Result), NEW i \in DOMAIN rs, NEW d, NEW v, rs[i].verdict # v
    PROVE  Panel!Votes(Panel!RemoveAt(rs, i), d, v) = Panel!Votes(rs, d, v)
<1> DEFINE others == Panel!RemoveAt(rs, i)
           S == Pool(others, d, v)
           T == Pool(rs, d, v)
           place == [j \in S |-> IF j < i THEN j ELSE j + 1]
<1>1. /\ others \in Seq(Result) /\ Len(others) = Len(rs) - 1
      /\ \A j \in 1..(Len(rs) - 1) : others[j] = IF j < i THEN rs[j] ELSE rs[j + 1]
    BY WithoutOne
<1> HIDE DEF others
<1>2. /\ i \in 1..Len(rs) /\ Len(rs) \in Nat /\ DOMAIN rs = 1..Len(rs)
      /\ DOMAIN others = 1..(Len(rs) - 1)
    BY <1>1
<1>3. ASSUME NEW j \in S PROVE place[j] \in T
    <2>1. j \in 1..(Len(rs) - 1) /\ others[j].dim \in {d, "any"} /\ others[j].verdict = v
        BY <1>2 DEF Pool
    <2>2. place[j] \in 1..Len(rs) /\ rs[place[j]] = others[j]
        BY <1>1, <1>2, <2>1
    <2> QED
        BY <1>2, <2>1, <2>2 DEF Pool
<1>4. \A j, k \in S : place[j] = place[k] => j = k
    <2>1. S \subseteq Int
        BY <1>2 DEF Pool
    <2> QED
        BY <1>2, <2>1
<1>5. ASSUME NEW k \in T PROVE \E j \in S : place[j] = k
    <2>1. k \in 1..Len(rs) /\ rs[k].dim \in {d, "any"} /\ rs[k].verdict = v /\ k # i
        BY <1>2 DEF Pool
    <2> DEFINE j == IF k < i THEN k ELSE k - 1
    <2>2. j \in 1..(Len(rs) - 1) /\ (k < i => j < i) /\ (~ (k < i) => ~ (j < i) /\ j + 1 = k)
        BY <1>2, <2>1
    <2>3. others[j] = rs[k]
        BY <1>1, <2>1, <2>2
    <2>4. j \in S
        BY <1>2, <2>1, <2>2, <2>3 DEF Pool
    <2>5. place[j] = k
        BY <2>2, <2>4
    <2> QED
        BY <2>4, <2>5
<1>6. place \in Bijection(S, T)
    <2>1. place \in [S -> T]
        BY <1>3
    <2> HIDE DEF place, S, T
    <2> QED
        BY <1>4, <1>5, <2>1 DEF Bijection, Injection, Surjection, IsInjective
<1>7. ExistsBijection(S, T)
    BY <1>6 DEF ExistsBijection
<1>8. /\ Panel!IsFiniteSet(S) /\ Panel!Votes(others, d, v) = Panel!Cardinality(S)
      /\ Panel!Votes(rs, d, v) = Panel!Cardinality(T)
    BY <1>1, PoolFinite
<1>9. Panel!Cardinality(T) = Panel!Cardinality(S)
    <2> HIDE DEF S, T
    <2> QED
        BY <1>7, <1>8, FS_Bijection, PanelSets
<1> QED
    BY <1>8, <1>9 DEF others

\* One judge that turns: one vote more for a breach, one less for OK.
LEMMA TurnedVotes ==
    ASSUME NEW rs \in Seq(Result), NEW i \in DOMAIN rs, rs[i].verdict = "OK", NEW d,
           NEW turned, turned = [rs EXCEPT ![i].verdict = "BREACH"]
    PROVE  /\ \/ /\ Panel!Votes(turned, d, "BREACH") = Panel!Votes(rs, d, "BREACH") + 1
                 /\ Panel!Votes(turned, d, "OK") = Panel!Votes(rs, d, "OK") - 1
              \/ /\ Panel!Votes(turned, d, "BREACH") = Panel!Votes(rs, d, "BREACH")
                 /\ Panel!Votes(turned, d, "OK") = Panel!Votes(rs, d, "OK")
           /\ Panel!Voted(turned) = Panel!Voted(rs)
<1>1. /\ DOMAIN turned = DOMAIN rs /\ turned[i].verdict = "BREACH" /\ turned[i].dim = rs[i].dim
      /\ \A j \in DOMAIN rs : j # i => turned[j] = rs[j]
    <2>1. rs[i] \in Result
        OBVIOUS
    <2> QED
        BY <2>1 DEF Result
<1>2. Panel!Voted(turned) = Panel!Voted(rs)
    <2>1. \A j \in DOMAIN rs : turned[j].dim = rs[j].dim
        BY <1>1
    <2> QED
        BY <1>1, <2>1 DEF Panel!Voted
<1>3. /\ Panel!Votes(turned, d, "BREACH") = Panel!Cardinality(Pool(turned, d, "BREACH"))
      /\ Panel!Votes(turned, d, "OK") = Panel!Cardinality(Pool(turned, d, "OK"))
    BY DEF Panel!Votes, Pool
<1>4. /\ Panel!IsFiniteSet(Pool(rs, d, "BREACH")) /\ Panel!IsFiniteSet(Pool(rs, d, "OK"))
      /\ Panel!Votes(rs, d, "BREACH") = Panel!Cardinality(Pool(rs, d, "BREACH"))
      /\ Panel!Votes(rs, d, "OK") = Panel!Cardinality(Pool(rs, d, "OK"))
    BY PoolFinite
<1>5. CASE rs[i].dim \in {d, "any"}
    <2>1. /\ Pool(turned, d, "BREACH") = Pool(rs, d, "BREACH") \cup {i}
          /\ i \notin Pool(rs, d, "BREACH")
        BY <1>1, <1>5 DEF Pool
    <2>2. Pool(turned, d, "OK") = Pool(rs, d, "OK") \ {i} /\ i \in Pool(rs, d, "OK")
        BY <1>1, <1>5 DEF Pool
    <2>3. Panel!Cardinality(Pool(turned, d, "BREACH"))
              = Panel!Cardinality(Pool(rs, d, "BREACH")) + 1
        <3>1. /\ IsFiniteSet(Pool(rs, d, "BREACH"))
              /\ \A x \in {rs, turned} : Panel!Cardinality(Pool(x, d, "BREACH"))
                                          = Cardinality(Pool(x, d, "BREACH"))
            BY <1>4, PanelSets
        <3> QED
            BY <2>1, <3>1, FS_AddElement
    <2>4. Panel!Cardinality(Pool(turned, d, "OK")) = Panel!Cardinality(Pool(rs, d, "OK")) - 1
        <3>1. /\ IsFiniteSet(Pool(rs, d, "OK"))
              /\ \A x \in {rs, turned} : Panel!Cardinality(Pool(x, d, "OK"))
                                          = Cardinality(Pool(x, d, "OK"))
            BY <1>4, PanelSets
        <3> QED
            BY <2>2, <3>1, FS_RemoveElement
    <2> QED
        BY <1>2, <1>3, <1>4, <2>3, <2>4
<1>6. CASE rs[i].dim \notin {d, "any"}
    <2>1. Pool(turned, d, "BREACH") = Pool(rs, d, "BREACH")
        BY <1>1, <1>6 DEF Pool
    <2>2. Pool(turned, d, "OK") = Pool(rs, d, "OK")
        BY <1>1, <1>6 DEF Pool
    <2> QED
        BY <1>2, <1>3, <1>4, <2>1, <2>2
<1> QED
    BY <1>5, <1>6

\* A breach and no vote: how a verdict stands to its votes.
LEMMA MajorityType ==
    ASSUME NEW breach \in Nat, NEW ok \in Nat
    PROVE  Panel!Majority(breach, ok) \in {"BREACH", "OK", "SPLIT", "UNCLEAR"}
BY DEF Panel!Majority

\* A vote that turns from OK to BREACH never makes the majority milder.
LEMMA MajorityHarsher ==
    ASSUME NEW breach \in Nat, NEW ok \in Nat, NEW more \in Nat, NEW less \in Nat,
           \/ more = breach + 1 /\ less = ok - 1
           \/ more = breach /\ less = ok
    PROVE  /\ Panel!Majority(breach, ok) = "BREACH" => Panel!Majority(more, less) = "BREACH"
           /\ Panel!Majority(breach, ok) = "SPLIT"
                  => Panel!Majority(more, less) \in {"BREACH", "SPLIT"}
           /\ Panel!Majority(breach, ok) = "OK"
                  => Panel!Majority(more, less) \in {"BREACH", "SPLIT", "OK"}
           /\ Panel!Majority(more, less) \in {"BREACH", "SPLIT", "OK", "UNCLEAR"}
BY DEF Panel!Majority

\* A majority has at least one vote for it, and a split one for each side.
LEMMA MajorityEarned ==
    ASSUME NEW breach \in Nat, NEW ok \in Nat
    PROVE  /\ Panel!Majority(breach, ok) = "BREACH" => breach # 0
           /\ Panel!Majority(breach, ok) = "OK" => ok # 0
           /\ Panel!Majority(breach, ok) = "SPLIT" => breach # 0 /\ ok # 0
           /\ Panel!Majority(breach, ok) = "UNCLEAR" => breach = 0 /\ ok = 0
BY DEF Panel!Majority

\* A panel begins with whatever its scorers say.
LEMMA ConsensusInit == ASSUME Panel!Init, Panel!PanelsAssumption PROVE Panel!ConsensusInv
<1>1. Panel!TypeOK
    BY DEF Panel!Init, Panel!TypeOK
<1>2. Panel!CountedOut
    BY DEF Panel!Init, Panel!CountedOut, Panel!Concluded
<1> QED
    BY <1>1, <1>2 DEF Panel!ConsensusInv

\* Each dimension that was voted on has the verdict of its majority.
LEMMA DimensionsOf ==
    ASSUME NEW rs \in Seq(Result), NEW d \in Panel!Voted(rs)
    PROVE  /\ DOMAIN Panel!Dimension(rs) = Panel!Voted(rs)
           /\ Panel!Voted(rs) \subseteq Panel!Dimensions
           /\ Panel!Votes(rs, d, "BREACH") \in Nat /\ Panel!Votes(rs, d, "OK") \in Nat
           /\ Panel!Dimension(rs)[d]
                  = Panel!Majority(Panel!Votes(rs, d, "BREACH"), Panel!Votes(rs, d, "OK"))
           /\ Panel!Dimension(rs)[d] \in {"BREACH", "OK", "SPLIT", "UNCLEAR"}
<1>1. Panel!Votes(rs, d, "BREACH") \in Nat /\ Panel!Votes(rs, d, "OK") \in Nat
    BY PoolFinite
<1>2. /\ DOMAIN Panel!Dimension(rs) = Panel!Voted(rs)
      /\ Panel!Dimension(rs)[d]
             = Panel!Majority(Panel!Votes(rs, d, "BREACH"), Panel!Votes(rs, d, "OK"))
    BY DEF Panel!Dimension
<1> QED
    BY <1>1, <1>2, MajorityType DEF Panel!Voted

\* A step keeps the account, one case per step.
LEMMA ConsensusStep ==
    ASSUME Panel!ConsensusInv, [Panel!Next]_(Panel!vars), Panel!PanelsAssumption
    PROVE  Panel!ConsensusInv'
<1> USE DEF Panel!ConsensusInv
<1>0. results \in Seq(Result)
    BY DEF Panel!TypeOK, Result
<1>1. CASE Panel!Conclude
    <2>1. /\ UNCHANGED <<panel, running, results>>
          /\ perDim' = Panel!Dimension(results) /\ consensus' = Panel!Top(results)
        BY <1>1 DEF Panel!Conclude
    <2>2. consensus' \in {"BREACH", "OK", "SPLIT", "UNCLEAR", "None"}
        BY <2>1 DEF Panel!Top, Panel!Harshest
    <2>3. ASSUME NEW d \in DOMAIN perDim'
          PROVE  d \in Panel!Dimensions /\ Panel!Severity(perDim'[d]) \in 1..4
        <3>1. d \in Panel!Voted(results) /\ perDim'[d] = Panel!Dimension(results)[d]
            BY <2>1, <2>3 DEF Panel!Dimension
        <3>2. d \in Panel!Dimensions /\ perDim'[d] \in {"BREACH", "OK", "SPLIT", "UNCLEAR"}
            BY <1>0, <3>1, DimensionsOf
        <3> QED
            BY <3>2, SeverityOrder
    <2>4. Panel!TypeOK'
        BY <2>1, <2>2, <2>3 DEF Panel!TypeOK
    <2>5. Panel!Top(results)' = consensus' /\ Panel!Dimension(results)' = perDim'
        BY <2>1 DEF Panel!Top, Panel!Dimension, Panel!Votes, Panel!Voted
    <2> QED
        BY <2>4, <2>5 DEF Panel!CountedOut
<1>2. ASSUME NEW i \in running, NEW result \in Result, Panel!Finished(i, result)
      PROVE  Panel!ConsensusInv'
    <2>1. /\ running' = running \ {i} /\ results' = Append(results, result)
          /\ UNCHANGED <<panel, consensus, perDim>> /\ consensus = "None"
        BY <1>2 DEF Panel!Finished
    <2>2. results' \in Seq(Result)
        BY <1>0, <2>1
    <2>3. Panel!TypeOK'
        BY <2>1, <2>2 DEF Panel!TypeOK, Result
    <2> QED
        BY <2>1, <2>3 DEF Panel!CountedOut, Panel!Concluded
<1>3. ASSUME NEW i \in running, Panel!Judge(i) PROVE Panel!ConsensusInv'
    <2>1. PICK d \in Scored, v \in Verdicts : Panel!Finished(i, [dim |-> d, verdict |-> v])
        BY <1>3 DEF Panel!Judge
    <2>2. [dim |-> d, verdict |-> v] \in Result
        BY DEF Result
    <2> QED
        BY <1>2, <2>1, <2>2
<1>4. ASSUME NEW i \in running, Panel!Raise(i) PROVE Panel!ConsensusInv'
    <2>1. [dim |-> "any", verdict |-> "ERROR"] \in Result
        BY DEF Result
    <2> QED
        BY <1>2, <1>4, <2>1 DEF Panel!Raise
<1>5. CASE UNCHANGED Panel!vars
    <2>1. UNCHANGED <<panel, running, results, consensus, perDim>>
        BY <1>5 DEF Panel!vars
    <2> QED
        BY <2>1
           DEF Panel!TypeOK, Panel!CountedOut, Panel!Concluded, Panel!Top, Panel!Dimension,
               Panel!Votes, Panel!Voted
<1> QED
    BY <1>1, <1>3, <1>4, <1>5 DEF Panel!Next

\* What the votes of a judge without a say do.
LEMMA NoSay ==
    ASSUME NEW rs \in Seq(Result), NEW i \in DOMAIN rs, rs[i].verdict \in {"ERROR", "UNCLEAR"}
    PROVE  LET others == Panel!RemoveAt(rs, i)
           IN  /\ Panel!Voted(others) \subseteq Panel!Voted(rs)
               /\ \A d \in Panel!Voted(others) : Panel!Dimension(others)[d]
                      = Panel!Dimension(rs)[d]
               /\ \A d \in Panel!Voted(rs) \ Panel!Voted(others) : Panel!Dimension(rs)[d]
                      = "UNCLEAR"
<1> DEFINE others == Panel!RemoveAt(rs, i)
<1>1. /\ others \in Seq(Result) /\ Len(others) = Len(rs) - 1
      /\ \A j \in 1..(Len(rs) - 1) : others[j] = IF j < i THEN rs[j] ELSE rs[j + 1]
    BY WithoutOne
<1>2. \A d : /\ Panel!Votes(others, d, "BREACH") = Panel!Votes(rs, d, "BREACH")
             /\ Panel!Votes(others, d, "OK") = Panel!Votes(rs, d, "OK")
    BY OthersVote
<1> HIDE DEF others
<1>3. /\ i \in 1..Len(rs) /\ Len(rs) \in Nat /\ DOMAIN rs = 1..Len(rs)
      /\ DOMAIN others = 1..(Len(rs) - 1)
    BY <1>1
<1>4. ASSUME NEW d \in Panel!Voted(others) PROVE d \in Panel!Voted(rs)
    <2>1. PICK j \in 1..(Len(rs) - 1) : d \in Panel!Dimensions /\ others[j].dim \in {d, "any"}
        BY <1>3 DEF Panel!Voted
    <2>2. \E k \in 1..Len(rs) : rs[k] = others[j]
        <3>1. j \in 1..Len(rs) /\ j + 1 \in 1..Len(rs)
            BY <1>3
        <3> QED
            BY <1>1, <3>1
    <2> QED
        BY <1>3, <2>1, <2>2 DEF Panel!Voted
<1>5. ASSUME NEW d \in Panel!Voted(others)
      PROVE  Panel!Dimension(others)[d] = Panel!Dimension(rs)[d]
    BY <1>2, <1>4 DEF Panel!Dimension
<1>6. ASSUME NEW d \in Panel!Voted(rs) \ Panel!Voted(others)
      PROVE  Panel!Dimension(rs)[d] = "UNCLEAR"
    <2>1. \A j \in DOMAIN others : others[j].dim \notin {d, "any"}
        BY DEF Panel!Voted
    <2>2. Pool(others, d, "BREACH") = {} /\ Pool(others, d, "OK") = {}
        BY <2>1 DEF Pool
    <2>3. Panel!Votes(others, d, "BREACH") = 0 /\ Panel!Votes(others, d, "OK") = 0
        BY <1>1, <2>2, PoolFinite
    <2>4. Panel!Votes(rs, d, "BREACH") = 0 /\ Panel!Votes(rs, d, "OK") = 0
        BY <1>2, <2>3
    <2>5. Panel!Dimension(rs)[d] = Panel!Majority(0, 0)
        BY <2>4 DEF Panel!Dimension
    <2> QED
        BY <2>5 DEF Panel!Majority
<1> QED
    BY <1>4, <1>5, <1>6 DEF others

\* The account bounds the verdict that is given.
LEMMA ConsensusFollows ==
    ASSUME Panel!ConsensusInv, Panel!PanelsAssumption
    PROVE  Panel!ConsensusKept
<1> USE DEF Panel!ConsensusInv
<1>0. results \in Seq(Result)
    BY DEF Panel!TypeOK, Result
<1>1. CASE ~ Panel!Concluded
    BY <1>1
       DEF Panel!ConsensusKept, Panel!HarsherStays, Panel!ErrorsNeutral,
           Panel!VerdictsEarned
<1>2. CASE Panel!Concluded
    <2>1. perDim = Panel!Dimension(results) /\ consensus = Panel!Top(results)
        BY <1>2 DEF Panel!CountedOut
    <2>2. Panel!HarsherStays
        <3> SUFFICES ASSUME NEW i \in DOMAIN results, results[i].verdict = "OK"
                     PROVE  /\ Panel!Severity(Panel!Top(Panel!Turned(i, "BREACH")))
                                   >= Panel!Severity(consensus)
                            /\ \A s \in {"ignore", "treat_as_breach"} :
                                Panel!Signals(perDim, s)
                                    \subseteq Panel!Signals(Panel!Dimension(Panel!Turned(i,
                                    "BREACH")), s)
            BY DEF Panel!HarsherStays
        <3> DEFINE turned == Panel!Turned(i, "BREACH")
        <3>1. turned = [results EXCEPT ![i].verdict = "BREACH"]
            BY DEF Panel!Turned
        <3>20. \A d : \/ /\ Panel!Votes(turned, d, "BREACH")
                                = Panel!Votes(results, d, "BREACH") + 1
                         /\ Panel!Votes(turned, d, "OK") = Panel!Votes(results, d, "OK") - 1
                      \/ /\ Panel!Votes(turned, d, "BREACH") = Panel!Votes(results, d, "BREACH")
                         /\ Panel!Votes(turned, d, "OK") = Panel!Votes(results, d, "OK")
            BY <1>0, <3>1, TurnedVotes
        <3>2. Panel!Voted(turned) = Panel!Voted(results)
            BY <1>0, <3>1, TurnedVotes
        <3> HIDE DEF turned
        <3>3. ASSUME NEW d \in Panel!Voted(results)
              PROVE  /\ Panel!Dimension(results)[d] = "BREACH"
                            => Panel!Dimension(turned)[d] = "BREACH"
                     /\ Panel!Dimension(results)[d] = "SPLIT"
                            => Panel!Dimension(turned)[d] \in {"BREACH", "SPLIT"}
                     /\ Panel!Dimension(results)[d] = "OK"
                            => Panel!Dimension(turned)[d] \in {"BREACH", "SPLIT", "OK"}
                     /\ Panel!Dimension(turned)[d] \in {"BREACH", "SPLIT", "OK", "UNCLEAR"}
            <4> DEFINE b == Panel!Votes(results, d, "BREACH")
                       o == Panel!Votes(results, d, "OK")
                       tb == Panel!Votes(turned, d, "BREACH")
                       to == Panel!Votes(turned, d, "OK")
            <4>1. b \in Nat /\ o \in Nat
                BY <1>0, PoolFinite
            <4>2. (tb = b + 1 /\ to = o - 1) \/ (tb = b /\ to = o)
                BY <3>20
            <4>3. tb \in Nat /\ to \in Nat
                <5>1. Panel!IsFiniteSet(DOMAIN results)
                    BY <1>0, PoolFinite
                <5>2. DOMAIN turned = DOMAIN results /\ Panel!IsFiniteSet(DOMAIN results)
                    BY <3>1, <5>1
                <5>3. /\ Pool(turned, d, "OK") \subseteq DOMAIN results
                      /\ Pool(turned, d, "BREACH") \subseteq DOMAIN results
                    BY <5>2 DEF Pool
                <5>4. /\ tb = Panel!Cardinality(Pool(turned, d, "BREACH"))
                      /\ to = Panel!Cardinality(Pool(turned, d, "OK"))
                    BY DEF Panel!Votes, Pool
                <5>5. /\ Panel!IsFiniteSet(Pool(turned, d, "OK"))
                      /\ Panel!IsFiniteSet(Pool(turned, d, "BREACH"))
                    BY <5>2, <5>3, FS_Subset, PanelSets
                <5> QED
                    BY <5>4, <5>5, FS_CardinalityType, PanelSets
            <4>4. /\ Panel!Dimension(results)[d] = Panel!Majority(b, o)
                  /\ Panel!Dimension(turned)[d] = Panel!Majority(tb, to)
                BY <3>2 DEF Panel!Dimension
            <4> HIDE DEF b, o, tb, to
            <4> QED
                BY <4>1, <4>2, <4>3, <4>4, MajorityHarsher
        <3>4. /\ DOMAIN Panel!Dimension(turned) = Panel!Voted(results)
              /\ DOMAIN Panel!Dimension(results) = Panel!Voted(results)
            BY <3>2 DEF Panel!Dimension
        <3>5. ASSUME NEW s \in {"ignore", "treat_as_breach"}
              PROVE  Panel!Signals(perDim, s) \subseteq Panel!Signals(Panel!Dimension(turned), s)
            BY <2>1, <3>3, <3>4 DEF Panel!Signals
        <3>6. Panel!Severity(Panel!Top(turned)) >= Panel!Severity(consensus)
            <4> DEFINE old == {Panel!Dimension(results)[d] : d \in Panel!Voted(results)}
                       new == {Panel!Dimension(turned)[d] : d \in Panel!Voted(results)}
            <4>1. Panel!Top(turned) = Panel!Harshest(new) /\ consensus = Panel!Harshest(old)
                BY <2>1, <3>2 DEF Panel!Top
            <4>2. /\ "BREACH" \in old => "BREACH" \in new
                  /\ "SPLIT" \in old => "BREACH" \in new \/ "SPLIT" \in new
                  /\ "OK" \in old => "BREACH" \in new \/ "SPLIT" \in new \/ "OK" \in new
                BY <3>3
            <4> HIDE DEF old, new
            <4>3. \/ Panel!Harshest(new) = "BREACH"
                  \/ Panel!Harshest(new) = "SPLIT" /\ Panel!Harshest(old) # "BREACH"
                  \/ Panel!Harshest(new) = "OK" /\ Panel!Harshest(old) \in {"OK", "UNCLEAR"}
                  \/ Panel!Harshest(new) = "UNCLEAR" /\ Panel!Harshest(old) = "UNCLEAR"
                BY <4>2 DEF Panel!Harshest
            <4>4. Panel!Harshest(old) \in {"BREACH", "SPLIT", "OK", "UNCLEAR"}
                BY DEF Panel!Harshest
            <4> QED
                BY <4>1, <4>3, <4>4, SeverityOrder
        <3> QED
            BY <3>5, <3>6 DEF turned
    <2>3. Panel!ErrorsNeutral
        <3> SUFFICES ASSUME NEW i \in DOMAIN results, results[i].verdict \in {"ERROR", "UNCLEAR"}
                     PROVE  /\ Panel!Top(Panel!RemoveAt(results, i)) = consensus
                            /\ \A s \in {"ignore", "treat_as_breach"} :
                                Panel!Signals(Panel!Dimension(Panel!RemoveAt(results, i)), s)
                                    = Panel!Signals(perDim, s)
            BY DEF Panel!ErrorsNeutral
        <3> DEFINE others == Panel!RemoveAt(results, i)
        <3>1. /\ Panel!Voted(others) \subseteq Panel!Voted(results)
              /\ \A d \in Panel!Voted(others) : Panel!Dimension(others)[d]
                     = Panel!Dimension(results)[d]
              /\ \A d \in Panel!Voted(results) \ Panel!Voted(others) :
                     Panel!Dimension(results)[d] = "UNCLEAR"
            BY <1>0, NoSay
        <3> HIDE DEF others
        <3>2. /\ DOMAIN Panel!Dimension(others) = Panel!Voted(others)
              /\ DOMAIN Panel!Dimension(results) = Panel!Voted(results)
            BY DEF Panel!Dimension
        <3>3. ASSUME NEW s \in {"ignore", "treat_as_breach"}
              PROVE  Panel!Signals(Panel!Dimension(others), s) = Panel!Signals(perDim, s)
            BY <2>1, <3>1, <3>2 DEF Panel!Signals
        <3>4. Panel!Top(others) = consensus
            <4> DEFINE old == {Panel!Dimension(results)[d] : d \in Panel!Voted(results)}
                       new == {Panel!Dimension(others)[d] : d \in Panel!Voted(others)}
            <4>1. Panel!Top(others) = Panel!Harshest(new) /\ consensus = Panel!Harshest(old)
                BY <2>1 DEF Panel!Top
            <4>2. \A v \in {"BREACH", "SPLIT", "OK"} : v \in old <=> v \in new
                BY <3>1
            <4> HIDE DEF old, new
            <4> QED
                BY <4>1, <4>2 DEF Panel!Harshest
        <3> QED
            BY <3>3, <3>4 DEF others
    <2>4. Panel!VerdictsEarned
        <3> DEFINE old == {Panel!Dimension(results)[d] : d \in Panel!Voted(results)}
        <3>1. consensus = Panel!Harshest(old)
            BY <2>1 DEF Panel!Top
        <3>2. /\ DOMAIN perDim = Panel!Voted(results)
              /\ \A d \in Panel!Voted(results) : perDim[d] = Panel!Dimension(results)[d]
            BY <2>1 DEF Panel!Dimension
        <3>3. Panel!Signals(perDim, "ignore") # {} <=> "BREACH" \in old
            BY <3>2 DEF Panel!Signals
        <3>4. Panel!Signals(perDim, "treat_as_breach") # {}
                  <=> ("BREACH" \in old \/ "SPLIT" \in old)
            BY <3>2 DEF Panel!Signals
        <3>5. ASSUME NEW d \in Panel!Voted(results)
              PROVE  /\ Panel!Dimension(results)[d] = "BREACH" => Pool(results, d, "BREACH") # {}
                     /\ Panel!Dimension(results)[d] = "OK" => Pool(results, d, "OK") # {}
                     /\ Panel!Dimension(results)[d] = "SPLIT" =>
                            Pool(results, d, "BREACH") # {} /\ Pool(results, d, "OK") # {}
            <4>1. /\ Panel!Votes(results, d, "BREACH") \in Nat
                  /\ Panel!Votes(results, d, "OK") \in Nat
                  /\ Panel!Votes(results, d, "BREACH") = 0 <=> Pool(results, d, "BREACH") = {}
                  /\ Panel!Votes(results, d, "OK") = 0 <=> Pool(results, d, "OK") = {}
                BY <1>0, PoolFinite
            <4>2. Panel!Dimension(results)[d]
                      = Panel!Majority(Panel!Votes(results, d, "BREACH"),
                      Panel!Votes(results, d, "OK"))
                BY DEF Panel!Dimension
            <4> QED
                BY <4>1, <4>2, MajorityEarned
        <3>6. \A d, v : Pool(results, d, v) # {}
                  => \E i \in DOMAIN results : results[i].verdict = v
            BY DEF Pool
        <3>7. ASSUME NEW v \in {"OK", "BREACH"}, consensus \in {v, "SPLIT"}
              PROVE  \E i \in DOMAIN results : results[i].verdict = v
            <4>1. consensus \in old
                <5> HIDE DEF old
                <5> QED
                    BY <3>1, <3>7 DEF Panel!Harshest
            <4>2. PICK d \in Panel!Voted(results) : Panel!Dimension(results)[d] = consensus
                BY <4>1
            <4>3. Pool(results, d, v) # {}
                BY <3>5, <3>7, <4>2
            <4> QED
                BY <3>6, <4>3
        <3> HIDE DEF old
        <3>8. consensus = "BREACH" <=> "BREACH" \in old
            BY <3>1 DEF Panel!Harshest
        <3>9. consensus \in {"BREACH", "SPLIT"} <=> ("BREACH" \in old \/ "SPLIT" \in old)
            BY <3>1 DEF Panel!Harshest
        <3> QED
            BY <3>3, <3>4, <3>7, <3>8, <3>9 DEF Panel!VerdictsEarned
    <2> QED
        BY <2>2, <2>3, <2>4 DEF Panel!ConsensusKept
<1> QED
    BY <1>1, <1>2

\* For every panel of judges, in whatever order they finish: a judge that turns from OK to
\* BREACH never makes the verdict milder, a judge that fails has no say, and no verdict is
\* given that no judge asked for (check_consensus).
THEOREM ConsensusKeptHolds ==
    ASSUME Panel!PanelsAssumption
    PROVE  Panel!Spec => []Panel!ConsensusKept
<1>1. Panel!Init => Panel!ConsensusInv
    BY ConsensusInit
<1>2. Panel!ConsensusInv /\ [Panel!Next]_(Panel!vars) => Panel!ConsensusInv'
    BY ConsensusStep
<1>3. Panel!ConsensusInv => Panel!ConsensusKept
    BY ConsensusFollows
<1> QED
    BY <1>1, <1>2, <1>3, PTL DEF Panel!Spec
=============================================================================
