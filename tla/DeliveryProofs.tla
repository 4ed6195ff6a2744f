--------------------------- MODULE DeliveryProofs ---------------------------
(***************************************************************************)
(* Theorems about what is handed on and must arrive, for every value of    *)
(* the constants: the rows of the dual-write sink, an instance of a        *)
(* component of its own that has only None in common with the others, the  *)
(* requests that wait for a human in PendingInvocations, and the clients   *)
(* of GatewayClient that share its table.                                  *)
(***************************************************************************)
EXTENDS GatewayClient, Sequences, FiniteSetTheorems, SequenceTheorems,
        WellFoundedInduction, TLAPS

CONSTANTS
    MaxRows, MaxSinks, QueueMax, BatchMax, MaxRetries, Threshold

VARIABLES
    active, emitter, queue, stopped, open, failures, w_pc, batch, attempt, m_pc,
    m_op, e_sink, outcome, accepted, received

Sink == INSTANCE DualWrite
-----------------------------------------------------------------------------
(* The sink of what is recorded.  What a sink holds is its own and in the  *)
(* order of acceptance, the batch before the queue; a row arrives with its *)
(* batch only, so none overtakes another one of its sink.                  *)

\* DualWrite counts sets as the theorems of the library do.
LEMMA SinkSets ==
    ASSUME NEW S
    PROVE  Sink!Cardinality(S) = Cardinality(S) /\ (Sink!IsFiniteSet(S) <=> IsFiniteSet(S))
BY DEF Sink!Cardinality, Cardinality, Sink!IsFiniteSet, IsFiniteSet

SinkAssumption == Sink!BoundsAssumption /\ Sink!NoneAssumption

\* A set of numbers that is not empty has a least element.
LEMMA LeastNatural ==
    ASSUME NEW S, S \subseteq Nat, S # {}
    PROVE  \E n \in S : \A m \in S : n <= m
<1>1. PICK n \in S : \A m \in S : ~ (<<m, n>> \in OpToRel(<, Nat))
    BY NatLessThanWellFounded, WFMin
<1>2. ASSUME NEW m \in S, m < n PROVE FALSE
    <2>1. <<m, n>> \in Nat \X Nat /\ <<m, n>>[1] < <<m, n>>[2]
        BY <1>2
    <2>2. <<m, n>> \in OpToRel(<, Nat)
        BY <2>1, Zenon DEF OpToRel
    <2> QED
        BY <1>1, <2>2
<1> QED
    BY <1>2

\* What is left of a queue is its rows in their order.
LEMMA TailOf ==
    ASSUME NEW S, NEW q \in Seq(S), q # <<>>
    PROVE  /\ Head(q) = q[1] /\ q[1] \in S /\ 1 \in DOMAIN q
           /\ Tail(q) \in Seq(S) /\ Len(Tail(q)) = Len(q) - 1
           /\ \A i \in DOMAIN Tail(q) : i + 1 \in DOMAIN q /\ Tail(q)[i] = q[i + 1]
OBVIOUS

\* What is left of it after several are taken, too, ...
LEMMA RestOf ==
    ASSUME NEW S, NEW q \in Seq(S), NEW n \in 0..Len(q)
    PROVE  LET rest == SubSeq(q, n + 1, Len(q))
           IN  /\ rest \in Seq(S) /\ Len(rest) = Len(q) - n
               /\ \A i \in DOMAIN rest : i + n \in DOMAIN q /\ rest[i] = q[i + n]
<1>1. n + 1 \in 1..(Len(q) + 1) /\ Len(q) \in (n + 1) - 1..Len(q)
    BY LenProperties
<1> QED
    BY <1>1, SubSeqProperties

\* ... and a row that is added comes behind them.
LEMMA AppendTo ==
    ASSUME NEW S, NEW q \in Seq(S), NEW x \in S
    PROVE  /\ Append(q, x) \in Seq(S) /\ Len(Append(q, x)) = Len(q) + 1
           /\ DOMAIN q \subseteq DOMAIN Append(q, x)
           /\ \A i \in DOMAIN Append(q, x) :
                \/ i \in DOMAIN q /\ Append(q, x)[i] = q[i] /\ i < Len(q) + 1
                \/ i = Len(q) + 1 /\ Append(q, x)[i] = x
           /\ Len(q) + 1 \in DOMAIN Append(q, x)
OBVIOUS

\* The bounds and the sequences as numbers and functions.
LEMMA SinkTypes ==
    ASSUME SinkAssumption, Sink!TypeOK
    PROVE  /\ DOMAIN accepted = 1..Len(accepted) /\ Len(accepted) \in Nat
           /\ DOMAIN received = 1..Len(received) /\ Len(received) \in Nat
           /\ \A i \in DOMAIN accepted : accepted[i] \in Sink!Rows
           /\ \A i \in DOMAIN received : received[i] \in Sink!Rows
           /\ \A s \in Sink!Sinks : /\ DOMAIN batch[s] = 1..Len(batch[s]) /\ Len(batch[s]) \in Nat
                                    /\ batch[s] \in Seq(Sink!Rows) /\ \A i
                                           \in DOMAIN batch[s] : batch[s][i] \in Sink!Rows
                                    /\ /\ DOMAIN queue[s] = 1..Len(queue[s])
                                       /\ Len(queue[s]) \in Nat
                                    /\ queue[s] \in Seq(Sink!Rows \cup {Sink!Wake})
                                    /\ \A i \in DOMAIN queue[s] : queue[s][i]
                                           \in Sink!Rows \cup {Sink!Wake}
           /\ \A r \in Sink!Rows : r \in Nat /\ r # Sink!Wake
<1>1. /\ DOMAIN accepted = 1..Len(accepted) /\ Len(accepted) \in Nat
      /\ \A i \in DOMAIN accepted : accepted[i] \in Sink!Rows
    BY DEF Sink!TypeOK
<1>2. /\ DOMAIN received = 1..Len(received) /\ Len(received) \in Nat
      /\ \A i \in DOMAIN received : received[i] \in Sink!Rows
    BY DEF Sink!TypeOK
<1>3. ASSUME NEW s \in Sink!Sinks
      PROVE  /\ DOMAIN batch[s] = 1..Len(batch[s]) /\ Len(batch[s]) \in Nat
             /\ batch[s] \in Seq(Sink!Rows) /\ \A i \in DOMAIN batch[s] : batch[s][i]
                    \in Sink!Rows
    <2>1. batch[s] \in Seq(Sink!Rows)
        BY DEF Sink!TypeOK
    <2> QED
        BY <2>1
<1>4. ASSUME NEW s \in Sink!Sinks
      PROVE  /\ DOMAIN queue[s] = 1..Len(queue[s]) /\ Len(queue[s]) \in Nat
             /\ queue[s] \in Seq(Sink!Rows \cup {Sink!Wake})
             /\ \A i \in DOMAIN queue[s] : queue[s][i] \in Sink!Rows \cup {Sink!Wake}
    <2>1. queue[s] \in Seq(Sink!Rows \cup {Sink!Wake})
        BY DEF Sink!TypeOK
    <2> QED
        BY <2>1
<1>5. \A r \in Sink!Rows : r \in Nat /\ r # Sink!Wake
    BY DEF SinkAssumption, Sink!BoundsAssumption, Sink!Rows, Sink!Wake
<1> QED
    BY <1>1, <1>2, <1>3, <1>4, <1>5

\* What a step does to the rows, whoever takes it: nothing, ...
data == <<queue, batch, accepted, received, e_sink, outcome, attempt>>

\* ... or a batch is over: posted, refused, failed, or dropped by a stop.
Over(s) ==
    /\ Sink!Done(s) /\ (Sink!Arrives(s) \/ UNCHANGED received)
    /\ \/ stopped[s] /\ outcome' = outcome
       \/ \E how \in Sink!Settled : Sink!Counts(s, how) /\ (how = "ok" => Sink!Arrives(s))
    /\ attempt[s] \in 0..MaxRetries
    /\ UNCHANGED <<queue, stopped, accepted, e_sink>>

\* Whatever a step does, it is one of these to the rows.
LEMMA SinkCases ==
    ASSUME SinkAssumption, Sink!TypeOK, [Sink!Next]_(Sink!vars)
    PROVE  \/ UNCHANGED data
           \/ \E r \in Sink!Rows : Sink!Emit(r) \/ \E s \in Sink!Sinks : Sink!Put(r, s)
           \/ \E s \in Sink!Sinks : Sink!Take(s) \/ Over(s) \/ Sink!PostFails(s)
           \/ Sink!Drain \/ Sink!DrainEnds
<1>1. CASE Sink!vars' = Sink!vars
    BY <1>1 DEF Sink!vars, Sink!queues, Sink!worker, Sink!rows, data
<1>2. CASE \E r \in Sink!Rows : Sink!Emit(r) \/ \E s \in Sink!Sinks : Sink!Put(r, s)
    BY <1>2
<1>3. ASSUME NEW s \in Sink!Sinks, Sink!Work(s)
      PROVE  UNCHANGED data \/ Sink!Take(s) \/ Over(s) \/ Sink!PostFails(s)
    <2>1. CASE Sink!Take(s)
        BY <2>1
    <2>2. CASE Sink!Flush(s)
        BY <2>2 DEF Sink!Flush, data, Sink!queues, Sink!rows
    <2>3. CASE Sink!Send(s) /\ Sink!Sends(s)
        BY <2>3 DEF Sink!Send, data, Sink!queues, Sink!rows
    <2>4. CASE Sink!Send(s) /\ ~ Sink!Sends(s)
        BY <2>4 DEF Sink!Send, Sink!Sends, Over, Sink!Done, Sink!queues, Sink!rows, Sink!TypeOK
    <2>5. CASE Sink!PostOk(s)
        <3>1. /\ Sink!Done(s) /\ Sink!Arrives(s) /\ Sink!Counts(s, "ok")
              /\ attempt[s] \in 0..MaxRetries
              /\ UNCHANGED <<queue, stopped, accepted, e_sink>>
            BY <2>5 DEF Sink!PostOk, Sink!queues, Sink!TypeOK
        <3> QED
            BY <3>1 DEF Over, Sink!Settled
    <2>6. CASE Sink!PostRefused(s)
        <3>1. /\ Sink!Done(s) /\ UNCHANGED received /\ Sink!Counts(s, "bad_request")
              /\ UNCHANGED <<queue, stopped, accepted, e_sink>> /\ attempt[s] \in 0..MaxRetries
            BY <2>6 DEF Sink!PostRefused, Sink!queues, Sink!TypeOK
        <3> QED
            BY <3>1 DEF Over, Sink!Settled
    <2>7. CASE Sink!PostFails(s)
        BY <2>7
    <2>8. CASE Sink!BatchFails(s)
        <3>1. /\ Sink!Done(s) /\ (Sink!Arrives(s) \/ UNCHANGED received)
              /\ Sink!Counts(s, "failed")
              /\ UNCHANGED <<queue, stopped, accepted, e_sink>> /\ attempt[s] \in 0..MaxRetries
            BY <2>8 DEF Sink!BatchFails, Sink!Unanswered, Sink!queues, Sink!TypeOK
        <3> QED
            BY <3>1 DEF Over, Sink!Settled
    <2> QED
        BY <1>3, <2>1, <2>2, <2>3, <2>4, <2>5, <2>6, <2>7, <2>8 DEF Sink!Work
<1>4. ASSUME NEW s \in Sink!Sinks, Sink!CoolDown(s) PROVE UNCHANGED data
    BY <1>4 DEF Sink!CoolDown, data, Sink!queues, Sink!worker, Sink!rows
<1>5. ASSUME NEW op, Sink!Begin(op) PROVE UNCHANGED data
    BY <1>5 DEF Sink!Begin, data, Sink!queues, Sink!worker, Sink!rows
<1>6. CASE Sink!Manage
    <2>1. CASE Sink!Stop
        BY <2>1 DEF Sink!Stop, data, Sink!worker, Sink!rows
    <2>2. CASE Sink!Finish
        BY <2>2 DEF Sink!Finish, data, Sink!queues, Sink!rows
    <2> QED
        BY <1>6, <2>1, <2>2 DEF Sink!Manage
<1> QED
    BY <1>1, <1>2, <1>3, <1>4, <1>5, <1>6 DEF Sink!Next

\* Of two rows one comes before the other, and not the other way round.
LEMMA BeforeOnce ==
    ASSUME SinkAssumption, Sink!TypeOK, Sink!AcceptedOnce, NEW q, NEW r, Sink!Before(q, r)
    PROVE  ~ Sink!Before(r, q) /\ q # r
<1>1. PICK i \in DOMAIN accepted, j \in DOMAIN accepted :
        i < j /\ accepted[i] = q /\ accepted[j] = r
    BY DEF Sink!Before
<1>2. i \in Nat /\ j \in Nat
    BY SinkTypes
<1>3. ASSUME NEW k \in DOMAIN accepted, NEW l \in DOMAIN accepted, k < l,
             accepted[k] = r, accepted[l] = q
      PROVE  FALSE
    <2>1. k = j /\ l = i
        BY <1>1, <1>3 DEF Sink!AcceptedOnce
    <2> QED
        BY <1>1, <1>2, <1>3, <2>1
<1>4. q # r
    BY <1>1, <1>2 DEF Sink!AcceptedOnce
<1> QED
    BY <1>3, <1>4 DEF Sink!Before

\* The order of acceptance is added to at its end.
LEMMA BeforeGrows ==
    ASSUME SinkAssumption, Sink!TypeOK, NEW x \in Sink!Rows, accepted' = Append(accepted, x)
    PROVE  /\ \A q, r : Sink!Before(q, r) => Sink!Before(q, r)'
           /\ \A q : (\E i \in DOMAIN accepted : accepted[i] = q) => Sink!Before(q, x)'
           /\ \A q, r : Sink!Before(q, r)' =>
                Sink!Before(q, r) \/ (r = x /\ \E i \in DOMAIN accepted : accepted[i] = q)
<1>1. /\ DOMAIN accepted' = 1..Len(accepted) + 1 /\ DOMAIN accepted = 1..Len(accepted)
      /\ Len(accepted) \in Nat /\ accepted'[Len(accepted) + 1] = x
      /\ \A i \in DOMAIN accepted : accepted'[i] = accepted[i]
    <2>1. accepted \in Seq(Sink!Rows) /\ DOMAIN accepted = 1..Len(accepted)
        BY SinkTypes DEF Sink!TypeOK
    <2> QED
        BY <2>1
<1>2. ASSUME NEW q, NEW r, Sink!Before(q, r) PROVE Sink!Before(q, r)'
    BY <1>1, <1>2 DEF Sink!Before
<1>3. ASSUME NEW q, NEW i \in DOMAIN accepted, accepted[i] = q PROVE Sink!Before(q, x)'
    <2>1. /\ i < Len(accepted) + 1 /\ i \in DOMAIN accepted'
          /\ Len(accepted) + 1 \in DOMAIN accepted'
        BY <1>1
    <2> QED
        BY <1>1, <1>3, <2>1 DEF Sink!Before
<1>4. ASSUME NEW q, NEW r, Sink!Before(q, r)'
      PROVE  Sink!Before(q, r) \/ (r = x /\ \E i \in DOMAIN accepted : accepted[i] = q)
    <2>1. PICK i \in DOMAIN accepted', j \in DOMAIN accepted' :
            i < j /\ accepted'[i] = q /\ accepted'[j] = r
        BY <1>4 DEF Sink!Before
    <2>2. i \in DOMAIN accepted
        BY <1>1, <2>1
    <2>3. CASE j \in DOMAIN accepted
        BY <1>1, <2>1, <2>2, <2>3 DEF Sink!Before
    <2>4. CASE j = Len(accepted) + 1
        BY <1>1, <2>1, <2>2, <2>4
    <2> QED
        BY <1>1, <2>3, <2>4
<1> QED
    BY <1>2, <1>3, <1>4

\* The rows of a batch differ.
LEMMA BatchOnce ==
    ASSUME SinkAssumption, Sink!TypeOK, Sink!AcceptedOnce, Sink!HeldInOrder,
           NEW s \in Sink!Sinks,
           NEW i \in DOMAIN batch[s], NEW j \in DOMAIN batch[s], batch[s][i] = batch[s][j]
    PROVE  i = j
<1>1. i \in Nat /\ j \in Nat
    BY SinkTypes
<1>2. i < j => Sink!Before(batch[s][i], batch[s][j])
    BY DEF Sink!HeldInOrder
<1>3. j < i => Sink!Before(batch[s][j], batch[s][i])
    BY DEF Sink!HeldInOrder
<1> QED
    BY <1>1, <1>2, <1>3, BeforeOnce

\* What arrives with a batch arrives behind all that came before it.
LEMMA ArrivalsGrow ==
    ASSUME SinkAssumption, Sink!TypeOK, NEW s \in Sink!Sinks, Sink!Arrives(s), NEW r
    PROVE  /\ Sink!Arrivals(r)' = Sink!Arrivals(r) \cup
                {Len(received) + i : i \in {k \in DOMAIN batch[s] : batch[s][k] = r}}
           /\ \A i \in Sink!Arrivals(r) : i \in Nat /\ i <= Len(received)
<1>1. /\ DOMAIN received = 1..Len(received) /\ Len(received) \in Nat
      /\ DOMAIN batch[s] = 1..Len(batch[s]) /\ Len(batch[s]) \in Nat
    BY SinkTypes
<1>2. /\ received' \in Seq(Sink!Rows) /\ Len(received') = Len(received) + Len(batch[s])
      /\ \A i \in 1..(Len(received) + Len(batch[s])) :
            received'[i] = IF i <= Len(received) THEN received[i]
                           ELSE batch[s][i - Len(received)]
    BY SinkTypes, ConcatProperties DEF Sink!Arrives, Sink!TypeOK
<1>3. DOMAIN received' = 1..(Len(received) + Len(batch[s]))
    BY <1>2
<1>4. ASSUME NEW i \in Sink!Arrivals(r)'
      PROVE  \/ i \in Sink!Arrivals(r)
             \/ \E k \in DOMAIN batch[s] : batch[s][k] = r /\ i = Len(received) + k
    <2>1. i \in 1..(Len(received) + Len(batch[s])) /\ received'[i] = r
        BY <1>3 DEF Sink!Arrivals
    <2>2. CASE i <= Len(received)
        <3>1. i \in DOMAIN received /\ received[i] = r
            BY <1>1, <1>2, <2>1, <2>2
        <3> QED
            BY <3>1 DEF Sink!Arrivals
    <2>3. CASE i > Len(received)
        <3>1. i - Len(received) \in DOMAIN batch[s] /\ batch[s][i - Len(received)] = r
            BY <1>1, <1>2, <2>1, <2>3
        <3>2. i = Len(received) + (i - Len(received))
            BY <1>1, <2>1
        <3> QED
            BY <3>1, <3>2
    <2> QED
        BY <1>1, <2>1, <2>2, <2>3
<1>5. ASSUME NEW i \in Sink!Arrivals(r)
      PROVE  i \in Sink!Arrivals(r)' /\ i \in Nat /\ i <= Len(received)
    <2>1. i \in 1..Len(received) /\ received[i] = r
        BY <1>1 DEF Sink!Arrivals
    <2>2. i \in 1..(Len(received) + Len(batch[s])) /\ i <= Len(received) /\ i \in Nat
        BY <1>1, <2>1
    <2>3. received'[i] = r
        BY <1>2, <2>1, <2>2
    <2> QED
        BY <1>3, <2>2, <2>3 DEF Sink!Arrivals
<1>6. ASSUME NEW k \in DOMAIN batch[s], batch[s][k] = r
      PROVE  Len(received) + k \in Sink!Arrivals(r)'
    <2>1. /\ Len(received) + k \in 1..(Len(received) + Len(batch[s]))
          /\ ~ (Len(received) + k <= Len(received)) /\ (Len(received) + k) - Len(received) = k
        BY <1>1
    <2>2. received'[Len(received) + k] = r
        BY <1>2, <1>6, <2>1
    <2> QED
        BY <1>3, <2>1, <2>2 DEF Sink!Arrivals
<1>7. Sink!Arrivals(r)' = Sink!Arrivals(r) \cup
                {Len(received) + i : i \in {k \in DOMAIN batch[s] : batch[s][k] = r}}
    BY <1>4, <1>5, <1>6
<1> QED
    BY <1>5, <1>7

\* What has arrived can be counted, and counts to nothing for a row that has not.
LEMMA ArrivalsCount ==
    ASSUME SinkAssumption, Sink!TypeOK, NEW r
    PROVE  Sink!IsFiniteSet(Sink!Arrivals(r)) /\ Sink!Cardinality(Sink!Arrivals(r)) \in Nat
           /\ /\ (Sink!Cardinality(Sink!Arrivals(r)) = 0 <=> ~ Sink!Came(r))
              /\ Sink!Arrivals(r) \subseteq Nat
<1>1. Sink!IsFiniteSet(1..Len(received)) /\ Sink!Arrivals(r) \subseteq 1..Len(received)
    BY SinkTypes, FS_Interval, SinkSets DEF Sink!Arrivals
<1>2. Sink!IsFiniteSet(Sink!Arrivals(r))
    BY <1>1, FS_Subset, SinkSets
<1> QED
    BY <1>1, <1>2, FS_CardinalityType, FS_EmptySet, SinkSets DEF Sink!Came

\* So a row arrives once more if it is in the batch, ...
LEMMA ArrivesOnce ==
    ASSUME SinkAssumption, Sink!TypeOK, Sink!AcceptedOnce, Sink!HeldInOrder,
           NEW s \in Sink!Sinks, Sink!Arrives(s),
           NEW r, NEW k \in DOMAIN batch[s], batch[s][k] = r
    PROVE  /\ Sink!Arrivals(r)' = Sink!Arrivals(r) \cup {Len(received) + k}
           /\ Sink!Cardinality(Sink!Arrivals(r))' = Sink!Cardinality(Sink!Arrivals(r)) + 1
           /\ Sink!Came(r)'
<1>1. {i \in DOMAIN batch[s] : batch[s][i] = r} = {k}
    BY BatchOnce
<1>2. Sink!Arrivals(r)' = Sink!Arrivals(r) \cup
                {Len(received) + i : i \in {j \in DOMAIN batch[s] : batch[s][j] = r}}
    BY ArrivalsGrow
<1>3. Sink!Arrivals(r)' = Sink!Arrivals(r) \cup {Len(received) + k}
    BY <1>1, <1>2
<1>4. Len(received) + k \notin Sink!Arrivals(r)
    <2>1. k \in Nat /\ k > 0 /\ Len(received) \in Nat
        BY SinkTypes
    <2>2. \A i \in Sink!Arrivals(r) : i \in Nat /\ i <= Len(received)
        BY ArrivalsGrow
    <2> QED
        BY <2>1, <2>2
<1>5. Sink!IsFiniteSet(Sink!Arrivals(r))
    BY ArrivalsCount
<1>6. Sink!Cardinality(Sink!Arrivals(r) \cup {Len(received) + k})
          = Sink!Cardinality(Sink!Arrivals(r)) + 1
    BY <1>4, <1>5, FS_AddElement, SinkSets
<1>7. Sink!Cardinality(Sink!Arrivals(r))' = Sink!Cardinality(Sink!Arrivals(r)')
    OBVIOUS
<1> QED
    BY <1>3, <1>6 DEF Sink!Came

\* ... and what is not in the batch does not.
LEMMA NotArrived ==
    ASSUME SinkAssumption, Sink!TypeOK, NEW s \in Sink!Sinks, Sink!Arrives(s), NEW r,
           \A k \in DOMAIN batch[s] : batch[s][k] # r
    PROVE  Sink!Arrivals(r)' = Sink!Arrivals(r)
<1>1. {k \in DOMAIN batch[s] : batch[s][k] = r} = {}
    OBVIOUS
<1>2. {Len(received) + i : i \in {k \in DOMAIN batch[s] : batch[s][k] = r}} = {}
    BY <1>1
<1> QED
    BY <1>2, ArrivalsGrow

\* The types hold in every state, and worker and manager keep step.
LEMMA SinkTypeStep ==
    ASSUME SinkAssumption, Sink!TypeOK, Sink!WorkersInStep, Sink!ManagerInStep,
           [Sink!Next]_(Sink!vars)
    PROVE  (Sink!TypeOK /\ Sink!WorkersInStep /\ Sink!ManagerInStep)'
<1> USE DEF Sink!Rows, Sink!Sinks
<1>0. /\ MaxRows \in Nat /\ MaxSinks \in Nat /\ QueueMax \in Nat /\ MaxRetries \in Nat
      /\ BatchMax \in Nat /\ BatchMax > 0 /\ Threshold \in Nat /\ Threshold > 0
      /\ None # "enable" /\ None # "emitted" /\ None \notin 0..MaxSinks
    BY DEF SinkAssumption, Sink!BoundsAssumption, Sink!NoneAssumption, Sink!Ops
<1>1. CASE Sink!vars' = Sink!vars
    BY <1>1
       DEF Sink!TypeOK, Sink!WorkersInStep, Sink!ManagerInStep, Sink!vars, Sink!queues,
           Sink!breaker, Sink!worker, Sink!manager, Sink!rows
<1>2. ASSUME NEW r \in Sink!Rows, Sink!Emit(r)
      PROVE  (Sink!TypeOK /\ Sink!WorkersInStep /\ Sink!ManagerInStep)'
    <2>1. e_sink' \in [Sink!Rows -> 0..MaxSinks \cup {None}]
        BY <1>0, <1>2 DEF Sink!Emit, Sink!TypeOK
    <2>2. outcome' \in [Sink!Rows -> Sink!Counted \cup {None, "emitted"}]
        BY <1>2 DEF Sink!Emit, Sink!TypeOK, Sink!Counted
    <2> QED
        BY <1>2, <2>1, <2>2
           DEF Sink!Emit, Sink!TypeOK, Sink!WorkersInStep, Sink!ManagerInStep, Sink!queues,
               Sink!breaker, Sink!worker, Sink!manager
<1>3. ASSUME NEW r \in Sink!Rows, NEW s \in Sink!Sinks, Sink!Put(r, s)
      PROVE  (Sink!TypeOK /\ Sink!WorkersInStep /\ Sink!ManagerInStep)'
    <2>1. outcome' \in [Sink!Rows -> Sink!Counted \cup {None, "emitted"}]
        BY <1>3 DEF Sink!Put, Sink!TypeOK, Sink!Counted
    <2>2. queue' \in [Sink!Sinks -> Seq(Sink!Rows \cup {Sink!Wake})] /\ \A t
              \in Sink!Sinks : Len(queue'[t]) <= QueueMax
        <3>1. CASE Len(queue[s]) < QueueMax
            <4>1. queue' = [queue EXCEPT ![s] = Append(queue[s], r)]
                BY <1>3, <3>1 DEF Sink!Put
            <4>2. /\ queue[s] \in Seq(Sink!Rows \cup {Sink!Wake})
                  /\ r \in Sink!Rows \cup {Sink!Wake}
                BY DEF Sink!TypeOK
            <4>3. /\ Append(queue[s], r) \in Seq(Sink!Rows \cup {Sink!Wake})
                  /\ Len(Append(queue[s], r)) <= QueueMax
                BY <1>0, <3>1, <4>2
            <4> QED
                BY <4>1, <4>3 DEF Sink!TypeOK
        <3>2. CASE ~ (Len(queue[s]) < QueueMax)
            BY <1>3, <3>2 DEF Sink!Put, Sink!TypeOK
        <3> QED
            BY <3>1, <3>2
    <2>3. accepted' \in Seq(Sink!Rows)
        <3>1. accepted' = Append(accepted, r) \/ accepted' = accepted
            BY <1>3 DEF Sink!Put
        <3>2. accepted \in Seq(Sink!Rows)
            BY DEF Sink!TypeOK
        <3>3. Append(accepted, r) \in Seq(Sink!Rows)
            BY <3>2, AppendTo
        <3> QED
            BY <3>1, <3>2, <3>3
    <2> QED
        BY <1>3, <2>1, <2>2, <2>3
           DEF Sink!Put, Sink!TypeOK, Sink!WorkersInStep, Sink!ManagerInStep, Sink!breaker,
               Sink!worker, Sink!manager
<1>4. ASSUME NEW s \in Sink!Sinks, Sink!Take(s)
      PROVE  (Sink!TypeOK /\ Sink!WorkersInStep /\ Sink!ManagerInStep)'
    <2>1. /\ queue[s] \in Seq(Sink!Rows \cup {Sink!Wake}) /\ batch[s] \in Seq(Sink!Rows)
          /\ queue[s] # <<>>
          /\ Len(batch[s]) < BatchMax /\ Len(queue[s]) <= QueueMax /\ w_pc[s] = "collect"
        BY <1>4 DEF Sink!Take, Sink!Step, Sink!TypeOK, Sink!WorkersInStep
    <2>2. queue' \in [Sink!Sinks -> Seq(Sink!Rows \cup {Sink!Wake})] /\ \A t
              \in Sink!Sinks : Len(queue'[t]) <= QueueMax
        <3>1. /\ Tail(queue[s]) \in Seq(Sink!Rows \cup {Sink!Wake})
              /\ Len(Tail(queue[s])) <= QueueMax
            BY <1>0, <2>1
        <3> QED
            BY <1>4, <3>1 DEF Sink!Take, Sink!TypeOK
    <2>3. CASE Head(queue[s]) = Sink!Wake
        <3>1. /\ UNCHANGED batch
              /\ w_pc' = [w_pc EXCEPT ![s] = IF batch[s]
                     = <<>> THEN Sink!NextRound(s) ELSE "send"]
            BY <1>4, <2>3 DEF Sink!Take, Sink!Step
        <3>2. w_pc' \in [Sink!Sinks -> {"new", "collect", "send", "post", "backoff", "ended"}]
            BY <3>1 DEF Sink!TypeOK, Sink!NextRound
        <3>3. Sink!TypeOK'
            BY <1>4, <2>2, <3>1, <3>2
               DEF Sink!Take, Sink!TypeOK, Sink!breaker, Sink!manager, Sink!rows
        <3>4. Sink!WorkersInStep'
            BY <1>0, <1>4, <2>1, <3>1
               DEF Sink!Take, Sink!TypeOK, Sink!WorkersInStep, Sink!NextRound, Sink!manager
        <3> QED
            BY <1>4, <3>3, <3>4 DEF Sink!Take, Sink!ManagerInStep, Sink!manager
    <2>4. CASE Head(queue[s]) # Sink!Wake
        <3>1. /\ batch' = [batch EXCEPT ![s] = Append(batch[s], Head(queue[s]))]
              /\ w_pc' = [w_pc EXCEPT ![s] = IF Len(batch'[s])
                     = BatchMax THEN "send" ELSE "collect"]
            BY <1>4, <2>4 DEF Sink!Take, Sink!Step
        <3>2. w_pc' \in [Sink!Sinks -> {"new", "collect", "send", "post", "backoff", "ended"}]
            BY <3>1 DEF Sink!TypeOK
        <3>3. Head(queue[s]) \in Sink!Rows
            BY <2>1, <2>4
        <3>4. /\ Append(batch[s], Head(queue[s])) \in Seq(Sink!Rows)
              /\ Len(Append(batch[s], Head(queue[s]))) <= BatchMax
            BY <1>0, <2>1, <3>3
        <3>5. batch' \in [Sink!Sinks -> Seq(Sink!Rows)] /\ \A t \in Sink!Sinks : Len(batch'[t])
                  <= BatchMax
            BY <3>1, <3>4 DEF Sink!TypeOK
        <3>6. Sink!TypeOK'
            BY <1>4, <2>2, <3>2, <3>5
               DEF Sink!Take, Sink!TypeOK, Sink!breaker, Sink!manager, Sink!rows
        <3>7. \A t \in Sink!Sinks : t # s => batch'[t] = batch[t] /\ w_pc'[t] = w_pc[t]
            BY <3>1 DEF Sink!TypeOK
        <3>8. /\ w_pc'[s] = "send" \/ (w_pc'[s] = "collect" /\ Len(batch'[s]) # BatchMax)
              /\ Len(batch'[s]) \in Nat /\ Len(batch'[s]) <= BatchMax
            BY <3>1, <3>5 DEF Sink!TypeOK
        <3>9. /\ w_pc'[s] # "new" /\ w_pc'[s] # "ended"
              /\ (w_pc'[s] = "collect" => Len(batch'[s]) < BatchMax)
            BY <1>0, <3>8
        <3>10. UNCHANGED attempt /\ UNCHANGED active
            BY <1>4 DEF Sink!Take, Sink!manager
        <3>11. ~ (s > active) /\ attempt[s] = 0
            BY <2>1 DEF Sink!WorkersInStep
        <3>12. Sink!WorkersInStep'
            BY <3>7, <3>9, <3>10, <3>11 DEF Sink!WorkersInStep
        <3> QED
            BY <1>4, <3>6, <3>12 DEF Sink!Take, Sink!ManagerInStep, Sink!manager
    <2> QED
        BY <2>3, <2>4
<1>5. ASSUME NEW s \in Sink!Sinks, Sink!Flush(s)
      PROVE  (Sink!TypeOK /\ Sink!WorkersInStep /\ Sink!ManagerInStep)'
    <2>1. w_pc' \in [Sink!Sinks -> {"new", "collect", "send", "post", "backoff", "ended"}]
        BY <1>5 DEF Sink!Flush, Sink!Step, Sink!TypeOK, Sink!NextRound
    <2>2. Sink!TypeOK'
        BY <1>5, <2>1
           DEF Sink!Flush, Sink!TypeOK, Sink!queues, Sink!breaker, Sink!manager, Sink!rows
    <2>3. Sink!WorkersInStep'
        BY <1>0, <1>5
           DEF Sink!Flush, Sink!Step, Sink!TypeOK, Sink!WorkersInStep, Sink!NextRound,
               Sink!manager
    <2> QED
        BY <1>5, <2>2, <2>3 DEF Sink!Flush, Sink!ManagerInStep, Sink!manager, Sink!queues
<1>6. ASSUME NEW s \in Sink!Sinks, Sink!Done(s),
             w_pc' = [w_pc EXCEPT ![s] = Sink!NextRound(s)],
             w_pc[s] \in {"send", "backoff", "post"},
             UNCHANGED Sink!manager, UNCHANGED stopped
      PROVE  /\ (Sink!WorkersInStep /\ Sink!ManagerInStep)'
             /\ w_pc' \in [Sink!Sinks -> {"new", "collect", "send", "post", "backoff", "ended"}]
             /\ /\ batch' \in [Sink!Sinks -> Seq(Sink!Rows)]
                /\ attempt' \in [Sink!Sinks -> 0..MaxRetries]
             /\ \A t \in Sink!Sinks : Len(batch'[t]) <= BatchMax
    <2>1. /\ w_pc' \in [Sink!Sinks -> {"new", "collect", "send", "post", "backoff", "ended"}]
          /\ w_pc'[s] \in {"collect", "ended"}
        BY <1>6 DEF Sink!TypeOK, Sink!NextRound
    <2>2. batch' \in [Sink!Sinks -> Seq(Sink!Rows)] /\ batch'[s] = <<>> /\ Len(batch'[s]) = 0
        BY <1>6 DEF Sink!TypeOK, Sink!Done
    <2>3. attempt' \in [Sink!Sinks -> 0..MaxRetries] /\ attempt'[s] = 0
        BY <1>0, <1>6 DEF Sink!TypeOK, Sink!Done
    <2>4. \A t \in Sink!Sinks : t # s
              => batch'[t] = batch[t] /\ attempt'[t] = attempt[t] /\ w_pc'[t] = w_pc[t]
        BY <1>6 DEF Sink!Done, Sink!TypeOK
    <2>5. ASSUME NEW t \in Sink!Sinks PROVE Len(batch'[t]) <= BatchMax
        <3>1. CASE t = s
            BY <1>0, <2>2, <3>1
        <3>2. CASE t # s
            BY <2>4, <3>2 DEF Sink!TypeOK
        <3> QED
            BY <3>1, <3>2
    <2>6. ~ (s > active) /\ UNCHANGED active
        BY <1>6 DEF Sink!WorkersInStep, Sink!manager
    <2>7. Sink!WorkersInStep'
        BY <1>0, <2>1, <2>2, <2>3, <2>4, <2>6 DEF Sink!WorkersInStep
    <2> QED
        BY <1>6, <2>1, <2>2, <2>3, <2>5, <2>7 DEF Sink!ManagerInStep, Sink!manager
<1>7. ASSUME NEW s \in Sink!Sinks, Sink!Arrives(s) \/ UNCHANGED received
      PROVE  received' \in Seq(Sink!Rows)
    <2>1. received \in Seq(Sink!Rows) /\ batch[s] \in Seq(Sink!Rows)
        BY DEF Sink!TypeOK
    <2> QED
        BY <1>7, <2>1, ConcatProperties DEF Sink!Arrives
<1>8. ASSUME NEW s \in Sink!Sinks, NEW how \in Sink!Settled, Sink!Counts(s, how)
      PROVE  outcome' \in [Sink!Rows -> Sink!Counted \cup {None, "emitted"}]
    BY <1>8 DEF Sink!Counts, Sink!TypeOK, Sink!Counted, Sink!Settled
<1>9. ASSUME NEW s \in Sink!Sinks, Sink!Send(s)
      PROVE  (Sink!TypeOK /\ Sink!WorkersInStep /\ Sink!ManagerInStep)'
    <2>1. CASE Sink!Sends(s)
        <3>1. /\ w_pc' = [w_pc EXCEPT ![s] = "post"] /\ UNCHANGED <<batch, attempt>>
              /\ w_pc[s] \in {"send", "backoff"}
            BY <1>9, <2>1 DEF Sink!Send
        <3>2. w_pc' \in [Sink!Sinks -> {"new", "collect", "send", "post", "backoff", "ended"}]
            BY <3>1 DEF Sink!TypeOK
        <3>3. Sink!TypeOK'
            BY <1>9, <3>1, <3>2
               DEF Sink!Send, Sink!TypeOK, Sink!queues, Sink!breaker, Sink!manager,
                   Sink!rows
        <3>4. Sink!WorkersInStep'
            BY <1>9, <3>1 DEF Sink!Send, Sink!WorkersInStep, Sink!TypeOK, Sink!manager
        <3> QED
            BY <1>9, <3>3, <3>4 DEF Sink!Send, Sink!ManagerInStep, Sink!manager, Sink!queues
    <2>2. CASE ~ Sink!Sends(s)
        <3>1. /\ w_pc' = [w_pc EXCEPT ![s] = Sink!NextRound(s)] /\ Sink!Done(s)
              /\ w_pc[s] \in {"send", "backoff", "post"} /\ UNCHANGED Sink!manager
              /\ UNCHANGED stopped
            BY <1>9, <2>2 DEF Sink!Send, Sink!queues
        <3> QED
            BY <1>6, <1>9, <3>1
               DEF Sink!Send, Sink!TypeOK, Sink!queues, Sink!breaker, Sink!manager,
                   Sink!rows
    <2> QED
        BY <2>1, <2>2
<1>10. ASSUME NEW s \in Sink!Sinks, Sink!PostOk(s)
       PROVE  (Sink!TypeOK /\ Sink!WorkersInStep /\ Sink!ManagerInStep)'
    <2>1. /\ w_pc' = [w_pc EXCEPT ![s] = Sink!NextRound(s)] /\ Sink!Done(s)
          /\ UNCHANGED Sink!manager
          /\ /\ w_pc[s] \in {"send", "backoff", "post"} /\ Sink!Arrives(s)
             /\ Sink!Counts(s, "ok") /\ UNCHANGED stopped
        BY <1>10 DEF Sink!PostOk, Sink!Step, Sink!queues
    <2>2. failures' \in [Sink!Sinks -> 0..(Threshold - 1)]
        BY <1>0, <1>10 DEF Sink!PostOk, Sink!TypeOK
    <2>3. outcome' \in [Sink!Rows -> Sink!Counted \cup {None, "emitted"}]
        BY <1>8, <2>1 DEF Sink!Settled
    <2> QED
        BY <1>6, <1>7, <1>10, <2>1, <2>2, <2>3
           DEF Sink!PostOk, Sink!TypeOK, Sink!queues, Sink!manager
<1>11. ASSUME NEW s \in Sink!Sinks, Sink!PostRefused(s)
       PROVE  (Sink!TypeOK /\ Sink!WorkersInStep /\ Sink!ManagerInStep)'
    <2>1. /\ w_pc' = [w_pc EXCEPT ![s] = Sink!NextRound(s)] /\ Sink!Done(s)
          /\ UNCHANGED Sink!manager
          /\ /\ w_pc[s] \in {"send", "backoff", "post"} /\ Sink!Counts(s, "bad_request")
             /\ UNCHANGED stopped
        BY <1>11 DEF Sink!PostRefused, Sink!Step, Sink!queues
    <2>2. outcome' \in [Sink!Rows -> Sink!Counted \cup {None, "emitted"}]
        BY <1>8, <2>1 DEF Sink!Settled
    <2> QED
        BY <1>6, <1>11, <2>1, <2>2
           DEF Sink!PostRefused, Sink!TypeOK, Sink!queues, Sink!breaker, Sink!manager
<1>12. ASSUME NEW s \in Sink!Sinks, Sink!PostFails(s)
       PROVE  (Sink!TypeOK /\ Sink!WorkersInStep /\ Sink!ManagerInStep)'
    <2>1. /\ w_pc' = [w_pc EXCEPT ![s] = "backoff"] /\ w_pc[s] = "post"
          /\ attempt' = [attempt EXCEPT ![s] = attempt[s] + 1] /\ attempt[s] < MaxRetries
          /\ UNCHANGED <<Sink!queues, Sink!breaker, batch, Sink!manager, Sink!rows>>
        BY <1>12 DEF Sink!PostFails, Sink!Step
    <2>2. received' \in Seq(Sink!Rows)
        BY <1>7, <1>12 DEF Sink!PostFails, Sink!Unanswered
    <2>3. w_pc' \in [Sink!Sinks -> {"new", "collect", "send", "post", "backoff", "ended"}]
        BY <2>1 DEF Sink!TypeOK
    <2>4. attempt' \in [Sink!Sinks -> 0..MaxRetries]
        BY <1>0, <2>1 DEF Sink!TypeOK
    <2>5. Sink!WorkersInStep'
        BY <2>1 DEF Sink!WorkersInStep, Sink!TypeOK, Sink!manager
    <2> QED
        BY <2>1, <2>2, <2>3, <2>4, <2>5
           DEF Sink!TypeOK, Sink!ManagerInStep, Sink!queues, Sink!breaker, Sink!manager,
               Sink!rows
<1>13. ASSUME NEW s \in Sink!Sinks, Sink!BatchFails(s)
       PROVE  (Sink!TypeOK /\ Sink!WorkersInStep /\ Sink!ManagerInStep)'
    <2>1. /\ w_pc' = [w_pc EXCEPT ![s] = Sink!NextRound(s)] /\ Sink!Done(s)
          /\ UNCHANGED Sink!manager
          /\ w_pc[s] \in {"send", "backoff", "post"} /\ Sink!Counts(s, "failed")
          /\ Sink!Arrives(s) \/ UNCHANGED received
          /\ UNCHANGED stopped
        BY <1>13 DEF Sink!BatchFails, Sink!Step, Sink!Unanswered, Sink!queues
    <2>2. outcome' \in [Sink!Rows -> Sink!Counted \cup {None, "emitted"}]
        BY <1>8, <2>1 DEF Sink!Settled
    <2>3. failures' \in [Sink!Sinks -> 0..(Threshold - 1)] /\ open' \in [Sink!Sinks -> BOOLEAN]
        <3>1. failures[s] \in 0..(Threshold - 1) /\ open[s] \in BOOLEAN
            BY DEF Sink!TypeOK
        <3>2. CASE failures[s] + 1 >= Threshold
            <4>1. failures' = [failures EXCEPT ![s] = 0] /\ open' = [open EXCEPT ![s] = TRUE]
                BY <1>13, <3>2 DEF Sink!BatchFails
            <4>2. 0 \in 0..(Threshold - 1)
                BY <1>0
            <4> QED
                BY <4>1, <4>2 DEF Sink!TypeOK
        <3>3. CASE ~ (failures[s] + 1 >= Threshold)
            <4>1. failures[s] + 1 \in 0..(Threshold - 1)
                BY <1>0, <3>1, <3>3
            <4> QED
                BY <1>13, <3>3, <4>1 DEF Sink!BatchFails, Sink!TypeOK
        <3> QED
            BY <3>2, <3>3
    <2> QED
        BY <1>6, <1>7, <1>13, <2>1, <2>2, <2>3
           DEF Sink!BatchFails, Sink!TypeOK, Sink!queues, Sink!manager
<1>14. ASSUME NEW s \in Sink!Sinks, Sink!CoolDown(s)
       PROVE  (Sink!TypeOK /\ Sink!WorkersInStep /\ Sink!ManagerInStep)'
    BY <1>14
       DEF Sink!CoolDown, Sink!TypeOK, Sink!WorkersInStep, Sink!ManagerInStep, Sink!queues,
           Sink!worker, Sink!manager, Sink!rows
<1>15. ASSUME NEW op \in Sink!Ops, Sink!Begin(op)
       PROVE  (Sink!TypeOK /\ Sink!WorkersInStep /\ Sink!ManagerInStep)'
    <2>1. Sink!TypeOK'
        BY <1>15 DEF Sink!Begin, Sink!TypeOK, Sink!queues, Sink!breaker, Sink!worker, Sink!rows
    <2>2. Sink!ManagerInStep'
        BY <1>15 DEF Sink!Begin, Sink!TypeOK, Sink!ManagerInStep
    <2> QED
        BY <1>15, <2>1, <2>2 DEF Sink!Begin, Sink!WorkersInStep, Sink!worker
<1>16. CASE Sink!Manage
    <2>1. CASE Sink!Stop
        <3>1. active \in Sink!Sinks
            BY <1>0, <2>1 DEF Sink!Stop, Sink!ManagerInStep, Sink!TypeOK
        <3>2. stopped' \in [Sink!Sinks -> BOOLEAN] /\ stopped'[active]
            BY <2>1, <3>1 DEF Sink!Stop, Sink!TypeOK
        <3> QED
            BY <2>1, <3>2
               DEF Sink!Stop, Sink!TypeOK, Sink!WorkersInStep, Sink!ManagerInStep,
                   Sink!breaker, Sink!worker, Sink!rows
    <2>2. CASE Sink!Drain
        <3>1. active \in Sink!Sinks
            BY <1>0, <2>2 DEF Sink!Drain, Sink!ManagerInStep, Sink!TypeOK
        <3> DEFINE n == IF Len(queue[active]) < BatchMax THEN Len(queue[active]) ELSE BatchMax
        <3>2. queue[active] \in Seq(Sink!Rows \cup {Sink!Wake}) /\ Len(queue[active]) \in Nat
            BY <3>1 DEF Sink!TypeOK
        <3>3. n \in 0..Len(queue[active])
            BY <1>0, <3>2
        <3>4. queue' = [queue EXCEPT ![active] = SubSeq(queue[active], n + 1, Len(queue[active]))]
            BY <2>2 DEF Sink!Drain
        <3> HIDE DEF n
        <3>5. /\ SubSeq(queue[active], n + 1, Len(queue[active]))
                     \in Seq(Sink!Rows \cup {Sink!Wake})
              /\ Len(SubSeq(queue[active], n + 1, Len(queue[active]))) = Len(queue[active]) - n
            BY <3>2, <3>3, RestOf
        <3>6. queue' \in [Sink!Sinks -> Seq(Sink!Rows \cup {Sink!Wake})] /\ \A t
                  \in Sink!Sinks : Len(queue'[t]) <= QueueMax
            <4> DEFINE rest == SubSeq(queue[active], n + 1, Len(queue[active]))
            <4>1. Len(rest) <= QueueMax /\ rest \in Seq(Sink!Rows \cup {Sink!Wake})
                <5>1. Len(queue[active]) <= QueueMax /\ n \in Nat
                    BY <3>1, <3>2, <3>3 DEF Sink!TypeOK
                <5> QED
                    BY <1>0, <3>2, <3>5, <5>1
            <4> HIDE DEF rest
            <4>2. queue' = [queue EXCEPT ![active] = rest]
                BY <3>4 DEF rest
            <4> QED
                BY <3>1, <4>1, <4>2 DEF Sink!TypeOK
        <3> QED
            BY <2>2, <3>6
               DEF Sink!Drain, Sink!TypeOK, Sink!WorkersInStep, Sink!ManagerInStep,
                   Sink!breaker, Sink!worker, Sink!manager, Sink!rows
    <2>3. CASE Sink!DrainEnds
        <3>1. active \in Sink!Sinks
            BY <1>0, <2>3 DEF Sink!DrainEnds, Sink!ManagerInStep, Sink!TypeOK
        <3>2. /\ queue[active] \in Seq(Sink!Rows \cup {Sink!Wake})
              /\ Sink!Wake \in Sink!Rows \cup {Sink!Wake}
            BY <3>1 DEF Sink!TypeOK
        <3>3. /\ Append(queue[active], Sink!Wake) \in Seq(Sink!Rows \cup {Sink!Wake})
              /\ Len(queue[active]) < QueueMax
                     => Len(Append(queue[active], Sink!Wake)) <= QueueMax
            BY <1>0, <3>2
        <3>4. queue' \in [Sink!Sinks -> Seq(Sink!Rows \cup {Sink!Wake})] /\ \A t
                  \in Sink!Sinks : Len(queue'[t]) <= QueueMax
            BY <2>3, <3>3 DEF Sink!DrainEnds, Sink!TypeOK
        <3> QED
            BY <2>3, <3>4
               DEF Sink!DrainEnds, Sink!TypeOK, Sink!WorkersInStep, Sink!ManagerInStep,
                   Sink!breaker, Sink!worker, Sink!rows
    <2>4. CASE Sink!Finish
        <3>1. CASE m_op = "enable"
            <4>1. active + 1 \in Sink!Sinks /\ w_pc[active + 1] = "new"
                BY <1>0, <2>4, <3>1
                   DEF Sink!Finish, Sink!TypeOK, Sink!ManagerInStep, Sink!WorkersInStep
            <4>2. /\ active' = active + 1 /\ emitter' = active + 1
                  /\ w_pc' = [w_pc EXCEPT ![active + 1] = "collect"]
                  /\ UNCHANGED <<Sink!queues, Sink!breaker, batch, attempt, Sink!rows, received>>
                BY <2>4, <3>1 DEF Sink!Finish
            <4>3. w_pc' \in [Sink!Sinks -> {"new", "collect", "send", "post", "backoff", "ended"}]
                BY <4>1, <4>2 DEF Sink!TypeOK
            <4>4. m_pc' \in {"idle", "stop", "drain", "finish", "exited"} /\ m_op' = None
                BY <2>4 DEF Sink!Finish
            <4>5. active' \in 0..MaxSinks /\ emitter' \in {0, active'}
                BY <4>1, <4>2
            <4>6. Sink!TypeOK'
                BY <4>2, <4>3, <4>4, <4>5 DEF Sink!TypeOK, Sink!queues, Sink!breaker, Sink!rows
            <4>7. Sink!WorkersInStep'
                <5>1. /\ batch[active + 1] = <<>> /\ attempt[active + 1] = 0
                      /\ Len(batch[active + 1]) = 0
                    BY <4>1 DEF Sink!WorkersInStep
                <5>2. w_pc'[active + 1] = "collect" /\ UNCHANGED <<batch, attempt>>
                    BY <4>1, <4>2 DEF Sink!TypeOK
                <5>3. \A t \in Sink!Sinks : t # active + 1 => w_pc'[t] = w_pc[t]
                    BY <4>2 DEF Sink!TypeOK
                <5>4. \A t \in Sink!Sinks : t > active' => t # active + 1 /\ t > active
                    BY <4>1, <4>2 DEF Sink!TypeOK
                <5> QED
                    BY <1>0, <5>1, <5>2, <5>3, <5>4 DEF Sink!WorkersInStep
            <4>8. Sink!ManagerInStep'
                BY <1>0, <2>4, <4>4 DEF Sink!Finish, Sink!ManagerInStep
            <4> QED
                BY <4>6, <4>7, <4>8
        <3>2. CASE m_op # "enable"
            <4>1. UNCHANGED <<active, emitter, w_pc, Sink!queues, Sink!breaker, batch, attempt,
                  Sink!rows, received>>
                BY <2>4, <3>2 DEF Sink!Finish
            <4>2. m_pc' \in {"idle", "exited"} /\ m_op' = None
                BY <2>4 DEF Sink!Finish
            <4> QED
                BY <1>0, <4>1, <4>2
                   DEF Sink!TypeOK, Sink!WorkersInStep, Sink!ManagerInStep, Sink!queues,
                       Sink!breaker, Sink!rows
        <3> QED
            BY <3>1, <3>2
    <2> QED
        BY <1>16, <2>1, <2>2, <2>3, <2>4 DEF Sink!Manage
<1> QED
    BY <1>1, <1>2, <1>3, <1>4, <1>5, <1>9, <1>10, <1>11, <1>12, <1>13, <1>14, <1>15, <1>16
       DEF Sink!Next, Sink!Work

\* A row that is queued was not accepted before.
LEMMA NotAccepted ==
    ASSUME SinkAssumption, Sink!TypeOK, Sink!AcceptedOnce, NEW x \in Sink!Rows,
           outcome[x] = None
    PROVE  /\ \A i \in DOMAIN accepted : accepted[i] # x
           /\ \A q : ~ Sink!Before(q, x) /\ ~ Sink!Before(x, q)
<1>1. None \notin Sink!Settled \cup {"emitted"}
    BY DEF SinkAssumption, Sink!NoneAssumption, Sink!Counted
<1>2. \A i \in DOMAIN accepted : accepted[i] # x
    BY <1>1 DEF Sink!AcceptedOnce
<1> QED
    BY <1>2 DEF Sink!Before

\* The rows that come in an order have been accepted.
LEMMA BeforeRows ==
    ASSUME SinkAssumption, Sink!TypeOK, NEW q, NEW r, Sink!Before(q, r)
    PROVE  /\ \E i \in DOMAIN accepted : accepted[i] = q
           /\ \E i \in DOMAIN accepted : accepted[i] = r
           /\ q \in Sink!Rows /\ r \in Sink!Rows
BY SinkTypes DEF Sink!Before

\* What a post in its last round does to the outcomes.
LEMMA OverOutcome ==
    ASSUME SinkAssumption, Sink!TypeOK, NEW s \in Sink!Sinks, Over(s)
    PROVE  \A r \in Sink!Rows :
             \/ outcome'[r] = outcome[r]
             \/ outcome'[r] \in Sink!Settled /\ \E k \in DOMAIN batch[s] : batch[s][k] = r
<1>1. CASE outcome' = outcome
    BY <1>1
<1>2. CASE \E how \in Sink!Settled : Sink!Counts(s, how)
    BY <1>2 DEF Sink!Counts, Sink!Range
<1> QED
    BY <1>1, <1>2 DEF Over

\* A row is accepted once, whatever the step.
LEMMA AcceptedStep ==
    ASSUME SinkAssumption, Sink!TypeOK, Sink!AcceptedOnce, Sink!HeldInOrder,
           [Sink!Next]_(Sink!vars)
    PROVE  Sink!AcceptedOnce'
<1> DEFINE S == Sink!Settled \cup {"emitted"}
<1>0. /\ None \notin S /\ None \notin 0..MaxSinks /\ "emitted" \in S /\ "queue_full" \notin S
      /\ "not_watched" \notin S /\ "breaker_open" \notin S
    BY DEF SinkAssumption, Sink!NoneAssumption, Sink!Counted, Sink!Settled
<1>1. CASE UNCHANGED <<accepted, outcome, e_sink>>
    BY <1>1 DEF Sink!AcceptedOnce
<1>2. ASSUME NEW x \in Sink!Rows, Sink!Emit(x) PROVE Sink!AcceptedOnce'
    <2>1. e_sink[x] = None /\ outcome[x] = None
        BY <1>2 DEF Sink!Emit, Sink!AcceptedOnce
    <2>2. outcome'[x] \notin S /\ e_sink'[x] # None /\ outcome[x] \notin S
        <3>1. emitter \in 0..MaxSinks
            BY DEF Sink!TypeOK, SinkAssumption, Sink!BoundsAssumption
        <3>2. e_sink'[x] = emitter
            BY <1>2 DEF Sink!Emit, Sink!TypeOK
        <3>3. outcome'[x] \in {"not_watched", "breaker_open", None}
            BY <1>2 DEF Sink!Emit, Sink!TypeOK
        <3> QED
            BY <1>0, <2>1, <3>1, <3>2, <3>3
    <2>3. \A r \in Sink!Rows : r # x => outcome'[r] = outcome[r] /\ e_sink'[r] = e_sink[r]
        BY <1>2 DEF Sink!Emit, Sink!TypeOK
    <2>4. accepted' = accepted
        BY <1>2 DEF Sink!Emit
    <2> QED
        BY <2>2, <2>3, <2>4 DEF Sink!AcceptedOnce
<1>3. ASSUME NEW x \in Sink!Rows, NEW s \in Sink!Sinks, Sink!Put(x, s) PROVE Sink!AcceptedOnce'
    <2>1. /\ e_sink[x] = s /\ outcome[x] = None /\ outcome[x] \notin S /\ s # None
          /\ e_sink' = e_sink
        BY <1>0, <1>3 DEF Sink!Put, Sink!Sinks
    <2>2. \A r \in Sink!Rows : r # x => outcome'[r] = outcome[r]
        BY <1>3 DEF Sink!Put, Sink!TypeOK
    <2>3. CASE Len(queue[s]) < QueueMax
        <3>1. accepted' = Append(accepted, x) /\ outcome'[x] = "emitted"
            BY <1>3, <2>3 DEF Sink!Put, Sink!TypeOK
        <3>2. /\ DOMAIN accepted' = 1..Len(accepted) + 1 /\ DOMAIN accepted = 1..Len(accepted)
              /\ Len(accepted) \in Nat /\ accepted'[Len(accepted) + 1] = x
              /\ \A i \in DOMAIN accepted : accepted'[i] = accepted[i]
            <4>1. accepted \in Seq(Sink!Rows) /\ DOMAIN accepted = 1..Len(accepted)
                BY SinkTypes DEF Sink!TypeOK
            <4> QED
                BY <3>1, <4>1
        <3>3. \A i \in DOMAIN accepted : accepted[i] # x
            BY <2>1, NotAccepted
        <3>4. \A i \in DOMAIN accepted' : i \in DOMAIN accepted \/ i = Len(accepted) + 1
            BY <3>2
        <3>5. \A i, j \in DOMAIN accepted' : accepted'[i] = accepted'[j] => i = j
            BY <3>2, <3>3, <3>4 DEF Sink!AcceptedOnce
        <3>6. /\ DOMAIN accepted \subseteq DOMAIN accepted'
              /\ Len(accepted) + 1 \in DOMAIN accepted'
            BY <3>2
        <3>7. \A r \in Sink!Rows : (\E i \in DOMAIN accepted' : accepted'[i] = r)
                                <=> (r = x \/ \E i \in DOMAIN accepted : accepted[i] = r)
            BY <3>2, <3>4, <3>6
        <3>8. ASSUME NEW r \in Sink!Rows
              PROVE  /\ outcome'[r] \in S <=> \E i \in DOMAIN accepted' : accepted'[i] = r
                     /\ outcome'[r] \in S => e_sink'[r] \in Sink!Sinks
                     /\ e_sink'[r] = None => outcome'[r] = None
            <4>1. CASE r = x
                BY <1>0, <2>1, <3>1, <3>7, <4>1
            <4>2. CASE r # x
                BY <2>1, <2>2, <3>7, <4>2 DEF Sink!AcceptedOnce
            <4> QED
                BY <4>1, <4>2
        <3> QED
            BY <3>5, <3>8 DEF Sink!AcceptedOnce
    <2>4. CASE ~ (Len(queue[s]) < QueueMax)
        <3>1. accepted' = accepted /\ outcome'[x] = "queue_full"
            BY <1>3, <2>4 DEF Sink!Put, Sink!TypeOK
        <3> QED
            BY <1>0, <2>1, <2>2, <3>1 DEF Sink!AcceptedOnce
    <2> QED
        BY <2>3, <2>4
<1>4. ASSUME NEW s \in Sink!Sinks, Over(s) PROVE Sink!AcceptedOnce'
    <2>1. UNCHANGED <<accepted, e_sink>>
        BY <1>4 DEF Over
    <2>2. ASSUME NEW r \in Sink!Rows
          PROVE  /\ outcome'[r] \in S <=> outcome[r] \in S
                 /\ e_sink[r] = None => outcome'[r] = None
        <3>1. CASE outcome'[r] = outcome[r]
            BY <3>1 DEF Sink!AcceptedOnce
        <3>2. CASE outcome'[r] \in Sink!Settled /\ \E k \in DOMAIN batch[s] : batch[s][k] = r
            <4>1. outcome[r] = "emitted" /\ e_sink[r] = s
                BY <3>2 DEF Sink!HeldInOrder, Sink!Mine
            <4> QED
                BY <1>0, <3>2, <4>1 DEF Sink!Sinks
        <3> QED
            BY <1>4, <3>1, <3>2, OverOutcome
    <2> QED
        BY <2>1, <2>2 DEF Sink!AcceptedOnce
<1>5. ASSUME NEW s \in Sink!Sinks, Sink!Take(s) \/ Sink!PostFails(s)
      PROVE  UNCHANGED <<accepted, outcome, e_sink>>
    BY <1>5 DEF Sink!Take, Sink!PostFails, Sink!rows
<1>6. CASE Sink!Drain \/ Sink!DrainEnds
    BY <1>1, <1>6 DEF Sink!Drain, Sink!DrainEnds, Sink!rows
<1>7. CASE UNCHANGED data
    BY <1>1, <1>7 DEF data
<1> QED
    BY <1>1, <1>2, <1>3, <1>4, <1>5, <1>6, <1>7, SinkCases
(* What the sinks hold.                                                    *)
InBatch(s, i, r) == i \in DOMAIN batch[s] /\ batch[s][i] = r
InQueue(s, i, r) == i \in DOMAIN queue[s] /\ queue[s][i] = r /\ r # Sink!Wake

HeldOf(s) ==
    /\ \A i, r : InBatch(s, i, r) \/ InQueue(s, i, r) => Sink!Mine(s, r)
    /\ \A i, j, q, r : InBatch(s, i, q) /\ InQueue(s, j, r) => Sink!Before(q, r)
    /\ \A i, j, q, r : InBatch(s, i, q) /\ InBatch(s, j, r) /\ i < j => Sink!Before(q, r)
    /\ \A i, j, q, r : InQueue(s, i, q) /\ InQueue(s, j, r) /\ i < j => Sink!Before(q, r)

\* The order, told by rows instead of places.
LEMMA HeldIs == Sink!HeldInOrder <=> \A s \in Sink!Sinks : HeldOf(s)
<1>1. ASSUME Sink!HeldInOrder, NEW s \in Sink!Sinks PROVE HeldOf(s)
    <2>1. /\ \A i, r : InBatch(s, i, r) \/ InQueue(s, i, r) => Sink!Mine(s, r)
          /\ \A i, j, q, r : InBatch(s, i, q) /\ InQueue(s, j, r) => Sink!Before(q, r)
        BY <1>1 DEF Sink!HeldInOrder, InBatch, InQueue
    <2>2. \A i, j, q, r : InBatch(s, i, q) /\ InBatch(s, j, r) /\ i < j => Sink!Before(q, r)
        BY <1>1 DEF Sink!HeldInOrder, InBatch
    <2>3. \A i, j, q, r : InQueue(s, i, q) /\ InQueue(s, j, r) /\ i < j => Sink!Before(q, r)
        BY <1>1 DEF Sink!HeldInOrder, InQueue
    <2> QED
        BY <2>1, <2>2, <2>3 DEF HeldOf
<1>2. ASSUME NEW s \in Sink!Sinks, HeldOf(s)
      PROVE  /\ \A i \in DOMAIN batch[s] : Sink!Mine(s, batch[s][i])
             /\ \A j \in DOMAIN queue[s] : queue[s][j] # Sink!Wake =>
                 /\ Sink!Mine(s, queue[s][j])
                 /\ \A i \in DOMAIN batch[s] : Sink!Before(batch[s][i], queue[s][j])
             /\ \A i, j \in DOMAIN batch[s] : i < j => Sink!Before(batch[s][i], batch[s][j])
             /\ \A i, j \in DOMAIN queue[s] :
                 (i < j /\ queue[s][i] # Sink!Wake /\ queue[s][j] # Sink!Wake) =>
                     Sink!Before(queue[s][i], queue[s][j])
    BY <1>2 DEF HeldOf, InBatch, InQueue
<1> QED
    BY <1>1, <1>2, Zenon DEF Sink!HeldInOrder

\* A place is a number.
LEMMA HeldNumbers ==
    ASSUME SinkAssumption, Sink!TypeOK, NEW s \in Sink!Sinks, NEW i, NEW r,
           InBatch(s, i, r) \/ InQueue(s, i, r)
    PROVE  i \in Nat /\ i > 0
BY SinkTypes DEF InBatch, InQueue

\* A queue without its head has its rows one place further on.
LEMMA HeadTaken ==
    ASSUME SinkAssumption, Sink!TypeOK, NEW s \in Sink!Sinks, queue[s] # <<>>,
           queue'[s] = Tail(queue[s])
    PROVE  \A i, r : InQueue(s, i, r)' => InQueue(s, i + 1, r)
<1>1. queue[s] \in Seq(Sink!Rows \cup {Sink!Wake})
    BY SinkTypes
<1>2. \A i \in DOMAIN queue'[s] : i + 1 \in DOMAIN queue[s] /\ queue'[s][i] = queue[s][i + 1]
    BY <1>1, TailOf
<1> QED
    BY <1>2 DEF InQueue

\* One without several has them as many further on.
LEMMA FrontTaken ==
    ASSUME SinkAssumption, Sink!TypeOK, NEW s \in Sink!Sinks, NEW n \in 0..Len(queue[s]),
           queue'[s] = SubSeq(queue[s], n + 1, Len(queue[s]))
    PROVE  \A i, r : InQueue(s, i, r)' => InQueue(s, i + n, r)
<1>1. queue[s] \in Seq(Sink!Rows \cup {Sink!Wake})
    BY SinkTypes
<1>2. \A i \in DOMAIN queue'[s] : i + n \in DOMAIN queue[s] /\ queue'[s][i] = queue[s][i + n]
    BY <1>1, RestOf
<1> QED
    BY <1>2 DEF InQueue

\* A sink that a step leaves alone, or of which it takes the batch away or the head of
\* the queue, holds what it held.
LEMMA HeldLeft ==
    ASSUME SinkAssumption, Sink!TypeOK, Sink!TypeOK', NEW s \in Sink!Sinks, HeldOf(s),
           \A q, r : Sink!Before(q, r) => Sink!Before(q, r)',
           \A i, r : InBatch(s, i, r)' => InBatch(s, i, r), NEW n \in Nat,
           \A i, r : InQueue(s, i, r)' => InQueue(s, i + n, r),
           \A i, r : InBatch(s, i, r)' => Sink!Mine(s, r)',
           \A i, r : InQueue(s, i, r)' => Sink!Mine(s, r)'
    PROVE  HeldOf(s)'
<1>1. ASSUME NEW i, NEW j, NEW q, NEW r, InQueue(s, i, q)', InQueue(s, j, r)', i < j
      PROVE  Sink!Before(q, r)'
    <2>1. i + n < j + n /\ InQueue(s, i + n, q) /\ InQueue(s, j + n, r)
        <3>1. i \in Nat /\ j \in Nat
            <4>1. queue'[s] \in Seq(Sink!Rows \cup {Sink!Wake})
                BY DEF Sink!TypeOK
            <4> QED
                BY <1>1, <4>1 DEF InQueue
        <3> QED
            BY <1>1, <3>1
    <2>2. Sink!Before(q, r)
        BY <2>1 DEF HeldOf
    <2> QED
        BY <2>2
<1> QED
    BY <1>1 DEF HeldOf

\* Whatever the step, every sink holds its own rows in their order.
LEMMA HeldStep ==
    ASSUME SinkAssumption, Sink!TypeOK, Sink!TypeOK', Sink!AcceptedOnce, Sink!HeldInOrder,
           [Sink!Next]_(Sink!vars)
    PROVE  Sink!HeldInOrder'
<1> SUFFICES ASSUME NEW t \in Sink!Sinks PROVE HeldOf(t)'
    <2>1. (\A s \in Sink!Sinks : HeldOf(s))' => Sink!HeldInOrder'
        BY HeldIs, PTL
    <2> QED
        BY <2>1
<1>0. HeldOf(t)
    BY HeldIs
<1>1. ASSUME UNCHANGED accepted PROVE \A q, r : Sink!Before(q, r) => Sink!Before(q, r)'
    BY <1>1 DEF Sink!Before
<1>2. ASSUME UNCHANGED <<queue, batch>>
      PROVE  \A i, r : /\ InBatch(t, i, r)' => InBatch(t, i, r)
                       /\ InQueue(t, i, r)' => InQueue(t, i, r)
    BY <1>2 DEF InBatch, InQueue
<1>3. \A i, r : InBatch(t, i, r) \/ InQueue(t, i, r) => Sink!Mine(t, r)
    BY <1>0 DEF HeldOf
<1>4. ASSUME UNCHANGED <<e_sink, outcome>> PROVE \A r : Sink!Mine(t, r) => Sink!Mine(t, r)'
    BY <1>4 DEF Sink!Mine
<1>5. ASSUME UNCHANGED data PROVE HeldOf(t)'
    <2>1. UNCHANGED accepted /\ UNCHANGED <<queue, batch>> /\ UNCHANGED <<e_sink, outcome>>
        BY <1>5 DEF data
    <2> QED
        BY <1>0, <1>1, <1>2, <1>4, <2>1 DEF HeldOf
<1>6. ASSUME NEW x \in Sink!Rows, Sink!Emit(x) PROVE HeldOf(t)'
    <2>1. UNCHANGED accepted /\ UNCHANGED <<queue, batch>>
        BY <1>6 DEF Sink!Emit, Sink!queues, Sink!worker
    <2>2. outcome[x] # "emitted"
        <3>1. outcome[x] = None
            BY <1>6 DEF Sink!Emit, Sink!AcceptedOnce
        <3> QED
            BY <3>1 DEF SinkAssumption, Sink!NoneAssumption
    <2>3. \A r : Sink!Mine(t, r) => Sink!Mine(t, r)'
        BY <1>6, <2>2 DEF Sink!Mine, Sink!Emit, Sink!TypeOK
    <2> QED
        BY <1>0, <1>1, <1>2, <2>1, <2>3 DEF HeldOf
<1>7. ASSUME NEW x \in Sink!Rows, NEW s \in Sink!Sinks, Sink!Put(x, s) PROVE HeldOf(t)'
    <2>1. /\ outcome[x] = None /\ outcome[x] # "emitted" /\ e_sink[x] = s
          /\ UNCHANGED <<batch, e_sink>>
        BY <1>7 DEF Sink!Put, SinkAssumption, Sink!NoneAssumption, Sink!worker
    <2>2. \A r : Sink!Mine(t, r) => Sink!Mine(t, r)'
        BY <1>7, <2>1 DEF Sink!Mine, Sink!Put, Sink!TypeOK
    <2>3. CASE Len(queue[s]) < QueueMax
        <3>1. /\ accepted' = Append(accepted, x) /\ outcome'[x] = "emitted"
              /\ queue' = [queue EXCEPT ![s] = Append(queue[s], x)]
            BY <1>7, <2>3 DEF Sink!Put, Sink!TypeOK
        <3>2. /\ \A q, r : Sink!Before(q, r) => Sink!Before(q, r)'
              /\ \A q : (\E i \in DOMAIN accepted : accepted[i] = q) => Sink!Before(q, x)'
            BY <3>1, BeforeGrows
        <3>3. CASE t # s
            <4>1. queue'[t] = queue[t]
                BY <3>1, <3>3 DEF Sink!TypeOK
            <4>2. \A i, r : /\ InBatch(t, i, r)' <=> InBatch(t, i, r)
                            /\ InQueue(t, i, r)' <=> InQueue(t, i, r)
                BY <2>1, <4>1 DEF InBatch, InQueue
            <4> QED
                BY <1>0, <2>2, <3>2, <4>2 DEF HeldOf
        <3>4. CASE t = s
            <4>1. /\ queue'[s] = Append(queue[s], x)
                  /\ queue[s] \in Seq(Sink!Rows \cup {Sink!Wake})
                  /\ x \in Sink!Rows \cup {Sink!Wake}
                BY <3>1 DEF Sink!TypeOK
            <4>2. ASSUME NEW i, NEW r, InQueue(s, i, r)'
                  PROVE  \/ InQueue(s, i, r)
                         \/ i = Len(queue[s]) + 1 /\ r = x
                BY <4>1, <4>2, AppendTo DEF InQueue
            <4>3. Sink!Mine(s, x)'
                BY <2>1, <3>1 DEF Sink!Mine
            <4>4. \A i, r : InBatch(s, i, r)' <=> InBatch(s, i, r)
                BY <2>1 DEF InBatch
            <4>5. \A i, r : InBatch(s, i, r) \/ InQueue(s, i, r) => Sink!Before(r, x)'
                <5>1. ASSUME NEW i, NEW r, InBatch(s, i, r) \/ InQueue(s, i, r)
                      PROVE  Sink!Before(r, x)'
                    <6>1. r \in Sink!Rows /\ outcome[r] = "emitted"
                        BY <1>3, <3>4, <5>1 DEF Sink!Mine
                    <6>2. \E k \in DOMAIN accepted : accepted[k] = r
                        BY <6>1 DEF Sink!AcceptedOnce
                    <6> QED
                        BY <3>2, <6>2
                <5> QED
                    BY <5>1
            <4>6. \A i, r : InQueue(s, i, r) => i \in Nat /\ i <= Len(queue[s])
                BY SinkTypes DEF InQueue
            <4>7. \A i, r : InBatch(s, i, r)' \/ InQueue(s, i, r)' => Sink!Mine(s, r)'
                BY <1>3, <2>2, <3>4, <4>2, <4>3, <4>4
            <4>8. \A i, j, q, r : InBatch(s, i, q)' /\ InQueue(s, j, r)' => Sink!Before(q, r)'
                BY <1>0, <3>2, <3>4, <4>2, <4>4, <4>5 DEF HeldOf
            <4>9. \A i, j, q, r : InBatch(s, i, q)' /\ InBatch(s, j, r)' /\ i < j
                      => Sink!Before(q, r)'
                BY <1>0, <3>2, <3>4, <4>4 DEF HeldOf
            <4>10. ASSUME NEW i, NEW j, NEW q, NEW r, InQueue(s, i, q)', InQueue(s, j, r)', i < j
                   PROVE  Sink!Before(q, r)'
                <5>1. CASE InQueue(s, i, q) /\ InQueue(s, j, r)
                    BY <1>0, <3>2, <3>4, <4>10, <5>1 DEF HeldOf
                <5>2. CASE InQueue(s, i, q) /\ r = x
                    BY <4>5, <5>2
                <5>3. CASE i = Len(queue[s]) + 1
                    <6>1. j <= Len(queue[s]) + 1 /\ j \in Nat /\ Len(queue[s]) \in Nat
                        BY <4>2, <4>6, <4>10, SinkTypes
                    <6> QED
                        BY <4>10, <5>3, <6>1
                <5> QED
                    BY <4>2, <4>10, <5>1, <5>2, <5>3
            <4> QED
                BY <3>4, <4>7, <4>8, <4>9, <4>10 DEF HeldOf
        <3> QED
            BY <3>3, <3>4
    <2>4. CASE ~ (Len(queue[s]) < QueueMax)
        <3>1. UNCHANGED accepted /\ UNCHANGED <<queue, batch>>
            BY <1>7, <2>4 DEF Sink!Put, Sink!worker
        <3> QED
            BY <1>0, <1>1, <1>2, <2>2, <3>1 DEF HeldOf
    <2> QED
        BY <2>3, <2>4
<1>8. ASSUME NEW s \in Sink!Sinks, Sink!Take(s) PROVE HeldOf(t)'
    <2>1. /\ UNCHANGED accepted /\ UNCHANGED <<e_sink, outcome>> /\ queue[s] # <<>>
          /\ queue' = [queue EXCEPT ![s] = Tail(queue[s])]
        BY <1>8 DEF Sink!Take, Sink!rows
    <2>2. CASE t # s
        <3>1. queue'[t] = queue[t] /\ batch'[t] = batch[t]
            BY <1>8, <2>2 DEF Sink!Take, Sink!TypeOK
        <3>2. \A i, r : /\ InBatch(t, i, r)' <=> InBatch(t, i, r)
                        /\ InQueue(t, i, r)' <=> InQueue(t, i, r)
            BY <3>1 DEF InBatch, InQueue
        <3> QED
            BY <1>0, <1>1, <1>4, <2>1, <3>2 DEF HeldOf
    <2>3. CASE t = s
        <3>1. queue'[s] = Tail(queue[s]) /\ queue[s] \in Seq(Sink!Rows \cup {Sink!Wake})
            BY <2>1 DEF Sink!TypeOK
        <3>2. \A i, r : InQueue(s, i, r)' => InQueue(s, i + 1, r)
            BY <2>1, <3>1, HeadTaken
        <3>3. \A r : Sink!Mine(s, r) => Sink!Mine(s, r)'
            BY <1>4, <2>1, <2>3
        <3>4. CASE Head(queue[s]) = Sink!Wake
            <4>1. UNCHANGED batch
                BY <1>8, <3>4 DEF Sink!Take
            <4>2. \A i, r : InBatch(s, i, r)' => InBatch(s, i, r)
                BY <4>1 DEF InBatch
            <4> QED
                BY <1>0, <1>1, <1>3, <2>1, <2>3, <3>2, <3>3, <4>2, HeldLeft
        <3>5. CASE Head(queue[s]) # Sink!Wake
            <4> DEFINE n == Len(batch[s])
            <4>1. PICK x : x = Head(queue[s]) /\ InQueue(s, 1, x) /\ x \in Sink!Rows
                BY <2>1, <3>1, <3>5, TailOf DEF InQueue
            <4>2. batch'[s] = Append(batch[s], x) /\ batch[s] \in Seq(Sink!Rows)
                BY <1>8, <3>5, <4>1 DEF Sink!Take, Sink!TypeOK
            <4>3. \A i, r : InBatch(s, i, r)' => InBatch(s, i, r) \/ (i = n + 1 /\ r = x)
                BY <4>1, <4>2, AppendTo DEF InBatch
            <4>4. \A i, r : InBatch(s, i, r) => i \in Nat /\ i <= n
                BY SinkTypes DEF InBatch
            <4>5. \A i, r : InBatch(s, i, r)' \/ InQueue(s, i, r)' => Sink!Mine(s, r)'
                BY <1>3, <2>3, <3>2, <3>3, <4>1, <4>3
            <4>6. \A i, r : InQueue(s, i, r)' => 1 < i + 1 /\ InQueue(s, i + 1, r) /\ i \in Nat
                <5>1. \A i, r : InQueue(s, i, r)' => i \in Nat /\ i > 0
                    BY <2>1, <3>1, TailOf DEF InQueue
                <5> QED
                    BY <3>2, <5>1
            <4>7. \A i, j, q, r : InBatch(s, i, q)' /\ InQueue(s, j, r)' => Sink!Before(q, r)'
                <5>1. \A j, r : InQueue(s, j, r)' => Sink!Before(x, r)
                    BY <1>0, <2>3, <4>1, <4>6 DEF HeldOf
                <5>2. \A i, j, q, r : InBatch(s, i, q) /\ InQueue(s, j, r)' => Sink!Before(q, r)
                    BY <1>0, <2>3, <3>2 DEF HeldOf
                <5> QED
                    BY <1>1, <2>1, <4>3, <5>1, <5>2
            <4>8. ASSUME NEW i, NEW j, NEW q, NEW r, InBatch(s, i, q)', InBatch(s, j, r)', i < j
                  PROVE  Sink!Before(q, r)'
                <5>1. CASE InBatch(s, i, q) /\ InBatch(s, j, r)
                    BY <1>0, <1>1, <2>1, <2>3, <4>8, <5>1 DEF HeldOf
                <5>2. CASE InBatch(s, i, q) /\ r = x
                    BY <1>0, <1>1, <2>1, <2>3, <4>1, <5>2 DEF HeldOf
                <5>3. CASE i = n + 1
                    <6>1. j <= n + 1 /\ j \in Nat /\ n \in Nat
                        BY <4>3, <4>4, <4>8, SinkTypes
                    <6> HIDE DEF n
                    <6> QED
                        BY <4>8, <5>3, <6>1
                <5> QED
                    BY <4>3, <4>8, <5>1, <5>2, <5>3
            <4>9. ASSUME NEW i, NEW j, NEW q, NEW r, InQueue(s, i, q)', InQueue(s, j, r)', i < j
                  PROVE  Sink!Before(q, r)'
                <5>1. i + 1 < j + 1 /\ InQueue(s, i + 1, q) /\ InQueue(s, j + 1, r)
                    <6>1. i \in Nat /\ j \in Nat
                        BY <4>6, <4>9
                    <6> QED
                        BY <3>2, <4>9, <6>1
                <5> QED
                    BY <1>0, <1>1, <2>1, <2>3, <5>1 DEF HeldOf
            <4> QED
                BY <2>3, <4>5, <4>7, <4>8, <4>9 DEF HeldOf
        <3> QED
            BY <3>4, <3>5
    <2> QED
        BY <2>2, <2>3
<1>9. ASSUME NEW s \in Sink!Sinks, Over(s) PROVE HeldOf(t)'
    <2>1. UNCHANGED <<accepted, e_sink, queue>> /\ batch' = [batch EXCEPT ![s] = <<>>]
        BY <1>9 DEF Over, Sink!Done
    <2>2. ASSUME NEW r, Sink!Mine(t, r), \A k \in DOMAIN batch[s] : batch[s][k] # r
          PROVE  Sink!Mine(t, r)'
        BY <1>9, <2>1, <2>2, OverOutcome DEF Sink!Mine
    <2>3. CASE t # s
        <3>1. queue'[t] = queue[t] /\ batch'[t] = batch[t]
            BY <2>1, <2>3 DEF Sink!TypeOK
        <3>2. \A r : Sink!Mine(t, r) => Sink!Mine(t, r)'
            <4>1. \A k \in DOMAIN batch[s] : e_sink[batch[s][k]] = s
                BY DEF Sink!HeldInOrder, Sink!Mine
            <4> QED
                BY <2>2, <2>3, <4>1 DEF Sink!Mine
        <3>3. \A i, r : /\ InBatch(t, i, r)' <=> InBatch(t, i, r)
                        /\ InQueue(t, i, r)' <=> InQueue(t, i, r)
            BY <3>1 DEF InBatch, InQueue
        <3> QED
            BY <1>0, <1>1, <2>1, <3>2, <3>3 DEF HeldOf
    <2>4. CASE t = s
        <3>1. batch'[s] = <<>> /\ queue'[s] = queue[s]
            BY <2>1 DEF Sink!TypeOK
        <3>2. \A i, r : ~ InBatch(s, i, r)'
            BY <3>1 DEF InBatch
        <3>3. \A i, r : InQueue(s, i, r)' => InQueue(s, i, r)
            BY <3>1 DEF InQueue
        <3>4. \A i, r : InQueue(s, i, r) => \A k \in DOMAIN batch[s] : batch[s][k] # r
            BY <1>0, <2>4, BeforeOnce DEF HeldOf, InBatch
        <3>5. \A i, r : InQueue(s, i, r)' => Sink!Mine(s, r)'
            BY <1>3, <2>2, <2>4, <3>3, <3>4
        <3> QED
            BY <1>0, <1>1, <2>1, <2>4, <3>2, <3>3, <3>5 DEF HeldOf
    <2> QED
        BY <2>3, <2>4
<1>10. ASSUME NEW s \in Sink!Sinks, Sink!PostFails(s) PROVE HeldOf(t)'
    <2>1. UNCHANGED accepted /\ UNCHANGED <<queue, batch>> /\ UNCHANGED <<e_sink, outcome>>
        BY <1>10 DEF Sink!PostFails, Sink!queues, Sink!rows
    <2> QED
        BY <1>0, <1>1, <1>2, <1>4, <2>1 DEF HeldOf
<1>11. CASE Sink!Drain
    <2> DEFINE n == IF Len(queue[active]) < BatchMax THEN Len(queue[active]) ELSE BatchMax
    <2>1. /\ UNCHANGED accepted /\ UNCHANGED batch /\ UNCHANGED <<e_sink, outcome>>
          /\ queue' = [queue EXCEPT ![active] = SubSeq(queue[active], n + 1, Len(queue[active]))]
        BY <1>11 DEF Sink!Drain, Sink!rows, Sink!worker
    <2>2. CASE t # active
        <3>1. queue'[t] = queue[t]
            BY <2>1, <2>2 DEF Sink!TypeOK
        <3>2. \A i, r : /\ InBatch(t, i, r)' <=> InBatch(t, i, r)
                        /\ InQueue(t, i, r)' <=> InQueue(t, i, r)
            BY <2>1, <3>1 DEF InBatch, InQueue
        <3> QED
            BY <1>0, <1>1, <1>4, <2>1, <3>2 DEF HeldOf
    <2>3. CASE t = active
        <3>1. /\ queue[t] \in Seq(Sink!Rows \cup {Sink!Wake}) /\ Len(queue[t]) \in Nat
              /\ BatchMax \in Nat
            BY SinkTypes DEF SinkAssumption, Sink!BoundsAssumption
        <3>2. n \in 0..Len(queue[t]) /\ n \in Nat
            BY <2>3, <3>1
        <3>3. queue'[t] = SubSeq(queue[t], n + 1, Len(queue[t]))
            BY <2>1, <2>3 DEF Sink!TypeOK
        <3> HIDE DEF n
        <3>4. \A i, r : InQueue(t, i, r)' => InQueue(t, i + n, r)
            BY <3>2, <3>3, FrontTaken
        <3>5. \A i, r : InBatch(t, i, r)' => InBatch(t, i, r)
            BY <2>1 DEF InBatch
        <3> QED
            BY <1>0, <1>1, <1>3, <1>4, <2>1, <3>2, <3>4, <3>5, HeldLeft
    <2> QED
        BY <2>2, <2>3
<1>12. CASE Sink!DrainEnds
    <2>1. UNCHANGED accepted /\ UNCHANGED batch /\ UNCHANGED <<e_sink, outcome>>
        BY <1>12 DEF Sink!DrainEnds, Sink!rows, Sink!worker
    <2>2. \A i, r : InQueue(t, i, r)' => InQueue(t, i, r)
        <3>1. /\ queue[t] \in Seq(Sink!Rows \cup {Sink!Wake})
              /\ Sink!Wake \in Sink!Rows \cup {Sink!Wake}
            BY SinkTypes
        <3>2. queue'[t] = queue[t] \/ queue'[t] = Append(queue[t], Sink!Wake)
            BY <1>12 DEF Sink!DrainEnds, Sink!TypeOK
        <3> QED
            BY <3>1, <3>2, AppendTo DEF InQueue
    <2> QED
        BY <1>0, <2>1, <2>2 DEF HeldOf, InBatch, Sink!Mine, Sink!Before
<1> QED
    BY <1>5, <1>6, <1>7, <1>8, <1>9, <1>10, <1>11, <1>12, SinkCases
(* What has arrived.                                                       *)
ArrivedOf(s) ==
    /\ \A i, r : InQueue(s, i, r) => ~ Sink!Came(r)
    /\ \A i, r : InBatch(s, i, r) => Sink!Cardinality(Sink!Arrivals(r)) <= attempt[s]
    /\ \A i, j, q, r : InBatch(s, i, q) /\ InBatch(s, j, r) /\ Sink!Came(q) => Sink!Came(r)

Accepted(r) == \E j \in DOMAIN accepted : accepted[j] = r

ArrivedRows ==
    /\ \A r : Sink!Came(r) => Accepted(r)
    /\ \A r \in Sink!Rows :
        /\ outcome[r] = "ok" => Sink!Came(r)
        /\ Sink!Cardinality(Sink!Arrivals(r)) <= MaxRetries + 1

\* What has arrived, told by rows, too.
LEMMA ArrivedIs == Sink!ArrivedWithBatch <=> ArrivedRows /\ \A s \in Sink!Sinks : ArrivedOf(s)
<1>1. ASSUME Sink!ArrivedWithBatch, NEW s \in Sink!Sinks PROVE ArrivedOf(s)
    <2>1. \A i, r : InQueue(s, i, r) => ~ Sink!Came(r)
        BY <1>1 DEF Sink!ArrivedWithBatch, InQueue
    <2>2. \A i, r : InBatch(s, i, r) => Sink!Cardinality(Sink!Arrivals(r)) <= attempt[s]
        BY <1>1 DEF Sink!ArrivedWithBatch, InBatch
    <2>3. \A i, j, q, r : InBatch(s, i, q) /\ InBatch(s, j, r) /\ Sink!Came(q) => Sink!Came(r)
        BY <1>1 DEF Sink!ArrivedWithBatch, InBatch
    <2> QED
        BY <2>1, <2>2, <2>3 DEF ArrivedOf
<1>2. ASSUME NEW s \in Sink!Sinks, ArrivedOf(s)
      PROVE  /\ \A j \in DOMAIN queue[s] : queue[s][j] # Sink!Wake => ~ Sink!Came(queue[s][j])
             /\ \A i \in DOMAIN batch[s] :
                 /\ Sink!Cardinality(Sink!Arrivals(batch[s][i])) <= attempt[s]
                 /\ \A j \in DOMAIN batch[s] : Sink!Came(batch[s][i]) => Sink!Came(batch[s][j])
    BY <1>2 DEF ArrivedOf, InBatch, InQueue
<1>3. (\A i \in DOMAIN received : \E j \in DOMAIN accepted : accepted[j] = received[i])
        <=> \A r : Sink!Came(r) => Accepted(r)
    BY DEF Sink!Came, Sink!Arrivals, Accepted
<1> QED
    BY <1>1, <1>2, <1>3, Zenon DEF Sink!ArrivedWithBatch, ArrivedRows

\* Two sinks hold no row in common.
LEMMA Apart ==
    ASSUME Sink!HeldInOrder, NEW s \in Sink!Sinks, NEW t \in Sink!Sinks, s # t, NEW i,
           NEW j, NEW r,
           InBatch(s, i, r)
    PROVE  ~ InBatch(t, j, r) /\ ~ InQueue(t, j, r)
<1>1. HeldOf(s) /\ HeldOf(t)
    BY HeldIs
<1> QED
    BY <1>1 DEF HeldOf, Sink!Mine

\* What arrives is in the batch, once, and what is queued behind it does not arrive.
LEMMA ArrivesWith ==
    ASSUME SinkAssumption, Sink!TypeOK, Sink!AcceptedOnce, Sink!HeldInOrder,
           NEW s \in Sink!Sinks, Sink!Arrives(s), NEW r
    PROVE  /\ \A i : InBatch(s, i, r) =>
                /\ Sink!Arrivals(r)' = Sink!Arrivals(r) \cup {Len(received) + i}
                /\ Sink!Cardinality(Sink!Arrivals(r))' = Sink!Cardinality(Sink!Arrivals(r)) + 1
                /\ Sink!Came(r)'
           /\ \/ \E i : InBatch(s, i, r)
              \/ Sink!Arrivals(r)' = Sink!Arrivals(r) /\ (Sink!Came(r)' <=> Sink!Came(r))
           /\ Sink!Came(r) => Sink!Came(r)'
<1>1. ASSUME NEW i, InBatch(s, i, r)
      PROVE  /\ Sink!Arrivals(r)' = Sink!Arrivals(r) \cup {Len(received) + i}
             /\ Sink!Cardinality(Sink!Arrivals(r))' = Sink!Cardinality(Sink!Arrivals(r)) + 1
             /\ Sink!Came(r)'
    BY <1>1, ArrivesOnce DEF InBatch
<1>2. ASSUME \A i : ~ InBatch(s, i, r) PROVE Sink!Arrivals(r)' = Sink!Arrivals(r)
    BY <1>2, NotArrived DEF InBatch
<1> QED
    BY <1>1, <1>2 DEF Sink!Came

\* What has been received, with the batch of a sink or without.
LEMMA ReceivedRows ==
    ASSUME SinkAssumption, Sink!TypeOK, Sink!AcceptedOnce, Sink!HeldInOrder, ArrivedRows,
           NEW s \in Sink!Sinks,
           ArrivedOf(s), Sink!Arrives(s) \/ UNCHANGED received, NEW r
    PROVE  /\ Sink!Came(r) => Sink!Came(r)'
           /\ Sink!Came(r)' => Accepted(r)
           /\ r \in Sink!Rows => Sink!Cardinality(Sink!Arrivals(r))' <= MaxRetries + 1
<1>1. CASE UNCHANGED received
    <2>1. Sink!Arrivals(r)' = Sink!Arrivals(r)
        BY <1>1 DEF Sink!Arrivals
    <2> QED
        BY <2>1 DEF ArrivedRows, Sink!Came
<1>2. CASE Sink!Arrives(s)
    <2>1. ASSUME NEW i, InBatch(s, i, r)
          PROVE  Accepted(r) /\ Sink!Cardinality(Sink!Arrivals(r))' <= MaxRetries + 1
        <3>1. r \in Sink!Rows /\ outcome[r] = "emitted"
            BY <2>1, HeldIs DEF HeldOf, Sink!Mine
        <3>2. Accepted(r)
            BY <3>1 DEF Sink!AcceptedOnce, Accepted
        <3>3. Sink!Cardinality(Sink!Arrivals(r)) <= attempt[s] /\ attempt[s] \in 0..MaxRetries
            BY <2>1 DEF ArrivedOf, Sink!TypeOK
        <3>4. /\ Sink!Cardinality(Sink!Arrivals(r))' = Sink!Cardinality(Sink!Arrivals(r)) + 1
              /\ Sink!Cardinality(Sink!Arrivals(r)) \in Nat
            BY <1>2, <2>1, ArrivesWith, ArrivalsCount
        <3> QED
            BY <3>2, <3>3, <3>4 DEF SinkAssumption, Sink!BoundsAssumption
    <2>2. CASE Sink!Arrivals(r)' = Sink!Arrivals(r)
        BY <2>2 DEF ArrivedRows, Sink!Came
    <2> QED
        BY <1>2, <2>1, <2>2, ArrivesWith
<1> QED
    BY <1>1, <1>2

\* What arrived was accepted, what is counted as sent arrived, and not too often.
LEMMA ArrivedRowsStep ==
    ASSUME SinkAssumption, Sink!TypeOK, Sink!AcceptedOnce, Sink!HeldInOrder,
           Sink!ArrivedWithBatch, [Sink!Next]_(Sink!vars)
    PROVE  ArrivedRows'
<1>0. ArrivedRows /\ \A s \in Sink!Sinks : ArrivedOf(s)
    BY ArrivedIs
<1>1. ASSUME UNCHANGED received
      PROVE  \A r : Sink!Arrivals(r)' = Sink!Arrivals(r) /\ (Sink!Came(r)' <=> Sink!Came(r))
    BY <1>1 DEF Sink!Came, Sink!Arrivals
<1>2. CASE UNCHANGED <<accepted, outcome, received>>
    BY <1>0, <1>1, <1>2 DEF ArrivedRows, Accepted
<1>3. ASSUME NEW x \in Sink!Rows, Sink!Emit(x) PROVE ArrivedRows'
    <2>1. UNCHANGED <<accepted, received>>
        BY <1>3 DEF Sink!Emit
    <2>2. \A r \in Sink!Rows : outcome'[r] = "ok" => outcome[r] = "ok"
        BY <1>3
           DEF Sink!Emit, Sink!TypeOK, SinkAssumption, Sink!NoneAssumption, Sink!Counted,
               Sink!Settled
    <2> QED
        BY <1>0, <1>1, <2>1, <2>2 DEF ArrivedRows, Accepted
<1>4. ASSUME NEW x \in Sink!Rows, NEW s \in Sink!Sinks, Sink!Put(x, s) PROVE ArrivedRows'
    <2>1. UNCHANGED received /\ \A r \in Sink!Rows : outcome'[r] = "ok" => outcome[r] = "ok"
        BY <1>4 DEF Sink!Put, Sink!TypeOK
    <2>2. ASSUME NEW r, Accepted(r) PROVE Accepted(r)'
        <3>1. CASE UNCHANGED accepted
            BY <2>2, <3>1 DEF Accepted
        <3>2. CASE accepted' = Append(accepted, x)
            <4>1. \A i \in DOMAIN accepted : i \in DOMAIN accepted' /\ accepted'[i] = accepted[i]
                BY <3>2, AppendTo, SinkTypes DEF Sink!TypeOK
            <4> QED
                BY <2>2, <4>1 DEF Accepted
        <3> QED
            BY <1>4, <3>1, <3>2 DEF Sink!Put
    <2> QED
        BY <1>0, <1>1, <2>1, <2>2 DEF ArrivedRows
<1>5. ASSUME NEW s \in Sink!Sinks, Over(s) PROVE ArrivedRows'
    <2>1. UNCHANGED accepted /\ (Sink!Arrives(s) \/ UNCHANGED received)
        BY <1>5 DEF Over
    <2>2. ASSUME NEW r \in Sink!Rows, outcome'[r] = "ok" PROVE Sink!Came(r)'
        <3>1. CASE outcome[r] = "ok"
            BY <1>0, <2>1, <3>1, ReceivedRows DEF ArrivedRows
        <3>2. CASE outcome[r] # "ok"
            <4>1. PICK how \in Sink!Settled :
                      Sink!Counts(s, how) /\ (how = "ok" => Sink!Arrives(s))
                BY <1>5, <2>2, <3>2 DEF Over
            <4>2. how = "ok" /\ \E i : InBatch(s, i, r)
                BY <2>2, <3>2, <4>1 DEF Sink!Counts, Sink!Range, InBatch
            <4> QED
                BY <4>1, <4>2, ArrivesWith
        <3> QED
            BY <3>1, <3>2
    <2>3. \A r : Accepted(r)' <=> Accepted(r)
        BY <2>1 DEF Accepted
    <2>4. \A r : /\ Sink!Came(r)' => Accepted(r)
                 /\ r \in Sink!Rows => Sink!Cardinality(Sink!Arrivals(r))' <= MaxRetries + 1
        BY <1>0, <2>1, ReceivedRows
    <2> QED
        BY <2>2, <2>3, <2>4 DEF ArrivedRows
<1>6. ASSUME NEW s \in Sink!Sinks, Sink!PostFails(s) PROVE ArrivedRows'
    <2>1. UNCHANGED <<accepted, outcome>> /\ (Sink!Arrives(s) \/ UNCHANGED received)
        BY <1>6 DEF Sink!PostFails, Sink!Unanswered, Sink!rows
    <2>2. \A r : Accepted(r)' <=> Accepted(r)
        BY <2>1 DEF Accepted
    <2>3. \A r : /\ Sink!Came(r) => Sink!Came(r)'
                 /\ Sink!Came(r)' => Accepted(r)
                 /\ r \in Sink!Rows => Sink!Cardinality(Sink!Arrivals(r))' <= MaxRetries + 1
        BY <1>0, <2>1, ReceivedRows
    <2>4. \A r : Sink!Came(r)' => Accepted(r)'
        BY <2>2, <2>3
    <2>5. \A r \in Sink!Rows : outcome'[r] = "ok" => Sink!Came(r)'
        BY <1>0, <2>1, <2>3 DEF ArrivedRows
    <2>6. \A r \in Sink!Rows : Sink!Cardinality(Sink!Arrivals(r))' <= MaxRetries + 1
        BY <2>3
    <2> QED
        BY <2>4, <2>5, <2>6 DEF ArrivedRows
<1>7. ASSUME NEW s \in Sink!Sinks, Sink!Take(s) PROVE UNCHANGED <<accepted, outcome, received>>
    BY <1>7 DEF Sink!Take, Sink!rows
<1>8. CASE Sink!Drain \/ Sink!DrainEnds
    BY <1>2, <1>8 DEF Sink!Drain, Sink!DrainEnds, Sink!rows
<1>9. CASE UNCHANGED data
    BY <1>2, <1>9 DEF data
<1> QED
    BY <1>2, <1>3, <1>4, <1>5, <1>6, <1>7, <1>8, <1>9, SinkCases

\* A row arrives with its batch, and only there, whatever the step.
LEMMA ArrivedOfStep ==
    ASSUME SinkAssumption, Sink!TypeOK, Sink!AcceptedOnce, Sink!HeldInOrder,
           Sink!ArrivedWithBatch,
           Sink!WorkersInStep, [Sink!Next]_(Sink!vars), NEW t \in Sink!Sinks
    PROVE  ArrivedOf(t)'
<1>0. ArrivedRows /\ \A s \in Sink!Sinks : ArrivedOf(s) /\ HeldOf(s)
    BY ArrivedIs, HeldIs
<1>1. ASSUME UNCHANGED received
      PROVE  \A r : Sink!Arrivals(r)' = Sink!Arrivals(r) /\ (Sink!Came(r)' <=> Sink!Came(r))
    BY <1>1 DEF Sink!Came, Sink!Arrivals
<1>2. ASSUME UNCHANGED <<received, attempt>>,
             \A i, r : InBatch(t, i, r)' => InBatch(t, i, r),
             \A i, r : InQueue(t, i, r)' => \E j : InQueue(t, j, r)
      PROVE  ArrivedOf(t)'
    BY <1>0, <1>1, <1>2 DEF ArrivedOf
<1>3. ASSUME UNCHANGED <<queue, batch>>
      PROVE  \A i, r : (InBatch(t, i, r)' <=> InBatch(t, i, r))
                       /\ (InQueue(t, i, r)' <=> InQueue(t, i, r))
    BY <1>3 DEF InBatch, InQueue
<1>4. CASE UNCHANGED data
    BY <1>2, <1>3, <1>4 DEF data
<1>5. ASSUME NEW x \in Sink!Rows, Sink!Emit(x) PROVE ArrivedOf(t)'
    BY <1>2, <1>3, <1>5 DEF Sink!Emit, Sink!queues, Sink!worker
<1>6. ASSUME NEW x \in Sink!Rows, NEW s \in Sink!Sinks, Sink!Put(x, s) PROVE ArrivedOf(t)'
    <2>1. UNCHANGED <<batch, attempt, received>> /\ outcome[x] = None
        BY <1>6 DEF Sink!Put, Sink!worker
    <2>2. ~ Sink!Came(x)
        BY <1>0, <2>1, NotAccepted DEF ArrivedRows, Accepted
    <2>3. \A i, r : InQueue(t, i, r)' => r = x \/ InQueue(t, i, r)
        <3>1. queue[t] \in Seq(Sink!Rows \cup {Sink!Wake}) /\ x \in Sink!Rows \cup {Sink!Wake}
            BY SinkTypes
        <3>2. queue'[t] = queue[t] \/ queue'[t] = Append(queue[t], x)
            BY <1>6 DEF Sink!Put, Sink!TypeOK
        <3> QED
            BY <3>1, <3>2, AppendTo DEF InQueue
    <2>4. \A i, r : InBatch(t, i, r)' => InBatch(t, i, r)
        BY <2>1 DEF InBatch
    <2> QED
        BY <1>0, <1>1, <2>1, <2>2, <2>3, <2>4 DEF ArrivedOf
<1>7. ASSUME NEW s \in Sink!Sinks, Sink!Take(s) PROVE ArrivedOf(t)'
    <2>1. /\ UNCHANGED <<attempt, received>> /\ w_pc[s] = "collect" /\ queue[s] # <<>>
          /\ queue' = [queue EXCEPT ![s] = Tail(queue[s])]
        BY <1>7 DEF Sink!Take, Sink!Step
    <2>2. CASE t # s
        <3>1. queue'[t] = queue[t] /\ batch'[t] = batch[t]
            BY <1>7, <2>2 DEF Sink!Take, Sink!TypeOK
        <3> QED
            BY <1>2, <2>1, <3>1 DEF InBatch, InQueue
    <2>3. CASE t = s
        <3>1. queue'[s] = Tail(queue[s]) /\ queue[s] \in Seq(Sink!Rows \cup {Sink!Wake})
            BY <2>1 DEF Sink!TypeOK
        <3>2. \A i, r : InQueue(s, i, r)' => InQueue(s, i + 1, r)
            BY <2>1, <3>1, HeadTaken
        <3>3. CASE Head(queue[s]) = Sink!Wake
            <4>1. UNCHANGED batch
                BY <1>7, <3>3 DEF Sink!Take
            <4> QED
                BY <1>2, <2>1, <2>3, <3>2, <4>1 DEF InBatch
        <3>4. CASE Head(queue[s]) # Sink!Wake
            <4>1. PICK x : x = Head(queue[s]) /\ InQueue(s, 1, x) /\ x \in Sink!Rows
                BY <2>1, <3>1, <3>4, TailOf DEF InQueue
            <4>2. batch'[s] = Append(batch[s], x) /\ batch[s] \in Seq(Sink!Rows)
                BY <1>7, <3>4, <4>1 DEF Sink!Take, Sink!TypeOK
            <4>3. \A i, r : InBatch(s, i, r)' => InBatch(s, i, r) \/ r = x
                BY <4>1, <4>2, AppendTo DEF InBatch
            <4>4. attempt[s] = 0 /\ attempt'[s] = 0
                BY <2>1 DEF Sink!WorkersInStep
            <4>5. \A i, r : InBatch(s, i, r)' => ~ Sink!Came(r)
                <5>1. ~ Sink!Came(x)
                    BY <1>0, <4>1 DEF ArrivedOf
                <5>2. ASSUME NEW i, NEW r, InBatch(s, i, r) PROVE ~ Sink!Came(r)
                    <6>1. Sink!Cardinality(Sink!Arrivals(r)) <= 0
                        BY <1>0, <4>4, <5>2 DEF ArrivedOf
                    <6> QED
                        BY <6>1, ArrivalsCount
                <5> QED
                    BY <4>3, <5>1, <5>2
            <4>6. \A i, r : InBatch(s, i, r)' => Sink!Cardinality(Sink!Arrivals(r))' = 0
                BY <1>1, <2>1, <4>5, ArrivalsCount
            <4>7. \A i, r : InQueue(s, i, r)' => ~ Sink!Came(r)'
                BY <1>0, <1>1, <2>1, <3>2 DEF ArrivedOf
            <4>8. \A i, r : InBatch(s, i, r)'
                      => Sink!Cardinality(Sink!Arrivals(r))' <= attempt'[s] /\ ~ Sink!Came(r)'
                BY <1>1, <2>1, <4>4, <4>5, <4>6
            <4> QED
                BY <2>3, <4>7, <4>8 DEF ArrivedOf
        <3> QED
            BY <3>3, <3>4
    <2> QED
        BY <2>2, <2>3
<1>8. ASSUME NEW s \in Sink!Sinks, Over(s) \/ Sink!PostFails(s) PROVE ArrivedOf(t)'
    <2>1. UNCHANGED queue /\ (Sink!Arrives(s) \/ UNCHANGED received)
        BY <1>8 DEF Over, Sink!PostFails, Sink!Unanswered, Sink!queues
    <2>2. ASSUME NEW i, NEW r, InQueue(t, i, r) \/ (t # s /\ InBatch(t, i, r))
          PROVE  Sink!Arrivals(r)' = Sink!Arrivals(r) /\ (Sink!Came(r)' <=> Sink!Came(r))
        <3>1. \A j : ~ InBatch(s, j, r)
            <4>1. ASSUME NEW j, InBatch(s, j, r) PROVE FALSE
                <5>1. t = s /\ InQueue(s, i, r)
                    BY <2>2, <4>1, Apart
                <5>2. Sink!Before(r, r)
                    BY <1>0, <4>1, <5>1 DEF HeldOf
                <5> QED
                    BY <5>2, BeforeOnce
            <4> QED
                BY <4>1
        <3> QED
            BY <1>1, <2>1, <3>1, ArrivesWith
    <2>3. \A i, r : InQueue(t, i, r)' <=> InQueue(t, i, r)
        BY <2>1 DEF InQueue
    <2>4. \A i, r : InQueue(t, i, r)' => ~ Sink!Came(r)'
        BY <1>0, <2>2, <2>3 DEF ArrivedOf
    <2>5. CASE t # s
        <3>1. batch'[t] = batch[t] /\ attempt'[t] = attempt[t]
            BY <1>8, <2>5 DEF Over, Sink!Done, Sink!PostFails, Sink!TypeOK
        <3>2. \A i, r : InBatch(t, i, r)' <=> InBatch(t, i, r)
            BY <3>1 DEF InBatch
        <3>3. \A i, r : InBatch(t, i, r)
                  => Sink!Arrivals(r)' = Sink!Arrivals(r) /\ (Sink!Came(r)' <=> Sink!Came(r))
            BY <2>2, <2>5
        <3>4. \A i, r : InBatch(t, i, r)' => Sink!Cardinality(Sink!Arrivals(r))' <= attempt'[t]
            BY <1>0, <3>1, <3>2, <3>3 DEF ArrivedOf
        <3>5. \A i, j, q, r : InBatch(t, i, q)' /\ InBatch(t, j, r)' /\ Sink!Came(q)'
                  => Sink!Came(r)'
            BY <1>0, <3>2, <3>3 DEF ArrivedOf
        <3> QED
            BY <2>4, <3>4, <3>5 DEF ArrivedOf
    <2>6. CASE t = s /\ Over(s)
        <3>1. batch'[s] = <<>>
            BY <2>6 DEF Over, Sink!Done, Sink!TypeOK
        <3>2. \A i, r : ~ InBatch(t, i, r)'
            BY <2>6, <3>1 DEF InBatch
        <3> QED
            BY <2>4, <3>2 DEF ArrivedOf
    <2>7. CASE t = s /\ Sink!PostFails(s)
        <3>1. UNCHANGED batch /\ attempt'[s] = attempt[s] + 1 /\ attempt[s] \in Nat
            BY <2>7 DEF Sink!PostFails, Sink!TypeOK
        <3>2. \A i, r : InBatch(t, i, r)' <=> InBatch(t, i, r)
            BY <3>1 DEF InBatch
        <3>3. CASE UNCHANGED received
            <4>1. \A r : Sink!Arrivals(r)' = Sink!Arrivals(r) /\ (Sink!Came(r)' <=> Sink!Came(r))
                BY <1>1, <3>3
            <4>2. \A i, r : InBatch(t, i, r)'
                      => Sink!Cardinality(Sink!Arrivals(r))' <= attempt'[t]
                <5>1. ASSUME NEW i, NEW r, InBatch(t, i, r)
                      PROVE  Sink!Cardinality(Sink!Arrivals(r)) <= attempt'[t]
                    <6>1. /\ Sink!Cardinality(Sink!Arrivals(r)) <= attempt[s]
                          /\ Sink!Cardinality(Sink!Arrivals(r)) \in Nat
                        BY <1>0, <2>7, <5>1, ArrivalsCount DEF ArrivedOf
                    <6> QED
                        BY <2>7, <3>1, <6>1
                <5> QED
                    BY <3>2, <4>1, <5>1
            <4>3. \A i, j, q, r : InBatch(t, i, q)' /\ InBatch(t, j, r)' /\ Sink!Came(q)'
                      => Sink!Came(r)'
                BY <1>0, <3>2, <4>1 DEF ArrivedOf
            <4> QED
                BY <2>4, <4>2, <4>3 DEF ArrivedOf
        <3>4. CASE Sink!Arrives(s)
            <4>1. ASSUME NEW i, NEW r, InBatch(t, i, r)
                  PROVE  Sink!Cardinality(Sink!Arrivals(r))' <= attempt'[t] /\ Sink!Came(r)'
                <5>1. /\ Sink!Cardinality(Sink!Arrivals(r)) <= attempt[s]
                      /\ Sink!Cardinality(Sink!Arrivals(r)) \in Nat
                    BY <1>0, <2>7, <4>1, ArrivalsCount DEF ArrivedOf
                <5>2. /\ Sink!Cardinality(Sink!Arrivals(r))'
                             = Sink!Cardinality(Sink!Arrivals(r)) + 1
                      /\ Sink!Came(r)'
                    BY <2>7, <3>4, <4>1, ArrivesWith
                <5> QED
                    BY <2>7, <3>1, <5>1, <5>2
            <4> QED
                BY <2>4, <3>2, <4>1 DEF ArrivedOf
        <3> QED
            BY <2>1, <3>3, <3>4
    <2> QED
        BY <1>8, <2>5, <2>6, <2>7
<1>9. CASE Sink!Drain
    <2> DEFINE n == IF Len(queue[active]) < BatchMax THEN Len(queue[active]) ELSE BatchMax
    <2>1. /\ UNCHANGED <<batch, attempt, received>>
          /\ queue' = [queue EXCEPT ![active] = SubSeq(queue[active], n + 1, Len(queue[active]))]
        BY <1>9 DEF Sink!Drain, Sink!worker
    <2>2. CASE t # active
        <3>1. queue'[t] = queue[t]
            BY <2>1, <2>2 DEF Sink!TypeOK
        <3> QED
            BY <1>2, <2>1, <3>1 DEF InBatch, InQueue
    <2>3. CASE t = active
        <3>1. /\ queue[t] \in Seq(Sink!Rows \cup {Sink!Wake}) /\ Len(queue[t]) \in Nat
              /\ BatchMax \in Nat
            BY SinkTypes DEF SinkAssumption, Sink!BoundsAssumption
        <3>2. n \in 0..Len(queue[t])
            BY <2>3, <3>1
        <3>3. queue'[t] = SubSeq(queue[t], n + 1, Len(queue[t]))
            BY <2>1, <2>3 DEF Sink!TypeOK
        <3> HIDE DEF n
        <3>4. \A i, r : InQueue(t, i, r)' => InQueue(t, i + n, r)
            BY <3>2, <3>3, FrontTaken
        <3> QED
            BY <1>2, <2>1, <3>4 DEF InBatch
    <2> QED
        BY <2>2, <2>3
<1>10. CASE Sink!DrainEnds
    <2>1. UNCHANGED <<batch, attempt, received>>
        BY <1>10 DEF Sink!DrainEnds, Sink!worker
    <2>2. \A i, r : InQueue(t, i, r)' => InQueue(t, i, r)
        <3>1. /\ queue[t] \in Seq(Sink!Rows \cup {Sink!Wake})
              /\ Sink!Wake \in Sink!Rows \cup {Sink!Wake}
            BY SinkTypes
        <3>2. queue'[t] = queue[t] \/ queue'[t] = Append(queue[t], Sink!Wake)
            BY <1>10 DEF Sink!DrainEnds, Sink!TypeOK
        <3> QED
            BY <3>1, <3>2, AppendTo DEF InQueue
    <2> QED
        BY <1>2, <2>1, <2>2 DEF InBatch
<1> QED
    BY <1>4, <1>5, <1>6, <1>7, <1>8, <1>9, <1>10, SinkCases

\* Of two rows of a sink the one accepted later does not arrive before the other.
Ordered(q, r) ==
    /\ \A s \in Sink!Sinks : Sink!Holds(s, q) => Sink!Came(q)
    /\ Sink!Came(q) => \E i \in Sink!Arrivals(q) : \A j \in Sink!Arrivals(r) : i < j

\* What a sink holds is in its batch or in its queue.
LEMMA HoldsIs ==
    ASSUME NEW s, NEW r, r # Sink!Wake
    PROVE  Sink!Holds(s, r) <=> \E i : InBatch(s, i, r) \/ InQueue(s, i, r)
BY DEF Sink!Holds, Sink!Range, InBatch, InQueue

\* A batch arrives in its order, behind all that came before it.
LEMMA OrderedArrival ==
    ASSUME SinkAssumption, Sink!TypeOK, Sink!AcceptedOnce, Sink!HeldInOrder,
           Sink!ArrivedWithBatch, Sink!ArrivedInOrder,
           NEW s \in Sink!Sinks, Sink!Arrives(s), NEW q \in Sink!Rows, NEW r \in Sink!Rows,
           Sink!Before(q, r),
           e_sink[q] = e_sink[r], Sink!Came(r)'
    PROVE  /\ \A t \in Sink!Sinks : Sink!Holds(t, q) => Sink!Came(q)'
           /\ Sink!Came(q)' => \E i \in Sink!Arrivals(q)' : \A j \in Sink!Arrivals(r)' : i < j
<1>0. ArrivedRows /\ ArrivedOf(s) /\ \A t \in Sink!Sinks : HeldOf(t)
    BY ArrivedIs, HeldIs
<1>1. Sink!Came(r) => Ordered(q, r)
    BY DEF Sink!ArrivedInOrder, Ordered
<1>2. /\ \A i \in Sink!Arrivals(q) \cup Sink!Arrivals(r) : i \in Nat /\ i <= Len(received)
      /\ Len(received) \in Nat
    BY ArrivalsGrow, SinkTypes
<1>3. ASSUME NEW k, InBatch(s, k, q) PROVE Sink!Holds(s, q) /\ e_sink[q] = s /\ Sink!Came(q)'
    <2>1. q # Sink!Wake
        BY SinkTypes
    <2> QED
        BY <1>0, <1>3, <2>1, HoldsIs, ArrivesWith DEF HeldOf, Sink!Mine
<1>4. CASE \E l : InBatch(s, l, r)
    <2>1. PICK l : InBatch(s, l, r)
        BY <1>4
    <2>2. /\ Sink!Arrivals(r)' = Sink!Arrivals(r) \cup {Len(received) + l} /\ l \in Nat /\ l > 0
          /\ e_sink[r] = s
        BY <1>0, <2>1, ArrivesWith, HeldNumbers DEF HeldOf, Sink!Mine
    <2>3. CASE \E k : InBatch(s, k, q)
        <3>1. PICK k : InBatch(s, k, q)
            BY <2>3
        <3>2. /\ Sink!Arrivals(q)' = Sink!Arrivals(q) \cup {Len(received) + k} /\ k \in Nat
              /\ Sink!Came(q)'
            BY <3>1, ArrivesWith, HeldNumbers
        <3>3. k < l
            <4>1. ~ (l < k)
                BY <1>0, <2>1, <3>1, BeforeOnce DEF HeldOf
            <4>2. k # l
                BY <2>1, <3>1, BeforeOnce DEF InBatch
            <4> QED
                BY <2>2, <3>2, <4>1, <4>2
        <3>4. CASE Sink!Came(r)
            <4>1. Sink!Came(q)
                BY <1>1, <1>3, <3>1, <3>4 DEF Ordered
            <4>2. PICK i \in Sink!Arrivals(q) : \A j \in Sink!Arrivals(r) : i < j
                BY <1>1, <3>4, <4>1 DEF Ordered
            <4>3. i < Len(received) + l
                BY <1>2, <2>2
            <4> QED
                BY <2>2, <3>2, <4>2, <4>3
        <3>5. CASE ~ Sink!Came(r)
            <4>1. Sink!Arrivals(r)' = {Len(received) + l}
                BY <2>2, <3>5 DEF Sink!Came
            <4>2. Len(received) + k < Len(received) + l
                BY <1>2, <2>2, <3>2, <3>3
            <4> QED
                BY <3>2, <4>1, <4>2
        <3> QED
            BY <3>4, <3>5
    <2>4. CASE \A k : ~ InBatch(s, k, q)
        <3>1. Sink!Arrivals(q)' = Sink!Arrivals(q) /\ (Sink!Came(q)' <=> Sink!Came(q))
            BY <2>4, ArrivesWith
        <3>2. ASSUME NEW t \in Sink!Sinks, Sink!Holds(t, q) PROVE FALSE
            <4>1. q # Sink!Wake
                BY SinkTypes
            <4>2. PICK k : InBatch(t, k, q) \/ InQueue(t, k, q)
                BY <3>2, <4>1, HoldsIs
            <4>3. t = s
                BY <1>0, <2>2, <4>2 DEF HeldOf, Sink!Mine
            <4>4. Sink!Before(r, q)
                BY <1>0, <2>1, <2>4, <4>2, <4>3 DEF HeldOf
            <4> QED
                BY <4>4, BeforeOnce
        <3>3. ASSUME Sink!Came(q)
              PROVE  \E i \in Sink!Arrivals(q) : \A j \in Sink!Arrivals(r)' : i < j
            <4>1. \A i \in Sink!Arrivals(q) : i < Len(received) + l
                BY <1>2, <2>2
            <4>2. \E i \in Sink!Arrivals(q) : \A j \in Sink!Arrivals(r) : i < j
                BY <1>1, <3>3 DEF Sink!Came, Ordered
            <4> QED
                BY <2>2, <4>1, <4>2
        <3> QED
            BY <3>1, <3>2, <3>3
    <2> QED
        BY <2>3, <2>4
<1>5. CASE \A l : ~ InBatch(s, l, r)
    <2>1. Sink!Arrivals(r)' = Sink!Arrivals(r) /\ Sink!Came(r)
        BY <1>5, ArrivesWith
    <2>2. Ordered(q, r)
        BY <1>1, <2>1
    <2>3. (Sink!Came(q) => Sink!Came(q)') /\ Sink!Arrivals(q) \subseteq Sink!Arrivals(q)'
        BY ArrivesWith
    <2>4. Sink!Came(q)' => Sink!Came(q)
        <3>1. CASE \E k : InBatch(s, k, q)
            BY <1>3, <2>2, <3>1 DEF Ordered
        <3>2. CASE \A k : ~ InBatch(s, k, q)
            BY <3>2, ArrivesWith
        <3> QED
            BY <3>1, <3>2
    <2> QED
        BY <2>1, <2>2, <2>3, <2>4 DEF Ordered
<1> QED
    BY <1>4, <1>5

\* What a sink holds after a step it held before, unless the row has just been queued.
LEMMA HoldsStep ==
    ASSUME SinkAssumption, Sink!TypeOK, NEW s \in Sink!Sinks, NEW t \in Sink!Sinks, NEW r,
           r # Sink!Wake
    PROVE  /\ UNCHANGED <<queue, batch>> => (Sink!Holds(t, r)' <=> Sink!Holds(t, r))
           /\ Sink!Take(s) => (Sink!Holds(t, r)' <=> Sink!Holds(t, r))
           /\ Over(s) => /\ Sink!Holds(t, r)' => Sink!Holds(t, r)
                         /\ Sink!Holds(t, r)
                                => Sink!Holds(t, r)' \/ (t = s /\ \E i : InBatch(s, i, r))
           /\ Sink!Drain => /\ Sink!Holds(t, r)' => Sink!Holds(t, r)
                            /\ Sink!Holds(t, r) => Sink!Holds(t, r)' \/ t = active
           /\ Sink!DrainEnds => (Sink!Holds(t, r)' <=> Sink!Holds(t, r))
<1>0. /\ queue[t] \in Seq(Sink!Rows \cup {Sink!Wake})
      /\ Sink!Wake \in Sink!Rows \cup {Sink!Wake} /\ Len(queue[t]) \in Nat
      /\ batch[t] \in Seq(Sink!Rows)
    BY SinkTypes
<1>1. UNCHANGED <<queue, batch>> => (Sink!Holds(t, r)' <=> Sink!Holds(t, r))
    BY DEF Sink!Holds, Sink!Range
<1>a. Sink!Holds(t, r)' <=> \E i : InBatch(t, i, r)' \/ InQueue(t, i, r)'
    BY DEF Sink!Holds, Sink!Range, InBatch, InQueue
<1>b. Sink!Holds(t, r) <=> \E i : InBatch(t, i, r) \/ InQueue(t, i, r)
    BY HoldsIs
<1>2. ASSUME Sink!Take(s) PROVE Sink!Holds(t, r)' <=> Sink!Holds(t, r)
    <2>1. queue' = [queue EXCEPT ![s] = Tail(queue[s])] /\ queue[s] # <<>>
        BY <1>2 DEF Sink!Take
    <2>2. CASE t # s
        <3>1. queue'[t] = queue[t] /\ batch'[t] = batch[t]
            BY <1>2, <2>2 DEF Sink!Take, Sink!TypeOK
        <3> QED
            BY <3>1 DEF Sink!Holds, Sink!Range
    <2>3. CASE t = s
        <3>1. queue'[s] = Tail(queue[s])
            BY <2>1 DEF Sink!TypeOK
        <3>2. \A i : InQueue(s, i, r)' => InQueue(s, i + 1, r)
            BY <2>1, <3>1, HeadTaken
        <3>3. ASSUME NEW i, InQueue(s, i, r)
              PROVE  (i = 1 /\ Head(queue[s]) = r) \/ \E j : InQueue(s, j, r)'
            <4>1. i \in 1..Len(queue[s]) /\ queue[s][i] = r /\ r # Sink!Wake
                BY <1>0, <2>3, <3>3 DEF InQueue
            <4>2. CASE i = 1
                BY <1>0, <2>1, <2>3, <4>1, <4>2, TailOf
            <4>3. CASE i # 1
                <5>1. i - 1 \in 1..(Len(queue[s]) - 1) /\ (i - 1) + 1 = i
                    BY <1>0, <2>3, <4>1, <4>3
                <5>2. i - 1 \in DOMAIN Tail(queue[s])
                    BY <1>0, <2>1, <2>3, <5>1, TailOf
                <5>3. Tail(queue[s])[i - 1] = r
                    BY <1>0, <2>1, <2>3, <4>1, <5>1, <5>2, TailOf
                <5> QED
                    BY <3>1, <4>1, <5>2, <5>3 DEF InQueue
            <4> QED
                BY <4>2, <4>3
        <3>4. CASE Head(queue[s]) = Sink!Wake
            <4>1. UNCHANGED batch
                BY <1>2, <3>4 DEF Sink!Take
            <4>2. \A i : InBatch(s, i, r)' <=> InBatch(s, i, r)
                BY <4>1 DEF InBatch
            <4> QED
                BY <1>a, <1>b, <2>3, <3>2, <3>3, <3>4, <4>2
        <3>5. CASE Head(queue[s]) # Sink!Wake
            <4>1. PICK x : x = Head(queue[s]) /\ InQueue(s, 1, x) /\ x \in Sink!Rows
                BY <1>0, <2>1, <2>3, <3>5, TailOf DEF InQueue
            <4>2. batch'[s] = Append(batch[s], x)
                BY <1>2, <3>5, <4>1 DEF Sink!Take, Sink!TypeOK
            <4>3. \A i : InBatch(s, i, r)' => InBatch(s, i, r) \/ r = x
                BY <1>0, <2>3, <4>1, <4>2, AppendTo DEF InBatch
            <4>4. \A i : InBatch(s, i, r) => InBatch(s, i, r)'
                BY <1>0, <2>3, <4>1, <4>2 DEF InBatch
            <4>5. r = x => \E i : InBatch(s, i, r)'
                BY <1>0, <2>3, <4>1, <4>2 DEF InBatch
            <4> QED
                BY <1>a, <1>b, <2>3, <3>2, <3>3, <4>1, <4>3, <4>4, <4>5
        <3> QED
            BY <3>4, <3>5
    <2> QED
        BY <2>2, <2>3
<1>3. ASSUME Over(s)
      PROVE  /\ Sink!Holds(t, r)' => Sink!Holds(t, r)
             /\ Sink!Holds(t, r) => Sink!Holds(t, r)' \/ (t = s /\ \E i : InBatch(s, i, r))
    <2>1. queue' = queue /\ batch' = [batch EXCEPT ![s] = <<>>]
        BY <1>3 DEF Over, Sink!Done
    <2>2. \A i : InQueue(t, i, r)' <=> InQueue(t, i, r)
        BY <2>1 DEF InQueue
    <2>3. t # s => \A i : InBatch(t, i, r)' <=> InBatch(t, i, r)
        BY <2>1 DEF InBatch, Sink!TypeOK
    <2>4. t = s => \A i : ~ InBatch(t, i, r)'
        BY <2>1 DEF InBatch, Sink!TypeOK
    <2> QED
        BY <1>a, <1>b, <2>2, <2>3, <2>4
<1>4. ASSUME Sink!Drain
      PROVE  /\ (Sink!Holds(t, r)' => Sink!Holds(t, r))
             /\ (Sink!Holds(t, r) => Sink!Holds(t, r)' \/ t = active)
    <2> DEFINE n == IF Len(queue[active]) < BatchMax THEN Len(queue[active]) ELSE BatchMax
    <2>1. /\ UNCHANGED batch
          /\ queue' = [queue EXCEPT ![active] = SubSeq(queue[active], n + 1, Len(queue[active]))]
        BY <1>4 DEF Sink!Drain, Sink!worker
    <2>2. CASE t # active
        <3>1. queue'[t] = queue[t] /\ batch'[t] = batch[t]
            BY <2>1, <2>2 DEF Sink!TypeOK
        <3> QED
            BY <3>1 DEF Sink!Holds, Sink!Range
    <2>3. CASE t = active
        <3>1. n \in 0..Len(queue[t])
            BY <1>0, <2>3 DEF SinkAssumption, Sink!BoundsAssumption
        <3>2. queue'[t] = SubSeq(queue[t], n + 1, Len(queue[t]))
            BY <2>1, <2>3 DEF Sink!TypeOK
        <3> HIDE DEF n
        <3>3. \A i : InQueue(t, i, r)' => InQueue(t, i + n, r)
            BY <3>1, <3>2, FrontTaken
        <3>4. \A i : InBatch(t, i, r)' <=> InBatch(t, i, r)
            BY <2>1 DEF InBatch
        <3> QED
            BY <1>a, <1>b, <2>3, <3>3, <3>4
    <2> QED
        BY <2>2, <2>3
<1>5. ASSUME Sink!DrainEnds PROVE Sink!Holds(t, r)' <=> Sink!Holds(t, r)
    <2>1. UNCHANGED batch
        BY <1>5 DEF Sink!DrainEnds, Sink!worker
    <2>2. queue'[t] = queue[t] \/ queue'[t] = Append(queue[t], Sink!Wake)
        BY <1>5 DEF Sink!DrainEnds, Sink!TypeOK
    <2>3. \A i : InQueue(t, i, r)' <=> InQueue(t, i, r)
        <3>1. CASE queue'[t] = queue[t]
            BY <3>1 DEF InQueue
        <3>2. CASE queue'[t] = Append(queue[t], Sink!Wake)
            BY <1>0, <3>2 DEF InQueue
        <3> QED
            BY <2>2, <3>1, <3>2
    <2>4. \A i : InBatch(t, i, r)' <=> InBatch(t, i, r)
        BY <2>1 DEF InBatch
    <2> QED
        BY <1>a, <1>b, <2>3, <2>4
<1> QED
    BY <1>1, <1>2, <1>3, <1>4, <1>5

\* No step lets a row overtake another one of its sink.
LEMMA ArrivedInOrderStep ==
    ASSUME SinkAssumption, Sink!TypeOK, Sink!AcceptedOnce, Sink!HeldInOrder,
           Sink!ArrivedWithBatch, Sink!ArrivedInOrder,
           [Sink!Next]_(Sink!vars)
    PROVE  Sink!ArrivedInOrder'
<1> SUFFICES ASSUME NEW q \in Sink!Rows, NEW r \in Sink!Rows, Sink!Before(q, r)',
e_sink'[q] = e_sink'[r],
                    Sink!Came(r)'
             PROVE  Ordered(q, r)'
    BY DEF Sink!ArrivedInOrder, Ordered
<1>0. q # Sink!Wake /\ r # Sink!Wake
    BY SinkTypes
<1>1. ASSUME UNCHANGED accepted PROVE Sink!Before(q, r)
    BY <1>1 DEF Sink!Before
<1>2. ASSUME UNCHANGED received
      PROVE  \A x : Sink!Arrivals(x)' = Sink!Arrivals(x) /\ (Sink!Came(x)' <=> Sink!Came(x))
    BY <1>2 DEF Sink!Came, Sink!Arrivals
<1>3. ASSUME Sink!Before(q, r), e_sink[q] = e_sink[r], UNCHANGED received,
             \A t \in Sink!Sinks : Sink!Holds(t, q)' => Sink!Holds(t, q)
      PROVE  Ordered(q, r)'
    <2>1. Ordered(q, r)
        BY <1>2, <1>3 DEF Sink!ArrivedInOrder, Ordered
    <2> QED
        BY <1>2, <1>3, <2>1 DEF Ordered
<1>4. ASSUME UNCHANGED <<queue, batch>>
      PROVE  \A t \in Sink!Sinks : Sink!Holds(t, q)' => Sink!Holds(t, q)
    BY <1>4 DEF Sink!Holds
<1>5. CASE UNCHANGED data
    BY <1>1, <1>3, <1>4, <1>5 DEF data
<1>6. ASSUME NEW x \in Sink!Rows, Sink!Emit(x) PROVE Ordered(q, r)'
    <2>1. UNCHANGED <<accepted, received, queue, batch>> /\ outcome[x] = None
        BY <1>6 DEF Sink!Emit, Sink!queues, Sink!worker, Sink!AcceptedOnce
    <2>2. q # x /\ r # x
        BY <1>1, <2>1, NotAccepted
    <2>3. e_sink[q] = e_sink[r]
        BY <1>6, <2>2 DEF Sink!Emit, Sink!TypeOK
    <2> QED
        BY <1>1, <1>3, <1>4, <2>1, <2>3
<1>7. ASSUME NEW x \in Sink!Rows, NEW s \in Sink!Sinks, Sink!Put(x, s) PROVE Ordered(q, r)'
    <2>1. UNCHANGED <<e_sink, batch, received>> /\ outcome[x] = None
        BY <1>7 DEF Sink!Put, Sink!worker
    <2>2. CASE UNCHANGED <<accepted, queue>>
        BY <1>1, <1>3, <1>4, <2>1, <2>2
    <2>3. CASE /\ accepted' = Append(accepted, x)
               /\ queue' = [queue EXCEPT ![s] = Append(queue[s], x)]
        <3>1. ~ Sink!Came(x)
            BY <2>1, NotAccepted, ArrivedIs DEF ArrivedRows, Accepted
        <3>2. Sink!Came(r)
            BY <1>2, <2>1
        <3>3. Sink!Before(q, r)
            BY <2>3, <3>1, <3>2, BeforeGrows
        <3>4. q # x
            BY <2>1, <3>3, NotAccepted
        <3>5. ASSUME NEW t \in Sink!Sinks, Sink!Holds(t, q)' PROVE Sink!Holds(t, q)
            <4>1. /\ queue[t] \in Seq(Sink!Rows \cup {Sink!Wake})
                  /\ x \in Sink!Rows \cup {Sink!Wake}
                BY SinkTypes
            <4>2. queue'[t] = queue[t] \/ queue'[t] = Append(queue[t], x)
                BY <2>3 DEF Sink!TypeOK
            <4>3. \A i : i \in DOMAIN queue'[t] /\ queue'[t][i] = q
                      => i \in DOMAIN queue[t] /\ queue[t][i] = q
                BY <3>4, <4>1, <4>2, AppendTo
            <4> QED
                BY <2>1, <3>5, <4>3 DEF Sink!Holds, Sink!Range
        <3> QED
            BY <1>3, <2>1, <3>3, <3>5
    <2> QED
        BY <1>7, <2>2, <2>3 DEF Sink!Put
<1>8. ASSUME NEW s \in Sink!Sinks, Sink!Arrives(s), UNCHANGED <<accepted, e_sink>>,
             \A t \in Sink!Sinks : Sink!Holds(t, q)' => Sink!Holds(t, q)
      PROVE  Ordered(q, r)'
    <2>1. Sink!Before(q, r) /\ e_sink[q] = e_sink[r]
        BY <1>1, <1>8
    <2>2. /\ \A t \in Sink!Sinks : Sink!Holds(t, q) => Sink!Came(q)'
          /\ Sink!Came(q)' => \E i \in Sink!Arrivals(q)' : \A j \in Sink!Arrivals(r)' : i < j
        BY <1>8, <2>1, OrderedArrival
    <2> QED
        BY <1>8, <2>2 DEF Ordered
<1>9. ASSUME NEW s \in Sink!Sinks, Sink!Take(s) \/ Over(s) \/ Sink!PostFails(s)
      PROVE  Ordered(q, r)'
    <2>1. UNCHANGED <<accepted, e_sink>> /\ (Sink!Arrives(s) \/ UNCHANGED received)
        BY <1>9 DEF Sink!Take, Over, Sink!PostFails, Sink!Unanswered, Sink!rows
    <2>2. Sink!PostFails(s) => UNCHANGED <<queue, batch>>
        BY DEF Sink!PostFails, Sink!queues
    <2>3. \A t \in Sink!Sinks : Sink!Holds(t, q)' => Sink!Holds(t, q)
        BY <1>0, <1>4, <1>9, <2>2, HoldsStep
    <2> QED
        BY <1>1, <1>3, <1>8, <2>1, <2>3
<1>10. CASE Sink!Drain \/ Sink!DrainEnds
    <2>1. UNCHANGED <<accepted, e_sink, received>>
        BY <1>10 DEF Sink!Drain, Sink!DrainEnds, Sink!rows
    <2>2. \A t \in Sink!Sinks : Sink!Holds(t, q)' => Sink!Holds(t, q)
        BY <1>0, <1>10, HoldsStep
    <2> QED
        BY <1>1, <1>3, <2>1, <2>2
<1> QED
    BY <1>5, <1>6, <1>7, <1>9, <1>10, SinkCases

\* A sink that was stopped stays so.
LEMMA StoppedStays ==
    ASSUME SinkAssumption, Sink!TypeOK, [Sink!Next]_(Sink!vars), NEW s \in Sink!Sinks,
           stopped[s]
    PROVE  stopped'[s]
<1>1. UNCHANGED stopped \/ Sink!Stop
    BY DEF Sink!Next, Sink!Work, Sink!Manage, Sink!vars, Sink!queues, Sink!Emit, Sink!Put,
           Sink!Take, Sink!Flush, Sink!Send, Sink!PostOk, Sink!PostRefused, Sink!PostFails,
           Sink!BatchFails, Sink!CoolDown, Sink!Begin, Sink!Drain, Sink!DrainEnds,
           Sink!Finish
<1> QED
    BY <1>1 DEF Sink!Stop, Sink!TypeOK

\* No step loses a row of a sink that is not stopped.
LEMMA LostStep ==
    ASSUME SinkAssumption, Sink!TypeOK, Sink!AcceptedOnce, Sink!HeldInOrder,
           Sink!HeldInOrder', Sink!ManagerInStep,
           Sink!LostOnlyAtShutdown, [Sink!Next]_(Sink!vars)
    PROVE  Sink!LostOnlyAtShutdown'
<1> SUFFICES ASSUME NEW r \in Sink!Rows, outcome'[r] = "emitted"
             PROVE  /\ Sink!Holds(e_sink[r], r)' \/ stopped'[e_sink'[r]]
                    /\ \A s \in Sink!Sinks \ {e_sink'[r]} : ~ Sink!Holds(s, r)'
    BY Zenon DEF Sink!LostOnlyAtShutdown
<1>0. r # Sink!Wake
    BY SinkTypes
<1>1. \A s \in Sink!Sinks \ {e_sink'[r]} : ~ Sink!Holds(s, r)'
    <2>0. (Sink!HeldInOrder <=> \A s \in Sink!Sinks : HeldOf(s))'
        BY HeldIs, PTL
    <2>1. ASSUME NEW s \in Sink!Sinks, Sink!Holds(s, r)' PROVE e_sink'[r] = s
        <3>2. HeldOf(s)'
            BY <2>0
        <3>3. PICK i : InBatch(s, i, r)' \/ InQueue(s, i, r)'
            BY <1>0, <2>1 DEF Sink!Holds, Sink!Range, InBatch, InQueue
        <3> QED
            BY <3>2, <3>3 DEF HeldOf, Sink!Mine
    <2> QED
        BY <2>1
<1>2. ASSUME e_sink'[r] = e_sink[r], outcome[r] = "emitted",
             \A t \in Sink!Sinks : Sink!Holds(t, r) => Sink!Holds(t, r)' \/ stopped[t]
      PROVE  \E t \in Sink!Sinks : e_sink'[r] = t /\ (Sink!Holds(t, r)' \/ stopped'[t])
    <2>1. e_sink[r] \in Sink!Sinks /\ (Sink!Holds(e_sink[r], r) \/ stopped[e_sink[r]])
        BY <1>2 DEF Sink!AcceptedOnce, Sink!LostOnlyAtShutdown
    <2>2. PICK t \in Sink!Sinks : t = e_sink[r]
        BY <2>1
    <2>3. Sink!Holds(t, r)' \/ stopped'[t]
        BY <1>2, <2>1, <2>2, StoppedStays
    <2> QED
        BY <1>2, <2>2, <2>3
<1>3. CASE UNCHANGED data
    <2>1. UNCHANGED <<queue, batch>> /\ e_sink'[r] = e_sink[r] /\ outcome[r] = "emitted"
        BY <1>3 DEF data
    <2> QED
        BY <1>1, <1>2, <2>1 DEF Sink!Holds
<1>4. ASSUME NEW x \in Sink!Rows, Sink!Emit(x)
      PROVE  \E t \in Sink!Sinks : e_sink'[r] = t /\ (Sink!Holds(t, r)' \/ stopped'[t])
    <2>1. outcome'[x] # "emitted"
        BY <1>4 DEF Sink!Emit, Sink!TypeOK, SinkAssumption, Sink!NoneAssumption
    <2>2. UNCHANGED <<queue, batch>> /\ e_sink'[r] = e_sink[r] /\ outcome[r] = "emitted"
        BY <1>4, <2>1 DEF Sink!Emit, Sink!TypeOK, Sink!queues, Sink!worker
    <2> QED
        BY <1>2, <2>2 DEF Sink!Holds
<1>5. ASSUME NEW x \in Sink!Rows, NEW s \in Sink!Sinks, Sink!Put(x, s)
      PROVE  \E t \in Sink!Sinks : e_sink'[r] = t /\ (Sink!Holds(t, r)' \/ stopped'[t])
    <2>1. UNCHANGED <<batch, e_sink>> /\ e_sink[x] = s
        BY <1>5 DEF Sink!Put, Sink!worker
    <2>2. \A t \in Sink!Sinks : queue[t] \in Seq(Sink!Rows \cup {Sink!Wake})
        BY SinkTypes
    <2>3. CASE r = x
        <3>1. queue'[s] = Append(queue[s], x)
            BY <1>5, <2>3 DEF Sink!Put, Sink!TypeOK
        <3>2. queue[s] \in Seq(Sink!Rows \cup {Sink!Wake}) /\ x \in Sink!Rows \cup {Sink!Wake}
            BY <2>2
        <3>3. Len(queue[s]) + 1 \in DOMAIN queue'[s] /\ queue'[s][Len(queue[s]) + 1] = x
            BY <3>1, <3>2
        <3> QED
            BY <2>1, <2>3, <3>3 DEF Sink!Holds, Sink!Range
    <2>4. CASE r # x
        <3>1. outcome[r] = "emitted"
            BY <1>5, <2>4 DEF Sink!Put, Sink!TypeOK
        <3>2. \A t \in Sink!Sinks : queue'[t] = queue[t] \/ queue'[t] = Append(queue[t], x)
            BY <1>5 DEF Sink!Put, Sink!TypeOK
        <3>3. ASSUME NEW t \in Sink!Sinks
              PROVE  Sink!Range(queue[t]) \subseteq Sink!Range(queue'[t])
            <4>1. CASE queue'[t] = queue[t]
                BY <4>1
            <4>2. CASE queue'[t] = Append(queue[t], x)
                <5>1. \A i \in DOMAIN queue[t] : i \in DOMAIN queue'[t] /\ queue'[t][i]
                          = queue[t][i]
                    BY <2>2, <4>2
                <5> QED
                    BY <5>1 DEF Sink!Range
            <4> QED
                BY <3>2, <4>1, <4>2
        <3> QED
            BY <1>2, <2>1, <3>1, <3>3 DEF Sink!Holds
    <2> QED
        BY <2>3, <2>4
<1>6. ASSUME NEW s \in Sink!Sinks, Sink!Take(s) \/ Sink!PostFails(s)
      PROVE  \E t \in Sink!Sinks : e_sink'[r] = t /\ (Sink!Holds(t, r)' \/ stopped'[t])
    <2>1. UNCHANGED <<e_sink, outcome>>
        BY <1>6 DEF Sink!Take, Sink!PostFails, Sink!rows
    <2>2. Sink!PostFails(s) => UNCHANGED <<queue, batch>>
        BY DEF Sink!PostFails, Sink!queues
    <2>3. \A t \in Sink!Sinks : Sink!Holds(t, r) => Sink!Holds(t, r)'
        BY <1>0, <1>6, <2>2, HoldsStep
    <2> QED
        BY <1>2, <2>1, <2>3
<1>7. ASSUME NEW s \in Sink!Sinks, Over(s)
      PROVE  \E t \in Sink!Sinks : e_sink'[r] = t /\ (Sink!Holds(t, r)' \/ stopped'[t])
    <2>1. UNCHANGED e_sink
        BY <1>7 DEF Over
    <2>2. outcome[r] = "emitted" /\ (stopped[s] \/ \A i : ~ InBatch(s, i, r))
        <3>1. CASE stopped[s] /\ outcome' = outcome
            BY <3>1
        <3>2. CASE \E how \in Sink!Settled : Sink!Counts(s, how)
            BY <3>2 DEF Sink!Counts, Sink!Range, InBatch, Sink!Settled
        <3> QED
            BY <1>7, <3>1, <3>2 DEF Over
    <2>3. \A t \in Sink!Sinks : Sink!Holds(t, r) => Sink!Holds(t, r)' \/ stopped[t]
        BY <1>0, <1>7, <2>2, HoldsStep
    <2> QED
        BY <1>2, <2>1, <2>2, <2>3
<1>8. CASE Sink!Drain \/ Sink!DrainEnds
    <2>1. UNCHANGED <<e_sink, outcome>>
        BY <1>8 DEF Sink!Drain, Sink!DrainEnds, Sink!rows
    <2>2. Sink!Drain => stopped[active]
        BY DEF Sink!Drain, Sink!ManagerInStep
    <2>3. \A t \in Sink!Sinks : Sink!Holds(t, r) => Sink!Holds(t, r)' \/ stopped[t]
        BY <1>0, <1>8, <2>2, HoldsStep
    <2>4. \E t \in Sink!Sinks : e_sink'[r] = t /\ (Sink!Holds(t, r)' \/ stopped'[t])
        BY <1>2, <2>1, <2>3
    <2> QED
        BY <1>1, <2>4 DEF Sink!Holds
<1>9. (\E t \in Sink!Sinks : e_sink'[r] = t /\ (Sink!Holds(t, r)' \/ stopped'[t]))
        => Sink!Holds(e_sink[r], r)' \/ stopped'[e_sink'[r]]
    BY DEF Sink!Holds
<1> QED
    BY <1>1, <1>3, <1>4, <1>5, <1>6, <1>7, <1>8, <1>9, SinkCases
\* No row has been handed to a sink.
LEMMA SinkInit ==
    ASSUME SinkAssumption, Sink!Init
    PROVE  Sink!SinkInv
<1> USE DEF Sink!Init
<1>1. /\ accepted = <<>> /\ received = <<>> /\ DOMAIN accepted = {} /\ DOMAIN received = {}
      /\ \A s \in Sink!Sinks : /\ queue[s] = <<>> /\ batch[s] = <<>> /\ DOMAIN queue[s] = {}
                               /\ DOMAIN batch[s] = {} /\ Len(queue[s]) = 0 /\ Len(batch[s]) = 0
      /\ \A r \in Sink!Rows : outcome[r] = None
    OBVIOUS
<1>2. Sink!TypeOK
    <2>1. active \in 0..MaxSinks /\ emitter \in {0, active}
        BY DEF SinkAssumption, Sink!BoundsAssumption
    <2>2. \A s \in Sink!Sinks : Len(queue[s]) <= QueueMax /\ Len(batch[s]) <= BatchMax
        BY <1>1 DEF SinkAssumption, Sink!BoundsAssumption
    <2>3. /\ queue \in [Sink!Sinks -> Seq(Sink!Rows \cup {Sink!Wake})]
          /\ batch \in [Sink!Sinks -> Seq(Sink!Rows)]
        OBVIOUS
    <2>4. /\ failures \in [Sink!Sinks -> 0..(Threshold - 1)]
          /\ attempt \in [Sink!Sinks -> 0..MaxRetries]
        BY DEF SinkAssumption, Sink!BoundsAssumption
    <2>5. accepted \in Seq(Sink!Rows) /\ received \in Seq(Sink!Rows)
        OBVIOUS
    <2> QED
        BY <2>1, <2>2, <2>3, <2>4, <2>5 DEF Sink!TypeOK
<1>3. None \notin Sink!Settled \cup {"emitted"}
    BY DEF SinkAssumption, Sink!NoneAssumption, Sink!Counted
<1>4. Sink!AcceptedOnce
    BY <1>1, <1>3 DEF Sink!AcceptedOnce
<1>5. Sink!HeldInOrder
    BY <1>1 DEF Sink!HeldInOrder
<1>6. \A r : Sink!Arrivals(r) = {} /\ Sink!Cardinality(Sink!Arrivals(r)) = 0
    BY <1>1, FS_EmptySet, SinkSets DEF Sink!Arrivals
<1>7. Sink!ArrivedWithBatch
    <2>1. \A r \in Sink!Rows : outcome[r] # "ok" /\ Sink!Cardinality(Sink!Arrivals(r))
              <= MaxRetries + 1
        BY <1>1, <1>3, <1>6 DEF Sink!Settled, SinkAssumption, Sink!BoundsAssumption
    <2> QED
        BY <1>1, <2>1 DEF Sink!ArrivedWithBatch
<1>8. Sink!ArrivedInOrder
    BY <1>1 DEF Sink!ArrivedInOrder, Sink!Before
<1>9. Sink!WorkersInStep
    BY <1>1 DEF Sink!WorkersInStep
<1>10. Sink!ManagerInStep
    BY DEF Sink!ManagerInStep
<1>11. Sink!LostOnlyAtShutdown
    BY <1>1, <1>3 DEF Sink!LostOnlyAtShutdown
<1> QED
    BY <1>2, <1>4, <1>5, <1>7, <1>8, <1>9, <1>10, <1>11 DEF Sink!SinkInv

\* Every step keeps all of it.
LEMMA SinkStep ==
    ASSUME SinkAssumption, Sink!SinkInv, [Sink!Next]_(Sink!vars)
    PROVE  Sink!SinkInv'
<1>1. /\ Sink!TypeOK /\ Sink!AcceptedOnce /\ Sink!HeldInOrder /\ Sink!ArrivedWithBatch
      /\ Sink!ArrivedInOrder
      /\ Sink!WorkersInStep /\ Sink!ManagerInStep /\ Sink!LostOnlyAtShutdown
    BY DEF Sink!SinkInv
<1>2. Sink!TypeOK' /\ Sink!WorkersInStep' /\ Sink!ManagerInStep'
    BY <1>1, SinkTypeStep
<1>3. Sink!AcceptedOnce'
    BY <1>1, AcceptedStep
<1>4. Sink!HeldInOrder'
    BY <1>1, <1>2, HeldStep
<1>5. Sink!ArrivedWithBatch'
    <2>1. ArrivedRows' /\ (\A s \in Sink!Sinks : ArrivedOf(s)')
        BY <1>1, ArrivedRowsStep, ArrivedOfStep
    <2>2. (Sink!ArrivedWithBatch <=> ArrivedRows /\ \A s \in Sink!Sinks : ArrivedOf(s))'
        BY ArrivedIs, PTL
    <2> QED
        BY <2>1, <2>2
<1>6. Sink!ArrivedInOrder'
    BY <1>1, ArrivedInOrderStep
<1>7. Sink!LostOnlyAtShutdown'
    BY <1>1, <1>4, LostStep
<1> QED
    BY <1>2, <1>3, <1>4, <1>5, <1>6, <1>7 DEF Sink!SinkInv

\* The order of the first arrivals follows.
LEMMA SinkFollows ==
    ASSUME SinkAssumption, Sink!SinkInv
    PROVE  Sink!SinkAccounts
<1>1. /\ Sink!TypeOK /\ Sink!AcceptedOnce /\ Sink!ArrivedWithBatch /\ Sink!ArrivedInOrder
      /\ Sink!LostOnlyAtShutdown
    BY DEF Sink!SinkInv
<1>2. ASSUME NEW r, Sink!Came(r)
      PROVE  Sink!First(r) \in Sink!Arrivals(r) /\ \A j \in Sink!Arrivals(r) : Sink!First(r) <= j
    <2>1. Sink!Arrivals(r) \subseteq Nat /\ Sink!Arrivals(r) # {}
        BY <1>1, <1>2, ArrivalsCount DEF Sink!Came
    <2>2. \E i \in Sink!Arrivals(r) : \A j \in Sink!Arrivals(r) : i <= j
        BY <2>1, LeastNatural
    <2> QED
        BY <2>2 DEF Sink!First
<1>3. ASSUME NEW i \in DOMAIN accepted, NEW j \in DOMAIN accepted, i < j,
             e_sink[accepted[i]] = e_sink[accepted[j]],
             Sink!Came(accepted[i]), Sink!Came(accepted[j])
      PROVE  Sink!First(accepted[i]) < Sink!First(accepted[j])
    <2> DEFINE q == accepted[i]
               r == accepted[j]
    <2>1. q \in Sink!Rows /\ r \in Sink!Rows /\ Sink!Before(q, r)
        BY <1>1, <1>3, SinkTypes DEF Sink!Before
    <2>2. PICK k \in Sink!Arrivals(q) : \A l \in Sink!Arrivals(r) : k < l
        BY <1>1, <1>3, <2>1 DEF Sink!ArrivedInOrder
    <2>3. Sink!First(q) <= k /\ k < Sink!First(r)
        BY <1>2, <1>3, <2>2
    <2>4. Sink!First(q) \in Nat /\ Sink!First(r) \in Nat /\ k \in Nat
        BY <1>1, <1>2, <1>3, <2>2, ArrivalsCount
    <2> HIDE DEF q, r
    <2>5. Sink!First(q) < Sink!First(r)
        BY <2>3, <2>4
    <2> QED
        BY <2>5 DEF q, r
<1>4. \A r \in Sink!Rows :
        /\ outcome[r] = "ok" => Sink!Arrivals(r) # {}
        /\ Sink!Cardinality(Sink!Arrivals(r)) <= MaxRetries + 1
    BY <1>1 DEF Sink!ArrivedWithBatch, Sink!Came
<1>5. Sink!ArrivalsHonest
    BY <1>3, <1>4, Zenon DEF Sink!ArrivalsHonest, Sink!Came
<1> QED
    BY <1>1, <1>5 DEF Sink!SinkAccounts

\* Whatever the number of rows, sinks and retries and the sizes of queue and batches, and
\* whoever enables, disables or exits meanwhile: an accepted row is on its way in one sink
\* unless that sink was stopped, what is counted as sent arrived, a row arrives once per
\* attempt at most, and the rows of a sink first arrive in the order of their acceptance.
THEOREM SinkAccountsHolds ==
    ASSUME SinkAssumption
    PROVE  Sink!Spec => []Sink!SinkAccounts
<1>1. Sink!Init => Sink!SinkInv
    BY SinkInit
<1>2. Sink!SinkInv /\ [Sink!Next]_(Sink!vars) => Sink!SinkInv'
    BY SinkStep
<1>3. Sink!SinkInv => Sink!SinkAccounts
    BY SinkFollows
<1> QED
    BY <1>1, <1>2, <1>3, PTL DEF Sink!Spec
-----------------------------------------------------------------------------
(* The requests that wait for a human, and their clients.                  *)
USE DeciderAssumption, DialectAssumption, NumbersAssumption, NoneAssumption

\* A call in progress has the arguments it was made with.
Called ==
    /\ \A c \in Decides :
          d_pc[c] # "idle" => d_id[c] \in Ids /\ d_decision[c] \in Decisions
    /\ \A r \in Resumes : r_pc[r] # "idle" => r_id[r] \in Ids

TypeInv == TypeOK /\ Called

\* No step breaks a type.
LEMMA TypeStep == ASSUME TypeInv, [Next]_vars PROVE TypeInv'
<1> USE DEF TypeInv, Called, TypeOK, Time, Status, Decisions, table, d_vars, r_vars, s_vars
<1>1. CASE Tick
  BY <1>1 DEF Tick
<1>2. ASSUME NEW id \in Ids, NEW t \in Tenants, CreatePending(id, t) PROVE TypeInv'
  BY <1>2 DEF CreatePending
<1>3. ASSUME NEW c \in Decides, NEW id \in Ids, NEW decision \in Decisions,
             NEW t \in Tenants \cup {None}, DecideCall(c, id, decision, t)
      PROVE  TypeInv'
  BY <1>3 DEF DecideCall
<1>4. ASSUME NEW c \in Decides, DecideWins(c) PROVE TypeInv'
  BY <1>4 DEF DecideWins, DecideMatches
<1>5. ASSUME NEW c \in Decides, DecideMisses(c) PROVE TypeInv'
  BY <1>5 DEF DecideMisses
<1>6. ASSUME NEW c \in Decides, DecideConfirm(c) PROVE TypeInv'
  BY <1>6 DEF DecideConfirm
<1>7. ASSUME NEW r \in Resumes, NEW id \in Ids, ResumeCall(r, id) PROVE TypeInv'
  BY <1>7 DEF ResumeCall
<1>8. ASSUME NEW r \in Resumes, FindReadyToResume(r) PROVE TypeInv'
  BY <1>8 DEF FindReadyToResume
<1>9. ASSUME NEW r \in Resumes, Replay(r) PROVE TypeInv'
  BY <1>9 DEF Replay
<1>10. ASSUME NEW r \in Resumes, ResumeFails(r) PROVE TypeInv'
  BY <1>10 DEF ResumeFails
<1>11. ASSUME NEW r \in Resumes, MarkResumed(r) PROVE TypeInv'
  BY <1>11 DEF MarkResumed
<1>12. ASSUME NEW w \in Sweepers, SweepCall(w) PROVE TypeInv'
  BY <1>12 DEF SweepCall
<1>13. ASSUME NEW w \in Sweepers, SweepSelect(w) PROVE TypeInv'
  BY <1>13 DEF SweepSelect, Batches, Overdue
<1>14. ASSUME NEW w \in Sweepers, SweepUpdate(w) PROVE TypeInv'
  BY <1>14 DEF SweepUpdate
<1>15. ASSUME NEW w \in Sweepers, SweepCommit(w) PROVE TypeInv'
  BY <1>15 DEF SweepCommit
<1>16. ASSUME NEW w \in Sweepers, SweepAbort(w) PROVE TypeInv'
  BY <1>16 DEF SweepAbort, SweepRollback
<1>17. ASSUME NEW w \in Sweepers, SweepDeadlock(w) PROVE TypeInv'
  BY <1>17 DEF SweepDeadlock, SweepRollback
<1>18. CASE UNCHANGED vars
  BY <1>18 DEF vars
<1> HIDE DEF TypeInv
<1> QED
  BY <1>1, <1>2, <1>3, <1>4, <1>5, <1>6, <1>7, <1>8, <1>9, <1>10, <1>11,
     <1>12, <1>13, <1>14, <1>15, <1>16, <1>17, <1>18 DEF Next

\* Every column of the table and every local of a call keeps its type.
THEOREM TypeCorrect == Spec => []TypeOK
<1>1. Init => TypeInv
  BY DEF Init, TypeInv, Called, TypeOK, Time, Status
<1>2. TypeInv /\ [Next]_vars => TypeInv'
  BY TypeStep
<1>3. TypeInv => TypeOK
  BY DEF TypeInv
<1> QED
  BY <1>1, <1>2, <1>3, PTL DEF Spec

\* No step breaks the inductive invariant. A decision cannot touch a row that
\* a sweep has updated (<1>4), a sweep updates only rows that are pending and
\* unlocked (<1>14), so that its COMMIT expires rows nobody decided (<1>15).
LEMMA InvariantStep ==
    ASSUME TypeInv, TypeInv', IInv, [Next]_vars PROVE IInv'
<1> USE DEF TypeInv, Called, TypeOK, Time, Status, Decisions, table, d_vars, r_vars, s_vars,
            IInv, RowsConsistent, SweepsConsistent, CallsConsistent, WonMeansDecided,
            ReturningDecides, OneWinner, TenantScoped, Returning, ReplayApproved,
            OneResume
<1>1. CASE Tick
  BY <1>1 DEF Tick
<1>2. ASSUME NEW id \in Ids, NEW t \in Tenants, CreatePending(id, t) PROVE IInv'
  BY <1>2 DEF CreatePending
<1>3. ASSUME NEW c \in Decides, NEW id \in Ids, NEW decision \in Decisions,
             NEW t \in Tenants \cup {None}, DecideCall(c, id, decision, t)
      PROVE IInv'
  BY <1>3 DEF DecideCall
<1>4. ASSUME NEW c \in Decides, DecideWins(c) PROVE IInv'
  <2>1. RowsConsistent' /\ ReplayApproved' /\ OneResume'
    BY <1>4 DEF DecideWins, DecideMatches
  <2>2. SweepsConsistent'
    BY <1>4 DEF DecideWins, Locked
  <2>3. CallsConsistent'
    BY <1>4 DEF DecideWins
  <2>4. WonMeansDecided' /\ ReturningDecides'
    BY <1>4 DEF DecideWins, DecideMatches
  <2> QED
    BY <2>1, <2>2, <2>3, <2>4
<1>5. ASSUME NEW c \in Decides, DecideMisses(c) PROVE IInv'
  BY <1>5 DEF DecideMisses
<1>6. ASSUME NEW c \in Decides, DecideConfirm(c) PROVE IInv'
  BY <1>6 DEF DecideConfirm
<1>7. ASSUME NEW r \in Resumes, NEW id \in Ids, ResumeCall(r, id) PROVE IInv'
  BY <1>7 DEF ResumeCall
<1>8. ASSUME NEW r \in Resumes, FindReadyToResume(r) PROVE IInv'
  BY <1>8 DEF FindReadyToResume, ReadyToResume
<1>9. ASSUME NEW r \in Resumes, Replay(r) PROVE IInv'
  BY <1>9 DEF Replay
<1>10. ASSUME NEW r \in Resumes, ResumeFails(r) PROVE IInv'
  BY <1>10 DEF ResumeFails
<1>11. ASSUME NEW r \in Resumes, MarkResumed(r) PROVE IInv'
  <2>1. RowsConsistent'
    BY <1>11 DEF MarkResumed, Resumable
  <2>5. OneResume'
    BY <1>11 DEF MarkResumed, Resumable
  <2>2. SweepsConsistent' /\ CallsConsistent'
    BY <1>11 DEF MarkResumed, Resumable
  <2>3. WonMeansDecided' /\ ReturningDecides'
    BY <1>11 DEF MarkResumed, Resumable
  <2>4. ReplayApproved'
    BY <1>11 DEF MarkResumed, Resumable
  <2> QED
    BY <2>1, <2>2, <2>3, <2>4, <2>5
<1>12. ASSUME NEW w \in Sweepers, SweepCall(w) PROVE IInv'
  BY <1>12 DEF SweepCall
<1>13. ASSUME NEW w \in Sweepers, SweepSelect(w) PROVE IInv'
  BY <1>13 DEF SweepSelect, Batches, Overdue
<1>14. ASSUME NEW w \in Sweepers, SweepUpdate(w) PROVE IInv'
  <2>1. SweepsConsistent'
    BY <1>14 DEF SweepUpdate, Locked
  <2>2. RowsConsistent' /\ CallsConsistent' /\ ReplayApproved' /\ OneResume'
    BY <1>14 DEF SweepUpdate
  <2>3. WonMeansDecided' /\ ReturningDecides'
    BY <1>14 DEF SweepUpdate
  <2> QED
    BY <2>1, <2>2, <2>3
<1>15. ASSUME NEW w \in Sweepers, SweepCommit(w) PROVE IInv'
  <2>1. RowsConsistent'
    BY <1>15 DEF SweepCommit
  <2>2. SweepsConsistent'
    BY <1>15 DEF SweepCommit
  <2>3. WonMeansDecided' /\ ReturningDecides'
    BY <1>15 DEF SweepCommit
  <2>4. CallsConsistent' /\ ReplayApproved' /\ OneResume'
    BY <1>15 DEF SweepCommit
  <2> QED
    BY <2>1, <2>2, <2>3, <2>4
<1>16. ASSUME NEW w \in Sweepers, SweepAbort(w) PROVE IInv'
  BY <1>16 DEF SweepAbort, SweepRollback
<1>17. ASSUME NEW w \in Sweepers, SweepDeadlock(w) PROVE IInv'
  BY <1>17 DEF SweepDeadlock, SweepRollback
<1>18. CASE UNCHANGED vars
  BY <1>18 DEF vars
<1> HIDE DEF TypeInv, IInv
<1> QED
  BY <1>1, <1>2, <1>3, <1>4, <1>5, <1>6, <1>7, <1>8, <1>9, <1>10, <1>11,
     <1>12, <1>13, <1>14, <1>15, <1>16, <1>17, <1>18 DEF Next

LEMMA InvariantInit == Init => TypeInv /\ IInv
<1> SUFFICES ASSUME Init PROVE TypeInv /\ IInv
  OBVIOUS
<1>1. TypeInv
  BY DEF Init, TypeInv, Called, TypeOK, Time, Status
<1>2. IInv
  BY <1>1 DEF Init, IInv, RowsConsistent, SweepsConsistent, CallsConsistent,
     WonMeansDecided, ReturningDecides, OneWinner, TenantScoped, ReplayApproved,
     OneResume
<1> QED
  BY <1>1, <1>2

\* The strengthening of the safety properties is an invariant.
THEOREM InvariantHolds == Spec => [](TypeInv /\ IInv)
<1>1. TypeInv /\ IInv /\ [Next]_vars => (TypeInv /\ IInv)'
  BY TypeStep, InvariantStep
<1> QED
  BY InvariantInit, <1>1, PTL DEF Spec

\* A caller that was told True finds its decision in the row, always.
THEOREM WinnersStand == Spec => []WonMeansDecided
<1>1. IInv => WonMeansDecided
  BY DEF IInv
<1> QED
  BY InvariantHolds, <1>1, PTL

\* Where UPDATE ... RETURNING exists, decide() tells one caller True, and none
\* that named another tenant than the row's.
THEOREM OneWinnerHolds == Spec => []ReturningDecides
<1>1. IInv => ReturningDecides
  BY DEF IInv
<1> QED
  BY InvariantHolds, <1>1, PTL

\* Decisions are made before the expiry, expired rows are undecided.
THEOREM ExpiryHolds == Spec => []ExpiryRespected
<1>1. IInv => ExpiryRespected
  BY DEF IInv, RowsConsistent, ExpiryRespected
<1> QED
  BY InvariantHolds, <1>1, PTL

\* Only what was approved is ever replayed.
THEOREM ReplayHolds == Spec => []ReplayApproved
<1>1. IInv => ReplayApproved
  BY DEF IInv
<1> QED
  BY InvariantHolds, <1>1, PTL

\* The table implements the approval lifecycle. The invariant is needed by the
\* sweep's COMMIT alone: what it expires is still pending.
THEOREM Refinement == Spec => ImplementsLifecycle
<1> USE DEF Lifecycle!Next, Lifecycle!vars, table, d_vars, r_vars, s_vars
<1>1. Init => Lifecycle!Init
  BY DEF Init, Lifecycle!Init
<1>2. ASSUME TypeInv, IInv, [Next]_vars PROVE [Lifecycle!Next]_Lifecycle!vars
  <2> USE <1>2 DEF TypeInv, Called, TypeOK
  <2>1. ASSUME NEW id \in Ids, NEW t \in Tenants, CreatePending(id, t)
        PROVE  Lifecycle!Submit(id)
    BY <2>1 DEF CreatePending, Lifecycle!Submit
  <2>2. ASSUME NEW c \in Decides, DecideWins(c)
        PROVE  Lifecycle!Decide(d_id[c], DeciderOf[c], d_decision[c])
    BY <2>2 DEF DecideWins, DecideMatches, Lifecycle!Decide
  <2>3. ASSUME NEW r \in Resumes, MarkResumed(r)
        PROVE  Lifecycle!Resume(r_id[r]) \/ UNCHANGED Lifecycle!vars
    BY <2>3 DEF MarkResumed, Resumable, Lifecycle!Resume
  <2>4. ASSUME NEW w \in Sweepers, SweepCommit(w)
        PROVE  Lifecycle!Expire(s_expired[w])
    BY <2>4 DEF SweepCommit, Lifecycle!Expire, IInv, SweepsConsistent
  <2>5. ASSUME NEW c \in Decides, DecideWins(c)
        PROVE  d_id[c] \in Ids /\ d_decision[c] \in {"approved", "denied"}
    BY <2>5 DEF DecideWins, Decisions
  <2>6. ASSUME NEW w \in Sweepers
        PROVE  s_expired[w] \in SUBSET Ids
    OBVIOUS
  <2>7. CASE UNCHANGED Lifecycle!vars
    BY <2>7
  <2>8. ASSUME NEW r \in Resumes, MarkResumed(r) PROVE r_id[r] \in Ids
    BY <2>8 DEF MarkResumed
  <2>9. \/ \E id \in Ids, t \in Tenants : CreatePending(id, t)
        \/ \E c \in Decides : DecideWins(c)
        \/ \E r \in Resumes : MarkResumed(r)
        \/ \E w \in Sweepers : SweepCommit(w)
        \/ UNCHANGED Lifecycle!vars
    BY DEF Next, vars, Tick, DecideCall, DecideMisses, DecideConfirm, ResumeCall,
           FindReadyToResume, Replay, ResumeFails, SweepCall, SweepSelect,
           SweepUpdate, SweepAbort, SweepRollback, SweepDeadlock
  <2> QED
    BY <2>1, <2>2, <2>3, <2>4, <2>5, <2>6, <2>7, <2>8, <2>9
<1>3. TypeInv /\ IInv /\ [Next]_vars => [Lifecycle!Next]_Lifecycle!vars
  BY <1>2
<1> QED
  BY <1>1, <1>3, InvariantHolds, PTL DEF Spec, ImplementsLifecycle, Lifecycle!Spec
-----------------------------------------------------------------------------
(* Clients.                                                                *)

\* What a client does to the table is a call of the table's module.
LEMMA ClientStepIsNext ==
    ASSUME ClientsAssumption, ClientHasId, [ClientNext]_allVars PROVE [Next]_vars
<1>1. CASE TableStep
  BY <1>1 DEF TableStep
<1>2. ASSUME NEW c \in Clients, NEW id \in Ids, NEW t \in Tenants, InvokeParked(c, id, t)
      PROVE  Next
  BY <1>2 DEF InvokeParked, Next
<1>3. ASSUME NEW c \in Clients, PostResume(c) PROVE Next
  <2>1. c \in Resumes /\ ResumeCall(c, c_id[c])
    BY <1>3 DEF PostResume, ClientsAssumption
  <2>2. c_id[c] \in Ids
    BY <1>3 DEF PostResume, ClientHasId
  <2> QED
    BY <2>1, <2>2 DEF Next
<1>4. ASSUME NEW c \in Clients,
             \/ InvokeReturns(c) \/ PollRefused(c) \/ GiveUp(c) \/ Poll(c)
             \/ ResumeAnswered(c) \/ ResumeLost(c)
      PROVE  UNCHANGED vars
  BY <1>4 DEF InvokeReturns, PollRefused, GiveUp, Poll, ResumeAnswered, ResumeLost
<1>5. CASE UNCHANGED allVars
  BY <1>5 DEF allVars
<1> QED
  BY <1>1, <1>2, <1>3, <1>4, <1>5 DEF ClientNext, Act

\* What is final in a row stays, and an approval is followed by its resume alone.
Forward(id) ==
    /\ status[id] \in {"denied", "expired", "resumed"} => status'[id] = status[id]
    /\ status[id] = "approved" => status'[id] \in {"approved", "resumed"}
    /\ status[id] # "absent" => expires_at'[id] = expires_at[id]
    /\ resume_ev[id] # None => resume_ev'[id] = resume_ev[id]

LEMMA RowsForward ==
    ASSUME TypeInv, IInv, [Next]_vars, NEW id \in Ids PROVE Forward(id)
<1> USE DEF TypeInv, TypeOK, Called, Time, table, d_vars, r_vars, s_vars, Forward
<1>2. ASSUME NEW i \in Ids, NEW t \in Tenants, CreatePending(i, t)
      PROVE  Forward(id)
  BY <1>2 DEF CreatePending, IInv, RowsConsistent
<1>3. ASSUME NEW c \in Decides, DecideWins(c) PROVE Forward(id)
  BY <1>3 DEF DecideWins, DecideMatches
<1>4. ASSUME NEW r \in Resumes, MarkResumed(r) PROVE Forward(id)
  BY <1>4 DEF MarkResumed, Resumable
<1>5. ASSUME NEW w \in Sweepers, SweepCommit(w) PROVE Forward(id)
  BY <1>5 DEF SweepCommit, IInv, SweepsConsistent
<1>6. \/ \E i \in Ids, t \in Tenants : CreatePending(i, t)
      \/ \E c \in Decides : DecideWins(c)
      \/ \E r \in Resumes : MarkResumed(r)
      \/ \E w \in Sweepers : SweepCommit(w)
      \/ UNCHANGED table
  BY DEF Next, vars, Tick, DecideCall, DecideMisses, DecideConfirm, ResumeCall,
         FindReadyToResume, Replay, ResumeFails, SweepCall, SweepSelect,
         SweepUpdate, SweepAbort, SweepRollback, SweepDeadlock
<1>7. CASE UNCHANGED table
  BY <1>7
<1> QED
  BY <1>2, <1>3, <1>4, <1>5, <1>6, <1>7

LEMMA ClockRuns == ASSUME TypeInv, [Next]_vars PROVE clock <= clock'
<1> USE DEF TypeInv, TypeOK, Time
<1>1. Tick \/ clock' = clock
  BY DEF Next, vars, CreatePending, DecideCall, DecideWins, DecideMisses, DecideConfirm,
         ResumeCall, FindReadyToResume, Replay, ResumeFails, MarkResumed, SweepCall,
         SweepSelect, SweepUpdate, SweepCommit, SweepAbort, SweepRollback, SweepDeadlock
<1> QED
  BY <1>1 DEF Tick

\* What can happen to a resume attempt in a step: it begins, it goes on for the row it
\* began with, or it is turned away by a row as the row then is.
Advances(r) ==
    \/ r_pc'[r] = r_pc[r] /\ r_id'[r] = r_id[r]
    \/ r_pc[r] = "idle" /\ r_pc'[r] = "called"
    \/ /\ r_pc[r] \in {"called", "ready", "replayed"} /\ r_id'[r] = r_id[r]
       /\ r_pc'[r] \in {"ready", "replayed", "failed", "resumed"}
    \/ /\ r_pc[r] = "called" /\ r_id'[r] = r_id[r]
       /\ r_pc'[r] = "refused" /\ ~ ReadyToResume(r)
    \/ /\ r_pc[r] = "replayed" /\ r_id'[r] = r_id[r]
       /\ r_pc'[r] = "late" /\ ~ Resumable(r_id[r])

LEMMA AttemptAdvances ==
    ASSUME TypeInv, [Next]_vars, NEW r \in Resumes
    PROVE  Advances(r) /\ (r_pc'[r] = r_pc[r] => r_ts'[r] = r_ts[r])
                       /\ r_ts'[r] \in {r_ts[r], clock}
<1> USE DEF TypeInv, TypeOK, Called, Time, table, d_vars, r_vars, s_vars, Advances
<1>1. ASSUME NEW q \in Resumes, NEW id \in Ids, ResumeCall(q, id)
      PROVE  Advances(r) /\ (r_pc'[r] = r_pc[r] => r_ts'[r] = r_ts[r])
             /\ r_ts'[r] \in {r_ts[r], clock}
  BY <1>1 DEF ResumeCall
<1>2. ASSUME NEW q \in Resumes, FindReadyToResume(q)
      PROVE  Advances(r) /\ r_ts' = r_ts
  BY <1>2 DEF FindReadyToResume
<1>3. ASSUME NEW q \in Resumes, Replay(q) PROVE Advances(r) /\ r_ts' = r_ts
  BY <1>3 DEF Replay
<1>4. ASSUME NEW q \in Resumes, ResumeFails(q) PROVE Advances(r) /\ r_ts' = r_ts
  BY <1>4 DEF ResumeFails
<1>5. ASSUME NEW q \in Resumes, MarkResumed(q) PROVE Advances(r) /\ r_ts' = r_ts
  BY <1>5 DEF MarkResumed
<1>6. \/ \E q \in Resumes, id \in Ids : ResumeCall(q, id)
      \/ \E q \in Resumes : \/ FindReadyToResume(q) \/ Replay(q) \/ ResumeFails(q)
                            \/ MarkResumed(q)
      \/ UNCHANGED r_vars
  BY DEF Next, vars, Tick, CreatePending, DecideCall, DecideWins, DecideMisses,
         DecideConfirm, SweepCall, SweepSelect, SweepUpdate, SweepCommit, SweepAbort,
         SweepRollback, SweepDeadlock
<1> QED
  BY <1>1, <1>2, <1>3, <1>4, <1>5, <1>6

LEMMA AttemptKeepsResumed ==
    ASSUME TypeInv, [Next]_vars, NEW r \in Resumes, r_pc[r] = "resumed"
    PROVE  r_pc'[r] = "resumed"
BY AttemptAdvances DEF Advances

\* Resume attempts are dated by clocks that have passed, and the evidence a row links
\* is that of an attempt that was told True.
LEMMA AttemptsStep ==
    ASSUME TypeInv, TypeInv', IInv, [Next]_vars, EvidenceResumed, AttemptsDated
    PROVE  EvidenceResumed' /\ AttemptsDated'
<1>1. AttemptsDated'
  <2> SUFFICES ASSUME NEW r \in Resumes PROVE r_ts'[r] <= clock'
    BY DEF AttemptsDated
  <2>1. r_ts'[r] \in {r_ts[r], clock} /\ r_ts[r] <= clock
    BY AttemptAdvances DEF AttemptsDated
  <2>2. r_ts[r] \in Int /\ clock \in Int /\ clock' \in Int
    BY DEF TypeInv, TypeOK, Time
  <2> QED
    BY <2>1, <2>2, ClockRuns
<1>2. EvidenceResumed'
  <2> USE DEF TypeInv, TypeOK, Called, EvidenceResumed, table, d_vars, r_vars, s_vars
  <2>1. ASSUME NEW q \in Resumes, MarkResumed(q) PROVE EvidenceResumed'
    BY <2>1 DEF MarkResumed, Resumable
  <2>2. ASSUME UNCHANGED resume_ev PROVE EvidenceResumed'
    <3> SUFFICES ASSUME NEW id \in Ids, resume_ev[id] # None
                 PROVE  r_pc'[resume_ev[id]] = "resumed"
      BY <2>2
    <3>1. resume_ev[id] \in Resumes /\ r_pc[resume_ev[id]] = "resumed"
      OBVIOUS
    <3>2. ASSUME NEW r \in Resumes, r_pc[r] = "resumed" PROVE r_pc'[r] = "resumed"
      BY <3>2, AttemptKeepsResumed
    <3> QED
      BY <3>1, <3>2
  <2>3. (\E q \in Resumes : MarkResumed(q)) \/ UNCHANGED resume_ev
    BY DEF Next, vars, Tick, CreatePending, DecideCall, DecideWins, DecideMisses,
           DecideConfirm, ResumeCall, FindReadyToResume, Replay, ResumeFails, SweepCall,
           SweepSelect, SweepUpdate, SweepCommit, SweepAbort, SweepRollback, SweepDeadlock
  <2> QED
    BY <2>1, <2>2, <2>3
<1> QED
  BY <1>1, <1>2

\* No step breaks a type of the client.
LEMMA ClientTypeStep ==
    ASSUME ClientsAssumption, TypeInv, TypeInv', ClientTypeOK, [ClientNext]_allVars
    PROVE  ClientTypeOK'
<1> USE DEF ClientTypeOK, Ends, Time
<1>0. TypeOK' /\ TypeOK
  BY DEF TypeInv
<1>1. CASE TableStep
  BY <1>0, <1>1 DEF TableStep, c_vars
<1>2. ASSUME NEW c \in Clients, NEW id \in Ids, NEW t \in Tenants, InvokeParked(c, id, t)
      PROVE  ClientTypeOK'
  BY <1>0, <1>2 DEF InvokeParked, TypeOK
<1>3. ASSUME NEW c \in Clients, Poll(c) PROVE ClientTypeOK'
  BY <1>0, <1>3 DEF Poll, Seen, Becomes
<1>4. ASSUME NEW c \in Clients,
             \/ InvokeReturns(c) \/ PollRefused(c) \/ GiveUp(c) \/ PostResume(c)
             \/ ResumeAnswered(c) \/ ResumeLost(c)
      PROVE  ClientTypeOK'
  BY <1>0, <1>4 DEF InvokeReturns, PollRefused, GiveUp, PostResume, ResumeAnswered,
     ResumeLost, Becomes
<1>5. CASE UNCHANGED allVars
  BY <1>0, <1>5 DEF allVars, c_vars
<1> QED
  BY <1>1, <1>2, <1>3, <1>4, <1>5 DEF ClientNext, Act

\* What a step may do to client c while the table steps: nothing, except that the
\* attempt it posted goes on.
LEMMA ClientInvUnderTable ==
    ASSUME ClientsAssumption, TypeInv, TypeInv', IInv, IInv', ClientTypeOK, ClientInv,
           [Next]_vars, EvidenceResumed', AttemptsDated', c_vars' = c_vars,
           \A c \in Clients : r_pc[c] = "idle" => r_pc'[c] = "idle"
    PROVE  ClientInv'
<1>1. ASSUME NEW c \in Clients
      PROVE  /\ c \in Resumes /\ Advances(c)
             /\ r_pc'[c] # "idle" => r_pc[c] # "idle" /\ r_id'[c] = r_id[c]
             /\ r_pc[c] = "resumed" => r_pc'[c] = "resumed"
  <2>1. c \in Resumes
    BY DEF ClientsAssumption
  <2> QED
    BY <2>1, AttemptAdvances DEF Advances
<1>2. ClientHasId'
  BY <1>1 DEF ClientHasId, ClientInv, c_vars
<1>3. ASSUME NEW c \in Clients, c_id[c] \in Ids PROVE Forward(c_id[c])
  BY <1>3, RowsForward
<1>4. ApprovalStands'
  BY <1>1, <1>3 DEF ApprovalStands, ClientHasId, ClientInv, c_vars, Forward
<1>5. ClientHonest'
  <2> SUFFICES ASSUME NEW c \in Clients
               PROVE  /\ c_pc[c] = "denied" => status'[c_id[c]] = "denied"
                      /\ c_pc[c] = "expired" => status'[c_id[c]] = "expired"
                      /\ c_pc[c] = "taken" => resume_ev'[c_id[c]] \in Resumes \ {c}
                      /\ c_pc[c] = "resumed" =>
                            status'[c_id[c]] = "resumed" /\ resume_ev'[c_id[c]] = c
    BY DEF ClientHonest, c_vars
  <2>1. c_pc[c] \notin {"idle", "answered", "error"} => Forward(c_id[c])
    BY <1>3 DEF ClientInv, ClientHasId
  <2>2. c # None /\ None \notin Resumes
    BY DEF ClientsAssumption
  <2> QED
    BY <2>1, <2>2 DEF ClientInv, ClientHonest, Forward
<1>6. ApprovalNotWasted'
  <2> SUFFICES ASSUME NEW c \in Clients, r_pc'[c] \in {"refused", "late"}
               PROVE  \/ resume_ev'[c_id[c]] \in Resumes \ {c}
                      \/ expires_at'[c_id[c]] <= clock'
    BY DEF ApprovalNotWasted, c_vars
  <2> DEFINE id == c_id[c]
  <2>1. /\ r_pc[c] # "idle" /\ r_id[c] = id /\ id \in Ids /\ c \in Resumes
        /\ Advances(c) /\ Forward(id)
        /\ status[id] \in {"approved", "resumed"}
    BY <1>1, <1>3 DEF ClientInv, ClientHasId, ApprovalStands
  <2>2. /\ clock \in Int /\ clock' \in Int /\ clock <= clock'
        /\ expires_at[id] \in Int /\ expires_at'[id] = expires_at[id]
        /\ r_ts[c] \in Int /\ r_ts[c] <= clock
    BY <2>1, ClockRuns DEF TypeInv, TypeOK, Time, Forward, ClientInv, AttemptsDated
  <2>3. ASSUME resume_ev[id] \in Resumes \ {c} PROVE resume_ev'[id] \in Resumes \ {c}
    BY <2>1, <2>3 DEF Forward
  <2>4. CASE r_pc'[c] = r_pc[c]
    BY <2>1, <2>2, <2>3, <2>4 DEF ClientInv, ApprovalNotWasted
  <2>5. CASE r_pc'[c] # r_pc[c]
    <3>1. ~ ReadyToResume(c) \/ ~ Resumable(id)
      BY <2>1, <2>5 DEF Advances
    <3>2. status[id] = "resumed" \/ resume_ev[id] # None \/ expires_at[id] <= r_ts[c]
      BY <2>1, <2>2, <3>1 DEF ReadyToResume, Resumable
    <3>3. status[id] = "resumed" => resume_ev[id] # None
      BY <2>1 DEF IInv, OneResume
    <3>4. resume_ev[id] # None => resume_ev[id] \in Resumes \ {c}
      <4>1. r_pc[c] # "resumed"
        BY <2>1, <2>5 DEF Advances
      <4>2. resume_ev[id] \in Resumes \cup {None}
        BY <2>1 DEF TypeInv, TypeOK
      <4> QED
        BY <2>1, <4>1, <4>2 DEF ClientInv, EvidenceResumed
    <3> QED
      BY <2>2, <2>3, <3>2, <3>3, <3>4
  <2> QED
    BY <2>4, <2>5
<1> QED
  BY <1>2, <1>4, <1>5, <1>6 DEF ClientInv

\* No step breaks the client's invariant. What a client is told of the row (<1>3) is
\* the row at that moment, and final; its own attempt begins only when it posts (<1>4),
\* so that a row somebody resumed while it polled is not its own.
LEMMA ClientInvStep ==
    ASSUME ClientsAssumption, TypeInv, TypeInv', IInv, IInv', ClientTypeOK, ClientInv,
           [ClientNext]_allVars
    PROVE  ClientInv'
<1>0. [Next]_vars
  BY ClientStepIsNext DEF ClientInv
<1>a. EvidenceResumed' /\ AttemptsDated'
  BY <1>0, AttemptsStep DEF ClientInv
<1>1. ASSUME c_vars' = c_vars, \A c \in Clients : r_pc[c] = "idle" => r_pc'[c] = "idle"
      PROVE  ClientInv'
  BY <1>0, <1>1, <1>a, ClientInvUnderTable
<1>2. ASSUME NEW c \in Clients, NEW id \in Ids, NEW t \in Tenants, InvokeParked(c, id, t)
      PROVE  ClientInv'
  <2>1. /\ c_pc[c] = "idle" /\ r_pc[c] = "idle"
        /\ c_pc' = [c_pc EXCEPT ![c] = "waiting"] /\ c_id' = [c_id EXCEPT ![c] = id]
        /\ r_vars' = r_vars /\ resume_ev' = resume_ev /\ clock' = clock
    BY <1>2 DEF InvokeParked, CreatePending, ClientInv, ClientHasId
  <2>2. ASSUME NEW b \in Clients, c_id[b] \in Ids PROVE Forward(c_id[b])
    BY <1>0, <2>2, RowsForward
  <2>3. /\ r_pc' = r_pc /\ r_id' = r_id
        /\ \A b \in Clients \ {c} : c_pc'[b] = c_pc[b] /\ c_id'[b] = c_id[b]
        /\ c_pc'[c] = "waiting" /\ c_id'[c] = id
    BY <2>1 DEF r_vars, ClientTypeOK
  <2>4. ClientHasId'
    BY <2>1, <2>3 DEF ClientInv, ClientHasId
  <2>5. ApprovalStands'
    BY <2>1, <2>2, <2>3 DEF ClientInv, ClientHasId, ApprovalStands, Forward
  <2>6. ClientHonest'
    <3> SUFFICES ASSUME NEW b \in Clients \ {c}
                 PROVE  /\ c_pc[b] = "denied" => status'[c_id[b]] = "denied"
                        /\ c_pc[b] = "expired" => status'[c_id[b]] = "expired"
                        /\ c_pc[b] = "taken" => resume_ev'[c_id[b]] \in Resumes \ {b}
                        /\ c_pc[b] = "resumed" =>
                              status'[c_id[b]] = "resumed" /\ resume_ev'[c_id[b]] = b
      BY <2>3 DEF ClientHonest
    <3>1. c_pc[b] \notin {"idle", "answered", "error"} => Forward(c_id[b])
      BY <2>2 DEF ClientInv, ClientHasId
    <3> QED
      BY <2>1, <3>1 DEF ClientInv, ClientHonest, Forward
  <2>7. ApprovalNotWasted'
    <3> SUFFICES ASSUME NEW b \in Clients, r_pc[b] \in {"refused", "late"}
                 PROVE  \/ resume_ev[c_id'[b]] \in Resumes \ {b}
                        \/ expires_at'[c_id'[b]] <= clock
      BY <2>1, <2>3 DEF ApprovalNotWasted
    <3>1. /\ b # c /\ c_id'[b] = c_id[b]
          /\ c_id[b] \in Ids /\ status[c_id[b]] \in {"approved", "resumed"}
      BY <2>1, <2>3 DEF ClientInv, ClientHasId, ApprovalStands
    <3>2. expires_at'[c_id[b]] = expires_at[c_id[b]]
      BY <2>2, <3>1 DEF Forward
    <3> QED
      BY <3>1, <3>2 DEF ClientInv, ApprovalNotWasted
  <2> QED
    BY <1>a, <2>4, <2>5, <2>6, <2>7 DEF ClientInv
<1>3. ASSUME NEW c \in Clients, Poll(c) PROVE ClientInv'
  <2> DEFINE id == c_id[c]
  <2>1. /\ c_pc[c] = "waiting" /\ r_pc[c] = "idle" /\ c \in Resumes
        /\ id \in Ids /\ status[id] \in {"approved", "denied", "expired", "resumed"}
    BY <1>3 DEF Poll, Seen, ClientInv, ClientHasId, ClientsAssumption
  <2>2. /\ UNCHANGED vars /\ c_id' = c_id
        /\ \A b \in Clients \ {c} : c_pc'[b] = c_pc[b]
        /\ c_pc'[c] = CASE status[id] = "approved" -> "resuming"
                        [] status[id] = "denied" -> "denied"
                        [] status[id] = "expired" -> "expired"
                        [] status[id] = "resumed" -> "taken"
    BY <1>3, <2>1 DEF Poll, Seen, Becomes, ClientTypeOK
  <2>3. status' = status /\ resume_ev' = resume_ev /\ r_pc' = r_pc /\ r_id' = r_id
        /\ expires_at' = expires_at /\ clock' = clock
    BY <2>2 DEF vars, table, r_vars
  <2>4. ClientHasId'
    BY <2>1, <2>2, <2>3 DEF ClientInv, ClientHasId
  <2>5. ApprovalStands'
    BY <2>1, <2>2, <2>3 DEF ClientInv, ApprovalStands
  <2>6. ApprovalNotWasted'
    BY <2>2, <2>3 DEF ClientInv, ApprovalNotWasted
  <2>7. status[id] = "resumed" => resume_ev[id] \in Resumes \ {c}
    <3>1. status[id] = "resumed" => resume_ev[id] # None
      BY <2>1 DEF IInv, OneResume
    <3>2. resume_ev[id] \in Resumes \cup {None}
      BY <2>1 DEF TypeInv, TypeOK
    <3> QED
      BY <2>1, <3>1, <3>2 DEF ClientInv, EvidenceResumed
  <2>8. ClientHonest'
    <3>1. ASSUME NEW b \in Clients \ {c}
          PROVE  /\ c_pc'[b] = "denied" => status'[c_id'[b]] = "denied"
                 /\ c_pc'[b] = "expired" => status'[c_id'[b]] = "expired"
                 /\ c_pc'[b] = "taken" => resume_ev'[c_id'[b]] \in Resumes \ {b}
                 /\ c_pc'[b] = "resumed" =>
                       status'[c_id'[b]] = "resumed" /\ resume_ev'[c_id'[b]] = b
      BY <2>2, <2>3 DEF ClientInv, ClientHonest
    <3>2. /\ c_pc'[c] = "denied" => status'[c_id'[c]] = "denied"
          /\ c_pc'[c] = "expired" => status'[c_id'[c]] = "expired"
          /\ c_pc'[c] = "taken" => resume_ev'[c_id'[c]] \in Resumes \ {c}
          /\ c_pc'[c] # "resumed"
      BY <2>1, <2>2, <2>3, <2>7
    <3> QED
      BY <3>1, <3>2 DEF ClientHonest
  <2> QED
    BY <1>a, <2>4, <2>5, <2>6, <2>8 DEF ClientInv
<1>4. ASSUME NEW c \in Clients, PostResume(c) PROVE ClientInv'
  <2> DEFINE id == c_id[c]
  <2>1. /\ c_pc[c] = "resuming" /\ r_pc[c] = "idle" /\ c \in Resumes /\ id \in Ids
        /\ r_pc' = [r_pc EXCEPT ![c] = "called"] /\ r_id' = [r_id EXCEPT ![c] = id]
        /\ UNCHANGED <<clock, table, c_id>>
        /\ c_pc' = [c_pc EXCEPT ![c] = "posted"]
    BY <1>4 DEF PostResume, ResumeCall, Becomes, ClientInv, ClientHasId, ClientsAssumption
  <2>2. /\ \A b \in Clients \ {c} : /\ c_pc'[b] = c_pc[b] /\ r_pc'[b] = r_pc[b]
                                    /\ r_id'[b] = r_id[b]
        /\ c_pc'[c] = "posted" /\ r_pc'[c] = "called" /\ r_id'[c] = id
        /\ c_id' = c_id
    BY <2>1 DEF ClientTypeOK, TypeInv, TypeOK, ClientsAssumption
  <2>3. /\ status' = status /\ resume_ev' = resume_ev
        /\ expires_at' = expires_at /\ clock' = clock
    BY <2>1 DEF table
  <2>4. ClientHasId'
    BY <2>1, <2>2 DEF ClientInv, ClientHasId
  <2>5. ApprovalStands'
    BY <2>1, <2>2, <2>3 DEF ClientInv, ApprovalStands
  <2>6. ApprovalNotWasted'
    BY <2>2, <2>3 DEF ClientInv, ApprovalNotWasted
  <2>7. ClientHonest'
    BY <2>2, <2>3 DEF ClientInv, ClientHonest
  <2> QED
    BY <1>a, <2>4, <2>5, <2>6, <2>7 DEF ClientInv
<1>5. ASSUME NEW c \in Clients,
             \/ InvokeReturns(c) \/ PollRefused(c) \/ GiveUp(c)
             \/ ResumeAnswered(c) \/ ResumeLost(c)
      PROVE  ClientInv'
  <2>1. /\ UNCHANGED vars /\ c_id' = c_id
        /\ \A b \in Clients \ {c} : c_pc'[b] = c_pc[b]
        /\ \/ c_pc[c] \in {"idle", "waiting"} /\ c_pc'[c] \in {"answered", "error", "timeout"}
           \/ c_pc[c] = "posted" /\ r_pc[c] = "resumed" /\ c_pc'[c] = "resumed"
           \/ c_pc[c] = "posted" /\ c_pc'[c] \in {"refused", "error"}
        /\ c_pc'[c] = "timeout" => c_pc[c] = "waiting"
    BY <1>5 DEF InvokeReturns, PollRefused, GiveUp, ResumeAnswered, ResumeLost, Becomes,
       ClientTypeOK
  <2>2. /\ status' = status /\ resume_ev' = resume_ev /\ r_pc' = r_pc /\ r_id' = r_id
        /\ expires_at' = expires_at /\ clock' = clock
    BY <2>1 DEF vars, table, r_vars
  <2>3. ClientHasId'
    BY <2>1, <2>2 DEF ClientInv, ClientHasId
  <2>4. ApprovalStands'
    BY <2>1, <2>2 DEF ClientInv, ApprovalStands
  <2>5. ApprovalNotWasted'
    BY <2>1, <2>2 DEF ClientInv, ApprovalNotWasted
  <2>6. c_pc'[c] = "resumed" => status[c_id[c]] = "resumed" /\ resume_ev[c_id[c]] = c
    <3> SUFFICES ASSUME c_pc'[c] = "resumed"
                 PROVE  status[c_id[c]] = "resumed" /\ resume_ev[c_id[c]] = c
      OBVIOUS
    <3>1. /\ r_pc[c] = "resumed" /\ c \in Resumes
          /\ r_id[c] = c_id[c] /\ c_id[c] \in Ids
      BY <2>1 DEF ClientInv, ClientHasId, ClientsAssumption
    <3> QED
      BY <3>1 DEF IInv, OneResume
  <2>7. ClientHonest'
    BY <2>1, <2>2, <2>6 DEF ClientInv, ClientHonest
  <2> QED
    BY <1>a, <2>3, <2>4, <2>5, <2>7 DEF ClientInv
<1>6. CASE UNCHANGED allVars
  BY <1>1, <1>6 DEF allVars, vars, r_vars
<1>7. CASE TableStep
  BY <1>1, <1>7 DEF TableStep
<1> QED
  BY <1>2, <1>3, <1>4, <1>5, <1>6, <1>7 DEF ClientNext, Act

LEMMA ClientInvariantHolds ==
    ASSUME ClientsAssumption
    PROVE  ClientSpec => [](TypeInv /\ IInv /\ ClientTypeOK /\ ClientInv)
<1> DEFINE Inv == TypeInv /\ IInv /\ ClientTypeOK /\ ClientInv
<1>1. ClientInit => Inv
  <2> SUFFICES ASSUME ClientInit PROVE Inv
    OBVIOUS
  <2>1. TypeInv /\ IInv
    BY InvariantInit DEF ClientInit
  <2>2. ClientTypeOK
    BY <2>1 DEF ClientInit, ClientTypeOK, TypeInv, Time
  <2>3. ClientInv
    BY DEF ClientInit, Init, ClientInv, EvidenceResumed, AttemptsDated, ClientHasId,
       ApprovalStands, ClientHonest, ApprovalNotWasted, ClientsAssumption
  <2> QED
    BY <2>1, <2>2, <2>3
<1>2. Inv /\ [ClientNext]_allVars => Inv'
  <2> SUFFICES ASSUME Inv, [ClientNext]_allVars PROVE Inv'
    OBVIOUS
  <2>1. [Next]_vars
    BY ClientStepIsNext DEF ClientInv
  <2>2. TypeInv'
    BY <2>1, TypeStep
  <2>3. IInv'
    BY <2>1, <2>2, InvariantStep
  <2>4. ClientTypeOK'
    BY <2>2, ClientTypeStep
  <2>5. ClientInv'
    BY <2>2, <2>3, ClientInvStep
  <2> QED
    BY <2>2, <2>3, <2>4, <2>5
<1> QED
  BY <1>1, <1>2, PTL DEF ClientSpec

\* Clients do to the table what PendingInvocations lets its callers do and no more: all
\* that is proved of the table holds while clients, approvers, sweeps and other resume
\* attempts share it.
THEOREM ClientsUseTheTable == ASSUME ClientsAssumption PROVE ClientSpec => Spec
<1>1. ClientInit => Init
  BY DEF ClientInit
<1>2. ClientInv /\ [ClientNext]_allVars => [Next]_vars
  BY ClientStepIsNext DEF ClientInv
<1> QED
  BY <1>1, <1>2, ClientInvariantHolds, PTL DEF ClientSpec, Spec

\* What a client of the gateway tells its agent of a parked request is and stays true of
\* the row; a client that saw the approval is turned away only if the row was resumed by
\* another or has expired; and of all the attempts one is told True.
THEOREM ClientKeptHolds == ASSUME ClientsAssumption PROVE ClientSpec => []ClientKept
<1>1. IInv /\ ClientInv => ClientKept
  BY DEF IInv, ClientInv, ClientKept, ReturningDecides
<1> QED
  BY <1>1, ClientInvariantHolds, PTL
=============================================================================
