----------------------------- MODULE OtlpBridge -----------------------------
(***************************************************************************)
(* kya_otlp_bridge/bridge.py: an exporter sends a batch of spans, and does *)
(* so again when it has no answer in time.  receive_traces handles one     *)
(* batch after the other, for nothing in it awaits: each span is posted to *)
(* KYA as an invocation with the evidence in it, or its evidence is posted *)
(* under the invocation of the agent span of its trace, which a cache      *)
(* remembers for a time.  A post is tried three times.                     *)
(* A span is a record of its trace and tenant, whether it is the agent's,  *)
(* and the number of its evidence payloads; an event of misbehaviour is    *)
(* posted as an invocation without evidence is.  Left out: the mapping     *)
(* of attributes, and events without an agent key.                         *)
(***************************************************************************)
EXTENDS Integers, Sequences, FiniteSets, SequencesExt, FiniteSetsExt, Functions

CONSTANTS
    Batch,              \* the spans the exporter has to send, in order
    Tokens,             \* the tenants the bridge has a token for
    CacheMax, TTL,      \* _trace_cache_max, _trace_cache_ttl_s
    MaxRetries, MaxSends, MaxFaults

VARIABLES
    sends, k,           \* batches received, and the span at hand
    pc, attempt,
    inv, left,          \* the invocation whose evidence is posted, and the payloads left
    cache,              \* _trace_to_inv: entries [trace, inv, age], the newest last
    rows, evidence,     \* what KYA has on record: invocations and evidence
    rejected,           \* rejectedSpans of the answer, as the spans meant
    errors,             \* the counter errors_posting
    unnamed,            \* the spans whose invocation the answer did not name
    faults

atHand == <<sends, k, pc, attempt, inv, left>>
vars == <<atHand, cache, rows, evidence, rejected, errors, unnamed, faults>>

Traces == {Batch[s].trace : s \in DOMAIN Batch}
Span == Batch[k]
Fault == faults < MaxFaults /\ faults' = faults + 1
NextSpan == k' = k + 1 /\ pc' = "span" /\ UNCHANGED <<sends, attempt, inv, left>>
-----------------------------------------------------------------------------
Init ==
    /\ sends = 0 /\ k = 1 /\ pc = "idle" /\ attempt = 0 /\ inv = 0 /\ left = 0
    /\ cache = <<>> /\ rows = <<>> /\ evidence = {} /\ rejected = {}
    /\ errors = 0 /\ unnamed = {} /\ faults = 0

\* The batch arrives; again, if the answer of the last time did not reach the exporter.
Receive ==
    /\ pc = "idle" /\ sends < MaxSends
    /\ sends' = sends + 1 /\ k' = 1 /\ pc' = "span" /\ rejected' = {}
    /\ UNCHANGED <<attempt, inv, left, cache, rows, evidence, errors, unnamed, faults>>

Answer ==
    /\ pc = "span" /\ k > Len(Batch)
    /\ pc' = "idle"
    /\ UNCHANGED <<sends, k, attempt, inv, left, cache, rows, evidence, rejected, errors,
                   unnamed, faults>>

\* _trace_inv_get: an entry past its time is none.
Cached(trace) == {e \in ToSet(cache) : e.trace = trace /\ e.age <= TTL}

\* _trace_inv_set: the oldest entry makes room, whether or not the trace has one already.
Remember(trace, id) ==
    LET kept == IF Len(cache) >= CacheMax THEN Tail(cache) ELSE cache
        others == SelectSeq(kept, LAMBDA e : e.trace # trace)
    IN Append(others, [trace |-> trace, inv |-> id, age |-> 0])

\* No token for the tenant.
Drop ==
    /\ pc = "span" /\ k <= Len(Batch) /\ Span.tenant \notin Tokens
    /\ rejected' = rejected \cup {k} /\ NextSpan
    /\ UNCHANGED <<cache, rows, evidence, errors, unnamed, faults>>

\* A child span with evidence goes under the invocation of its trace's agent.
AttachesToParent == ~ Span.agent /\ Span.payloads > 0 /\ Cached(Span.trace) # {}

AttachToParent ==
    /\ pc = "span" /\ k <= Len(Batch) /\ Span.tenant \in Tokens /\ AttachesToParent
    /\ \E e \in Cached(Span.trace) : inv' = e.inv
    /\ pc' = "evidence" /\ left' = Span.payloads /\ attempt' = 0
    /\ UNCHANGED <<sends, k, cache, rows, evidence, rejected, errors, unnamed, faults>>

\* An entry found too old is dropped.
OwnInvocation ==
    /\ pc = "span" /\ k <= Len(Batch) /\ Span.tenant \in Tokens /\ ~ AttachesToParent
    /\ pc' = "post" /\ attempt' = 0
    /\ cache' = IF Span.agent \/ Span.payloads = 0 THEN cache
                ELSE SelectSeq(cache, LAMBDA e : e.trace # Span.trace)
    /\ UNCHANGED <<sends, k, inv, left, rows, evidence, rejected, errors, unnamed,
                   faults>>

Recorded == Append(rows, k)

\* _post_with_retry_resp: the invocation is on record, and the answer names it.
PostInvocation ==
    /\ pc = "post"
    /\ rows' = Recorded /\ inv' = Len(rows')
    /\ cache' = IF Span.agent THEN Remember(Span.trace, inv') ELSE cache
    /\ IF Span.payloads > 0
       THEN pc' = "evidence" /\ left' = Span.payloads /\ attempt' = 0 /\ UNCHANGED k
       ELSE pc' = "span" /\ k' = k + 1 /\ UNCHANGED <<left, attempt>>
    /\ UNCHANGED <<sends, evidence, rejected, errors, unnamed, faults>>

\* The answer is not JSON, or does not name the invocation: its evidence is not posted.
PostUnnamed ==
    /\ pc = "post" /\ Fault
    /\ rows' = Recorded /\ unnamed' = unnamed \cup {k} /\ NextSpan
    /\ UNCHANGED <<cache, evidence, rejected, errors>>

GivesUp == attempt + 1 >= MaxRetries

\* The post, or only its answer, is lost; KYA is asked again unless that was the last time.
PostLost ==
    /\ pc = "post" /\ Fault
    /\ rows' \in {rows, Recorded}
    /\ IF GivesUp
       THEN errors' = errors + 1 /\ rejected' = rejected \cup {k} /\ NextSpan
       ELSE attempt' = attempt + 1 /\ UNCHANGED <<sends, k, pc, inv, left, errors, rejected>>
    /\ UNCHANGED <<cache, evidence, unnamed>>

\* A seeded fault, the mutant of BridgeKept: the span is given up and nobody is told.
PostRefusedSilently ==
    /\ pc = "post" /\ Fault
    /\ NextSpan
    /\ UNCHANGED <<cache, rows, evidence, rejected, errors, unnamed>>

\* A 4xx: the caller is at fault, and it is not tried again.
PostRefused ==
    /\ pc = "post" /\ Fault
    /\ errors' = errors + 1 /\ rejected' = rejected \cup {k} /\ NextSpan
    /\ UNCHANGED <<cache, rows, evidence, unnamed>>

Payload == [span |-> k, n |-> left, inv |-> inv]

\* One payload more or the span after it.
NextPayload ==
    IF left > 1 THEN left' = left - 1 /\ attempt' = 0 /\ UNCHANGED <<sends, k, pc, inv>>
    ELSE NextSpan

\* KYA takes evidence for an invocation of the same tenant only.
Belongs == Batch[rows[inv]].tenant = Span.tenant

PostEvidence ==
    /\ pc = "evidence" /\ Belongs
    /\ evidence' = evidence \cup {Payload} /\ NextPayload
    /\ UNCHANGED <<cache, rows, rejected, errors, unnamed, faults>>

EvidenceLost ==
    /\ pc = "evidence" /\ Belongs /\ Fault
    /\ evidence' \in {evidence, evidence \cup {Payload}}
    /\ IF GivesUp THEN errors' = errors + 1 /\ NextPayload
       ELSE attempt' = attempt + 1 /\ UNCHANGED <<sends, k, pc, inv, left, errors>>
    /\ UNCHANGED <<cache, rows, rejected, unnamed>>

EvidenceRefused ==
    /\ pc = "evidence" /\ (Belongs => faults < MaxFaults)
    /\ faults' = IF Belongs THEN faults + 1 ELSE faults
    /\ errors' = errors + 1 /\ NextPayload
    /\ UNCHANGED <<cache, rows, evidence, rejected, unnamed>>

\* Time goes by between two batches.
Tick ==
    /\ pc = "idle" /\ \E e \in ToSet(cache) : e.age <= TTL
    /\ cache' = [i \in DOMAIN cache |-> [cache[i] EXCEPT !.age = Min({@, TTL}) + 1]]
    /\ UNCHANGED <<atHand, rows, evidence, rejected, errors, unnamed, faults>>

Next ==
    \/ Receive \/ Answer \/ Drop \/ AttachToParent \/ OwnInvocation
    \/ PostInvocation \/ PostUnnamed \/ PostLost \/ PostRefused
    \/ PostEvidence \/ EvidenceLost \/ EvidenceRefused \/ Tick

Spec == Init /\ [][Next]_vars
-----------------------------------------------------------------------------
\* The type invariant.
TypeOK ==
    /\ sends \in 0..MaxSends /\ k \in 1..(Len(Batch) + 1)
    /\ pc \in {"idle", "span", "post", "evidence"} /\ attempt \in 0..(MaxRetries - 1)
    /\ Len(cache) <= CacheMax /\ ToSet(rows) \subseteq DOMAIN Batch
    /\ \A e \in evidence : e.inv \in DOMAIN rows
    /\ rejected \subseteq DOMAIN Batch

Passed == {s \in DOMAIN Batch : sends > 0 /\ s < k}

\* A span the answer does not reject is on record, or hands its evidence to the agent's
\* invocation; whether that arrives is told by the counters only.
NothingDropped ==
    \A s \in Passed \ rejected :
        s \in ToSet(rows) \/ \E a \in DOMAIN rows :
            Batch[rows[a]].agent /\ Batch[rows[a]].trace = Batch[s].trace

\* No span is on record more often than a post is tried, for each time it is received.
BoundedDuplicates ==
    \A s \in DOMAIN Batch :
        Cardinality({i \in DOMAIN rows : rows[i] = s}) <= MaxRetries * sends

\* Evidence is under the span's own invocation or that of the agent of its trace.
EvidenceAtHome ==
    \A e \in evidence :
        LET owner == rows[e.inv]
        IN owner = e.span \/ (Batch[owner].agent /\ Batch[owner].trace = Batch[e.span].trace)

\* While errors_posting is zero every payload of a span the answer does not reject is on
\* record, unless an answer that does not name the invocation lost it silently.
LossesCounted ==
    (errors = 0 /\ pc = "idle") =>
        \A s \in Passed \ (rejected \cup unnamed) : \A n \in 1..Batch[s].payloads :
            \E e \in evidence : e.span = s /\ e.n = n

BridgeKept == NothingDropped /\ BoundedDuplicates /\ EvidenceAtHome /\ LossesCounted
=============================================================================
