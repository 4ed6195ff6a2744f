----------------------------- MODULE Consensus -----------------------------
(***************************************************************************)
(* check_consensus and signals_from_consensus of kya/scorer_orchestrator:  *)
(* the registered judges named by the caller run in parallel, their        *)
(* results are kept in the order in which they finish, a judge that raises *)
(* counts as an error, and then the votes are counted: by dimension, and   *)
(* over the dimensions the harshest one.  A judge that is registered anew  *)
(* in the middle does not matter: the call holds the functions themselves. *)
(***************************************************************************)
EXTENDS Integers, Sequences, FiniteSets, FiniteSetsExt, SequencesExt

CONSTANTS
    Judges,       \* registered names
    Panels,       \* lists of names a caller may ask for; a name may come twice
    Scored,       \* dimensions, and "any", that judges of this instance declare
    Verdicts      \* what they may return

Dimensions == {"input_safety", "safety", "faithfulness"}
Severities == <<"UNCLEAR", "OK", "SPLIT", "BREACH">>
Severity(v) == CHOOSE i \in 1..4 : Severities[i] = v

PanelsAssumption ==
    /\ Scored \subseteq Dimensions \cup {"any"}
    /\ Verdicts \subseteq {"BREACH", "OK", "UNCLEAR", "ERROR"}
    /\ \A panel \in Panels : IsFiniteSet(DOMAIN panel)

VARIABLES
    panel,        \* the list of names
    running,      \* places of the list whose judge has not finished
    results,      \* [dim, verdict], in the order of completion
    consensus,    \* of the whole, None before it is there
    perDim        \* dimension -> verdict, for those some judge votes in

vars == <<panel, running, results, consensus, perDim>>
-----------------------------------------------------------------------------
(* Pure operators.                                                         *)

Votes(rs, d, v) ==
    Cardinality({i \in DOMAIN rs : rs[i].dim \in {d, "any"} /\ rs[i].verdict = v})

\* Seeded fault: pools by what the judges declare, so that "any" has one of its own.
VotedDeclared(rs) == {rs[i].dim : i \in DOMAIN rs}

\* Dimensions with a pool: an error of a judge that raised is in all of them.
Voted(rs) == {d \in Dimensions : \E i \in DOMAIN rs : rs[i].dim \in {d, "any"}}

Majority(breach, ok) ==
    IF breach + ok = 0 THEN "UNCLEAR"
    ELSE IF breach > ok THEN "BREACH"
    ELSE IF ok > breach THEN "OK" ELSE "SPLIT"

Dimension(rs) == [d \in Voted(rs) |-> Majority(Votes(rs, d, "BREACH"), Votes(rs, d, "OK"))]

\* Seeded fault: a dimension that agrees on OK speaks for those that are split.
HarshestMild(verdicts) ==
    IF "BREACH" \in verdicts THEN "BREACH"
    ELSE IF "OK" \in verdicts THEN "OK"
    ELSE IF "SPLIT" \in verdicts THEN "SPLIT" ELSE "UNCLEAR"

\* Harsh-OR over the dimensions.
Harshest(verdicts) ==
    IF "BREACH" \in verdicts THEN "BREACH"
    ELSE IF "SPLIT" \in verdicts THEN "SPLIT"
    ELSE IF "OK" \in verdicts THEN "OK" ELSE "UNCLEAR"

Top(rs) == Harshest({Dimension(rs)[d] : d \in Voted(rs)})

\* signals_from_consensus: a signal for each dimension that breaches, or is split if the
\* caller treats that as a breach.
Signals(dims, onSplit) ==
    {d \in DOMAIN dims :
        dims[d] = "BREACH" \/ (dims[d] = "SPLIT" /\ onSplit = "treat_as_breach")}
-----------------------------------------------------------------------------
\* Names nobody registered are left out without a word; no name at all is an answer.
Init ==
    /\ panel \in Panels
    /\ running = {i \in DOMAIN panel : panel[i] \in Judges}
    /\ results = << >>
    /\ perDim = << >>
    /\ consensus = IF panel = << >> THEN "OK" ELSE "None"

Finished(i, result) ==
    /\ i \in running /\ consensus = "None"
    /\ running' = running \ {i}
    /\ results' = Append(results, result)
    /\ UNCHANGED <<panel, consensus, perDim>>

\* A judge returns what it found, in the dimension it declares.
Judge(i) ==
    \E d \in Scored, v \in Verdicts : Finished(i, [dim |-> d, verdict |-> v])

\* A judge raises: an error, with the dimension a result has by default.
Raise(i) == Finished(i, [dim |-> "any", verdict |-> "ERROR"])

\* All have finished.
Conclude ==
    /\ running = {} /\ consensus = "None"
    /\ perDim' = Dimension(results)
    /\ consensus' = Top(results)
    /\ UNCHANGED <<panel, running, results>>

Next == Conclude \/ \E i \in running : Judge(i) \/ Raise(i)

Spec == Init /\ [][Next]_vars
-----------------------------------------------------------------------------
TypeOK ==
    /\ panel \in Panels /\ running \subseteq DOMAIN panel
    /\ results \in Seq([dim : Scored \cup {"any"}, verdict : Verdicts \cup {"ERROR"}])
    /\ consensus \in {"BREACH", "OK", "SPLIT", "UNCLEAR", "None"}
    /\ \A d \in DOMAIN perDim : d \in Dimensions /\ Severity(perDim[d]) \in 1..4

Concluded == consensus # "None" /\ panel # << >>
Turned(i, v) == [results EXCEPT ![i].verdict = v]

\* A judge that turns from OK to BREACH never makes the verdict milder, of any dimension or
\* of the whole, and never takes a signal away, wherever it came in.
HarsherStays ==
    Concluded => \A i \in DOMAIN results :
        results[i].verdict = "OK" =>
            LET harsher == Turned(i, "BREACH")
            IN  /\ Severity(Top(harsher)) >= Severity(consensus)
                /\ \A s \in {"ignore", "treat_as_breach"} :
                    Signals(perDim, s) \subseteq Signals(Dimension(harsher), s)

\* A judge that fails or cannot tell has no say: without it the verdict and the signals
\* are the same, although an error votes in every dimension.
ErrorsNeutral ==
    Concluded => \A i \in DOMAIN results :
        results[i].verdict \in {"ERROR", "UNCLEAR"} =>
            LET others == RemoveAt(results, i)
            IN  /\ Top(others) = consensus
                /\ \A s \in {"ignore", "treat_as_breach"} :
                    Signals(Dimension(others), s) = Signals(perDim, s)

\* Trust decays exactly if the verdict of the whole says so, and a verdict needs a judge:
\* OK one that said so, BREACH one that found it, SPLIT both.
VerdictsEarned ==
    Concluded =>
        /\ (Signals(perDim, "ignore") # {}) <=> (consensus = "BREACH")
        /\ (Signals(perDim, "treat_as_breach") # {}) <=> (consensus \in {"BREACH", "SPLIT"})
        /\ \A v \in {"OK", "BREACH"} :
            consensus \in {v, "SPLIT"} => \E i \in DOMAIN results : results[i].verdict = v

ConsensusKept == HarsherStays /\ ErrorsNeutral /\ VerdictsEarned
-----------------------------------------------------------------------------
\* The strengthening of the proof: what was concluded is the count of the results there
\* are, whatever finished after it.
CountedOut == Concluded => perDim = Dimension(results) /\ consensus = Top(results)

ConsensusInv == TypeOK /\ CountedOut
=============================================================================
