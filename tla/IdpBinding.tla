----------------------------- MODULE IdpBinding -----------------------------
(***************************************************************************)
(* Principals bound to a subject of an identity provider                   *)
(* (kya/external_id.py), by a token or by a DID with a verifiable          *)
(* credential: the trust row is looked up without a lock and written back  *)
(* by an upsert that names the columns it updates, but carries the others  *)
(* for a row that is gone.  A credential also links its issuer to the      *)
(* principal in the graph, as a best effort after the commit.              *)
(*                                                                         *)
(* The rows are those of PrincipalTrust, on PostgreSQL or MySQL, where a   *)
(* signal holds its row from SELECT to commit.                             *)
(***************************************************************************)
EXTENDS Integers, FiniteSets

CONSTANTS
    Principals,
    Starts,      \* sets of principals that have a row at first
    Binds,       \* [who, subject, issuer]: issuer None for a call without credential
    Signals,     \* [who, nth]: signals, each with an attribute of its own
    Erasures,    \* [who, gone]: deletions of a row (see AliasMigration)
    Trusted,     \* issuers that may be linked
    None

BindsAssumption == \A b \in Binds : b.who \in Principals /\ b.subject # None
SignalsAssumption ==
    /\ \A c \in Signals \cup Erasures : c.who \in Principals
    /\ Signals \cap Binds = {} /\ Signals \cap Erasures = {} /\ Binds \cap Erasures = {}
StartsAssumption == Starts \subseteq SUBSET Principals

\* A row: what signals and credentials give it, and the subject it is bound to.
Subjects == {b.subject : b \in Binds} \cup {None}
Rows == [score : Nat, attributes : SUBSET (Signals \cup Binds), subject : Subjects, at : Nat]
NoneAssumption == None \notin Rows \cup Principals \cup Trusted

VARIABLES
    rows,        \* kya_principal_trust: [score, attributes, subject, at], None for no row
    edges,       \* kya_principal_edges of kind vc_issued
    pc,
    existing,    \* the row as a binding read it
    found,       \* the issuer's principal as a binding looked it up
    clock,       \* orders updated_at
    tally,       \* history: signals on a row since it was created
    revived,     \* history: principals whose row a binding created
    erased,      \* history: those whose row was deleted while a binding was at work on it
    overwritten, \* history: those whose attributes a credential wrote over unread
    bearers      \* history: [who, subject]: bindings that were committed

vars == <<rows, edges, pc, existing, found, clock, tally, revived, erased, overwritten, bearers>>
tale == <<tally, revived, erased, overwritten, bearers>>

NoRow == [score |-> 0, attributes |-> {}, subject |-> None, at |-> 0]
Go(c, step) == pc' = [pc EXCEPT ![c] = step]

Init ==
    /\ \E start \in Starts : rows = [p \in Principals |-> IF p \in start THEN NoRow ELSE None]
    /\ edges = {} /\ clock = 0
    /\ pc = [c \in Binds \cup Signals \cup Erasures |-> "idle"]
    /\ existing = [b \in Binds |-> None] /\ found = [b \in Binds |-> None]
    /\ tally = [p \in Principals |-> {}]
    /\ revived = {} /\ erased = {} /\ overwritten = {} /\ bearers = {}

\* record_principal_signal counts and merges its attributes into the row, or creates it.
Signal(s) ==
    LET row == IF rows[s.who] = None THEN NoRow ELSE rows[s.who]
    IN  /\ pc[s] = "idle"
        /\ rows' = [rows EXCEPT ![s.who] =
                [row EXCEPT !.score = @ + 1, !.attributes = @ \cup {s}, !.at = clock + 1]]
        /\ clock' = clock + 1
        /\ tally' = [tally EXCEPT ![s.who] = @ \cup {s}]
        /\ Go(s, "done")
        /\ UNCHANGED <<edges, existing, found, revived, erased, overwritten, bearers>>

Erase(e) ==
    /\ pc[e] = "idle" /\ rows[e.who] # None
    /\ rows' = [rows EXCEPT ![e.who] = None]
    /\ tally' = [tally EXCEPT ![e.who] = {}]
    /\ erased' = erased \cup {p \in {e.who} : \E b \in Binds : b.who = p /\ pc[b] = "upsert"}
    /\ Go(e, "done")
    /\ UNCHANGED <<edges, existing, found, clock, revived, overwritten, bearers>>

\* No row, no binding.
Select(b) ==
    /\ pc[b] = "idle"
    /\ existing' = [existing EXCEPT ![b] = rows[b.who]]
    /\ Go(b, IF rows[b.who] = None THEN "done" ELSE "upsert")
    /\ UNCHANGED <<rows, edges, found, clock, tale>>

\* Only a credential writes attributes: those that were read and its claims.
Bound(b, row) ==
    [row EXCEPT !.subject = b.subject, !.at = clock + 1,
                !.attributes = IF b.issuer = None THEN @ ELSE existing[b].attributes \cup {b}]

\* INSERT ... ON CONFLICT DO UPDATE of the columns of the binding, and the commit.
Upsert(b) ==
    LET p == b.who
    IN  /\ pc[b] = "upsert"
        /\ rows' = [rows EXCEPT ![p] = Bound(b, IF @ = None THEN existing[b] ELSE @)]
        /\ clock' = clock + 1
        /\ revived' = IF rows[p] = None THEN revived \cup {p} ELSE revived
        /\ overwritten' =
                IF /\ b.issuer # None /\ rows[p] # None
                   /\ ~ rows[p].attributes \subseteq existing[b].attributes
                THEN overwritten \cup {p} ELSE overwritten
        /\ bearers' = bearers \cup {[who |-> p, subject |-> b.subject]}
        /\ Go(b, IF b.issuer \in Trusted /\ b.issuer # b.subject THEN "look" ELSE "done")
        /\ UNCHANGED <<edges, existing, found, tally, erased>>

\* The principal that was last written of those bound to the issuer's DID, if any is.
LookIssuer(b) ==
    LET held == {p \in Principals : rows[p] # None /\ rows[p].subject = b.issuer}
    IN  /\ pc[b] = "look"
        /\ IF held = {} THEN Go(b, "done") /\ UNCHANGED found
           ELSE /\ found' \in {[found EXCEPT ![b] = p] :
                                p \in {p \in held : \A q \in held : rows[q].at <= rows[p].at}}
                /\ Go(b, "link")
        /\ UNCHANGED <<rows, edges, existing, clock, tale>>

Link(b) ==
    /\ pc[b] = "link"
    /\ edges' = edges \cup {[from |-> found[b], to |-> b.who, did |-> b.issuer]}
    /\ Go(b, "done")
    /\ UNCHANGED <<rows, existing, found, clock, tale>>

\* What fails is logged: the binding is undone if it was not committed, and kept without
\* its link if it was.
Fail(b) ==
    /\ pc[b] \in {"upsert", "look", "link"}
    /\ Go(b, "done")
    /\ UNCHANGED <<rows, edges, existing, found, clock, tale>>

Next ==
    \/ \E s \in Signals : Signal(s)
    \/ \E e \in Erasures : Erase(e)
    \/ \E b \in Binds : Select(b) \/ Upsert(b) \/ LookIssuer(b) \/ Link(b) \/ Fail(b)

Spec == Init /\ [][Next]_vars
-----------------------------------------------------------------------------
Present(p) == rows[p] # None

TypeOK ==
    /\ rows \in [Principals -> Rows \cup {None}] /\ existing \in [Binds -> Rows \cup {None}]
    /\ tally \in [Principals -> SUBSET Signals] /\ clock \in Nat
    /\ pc \in [Binds \cup Signals \cup Erasures -> {"idle", "upsert", "look", "link", "done"}]
    /\ found \in [Binds -> Principals \cup {None}]
    /\ \A e \in edges : e.from \in Principals /\ e.to \in Principals

\* A binding leaves the score alone, whatever was recorded since it read the row, unless
\* the row was deleted meanwhile: then it brings the old score back.
ScoresKept ==
    \A p \in Principals :
        (Present(p) /\ p \notin revived) => rows[p].score = Cardinality(tally[p])

\* A binding creates a row only where one was deleted under it.
NoneMade == revived \subseteq erased

\* No attribute of a signal is lost but to a credential that was bound over it, having
\* read the row before.
AttributesKept ==
    \A p \in Principals :
        (Present(p) /\ p \notin overwritten) => tally[p] \subseteq rows[p].attributes

\* An edge is drawn from a principal that was bound to the issuer's DID, to one that was
\* bound with its credential.
EdgesExplained ==
    \A e \in edges :
        /\ [who |-> e.from, subject |-> e.did] \in bearers
        /\ \E b \in Binds : b.who = e.to /\ b.issuer = e.did
                            /\ [who |-> e.to, subject |-> b.subject] \in bearers

BindingsKept == ScoresKept /\ NoneMade /\ AttributesKept /\ EdgesExplained
-----------------------------------------------------------------------------
(* The strengthening of BindingsKept that is inductive.                    *)

\* The tally of a row is of signals that are done, and begins with the row.
TallyTrue ==
    \A p \in Principals :
        /\ IsFiniteSet(tally[p]) /\ \A s \in tally[p] : pc[s] = "done"
        /\ ~ Present(p) => tally[p] = {}

\* A binding at work has read a row; if that is gone it was erased meanwhile.
BindingsRead ==
    \A b \in Binds : pc[b] = "upsert" =>
        existing[b] # None /\ (~ Present(b.who) => b.who \in erased)

\* The subject of a row is one it was bound to, and so are those a link is drawn for.
SubjectsBorne ==
    /\ \A p \in Principals : (Present(p) /\ rows[p].subject # None) =>
            [who |-> p, subject |-> rows[p].subject] \in bearers
    /\ \A b \in Binds :
        /\ pc[b] \in {"look", "link"} =>
                b.issuer # None /\ [who |-> b.who, subject |-> b.subject] \in bearers
        /\ pc[b] = "link" => [who |-> found[b], subject |-> b.issuer] \in bearers
                             /\ found[b] # None

BindingsInv == TypeOK /\ TallyTrue /\ BindingsRead /\ SubjectsBorne /\ BindingsKept
=============================================================================
