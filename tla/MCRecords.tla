----------------------------- MODULE MCRecords -----------------------------
(***************************************************************************)
(* Instances of the records kept about agents: partial matches of attack   *)
(* chains, versions of a definition, an edge of the principal graph, and   *)
(* recommendations for a weight.  The module extends that of the           *)
(* recommendations, whose constants the configuration gives.  Each         *)
(* behaviour is one of one of the parts: "part" says which; in the others  *)
(* nothing is fetched, and the variables of the other parts keep Unused.   *)
(***************************************************************************)
EXTENDS Inbound, TLC

CONSTANTS c1, c2, c3, c4, Unused

VARIABLES
    part, v_pc, attempt,
    rule, kept, at, store, match, held, taken, ready, emitted, order, raced, disturbed,
    def, versions, seen, latest, number, override, checked, operated, failures,
    deployment, row, flushed, holder, edgeLock, found, earlier, removed

chainVars == <<rule, kept, at, store, match, held, taken, ready, emitted, order, raced,
               disturbed>>
versionVars == <<def, versions, seen, latest, number, override, checked, operated, failures>>
edgeVars == <<deployment, row, flushed, holder, edgeLock, found, earlier, removed>>
recordsVars == <<part, vars, v_pc, attempt, chainVars, versionVars, edgeVars>>

\* Four events of three kinds; rules in order and joins, with limits and without.
Events == {c1, c2, c3, c4}
Kinds == c1 :> "a" @@ c2 :> "b" @@ c3 :> "a" @@ c4 :> "c"
Step(kind, after, within) == [kind |-> kind, after |-> after, within |-> within]
Rule(mode, window, steps) == [mode |-> mode, window |-> window, steps |-> steps]
Rules ==
    {Rule("linear", 0, <<Step("b", {}, 0), Step("a", {}, 0), Step("c", {}, 0)>>),
     Rule("linear", 0, <<Step("a", {}, 0), Step("b", {1}, 0), Step("a", {2}, 0)>>),
     Rule("linear", 3, <<Step("a", {}, 0), Step("b", {1}, 2), Step("a", {1, 2}, 2)>>),
     Rule("dag", 0, <<Step("b", {}, 0), Step("a", {}, 0), Step("c", {1, 2}, 0)>>),
     Rule("dag", 3, <<Step("b", {}, 0), Step("a", {1}, 2), Step("a", {1, 2}, 2)>>)}
Clocks == {[e \in Events |-> 0],
           c1 :> 0 @@ c2 :> 2 @@ c3 :> 4 @@ c4 :> 5,
           c1 :> 1 @@ c2 :> 0 @@ c3 :> 4 @@ c4 :> 3}
Chain == INSTANCE AttackChains WITH KindOf <- Kinds, pc <- v_pc

\* Four calls of three processes, the last of which brings another definition.
Version == INSTANCE AgentVersions WITH
    Calls <- Events, ProcessOf <- c1 :> "p" @@ c2 :> "p" @@ c3 :> "q" @@ c4 :> "r",
    Definitions <- {"d", "e"}, Attempts <- 2, MaxFailures <- 1,
    Brought <- {c1 :> "d" @@ c2 :> "d" @@ c3 :> "d" @@ c4 :> "e"}, pc <- v_pc

\* Three calls on PostgreSQL, on MySQL and on SQLite in one process or two.
OneProcess == [c \in {c1, c2, c3} |-> "p"]
TwoProcesses == c1 :> "p" @@ c2 :> "p" @@ c3 :> "q"
Deployments ==
    [dialect : {"postgresql", "mysql", "sqlite"}, process : {OneProcess, TwoProcesses},
     owned : {{}, {c2}}]
Edge == INSTANCE PrincipalEdges WITH
    Calls <- {c1, c2, c3}, Leased <- {c1}, Attempts <- 2, pc <- v_pc

\* Two recommendations, one of them above and one below the built-in weight: the
\* constants of Inbound.
Asked == [r |-> 7, s |-> 4]
Decision(op, rec) == [op |-> op, rec |-> rec]
Decisions ==
    {Decision("fetch", "r"), Decision("fetch", "s"), Decision("approve", "r"),
     Decision("approve", "s"), Decision("reject", "r")}

ASSUME
    /\ Chain!RulesAssumption /\ Chain!EventsAssumption /\ Version!CallsAssumption
    /\ Edge!CallsAssumption /\ Edge!DeploymentsAssumption /\ Edge!NoneAssumption
    /\ RecsAssumption /\ CallsAssumption

NoChain ==
    /\ rule = Unused /\ kept = Unused /\ at = Unused /\ store = Unused /\ match = Unused
    /\ held = Unused /\ taken = Unused /\ ready = Unused /\ emitted = Unused
    /\ order = Unused /\ raced = Unused /\ disturbed = Unused

NoVersion ==
    /\ def = Unused /\ versions = Unused /\ seen = Unused /\ latest = Unused
    /\ number = Unused /\ override = Unused /\ checked = Unused /\ operated = Unused
    /\ failures = Unused

NoEdge ==
    /\ deployment = Unused /\ row = Unused /\ flushed = Unused /\ holder = Unused
    /\ edgeLock = Unused /\ found = Unused /\ earlier = Unused /\ removed = Unused

NoFetch ==
    /\ allowed = {} /\ weight = None /\ status = [r \in Recs |-> None] /\ changes = {}
    /\ rejected = {} /\ pc = [c \in Calls |-> "idle"] /\ crashes = 0

RecordsInit ==
    \/ part = "inbound" /\ Init /\ v_pc = Unused /\ attempt = Unused
       /\ NoChain /\ NoVersion /\ NoEdge
    \/ part = "chain" /\ Chain!Init /\ attempt = Unused /\ NoVersion /\ NoEdge /\ NoFetch
    \/ part = "version" /\ Version!Init /\ NoChain /\ NoEdge /\ NoFetch
    \/ part = "edge" /\ Edge!Init /\ NoChain /\ NoVersion /\ NoFetch

RecordsNext ==
    /\ UNCHANGED part
    /\ \/ part = "inbound" /\ Next
          /\ UNCHANGED <<v_pc, attempt, chainVars, versionVars, edgeVars>>
       \/ part = "chain" /\ Chain!Next
          /\ UNCHANGED <<vars, attempt, versionVars, edgeVars>>
       \/ part = "version" /\ Version!Next /\ UNCHANGED <<vars, chainVars, edgeVars>>
       \/ part = "edge" /\ Edge!Next /\ UNCHANGED <<vars, chainVars, versionVars>>

RecordsSpec == RecordsInit /\ [][RecordsNext]_recordsVars
-----------------------------------------------------------------------------
\* The type invariants of the parts.
RecordsTypeOK ==
    /\ part = "inbound" => TypeOK
    /\ part = "chain" => Chain!TypeOK
    /\ part = "version" => Version!TypeOK
    /\ part = "edge" => Edge!TypeOK

\* The properties of the parts, stated in their modules; InboundKept is checked as it is.
ChainsKept == part = "chain" => Chain!ChainsHonest /\ Chain!ChainsDetected
WithinWindow == part = "chain" => Chain!WithinWindow
AgentsKept ==
    /\ part = "version" => Version!VersionsKept
    /\ part = "edge" => Edge!EdgesKept
=============================================================================
