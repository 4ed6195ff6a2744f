------------------------------ MODULE MCRules ------------------------------
(***************************************************************************)
(* Instances of the rules that calls are judged by and of what is held     *)
(* against whom: delegations and their overrides, grants of actions,       *)
(* weights, suggestions to raise them and the policy hash, the verdict of  *)
(* the judges, the signals of a rogue event, the rows of a principal as    *)
(* aliases are merged and identities bound, the anchors of chains as the   *)
(* schema is migrated, and the secrets of targets.  The module extends     *)
(* that of the anchors, whose constants the configuration gives.  Each     *)
(* behaviour is one of one of the parts: "part" says which; in the others  *)
(* there is no anchor, and the variables of the rest keep Unused.          *)
(***************************************************************************)
EXTENDS AnchorMigration, FiniteSets, Sequences, TLC

CONSTANTS c1, c2, c3, Unused

VARIABLES
    part, now, spoilt, read,
    env, def, todo, view, modes, outcome, filed, excused, troubled,
    mode, row, nextId, score, found, answer, present, permitted, trusted, overtaken,
    override, cache, under, met, raised,
    key, legacy, tally, counted, hit,
    panel, running, results, consensus, perDim,
    aliases, a_todo, src, dst, held, recorded, worst, a_excused, a_behind,
    s_override, suggestion, overlap, moved, live, lowered,
    edges, existing, b_found, clock, b_tally, revived, erased, overwritten, bearers,
    what, c_pc, c_faults, c_method, c_whose, c_clock, patched, context, started,
    invocation, wraps, ended, inv, i_pc, u_pc, opened, evidence, costs, passes, via,
    raced, failed, hints, explicit, used, unbound, binds, c_running, client, labels,
    c_read, ledger, unanswered, published, goneAt, ttl, c_cache, holder, came, since,
    c_found, shownAt, disabled, tx, c_lock, stop, w_pc, e_pc, window, taken, posted,
    dropped, flushes, last, overlapped,
    plan, k_mode, stage, auth, k_row, k_holder, left, sawAuth, sawRow, sealed, report,
    status, bare, latest, clobbered, crossing, late, k_faults

delegationVars == <<env, def, todo, view, modes, outcome, filed, excused, troubled>>
roleVars == <<mode, row, nextId, score, found, answer, present, permitted, trusted, overtaken>>
anchorVars == <<cols, added, lock, picked, headed, count, sig, adopted, behind, skipped, nulled>>
weightVars == <<override, cache, under, met, raised>>
signalVars == <<key, legacy, tally, counted, hit>>
panelVars == <<panel, running, results, consensus, perDim>>
aliasVars == <<aliases, a_todo, src, dst, held, recorded, worst, a_excused, a_behind>>
suggestionVars == <<s_override, suggestion, overlap, moved, live, lowered>>
bindingVars == <<edges, existing, b_found, clock, b_tally, revived, erased, overwritten, bearers>>
captureVars == <<what, c_pc, c_faults, c_method, c_whose, c_clock, patched, context, started,
                 invocation, wraps, ended, inv, i_pc, u_pc, opened, evidence, costs, passes,
                 via, raced, failed, hints, explicit, used, unbound, binds, c_running, client,
                 labels, c_read, ledger, unanswered, published, goneAt, ttl, c_cache, holder,
                 came, since, c_found, shownAt, disabled, tx, c_lock, stop, w_pc, e_pc,
                 window, taken, posted, dropped, flushes, last, overlapped>>
secretVars == <<plan, k_mode, stage, auth, k_row, k_holder, left, sawAuth, sawRow, sealed,
                report, status, bare, latest, clobbered, crossing, late, k_faults>>
laterVars == <<secretVars, aliasVars, suggestionVars, bindingVars, captureVars>>
rulesVars == <<part, vars, now, spoilt, read,
               delegationVars, roleVars, weightVars, signalVars, panelVars, laterVars>>

\* An agent calls another one, and that a third.
Definition(access, data, loop, tools) ==
    [access |-> access, data |-> data, loop |-> loop, tools |-> tools]
Wide == Definition(2, {"x"}, 0, {"w"})
Narrow == Definition(0, {"x"}, 0, {})
Silent == Definition(None, None, None, {"w"})
Line(a, b, c) == [A |-> a, B |-> b, C |-> c]
Scope(kind) == [parent |-> None, sub |-> None, kind |-> kind]
Delegated == INSTANCE Delegation WITH
    Calls <- {c1, c2}, ParentOf <- c1 :> "A" @@ c2 :> "B", SubOf <- c1 :> "B" @@ c2 :> "C",
    Snapshots <- {Line(Wide, Narrow, Wide), Line(Wide, Silent, Wide), Line(Narrow, Wide, None)},
    Scopes <- {Scope(4)}, Dialects <- {"postgresql"},
    Modes <- {"flag", "block"}, Envs <- {"flag"}, MaxRows <- 2, MaxFaults <- 1, Horizon <- 1

\* The same on MySQL, where a call sees the overrides of its beginning; without a clock.
DelegatedMy == INSTANCE Delegation WITH
    Calls <- {c1, c2}, ParentOf <- c1 :> "A" @@ c2 :> "B", SubOf <- c1 :> "B" @@ c2 :> "C",
    Snapshots <- {Line(Wide, Narrow, Wide)},
    Scopes <- {Scope(None), Scope(4)}, Dialects <- {"mysql"},
    Modes <- {"flag", "block"}, Envs <- {"flag"}, MaxRows <- 2, MaxFaults <- 1, Horizon <- 0

\* Two grants and two revocations of one action, with or without a wildcard, and a check.
Role == INSTANCE RoleGrants WITH
    Grants <- {"g1", "g2"}, Revokes <- {"r1", "r2"}, Checks <- {"k1"},
    ActionOf <- [c \in {"g1", "g2", "r1", "r2", "k1"} |-> "a"], WildOf <- [a |-> "w"],
    Ends <- {1}, Modes <- {"block"}, Scores <- {1, 2}, MinTrust <- 2,
    MaxFaults <- 1, Horizon <- 1

\* A tenant's weight is set and deleted, the platform's are raised, and hashed.
Write(proc, layer, scope, value) ==
    [proc |-> proc, layer |-> layer, scope |-> scope, value |-> value, lower |-> FALSE]
TenantSet == Write("p", "tenant", 1, 7)
TenantDelete == Write("q", "tenant", 1, None)
PlatformSets == {Write("p", "platform", 2, 6), Write("q", "platform", 1, 8)}
PlatformRaise == Write("p", "platform", 1, 8)
Hash(nth) == [proc |-> "p", layer |-> "tenant", nth |-> nth]
Weight == INSTANCE WeightOverrides WITH
    Writes <- {TenantSet, TenantDelete, PlatformRaise} \cup PlatformSets,
    Hashes <- {Hash(1), Hash(2)},
    Plans <- {{TenantSet, TenantDelete, Hash(1)} \cup PlatformSets,
              {TenantSet, PlatformRaise, Hash(1), Hash(2)}},
    Processes <- {"p", "q"}, Scopes <- {1, 2}, Default <- 5, Life <- 1, Horizon <- 1

\* An agent drives itself, drives another one, and is driven without a user.
Signal == INSTANCE RogueSignals WITH
    Reports <- {c1, c2, c3}, SubjectOf <- c1 :> "a" @@ c2 :> "a" @@ c3 :> "b",
    UserOf <- c1 :> "u" @@ c2 :> "u" @@ c3 :> None,
    ActorOf <- c1 :> "a" @@ c2 :> "b" @@ c3 :> "a",
    Windows <- {[span |-> 1, life |-> 2]}, Dialects <- {"postgresql", "mysql"},
    MaxFaults <- 1, Horizon <- 3

\* Up to three votes, one of a judge that is named twice.
Panel == INSTANCE Consensus WITH
    Judges <- {"j", "k"}, Scored <- {"safety", "faithfulness", "any"},
    Panels <- {<< >>, <<"x">>, <<"j", "x">>, <<"j", "k">>, <<"j", "j", "k">>},
    Verdicts <- {"OK", "BREACH", "UNCLEAR"}

\* An alias of an alias, two aliases of each other, an alias of itself; rows of two kinds.
Alias == INSTANCE AliasMigration WITH
    Principals <- {"x", "y", "z"}, Kinds <- {"agent", "user"},
    Tables <- {"x" :> "y" @@ "y" :> "z", "x" :> "y" @@ "y" :> "x", "x" :> "x"},
    Starts <- {{<<"x", "agent">>, <<"y", "agent">>},
               {<<"x", "agent">>, <<"x", "user">>, <<"y", "user">>}},
    Signals <- {"s"}, RowOf <- [s |-> <<"x", "agent">>],
    Migrations <- {"m1", "m2"}, Starting <- 3, Penalty <- 1,
    todo <- a_todo, excused <- a_excused, behind <- a_behind

\* Two incidents of the platform and one of a tenant that may have a weight of its own.
Proposal(layer, nth) == [layer |-> layer, incident |-> nth]
Ruling(about, verdict) == [about |-> about, verdict |-> verdict]
Suggested == INSTANCE WeightSuggestions WITH
    Proposals <- {Proposal("platform", 1), Proposal("platform", 2), Proposal("tenant", 1)},
    Decisions <- {Ruling(Proposal("platform", 1), "approved"),
                  Ruling(Proposal("platform", 1), "rejected"),
                  Ruling(Proposal("platform", 2), "approved"),
                  Ruling(Proposal("tenant", 1), "approved")},
    Changes <- {[layer |-> "platform", value |-> 9, lower |-> FALSE]},
    Owns <- {None, 9}, Default <- 5, Delta <- 3, override <- s_override

\* Principals bound to one DID, to two, and with a credential of the first.
Bind(who, subject, issuer) == [who |-> who, subject |-> subject, issuer |-> issuer]
Bound == INSTANCE IdpBinding WITH
    Principals <- {"x", "y", "z"}, Starts <- {{"x", "y"}},
    Binds <- {Bind("x", "d1", None), Bind("y", "d2", "d1"), Bind("y", "d3", None),
              Bind("z", "d1", None)},
    Signals <- {[who |-> "y", nth |-> 1], [who |-> "z", nth |-> 2]},
    Erasures <- {[who |-> "y", gone |-> 1]}, Trusted <- {"d1"},
    found <- b_found, tally <- b_tally

\* The key is rotated while a secret is; a target is given and denied one; it is deleted.
Requests(k, l, m, n) == [a |-> k, b |-> l, c |-> m, d |-> n]
Secret == INSTANCE TargetSecrets WITH
    Processes <- {"p", "q"}, Calls <- {"a", "b", "c", "d"},
    ProcessOf <- [a |-> "p", b |-> "q", c |-> "p", d |-> "q"],
    Plans <- {Requests("sweep", "rotate", "none", None), Requests("given", "both", "probe", None),
              Requests("bearer", "sweep", "probe", "delete")},
    Modes <- {"new id", "same id", "no key"}, MaxFaults <- 1,
    mode <- k_mode, row <- k_row, holder <- k_holder, faults <- k_faults

\* What is noticed, and whose it is taken to be.
Capture == INSTANCE MCCapture

RulesAssumptions ==
    /\ Delegated!CallsAssumption /\ Delegated!ScopesAssumption
    /\ Delegated!ModesAssumption /\ Delegated!NumbersAssumption
    /\ Delegated!DefinitionsAssumption
    /\ DelegatedMy!CallsAssumption /\ DelegatedMy!ScopesAssumption
    /\ DelegatedMy!ModesAssumption /\ DelegatedMy!NumbersAssumption
    /\ DelegatedMy!DefinitionsAssumption
    /\ Role!CallsAssumption /\ Role!NumbersAssumption
    /\ DialectsAssumption /\ BoundsAssumption
    /\ Weight!WritesAssumption /\ Weight!HashesAssumption
    /\ Weight!PlansAssumption /\ Weight!NumbersAssumption
    /\ Signal!ReportsAssumption /\ Signal!WindowsAssumption /\ Signal!NumbersAssumption
    /\ Panel!PanelsAssumption
    /\ Alias!TablesAssumption /\ Alias!RowsAssumption /\ Alias!NumbersAssumption
    /\ Suggested!CallsAssumption /\ Suggested!NumbersAssumption
    /\ Bound!BindsAssumption /\ Bound!SignalsAssumption /\ Bound!StartsAssumption
    /\ Bound!NoneAssumption
    /\ Capture!CaptureAssumptions /\ Secret!CallsAssumption

ASSUME RulesAssumptions

NoDelegation ==
    /\ env = Unused /\ def = Unused /\ todo = Unused /\ view = Unused /\ modes = Unused
    /\ outcome = Unused /\ filed = Unused /\ excused = Unused /\ troubled = Unused

NoRole ==
    /\ mode = Unused /\ row = Unused /\ nextId = Unused /\ score = Unused /\ found = Unused
    /\ answer = Unused /\ present = Unused /\ permitted = Unused /\ trusted = Unused
    /\ overtaken = Unused

NoAnchor ==
    /\ cols = {} /\ added = Unused /\ lock = Unused /\ picked = Unused
    /\ headed = Unused /\ count = Unused /\ sig = Unused /\ adopted = Unused
    /\ behind = Unused /\ skipped = Unused /\ nulled = FALSE

NoWeight ==
    /\ override = Unused /\ cache = Unused /\ under = Unused /\ met = Unused
    /\ raised = Unused

NoSignal ==
    /\ key = Unused /\ legacy = Unused /\ tally = Unused /\ counted = Unused
    /\ hit = Unused

NoPanel ==
    /\ panel = Unused /\ running = Unused /\ results = Unused /\ consensus = Unused
    /\ perDim = Unused

NoAlias ==
    /\ aliases = Unused /\ a_todo = Unused /\ src = Unused /\ dst = Unused /\ held = Unused
    /\ recorded = Unused /\ worst = Unused /\ a_excused = Unused /\ a_behind = Unused

NoSuggestion ==
    /\ s_override = Unused /\ suggestion = Unused /\ overlap = Unused /\ moved = Unused
    /\ live = Unused /\ lowered = Unused

NoBinding ==
    /\ edges = Unused /\ existing = Unused /\ b_found = Unused /\ clock = Unused
    /\ b_tally = Unused /\ revived = Unused /\ erased = Unused /\ overwritten = Unused
    /\ bearers = Unused

NoCapture ==
    /\ what = Unused /\ c_pc = Unused /\ c_faults = Unused /\ c_method = Unused
    /\ c_whose = Unused /\ c_clock = Unused /\ patched = Unused /\ context = Unused
    /\ started = Unused /\ invocation = Unused /\ wraps = Unused /\ ended = Unused
    /\ inv = Unused /\ i_pc = Unused /\ u_pc = Unused /\ opened = Unused
    /\ evidence = Unused /\ costs = Unused /\ passes = Unused /\ via = Unused
    /\ raced = Unused /\ failed = Unused /\ hints = Unused /\ explicit = Unused
    /\ used = Unused /\ unbound = Unused /\ binds = Unused /\ c_running = Unused
    /\ client = Unused /\ labels = Unused /\ c_read = Unused /\ ledger = Unused
    /\ unanswered = Unused /\ published = Unused /\ goneAt = Unused /\ ttl = Unused
    /\ c_cache = Unused /\ holder = Unused /\ came = Unused /\ since = Unused
    /\ c_found = Unused /\ shownAt = Unused /\ disabled = Unused /\ tx = Unused
    /\ c_lock = Unused /\ stop = Unused /\ w_pc = Unused /\ e_pc = Unused /\ window = Unused
    /\ taken = Unused /\ posted = Unused /\ dropped = Unused /\ flushes = Unused
    /\ last = Unused /\ overlapped = Unused

NoSecret ==
    /\ plan = Unused /\ k_mode = Unused /\ stage = Unused /\ auth = Unused
    /\ k_row = Unused /\ k_holder = Unused /\ left = Unused /\ sawAuth = Unused
    /\ sawRow = Unused /\ sealed = Unused /\ report = Unused /\ status = Unused
    /\ bare = Unused /\ latest = Unused /\ clobbered = Unused /\ crossing = Unused
    /\ late = Unused /\ k_faults = Unused

NoLater == NoAlias /\ NoSuggestion /\ NoBinding /\ NoCapture /\ NoSecret
NoRule == NoDelegation /\ NoRole /\ NoAnchor /\ NoWeight /\ NoSignal /\ NoPanel
NoCall == now = Unused /\ dialect = Unused /\ spoilt = Unused /\ crossed = Unused /\ faults = Unused

RuleInit ==
    \/ part = "delegation" /\ (Delegated!Init \/ DelegatedMy!Init) /\ read = Unused /\ crossed = Unused
       /\ NoRole /\ NoAnchor /\ NoWeight /\ NoSignal /\ NoPanel
    \/ part = "role" /\ Role!Init
       /\ dialect = Unused /\ rows = Unused /\ spoilt = Unused /\ read = Unused
       /\ crossed = Unused /\ NoDelegation /\ NoAnchor /\ NoWeight /\ NoSignal /\ NoPanel
    \/ part = "anchor" /\ Init /\ now = Unused /\ spoilt = Unused /\ read = Unused
       /\ NoDelegation /\ NoRole /\ NoWeight /\ NoSignal /\ NoPanel
    \/ part = "weight" /\ Weight!Init
       /\ dialect = Unused /\ rows = Unused /\ spoilt = Unused /\ crossed = Unused
       /\ faults = Unused /\ NoDelegation /\ NoRole /\ NoAnchor /\ NoSignal /\ NoPanel
    \/ part = "signal" /\ Signal!Init /\ rows = Unused
       /\ NoDelegation /\ NoRole /\ NoAnchor /\ NoWeight /\ NoPanel
    \/ part = "panel" /\ Panel!Init
       /\ now = Unused /\ dialect = Unused /\ pc = Unused /\ rows = Unused
       /\ spoilt = Unused /\ read = Unused /\ crossed = Unused /\ faults = Unused
       /\ NoDelegation /\ NoRole /\ NoAnchor /\ NoWeight /\ NoSignal

RulesInit ==
    \/ RuleInit /\ NoLater
    \/ part = "alias" /\ Alias!Init /\ read = Unused
       /\ NoCall /\ NoRule /\ NoSuggestion /\ NoBinding /\ NoCapture /\ NoSecret
    \/ part = "suggestion" /\ Suggested!Init /\ rows = Unused
       /\ NoCall /\ NoRule /\ NoAlias /\ NoBinding /\ NoCapture /\ NoSecret
    \/ part = "binding" /\ Bound!Init /\ read = Unused
       /\ NoCall /\ NoRule /\ NoAlias /\ NoSuggestion /\ NoCapture /\ NoSecret
    \/ part = "capture" /\ Capture!Init /\ pc = Unused /\ rows = Unused /\ read = Unused
       /\ NoCall /\ NoRule /\ NoAlias /\ NoSuggestion /\ NoBinding /\ NoSecret
    \/ part = "secret" /\ Secret!Init /\ rows = Unused /\ read = Unused
       /\ NoCall /\ NoRule /\ NoAlias /\ NoSuggestion /\ NoBinding /\ NoCapture

RuleNext ==
    /\ UNCHANGED laterVars
    /\ \/ part = "delegation"
          /\ \/ dialect = "postgresql" /\ Delegated!Next
             \/ dialect = "mysql" /\ DelegatedMy!Next
          /\ UNCHANGED <<read, crossed, roleVars, anchorVars, weightVars, signalVars, panelVars>>
       \/ part = "role" /\ Role!Next
          /\ UNCHANGED <<dialect, rows, spoilt, read, crossed, delegationVars, anchorVars,
                         weightVars, signalVars, panelVars>>
       \/ part = "anchor" /\ Next
          /\ UNCHANGED <<now, spoilt, read, delegationVars, roleVars, weightVars, signalVars,
                         panelVars>>
       \/ part = "weight" /\ Weight!Next
          /\ UNCHANGED <<dialect, rows, spoilt, crossed, faults, delegationVars, roleVars,
                         anchorVars, signalVars, panelVars>>
       \/ part = "signal" /\ Signal!Next
          /\ UNCHANGED <<rows, delegationVars, roleVars, anchorVars, weightVars, panelVars>>
       \/ part = "panel" /\ Panel!Next
          /\ UNCHANGED <<now, dialect, pc, rows, spoilt, read, crossed, faults, delegationVars,
                         roleVars, anchorVars, weightVars, signalVars>>

\* What the parts of RuleNext have for themselves.
ruleVars == <<now, dialect, spoilt, crossed, faults, delegationVars, roleVars, anchorVars,
              weightVars, signalVars, panelVars>>

LaterNext ==
    /\ UNCHANGED ruleVars
    /\ \/ part = "alias" /\ Alias!Next
          /\ UNCHANGED <<read, suggestionVars, bindingVars, captureVars, secretVars>>
       \/ part = "suggestion" /\ Suggested!Next
          /\ UNCHANGED <<rows, aliasVars, bindingVars, captureVars, secretVars>>
       \/ part = "binding" /\ Bound!Next
          /\ UNCHANGED <<read, aliasVars, suggestionVars, captureVars, secretVars>>
       \/ part = "capture" /\ Capture!Next
          /\ UNCHANGED <<pc, rows, read, aliasVars, suggestionVars, bindingVars, secretVars>>
       \/ part = "secret" /\ Secret!Next
          /\ UNCHANGED <<rows, read, aliasVars, suggestionVars, bindingVars, captureVars>>

RulesNext == UNCHANGED part /\ (RuleNext \/ LaterNext)

RulesSpec == RulesInit /\ [][RulesNext]_rulesVars
-----------------------------------------------------------------------------
\* The type invariants of the parts.
RulesTypeOK ==
    /\ part = "delegation" => IF dialect = "mysql" THEN DelegatedMy!TypeOK ELSE Delegated!TypeOK
    /\ part = "role" => Role!TypeOK
    /\ part = "anchor" => TypeOK
    /\ part = "weight" => Weight!TypeOK
    /\ part = "signal" => Signal!TypeOK
    /\ part = "panel" => Panel!TypeOK
    /\ part = "alias" => Alias!TypeOK
    /\ part = "suggestion" => Suggested!TypeOK
    /\ part = "binding" => Bound!TypeOK
    /\ part = "capture" => Capture!TypeOK
    /\ part = "secret" => Secret!TypeOK

\* The properties of the parts, stated in their modules; AnchorKept is checked as it is.
AuthorityKept ==
    /\ part = "delegation" =>
        IF dialect = "mysql" THEN DelegatedMy!DelegationKept ELSE Delegated!DelegationKept
    /\ part = "role" => Role!RolesKept
    /\ part = "secret" => Secret!TargetsKept
WeightsKept ==
    /\ part = "weight" => Weight!WeightsKept
    /\ part = "suggestion" => Suggested!SuggestionsKept
SignalsKept ==
    /\ part = "signal" => Signal!SignalsKept
    /\ part = "alias" => Alias!AliasesKept
    /\ part = "binding" => Bound!BindingsKept
    /\ part = "capture" => Capture!CaptureKept
ConsensusKept == part = "panel" => Panel!ConsensusKept
=============================================================================
