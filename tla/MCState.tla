------------------------------ MODULE MCState ------------------------------
(***************************************************************************)
(* What the system remembers from call to call, and what it reads from     *)
(* outside: besides the records of MCRecords, instances of the stores that *)
(* every call consults (the trust row, the nonce, the limiter, the client  *)
(* that these two have in common, the budget, and the prompts of the       *)
(* month), and of the log of a sensor, the spans of a trace, the           *)
(* evaluations that are polled for, and the findings of a red-team run.    *)
(* Each behaviour is one of one of them: "part" says which, the variables  *)
(* of the others keep the value Unused.                                    *)
(***************************************************************************)
EXTENDS MCRecords

CONSTANTS Never, Untimed

VARIABLES
    now, s_pc, s_seen, s_deployment, s_row, s_attempt, applied, stale, stamp, heldUntil,
    accepted, judged, limit, tight, switches, count, countUntil, last, lastUntil, tokens,
    tokensAt, call, grants, failed, s_raced, platform, s_override, checking, edits, counter,
    dies, ledger, reports, moved, missed, capsMoved, peak, seenCap, unchecked, kind,
    s_status, asked, age, used, outcome, entry, turn, sent, talked, beatAge, calls, late,
    cut, entryAge, lost, s_failures, env, factory, client, resolved, retryAfter, lock, got,
    epoch, began, crossed, failedAt, barren, blind, hurried, files, path, writing, written,
    cuts, fd, pos, leftover, yielded, l_pc, drained,
    misplaced, misread, sends, k, b_pc, b_attempt, inv, left, cache, rows, evidence,
    b_rejected, errors, unnamed, faults, p_now, visible, keeps, cursor, event, thread,
    stopping, home, p_pc, p_since, p_latest, p_batch, p_count, polls, p_faults, overlapped,
    shaken, abandoned, handled, p_late, old, broken, f_kind, campaign, ceiling, a_pc, a_read, f_pc,
    mode, f_entry, hit, severity, aborted, saved, linked, incidents, report, f_row,
    f_status, hits, posted, drowned, then, f_asked, f_raced, unwritten, f_faults

trustVars == <<s_deployment, s_row, s_attempt, applied, stale>>
replayVars == <<stamp, judged, heldUntil, accepted>>
rateVars == <<limit, tight, switches, count, countUntil, last, lastUntil, tokens, tokensAt,
              call, grants, failed, s_raced>>
budgetVars == <<platform, s_override, checking, edits, counter, dies, ledger, reports,
                moved, missed, capsMoved, peak, seenCap, unchecked>>
monthVars == <<kind, s_status, asked, age, used, outcome, entry, turn, sent, talked, beatAge,
               calls, late, cut, entryAge, lost, s_failures>>
clientVars == <<env, factory, client, resolved, retryAfter, lock, got, epoch, began, crossed,
                failedAt, barren, blind, hurried>>
storeVars == <<now, s_pc, s_seen, trustVars, replayVars, rateVars, budgetVars, monthVars,
               clientVars>>
tailVars == <<files, path, writing, written, cuts, fd, pos, leftover, yielded, l_pc,
             drained, misplaced, misread>>
bridgeVars == <<sends, k, b_pc, b_attempt, inv, left, cache, rows, evidence, b_rejected,
               errors, unnamed, faults>>
pollVars == <<p_now, visible, keeps, cursor, event, thread, stopping, home, p_pc, p_since,
             p_latest, p_batch, p_count, polls, p_faults, overlapped, shaken, abandoned,
             handled, p_late, old, broken>>
findingVars == <<f_kind, campaign, ceiling, a_pc, a_read, f_pc, mode, f_entry, hit,
                severity, aborted, saved, linked, incidents, report, f_row, f_status, hits,
                posted, drowned, then, f_asked, f_raced, unwritten, f_faults>>
ingestVars == <<tailVars, bridgeVars, pollVars, findingVars>>
recordVars == <<vars, v_pc, attempt, chainVars, versionVars, edgeVars>>
stateVars == <<part, recordVars, storeVars, ingestVars>>

\* Three signals of two processes, which reach the bottom of the scale, and a clean tick.
Signals == {c1, c2, c3, c4}
KindOf == [c \in Signals |-> IF c = c3 THEN "clean" ELSE "signal"]
ProcessOf == [c \in Signals |-> IF c = c2 THEN "q" ELSE "p"]
TrustDeployments == [table : {"principal", "user"}, dialect : {"postgresql", "mysql", "sqlite"}]
Trust == INSTANCE PrincipalTrust WITH
    Calls <- Signals, MaxTrust <- 6, StartingTrust <- 5, Penalty <- 2, Attempts <- 2,
    Deployments <- TrustDeployments,
    pc <- s_pc, seen <- s_seen, deployment <- s_deployment, row <- s_row,
    attempt <- s_attempt

\* A request is presented again and again, by two connections.
Replay == INSTANCE ReplayProtection WITH
    Presented <- {c1, c2}, MaxAge <- 2, Stamps <- {0, 2, 3}, Horizon <- 6

\* One call a second, one in two seconds, or one in four while the key lives two.
Rate == INSTANCE RateLimit WITH
    Callers <- {c1, c2}, Waiting <- {c2},
    Limits <- {[full |-> [cap |-> 1, gap |-> 0], tight |-> [cap |-> 0, gap |-> 2]],
               [full |-> [cap |-> 0, gap |-> 2], tight |-> [cap |-> 0, gap |-> 4]]},
    TicksPerSecond <- 1, Burst <- 3, Refill <- 1, Call <- 2, MaxWait <- 1, CountLife <- 2,
    KeyLife <- 2, Horizon <- 2, MaxCount <- 2, MaxFaults <- 1, MaxSwitches <- 1,
    raced <- s_raced

Budget == INSTANCE TenantBudget WITH
    Caps <- {3}, Events <- {c1, c2}, Cost <- 2, Window <- 1, Life <- 2, Horizon <- 2,
    MaxChanges <- 1, MaxReports <- 2,
    pc <- s_pc, override <- s_override

\* Two caps that are set and compared, without a clock.
Edited == INSTANCE TenantBudget WITH
    Caps <- {3, 5}, Events <- {c1}, Cost <- 2, Window <- 1, Life <- 2, Horizon <- 0,
    MaxChanges <- 3, MaxReports <- 2,
    pc <- s_pc, override <- s_override

\* Two runs of one tenant; a beat may come too late at any moment.
Month == INSTANCE CampaignRuns WITH
    Runs <- {c1, c2}, Kinds <- {"prompts", "tree"}, Entries <- 2, Turns <- 2,
    Branches <- 2, MaxPrompts <- 2, Monthly <- 1, Stale <- 0, Beat <- 0, MaxFailures <- 0,
    missed <- lost,
    pc <- s_pc, status <- s_status, failures <- s_failures

\* A factory is registered and the cache reset, in either order, beside three calls.
Client == INSTANCE ValkeyClient WITH
    Calls <- {c1, c2, c3}, Changes <- {"x", "y"}, FactoryOf <- [x |-> "f", y |-> "reset"],
    Environments <- {"redis", "no url"}, Cooldown <- 1, Horizon <- 2,
    pc <- s_pc

\* Three lines, two rotations and a cut.
Tail == INSTANCE CollectorTail WITH
    MaxLines <- 3, MaxRotations <- 2, MaxCuts <- 1, pc <- l_pc

\* An agent and its child, another trace, a child of another tenant, and one without token.
Bridge == INSTANCE OtlpBridge WITH
    Batch <- <<[trace |-> 1, tenant |-> c1, agent |-> TRUE, payloads |-> 1],
               [trace |-> 1, tenant |-> c1, agent |-> FALSE, payloads |-> 2],
               [trace |-> 2, tenant |-> c1, agent |-> TRUE, payloads |-> 0],
               [trace |-> 1, tenant |-> c2, agent |-> FALSE, payloads |-> 1],
               [trace |-> 2, tenant |-> None, agent |-> FALSE, payloads |-> 0]>>,
    Tokens <- {c1, c2}, CacheMax <- 2, TTL <- 1, MaxRetries <- 3, MaxSends <- 2,
    MaxFaults <- 3, pc <- b_pc, attempt <- b_attempt,
    rejected <- b_rejected

\* A timed evaluation, which flags its agent, and one without a time, of nobody.
Poll == INSTANCE PhoenixPoll WITH
    Evals <- {"e", "f"}, TimeOf <- [e |-> 1, f |-> None],
    FlagsOf <- [e |-> "flagged", f |-> "nobody"],
    Processes <- {"p"}, Threads <- {1, 2}, Stores <- BOOLEAN, Window <- 1, MaxPolls <- 3,
    MaxFaults <- 1, Horizon <- 2, pc <- p_pc, batch <- p_batch, faults <- p_faults,
    late <- p_late, now <- p_now, since <- p_since, latest <- p_latest,
    count <- p_count

\* One run of each kind that wants an incident for every finding, an administrator who
\* forbids them and one who changes another field of the policy.
Found == INSTANCE CampaignFindings WITH
    Kinds <- {"prompts", "turns", "native", "family"}, Modes <- {"always"},
    Entries <- 2, PerEntry <- 1, Admins <- {"a", "b"},
    CeilingOf <- [a |-> "never", b |-> None], MaxFaults <- 1,
    kind <- f_kind, pc <- f_pc, entry <- f_entry, status <- f_status, asked <- f_asked,
    faults <- f_faults, row <- f_row, raced <- f_raced

ASSUME
    /\ Client!ValkeyAssumption /\ Client!NoneAssumption
    /\ Trust!TrustAssumption /\ Replay!NoncesAssumption
    /\ Budget!CapsAssumption /\ Budget!EventsAssumption
    /\ Budget!WindowAssumption /\ Budget!NumbersAssumption
    /\ Poll!EvalsAssumption /\ Poll!NumbersAssumption /\ Found!FindingsAssumption

NoTrust ==
    /\ s_deployment = Unused /\ s_row = Unused /\ s_attempt = Unused /\ applied = Unused
    /\ stale = Unused

NoReplay ==
    /\ stamp = Unused /\ judged = Unused /\ heldUntil = Unused /\ accepted = Unused

NoRate ==
    /\ limit = Unused /\ tight = Unused /\ switches = Unused /\ count = Unused
    /\ countUntil = Unused /\ last = Unused /\ lastUntil = Unused /\ tokens = Unused
    /\ tokensAt = Unused /\ call = Unused /\ grants = Unused /\ failed = Unused
    /\ s_raced = Unused

NoBudget ==
    /\ platform = Unused /\ s_override = Unused /\ checking = Unused /\ edits = Unused
    /\ counter = Unused /\ dies = Unused /\ ledger = Unused /\ reports = Unused
    /\ moved = Unused /\ missed = Unused /\ capsMoved = Unused /\ peak = Unused
    /\ seenCap = Unused /\ unchecked = Unused

NoMonth ==
    /\ kind = Unused /\ s_status = Unused /\ asked = Unused /\ age = Unused
    /\ used = Unused /\ outcome = Unused /\ entry = Unused /\ turn = Unused
    /\ sent = Unused /\ talked = Unused /\ beatAge = Unused /\ calls = Unused
    /\ late = Unused /\ cut = Unused /\ entryAge = Unused /\ lost = Unused
    /\ s_failures = Unused

NoClient ==
    /\ env = Unused /\ factory = Unused /\ client = Unused /\ resolved = Unused
    /\ retryAfter = Unused /\ lock = Unused /\ got = Unused /\ epoch = Unused
    /\ began = Unused /\ crossed = Unused /\ failedAt = Unused /\ barren = Unused
    /\ blind = Unused /\ hurried = Unused

NoTail ==
    /\ files = Unused /\ path = Unused /\ writing = Unused /\ written = Unused
    /\ cuts = Unused /\ fd = Unused /\ pos = Unused /\ leftover = Unused
    /\ yielded = Unused /\ l_pc = Unused /\ drained = Unused /\ misplaced = Unused
    /\ misread = Unused

NoBridge ==
    /\ sends = Unused /\ k = Unused /\ b_pc = Unused /\ b_attempt = Unused
    /\ inv = Unused /\ left = Unused /\ cache = Unused /\ rows = Unused
    /\ evidence = Unused /\ b_rejected = Unused /\ errors = Unused /\ unnamed = Unused
    /\ faults = Unused

NoPoll ==
    /\ p_now = Unused /\ visible = Unused /\ keeps = Unused /\ cursor = Unused
    /\ event = Unused /\ thread = Unused /\ stopping = Unused /\ home = Unused
    /\ p_pc = Unused /\ p_since = Unused /\ p_latest = Unused /\ p_batch = Unused
    /\ p_count = Unused /\ polls = Unused /\ p_faults = Unused /\ overlapped = Unused
    /\ shaken = Unused /\ abandoned = Unused /\ handled = Unused /\ p_late = Unused
    /\ old = Unused /\ broken = Unused

NoFindings ==
    /\ f_kind = Unused /\ campaign = Unused /\ ceiling = Unused /\ a_pc = Unused
    /\ a_read = Unused /\ f_pc = Unused /\ mode = Unused /\ f_entry = Unused
    /\ hit = Unused /\ severity = Unused /\ aborted = Unused /\ saved = Unused
    /\ linked = Unused /\ incidents = Unused /\ report = Unused /\ f_row = Unused
    /\ f_status = Unused /\ hits = Unused /\ posted = Unused /\ drowned = Unused
    /\ then = Unused /\ f_asked = Unused /\ f_raced = Unused /\ unwritten = Unused
    /\ f_faults = Unused

NoIngest == NoTail /\ NoBridge /\ NoPoll /\ NoFindings
NoStore ==
    /\ now = Unused /\ s_pc = Unused /\ s_seen = Unused
    /\ NoTrust /\ NoReplay /\ NoRate /\ NoBudget /\ NoMonth /\ NoClient

StoreInit ==
    \/ part = "trust" /\ Trust!Init /\ now = Unused
       /\ NoReplay /\ NoRate /\ NoBudget /\ NoMonth /\ NoClient
    \/ part = "replay" /\ Replay!Init /\ s_pc = Unused /\ s_seen = Unused
       /\ NoTrust /\ NoRate /\ NoBudget /\ NoMonth /\ NoClient
    \/ part = "rate" /\ Rate!Init /\ s_pc = Unused /\ s_seen = Unused
       /\ NoTrust /\ NoReplay /\ NoBudget /\ NoMonth /\ NoClient
    \/ part = "budget" /\ Budget!Init /\ s_seen = Unused
       /\ NoTrust /\ NoReplay /\ NoRate /\ NoMonth /\ NoClient
    \/ part = "caps" /\ Edited!Init /\ s_seen = Unused
       /\ NoTrust /\ NoReplay /\ NoRate /\ NoMonth /\ NoClient
    \/ part = "month" /\ Month!Init /\ now = Unused /\ s_seen = Unused
       /\ NoTrust /\ NoReplay /\ NoRate /\ NoBudget /\ NoClient
    \/ part = "client" /\ Client!Init /\ s_seen = Unused
       /\ NoTrust /\ NoReplay /\ NoRate /\ NoBudget /\ NoMonth

NoRecord ==
    NoFetch /\ v_pc = Unused /\ attempt = Unused /\ NoChain /\ NoVersion /\ NoEdge

IngestInit ==
    \/ part = "tail" /\ Tail!Init /\ NoStore /\ NoBridge /\ NoPoll /\ NoFindings
    \/ part = "bridge" /\ Bridge!Init /\ NoStore /\ NoTail /\ NoPoll /\ NoFindings
    \/ part = "poll" /\ Poll!Init /\ NoStore /\ NoTail /\ NoBridge /\ NoFindings
    \/ part = "findings" /\ Found!Init /\ NoStore /\ NoTail /\ NoBridge /\ NoPoll

StateInit ==
    \/ RecordsInit /\ NoStore /\ NoIngest
    \/ StoreInit /\ NoRecord /\ NoIngest
    \/ IngestInit /\ NoRecord

StoreNext ==
    /\ UNCHANGED <<clientVars, ingestVars>>
    /\ \/ part = "trust" /\ Trust!Next
          /\ UNCHANGED <<now, replayVars, rateVars, budgetVars, monthVars>>
       \/ part = "replay" /\ Replay!Next
          /\ UNCHANGED <<s_pc, s_seen, trustVars, rateVars, budgetVars, monthVars>>
       \/ part = "rate" /\ Rate!Next
          /\ UNCHANGED <<s_pc, s_seen, trustVars, replayVars, budgetVars, monthVars>>
       \/ ((part = "budget" /\ Budget!Next) \/ (part = "caps" /\ Edited!Next))
          /\ UNCHANGED <<s_seen, trustVars, replayVars, rateVars, monthVars>>
       \/ part = "month" /\ Month!Next
          /\ UNCHANGED <<now, s_seen, trustVars, replayVars, rateVars, budgetVars>>

ClientNext ==
    /\ part = "client" /\ Client!Next
    /\ UNCHANGED <<s_seen, trustVars, replayVars, rateVars, budgetVars, monthVars, ingestVars>>

IngestNext ==
    /\ UNCHANGED storeVars
    /\ \/ part = "tail" /\ Tail!Next /\ UNCHANGED <<bridgeVars, pollVars, findingVars>>
       \/ part = "bridge" /\ Bridge!Next /\ UNCHANGED <<tailVars, pollVars, findingVars>>
       \/ part = "poll" /\ Poll!Next /\ UNCHANGED <<tailVars, bridgeVars, findingVars>>
       \/ part = "findings" /\ Found!Next /\ UNCHANGED <<tailVars, bridgeVars, pollVars>>

StateNext ==
    \/ RecordsNext /\ UNCHANGED <<storeVars, ingestVars>>
    \/ (StoreNext \/ ClientNext \/ IngestNext) /\ UNCHANGED <<part, recordVars>>

StateSpec == StateInit /\ [][StateNext]_stateVars
-----------------------------------------------------------------------------
\* The type invariants of the parts.
StateTypeOK ==
    /\ RecordsTypeOK
    /\ part = "trust" => Trust!TypeOK
    /\ part = "replay" => Replay!TypeOK
    /\ part = "rate" => Rate!TypeOK
    /\ part = "budget" => Budget!TypeOK
    /\ part = "caps" => Edited!TypeOK
    /\ part = "month" => Month!TypeOK
    /\ part = "client" => Client!TypeOK
    /\ part = "tail" => Tail!TypeOK
    /\ part = "bridge" => Bridge!TypeOK
    /\ part = "poll" => Poll!TypeOK
    /\ part = "findings" => Found!TypeOK

\* The properties of the parts, stated in their modules.
TrustKept == part = "trust" => Trust!TrustKept
LimitsKept ==
    /\ part = "replay" => Replay!NoncesKept
    /\ part = "rate" => Rate!RateKept
    /\ part = "client" => Client!ValkeyKept
SpendKept ==
    /\ part = "budget" => Budget!BudgetKept
    /\ part = "caps" => Edited!BudgetKept
    /\ part = "month" => Month!MonthKept
IngestKept ==
    /\ part = "tail" => Tail!TailKept
    /\ part = "bridge" => Bridge!BridgeKept
    /\ part = "poll" => Poll!PollKept
    /\ part = "findings" => Found!FindingsKept
=============================================================================
