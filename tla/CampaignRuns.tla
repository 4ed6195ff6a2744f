---------------------------- MODULE CampaignRuns ----------------------------
(***************************************************************************)
(* kya_redteam: runs of red-team campaigns (runs.py, pyrit_orchestrator,   *)
(* multi_turn), each in a thread of its own, against one tenant's monthly  *)
(* budget (runtime.py).  A run goes through the entries of its dataset; an *)
(* entry is one prompt, or a conversation of turns, each of one prompt or  *)
(* of several branches.  Operators ask for a cancel, and a sweep gives up  *)
(* runs whose heartbeat in the database is too old.                        *)
(* Left out: the findings, incidents and signatures a run leaves behind,   *)
(* the budget of tokens, and conversations that PyRIT drives by itself.    *)
(* The cancel key in Valkey says no more than the flag in the row.         *)
(***************************************************************************)
EXTENDS Integers, FiniteSets, FiniteSetsExt

CONSTANTS
    Runs, Kinds,        \* Kinds: what each run may be, "prompts", "turns" or "tree"
    Entries, Turns, Branches,
    MaxPrompts,             \* the campaign's budget_max_prompts
    Monthly,            \* the tenant's budget_monthly_prompts
    Stale, Beat,        \* _STALE_S, _HEARTBEAT_MIN_INTERVAL_S
    MaxFailures

\* What the constants must satisfy, for any instance.
RunsAssumption ==
    /\ Kinds \subseteq {"prompts", "turns", "tree"}
    /\ Entries \in Nat /\ Turns \in Nat /\ MaxPrompts \in Nat /\ Monthly \in Nat
    /\ Stale \in Nat /\ MaxFailures \in Nat
    /\ Branches \in Nat \ {0} /\ Beat \in Nat \ {0}

VARIABLES
    kind,               \* never changes
    status, asked,      \* the rows: status and cancel_requested
    age,                \* time since last_heartbeat_at
    used,               \* the month's counter in Valkey
    pc, outcome,        \* where the worker is, and how it will finish
    entry, turn,        \* the entries and turns begun
    sent, talked,       \* prompts_sent, and the calls of this conversation not yet in it
    beatAge,            \* time since the worker's last heartbeat
    calls, late,        \* calls of the target, and those after the cancel was asked
    cut,                \* a conversation was broken off by a cancel
    entryAge,           \* time since the entry began
    missed,             \* a heartbeat of the run was not written
    failures

rows == <<status, asked, age>>
loop == <<entry, turn, sent, talked, calls, late, cut>>
vars == <<kind, rows, used, pc, outcome, loop, beatAge, entryAge, missed, failures>>

\* A time longer than Stale is like any other.
Later(t) == IF t > Stale THEN t ELSE t + 1
Go(r, step) == pc' = [pc EXCEPT ![r] = step]
Finish(r, how) == Go(r, "finalise") /\ outcome' = [outcome EXCEPT ![r] = how]
Fail == failures < MaxFailures /\ failures' = failures + 1
Working(r) == pc[r] \notin {"queued", "done", "dead"}
Talks(r) == kind[r] # "prompts"
-----------------------------------------------------------------------------
\* create_run, by the thread that submits the worker.
Init ==
    /\ kind \in [Runs -> Kinds]
    /\ status = [r \in Runs |-> "queued"] /\ asked = [r \in Runs |-> FALSE]
    /\ age = [r \in Runs |-> 0] /\ used = 0
    /\ pc = [r \in Runs |-> "queued"] /\ outcome = [r \in Runs |-> "none"]
    /\ entry = [r \in Runs |-> 0] /\ turn = [r \in Runs |-> 0]
    /\ sent = [r \in Runs |-> 0] /\ talked = [r \in Runs |-> 0]
    /\ beatAge = [r \in Runs |-> Stale + 1] /\ calls = [r \in Runs |-> 0]
    /\ late = [r \in Runs |-> 0] /\ cut = [r \in Runs |-> FALSE]
    /\ entryAge = [r \in Runs |-> 0] /\ missed = [r \in Runs |-> FALSE]
    /\ failures = 0

\* set_running; then the tier, the attacker's model and the dataset are looked at.
Start(r) ==
    /\ pc[r] = "queued"
    /\ status' = [status EXCEPT ![r] = IF @ \in {"queued", "running"} THEN "running" ELSE @]
    /\ age' = [age EXCEPT ![r] = 0] /\ entryAge' = [entryAge EXCEPT ![r] = 0]
    /\ \/ Go(r, "entry") /\ UNCHANGED outcome
       \/ \E how \in {"denied_by_tier", "failed"} : Finish(r, how)
    /\ UNCHANGED <<kind, asked, used, loop, beatAge, missed, failures>>

\* No entry is left.
Exhausted(r) == entry[r] = (IF Talks(r) THEN Entries ELSE Min({Entries, MaxPrompts}))

Complete(r) ==
    /\ pc[r] = "entry" /\ Exhausted(r)
    /\ Finish(r, "completed")
    /\ UNCHANGED <<kind, rows, used, loop, beatAge, entryAge, missed, failures>>

\* The top of the loop: cancelled, out of the campaign's budget, or one entry more.
NextEntry(r) ==
    /\ pc[r] = "entry" /\ ~ Exhausted(r)
    /\ IF asked[r] THEN Finish(r, "cancelled") /\ UNCHANGED <<entry, turn>>
       ELSE IF Talks(r) /\ sent[r] >= MaxPrompts
       THEN Finish(r, "completed") /\ UNCHANGED <<entry, turn>>
       ELSE /\ entry' = [entry EXCEPT ![r] = @ + 1] /\ turn' = [turn EXCEPT ![r] = 0]
            /\ Go(r, IF Talks(r) THEN "turn" ELSE "consume") /\ UNCHANGED outcome
    /\ UNCHANGED <<kind, rows, used, sent, talked, calls, late, cut, beatAge, entryAge,
                   missed, failures>>

\* A seeded fault, the mutant of RunsKept: a conversation is not broken off.
BrokenOffNever(r) == FALSE

\* cancel_check of _run_conversation and _run_conversation_tap.
BrokenOff(r) == asked[r]

\* The top of a conversation's loop; its turns fit in what is left of the budget.
NextTurn(r) ==
    /\ pc[r] = "turn"
    /\ LET over == turn[r] >= Min({Turns, MaxPrompts - sent[r]})
       IN /\ cut' = [cut EXCEPT ![r] = @ \/ (~ over /\ BrokenOff(r))]
          /\ IF over \/ BrokenOff(r) THEN Go(r, "report") /\ UNCHANGED turn
             ELSE Go(r, "consume") /\ turn' = [turn EXCEPT ![r] = @ + 1]
    /\ UNCHANGED <<kind, rows, used, outcome, entry, sent, talked, calls, late, beatAge,
                   entryAge, missed, failures>>

\* A seeded fault, the mutant of MonthKept: the budget is asked and not charged.
ChargedNever(n) == n

Charged(n) == n + 1

\* consume_budget: the counter goes up, and then is compared.
Consume(r) ==
    /\ pc[r] = "consume"
    /\ used' = Charged(used)
    /\ IF used' <= Monthly
       THEN /\ Go(r, "send") /\ UNCHANGED outcome
            /\ sent' = [sent EXCEPT ![r] = IF Talks(r) THEN @ ELSE @ + 1]
       ELSE /\ Finish(r, "failed")
            /\ sent' = [sent EXCEPT ![r] = @ + talked[r]]
    /\ UNCHANGED <<kind, rows, entry, turn, talked, calls, late, cut, beatAge, entryAge,
                   missed, failures>>

\* Valkey cannot be asked: the call goes ahead uncounted.
ConsumeOpen(r) ==
    /\ pc[r] = "consume" /\ Fail
    /\ Go(r, "send")
    /\ sent' = [sent EXCEPT ![r] = IF Talks(r) THEN @ ELSE @ + 1]
    /\ UNCHANGED <<kind, rows, used, outcome, entry, turn, talked, calls, late, cut,
                   beatAge, entryAge, missed>>

\* The target, and the scorer; a tree sends what its branches came up with.
Send(r) ==
    /\ pc[r] = "send"
    /\ \E n \in IF kind[r] = "tree" THEN 1..Branches ELSE {1} :
        /\ calls' = [calls EXCEPT ![r] = @ + n]
        /\ late' = [late EXCEPT ![r] = IF asked[r] THEN @ + n ELSE @]
        /\ talked' = [talked EXCEPT ![r] = IF Talks(r) THEN @ + n ELSE @]
    /\ \/ Go(r, IF Talks(r) THEN "turn" ELSE "report")
       \/ Talks(r) /\ Go(r, "report")  \* a finding ends the conversation
    /\ UNCHANGED <<kind, rows, used, outcome, entry, turn, sent, cut, beatAge, entryAge,
                   missed, failures>>

\* The call, or every branch, raises, or the attacker's model has no next prompt: the
\* conversation ends, with calls it does not count or with none.
SendFails(r) ==
    /\ pc[r] = "send" /\ Fail
    /\ \E n \in 0..(IF kind[r] = "tree" THEN Branches ELSE 1) :
        /\ Talks(r) \/ n > 0
        /\ calls' = [calls EXCEPT ![r] = @ + n]
        /\ late' = [late EXCEPT ![r] = IF asked[r] THEN @ + n ELSE @]
    /\ Go(r, "report")
    /\ UNCHANGED <<kind, rows, used, outcome, entry, turn, sent, talked, cut, beatAge,
                   entryAge, missed>>

\* heartbeat writes no more often than the interval.
BeatDue(r) == beatAge[r] >= Beat

\* The entry is over: progress is written after a conversation and after a finding, with
\* the heartbeat; otherwise the heartbeat alone, if it is due.
Report(r) ==
    /\ pc[r] = "report"
    /\ \E finding \in BOOLEAN :
        /\ LET written == Talks(r) \/ finding \/ BeatDue(r)
           IN age' = [age EXCEPT ![r] = IF written THEN 0 ELSE @]
        /\ beatAge' = [beatAge EXCEPT ![r] = IF BeatDue(r) THEN 0 ELSE @]
    /\ sent' = [sent EXCEPT ![r] = @ + talked[r]] /\ talked' = [talked EXCEPT ![r] = 0]
    /\ entryAge' = [entryAge EXCEPT ![r] = 0] /\ Go(r, "entry")
    /\ UNCHANGED <<kind, status, asked, used, outcome, entry, turn, calls, late, cut,
                   missed, failures>>

\* The database refuses it; the worker thinks its heart has beaten and goes on.
ReportFails(r) ==
    /\ pc[r] = "report" /\ Fail
    /\ missed' = [missed EXCEPT ![r] = TRUE]
    /\ beatAge' = [beatAge EXCEPT ![r] = IF BeatDue(r) THEN 0 ELSE @]
    /\ sent' = [sent EXCEPT ![r] = @ + talked[r]] /\ talked' = [talked EXCEPT ![r] = 0]
    /\ entryAge' = [entryAge EXCEPT ![r] = 0] /\ Go(r, "entry")
    /\ UNCHANGED <<kind, rows, used, outcome, entry, turn, calls, late, cut>>

\* finalize_run: whatever the row says; _finalize writes the progress before.
Finalise(r) ==
    /\ pc[r] \in {"finalise", "rescue", "rescueAgain"}
    /\ status' = [status EXCEPT ![r] = outcome[r]]
    /\ age' = [age EXCEPT ![r] = IF pc[r] = "finalise" THEN 0 ELSE @]
    /\ Go(r, "done")
    /\ UNCHANGED <<kind, asked, used, outcome, loop, beatAge, entryAge, missed, failures>>

\* It raises: _finalize leaves the row, _worker tries once more with a fresh session.
FinaliseFails(r) ==
    /\ pc[r] \in {"finalise", "rescue", "rescueAgain"} /\ Fail
    /\ Go(r, IF pc[r] = "rescue" THEN "rescueAgain" ELSE "done")
    /\ UNCHANGED <<kind, rows, used, outcome, loop, beatAge, entryAge, missed>>

\* The worker raises, in any of its reads of the database.
Raise(r) ==
    /\ pc[r] \in {"entry", "turn"} /\ Fail
    /\ Go(r, "rescue") /\ outcome' = [outcome EXCEPT ![r] = "failed"]
    /\ UNCHANGED <<kind, rows, used, loop, beatAge, entryAge, missed>>

\* The process dies, or drops a queued run when it shuts down.
Die(r) ==
    /\ pc[r] \notin {"done", "dead"} /\ Fail
    /\ Go(r, "dead")
    /\ UNCHANGED <<kind, rows, used, outcome, loop, beatAge, entryAge, missed>>

\* request_cancel.
RequestCancel(r) ==
    /\ status[r] \in {"queued", "running"} /\ ~ asked[r]
    /\ asked' = [asked EXCEPT ![r] = TRUE]
    /\ UNCHANGED <<kind, status, age, used, pc, outcome, loop, beatAge, entryAge, missed,
                   failures>>

Abandoned(r) == status[r] = "running" /\ age[r] > Stale

\* reconcile_stale_runs: one UPDATE, under a lock that lets one sweep run.
Reconcile ==
    /\ \E r \in Runs : Abandoned(r)
    /\ status' = [r \in Runs |-> IF Abandoned(r) THEN "failed" ELSE status[r]]
    /\ UNCHANGED <<kind, asked, age, used, pc, outcome, loop, beatAge, entryAge, missed,
                   failures>>

Tick ==
    /\ age' = [r \in Runs |-> Later(age[r])]
    /\ beatAge' = [r \in Runs |-> Later(beatAge[r])]
    /\ entryAge' = [r \in Runs |-> Later(entryAge[r])]
    /\ UNCHANGED <<kind, status, asked, used, pc, outcome, loop, missed, failures>>

Work(r) ==
    \/ Start(r) \/ Complete(r) \/ NextEntry(r) \/ NextTurn(r) \/ Consume(r)
    \/ Send(r) \/ Report(r) \/ Finalise(r)

Trouble(r) ==
    ConsumeOpen(r) \/ SendFails(r) \/ ReportFails(r) \/ FinaliseFails(r) \/ Raise(r) \/ Die(r)

Next == Reconcile \/ Tick \/ \E r \in Runs : Work(r) \/ Trouble(r) \/ RequestCancel(r)

Spec == Init /\ [][Next]_vars
-----------------------------------------------------------------------------
Statuses == {"queued", "running", "completed", "failed", "cancelled", "denied_by_tier"}

Steps == {"queued", "entry", "turn", "consume", "send", "report", "finalise", "rescue",
          "rescueAgain", "done", "dead"}

\* The type invariant: of what the database, Valkey and the worker hold.
TypeOK ==
    /\ kind \in [Runs -> Kinds] /\ status \in [Runs -> Statuses]
    /\ pc \in [Runs -> Steps] /\ outcome \in [Runs -> Statuses \cup {"none"}]
    /\ sent \in [Runs -> Nat] /\ talked \in [Runs -> Nat]
    /\ calls \in [Runs -> Nat] /\ late \in [Runs -> Nat]
    /\ cut \in [Runs -> BOOLEAN] /\ missed \in [Runs -> BOOLEAN]
    /\ asked \in [Runs -> BOOLEAN] /\ used \in Nat
    /\ entry \in [Runs -> 0..Entries] /\ turn \in [Runs -> 0..Turns]
    /\ age \in [Runs -> 0..(Stale + 1)] /\ beatAge \in [Runs -> 0..(Stale + 1)]
    /\ entryAge \in [Runs -> 0..(Stale + 1)]

\* After a cancel is accepted the call in flight is the last one; a run is recorded as
\* cancelled only when somebody asked; and one that was broken off is recorded as
\* completed only if that was its last conversation.
CancelKept ==
    \A r \in Runs :
        /\ late[r] <= IF kind[r] = "tree" THEN Branches ELSE 1
        /\ status[r] = "cancelled" => asked[r]
        /\ (status[r] = "completed" /\ cut[r]) => entry[r] = Entries

\* While Valkey answers, all runs of a tenant together keep the month's budget: one unit
\* is a call, in a tree one for each branch of a turn; and every run is refused at most
\* once, so the counter passes the budget by no more than the runs.
MonthKept ==
    /\ used <= Monthly + Cardinality(Runs)
    /\ failures = 0 =>
        MapThenSumSet(LAMBDA r : calls[r], Runs)
            <= Monthly * (IF \E r \in Runs : kind[r] = "tree" THEN Branches ELSE 1)

\* A campaign reports no more prompts than its own budget, unless its turns branch.
CampaignKept == \A r \in Runs : kind[r] # "tree" => sent[r] <= MaxPrompts

\* While a worker lives, its heartbeat in the database is younger than the entry it is
\* at and the interval together: the sweep gives up a live run only when one entry takes longer
\* than Stale less Beat, or a heartbeat could not be written.
HeartbeatFresh ==
    \A r \in Runs :
        (Working(r) /\ ~ missed[r]) => age[r] < entryAge[r] + Beat

RunsKept == CancelKept /\ CampaignKept /\ HeartbeatFresh

\* Every run on record as running is in the end recorded as finished, whatever became of
\* its worker; one that never left the queue is not, for the sweep passes it over.
OnRecord(r) == status[r] = "running"
RunsEnd == \A r \in Runs : OnRecord(r) ~> ~ OnRecord(r)
-----------------------------------------------------------------------------
(* The strengthening of RunsKept that is inductive.                        *)

\* A run knows how it ends when it ends; it is on record as completed or cancelled when
\* its worker is done; and a conversation has turns.
Ending(r) ==
    /\ pc[r] \in {"queued", "entry", "turn", "consume", "send", "report"} =>
            outcome[r] = "none"
    /\ pc[r] \in {"finalise", "rescue", "rescueAgain"} => outcome[r] # "none"
    /\ status[r] \in {"completed", "cancelled"} => pc[r] = "done" /\ outcome[r] = status[r]
    /\ pc[r] = "turn" => Talks(r)

\* A call after the cancel is the last: nothing leads from there to another one.
CancelSeen(r) ==
    /\ late[r] <= IF kind[r] = "tree" THEN Branches ELSE 1
    /\ late[r] > 0 => asked[r] /\ pc[r] \notin {"queued", "consume", "send"}
    /\ outcome[r] = "cancelled" => asked[r]
    /\ cut[r] => asked[r] /\ Talks(r)
    /\ outcome[r] = "completed" /\ cut[r] => entry[r] = Entries

\* The prompts of a run that does not branch are those of its entries, or of the turns
\* that fitted in what was left of its budget.
PromptsFit(r) ==
    /\ entry[r] <= IF Talks(r) THEN Entries ELSE Min({Entries, MaxPrompts})
    /\ kind[r] = "prompts" =>
        /\ sent[r] <= entry[r] /\ talked[r] = 0
        /\ pc[r] = "consume" => sent[r] < entry[r]
    /\ kind[r] = "turns" =>
        /\ sent[r] <= MaxPrompts
        /\ pc[r] \in {"queued", "entry"} => talked[r] = 0
        /\ pc[r] \in {"turn", "consume", "send", "report"} =>
            talked[r] <= turn[r] /\ sent[r] + turn[r] <= MaxPrompts
        /\ pc[r] \in {"consume", "send"} => talked[r] < turn[r]

\* As long as every heartbeat was written, the row is as fresh as the worker believes and
\* not older than its entry and an interval.
Beating(r) ==
    ~ missed[r] => age[r] <= beatAge[r] /\ (Working(r) => age[r] < entryAge[r] + Beat)

RunInv(r) == Ending(r) /\ CancelSeen(r) /\ PromptsFit(r) /\ Beating(r)
RunsInv == TypeOK /\ \A r \in Runs : RunInv(r)
=============================================================================
