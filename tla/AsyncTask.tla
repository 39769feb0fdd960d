----------------------------- MODULE AsyncTask -----------------------------
(***************************************************************************)
(* The billing life of one asynchronous task (video, music): the request   *)
(* that submits it holds its price, records the task and settles the       *)
(* request's billing session; from then on the row of the task carries     *)
(* what the user still pays for it (Task.Quota), and whoever moves the row *)
(* into a final status (a compare-and-swap on the status column,           *)
(* Task.UpdateWithStatus) settles or refunds it.                           *)
(*                                                                         *)
(* The passes that poll tasks are started by the system-task runner, whose *)
(* lease does not stop a slow pass: several pollers may work on the row at *)
(* once, each with the copy of the row it read. A pass first sweeps tasks  *)
(* that are over the timeout, then lists the unfinished ones, asks the     *)
(* upstream service about each and writes the answer back. Tasks share no  *)
(* state, so the module has one of them.                                   *)
(*                                                                         *)
(* Spec is the system on every channel but Gemini and Vertex. On those two *)
(* a user who asks for a task makes the server ask upstream and write the  *)
(* answer (tryRealtimeFetch): RealtimeSpec adds that.                      *)
(***************************************************************************)
EXTENDS Integers

CONSTANTS
    Poller,         \* polling passes that may be under way at once
    Fetcher,        \* requests of users that ask for the task
    Hold,           \* what the billing session holds when the task is recorded
    Amounts,        \* the prices a submission or a settlement may come to
    Billing,        \* how a task may be billed: "perCall", "tiered", "usage"
    Ages,           \* "legacy": submitted before refunds existed; "recent"
    Progress,       \* what upstream reports of a task that is not ended:
                    \* "part", or "100%" too early
    MaxFailures,    \* TaskPollMaxFailures; 0 disables the cutoff
    MaxFaults,      \* bound: statements that fail
    MaxCrashes      \* bound: passes that are killed

ASSUME AsyncTaskAssumption ==
    /\ Hold \in Nat /\ MaxFailures \in Nat
    /\ Amounts \subseteq Nat
    /\ Billing \subseteq {"perCall", "tiered", "usage"}
    /\ Ages \subseteq {"legacy", "recent"}
    /\ Progress \subseteq {"part", "100%"}
    /\ MaxFaults \in Nat /\ MaxCrashes \in Nat

VARIABLES
    kind,           \* how the task is billed, and its age
    row,            \* the row of the task; status "none" before it is inserted
    sub,            \* how far the submission is, and the price it recorded
    paid,           \* what the user has been charged, net of what came back
    up,             \* the status of the task at the upstream service
    late,           \* "yes" once the task is older than TaskTimeoutMinutes
    worker,         \* the passes and the fetches
    faults, crashes,
    spoiled         \* why the row may not tell what the user pays, or a
                    \* failed task may still cost something

vars == <<kind, row, sub, paid, up, late, worker, faults, crashes, spoiled>>

Final == {"SUCCESS", "FAILURE"}
Status == {"NOT_START", "IN_PROGRESS"} \cup Final

Row == [status : Status \cup {"none"}, progress : {"part", "100%"},
        quota : Nat, failures : 0 .. MaxFailures]

Worker == [pc : {"idle", "list", "fetch", "write", "adjust", "mark"},
           by : {"sweep", "poll", "fail", "fetch"},
           from : Status,          \* the status the copy was read with
           new : Row,              \* the copy, as it will be written
           target : Nat]           \* what the user shall pay in the end

Idle == [pc |-> "idle", by |-> "poll", from |-> "NOT_START",
         new |-> [status |-> "NOT_START", progress |-> "part",
                  quota |-> 0, failures |-> 0],
         target |-> 0]

Init ==
    /\ kind \in [billing : Billing, age : Ages]
    /\ row = [status |-> "none", progress |-> "part", quota |-> 0,
              failures |-> 0]
    /\ sub = [stage |-> "reserved", quota |-> 0]
    /\ paid = Hold
    /\ up = "IN_PROGRESS"
    /\ late = "no"
    /\ worker = [w \in Poller \cup Fetcher |-> Idle]
    /\ faults = 0 /\ crashes = 0
    /\ spoiled = {}

Fault == faults < MaxFaults /\ faults' = faults + 1

-----------------------------------------------------------------------------
(* Submission.                                                             *)

\* The price agreed with upstream is at most what Reserve has topped the hold
\* up to. A task that upstream answers at once is inserted with that answer,
\* a failed one at the price 0.
Insert ==
    /\ sub.stage = "reserved"
    /\ \E q \in Amounts \cup {0}, s \in Status, p \in Progress \cup {"part"} :
        /\ q <= Hold
        /\ s = "NOT_START" => p = "part"
        /\ s = "FAILURE" => q = 0
        /\ row' = [status |-> s, progress |-> p, quota |-> q, failures |-> 0]
        /\ sub' = [stage |-> "settling", quota |-> q]
        /\ up' = IF s \in Final THEN s ELSE up
    /\ UNCHANGED <<kind, paid, late, worker, faults, crashes, spoiled>>

\* No attempt succeeded, the client is gone, or the row cannot be inserted:
\* the deferred refund of the billing session gives the hold back.
InsertFails ==
    /\ sub.stage = "reserved"
    /\ sub' = [sub EXCEPT !.stage = "dropped"]
    /\ paid' = 0
    /\ UNCHANGED <<kind, row, up, late, worker, faults, crashes, spoiled>>

\* SettleBilling returns what the hold exceeds the price by. The task is
\* durable by now: an error keeps the task and the excess.
SettleSubmission ==
    /\ sub.stage = "settling"
    /\ \/ /\ sub' = [sub EXCEPT !.stage = "settled"]
          /\ paid' = paid - (Hold - sub.quota)
          /\ UNCHANGED faults
       \/ /\ Fault
          /\ sub' = [sub EXCEPT !.stage = "unsettled"]
          /\ UNCHANGED paid
    /\ UNCHANGED <<kind, row, up, late, worker, crashes, spoiled>>

-----------------------------------------------------------------------------
(* The environment.                                                        *)

UpstreamEnds ==
    /\ row.status # "none" /\ up \notin Final
    /\ up' \in Final
    /\ UNCHANGED <<kind, row, sub, paid, late, worker, faults, crashes,
                   spoiled>>

Expire ==
    /\ row.status # "none" /\ late = "no"
    /\ late' = "yes"
    /\ UNCHANGED <<kind, row, sub, paid, up, worker, faults, crashes,
                   spoiled>>

-----------------------------------------------------------------------------
(* A polling pass.                                                         *)

\* What GetAllUnFinishSyncTasks and GetTimedOutUnfinishedTasks select.
Unfinished(r) == r.status \notin Final \cup {"none"} /\ r.progress # "100%"

Failed(r) == [r EXCEPT !.status = "FAILURE", !.progress = "100%"]

Goto(w, pc) == [worker EXCEPT ![w].pc = pc]

\* A pass that has swept a task goes on to list what is unfinished.
After(w) ==
    IF worker[w].by = "sweep" THEN Goto(w, "list")
                              ELSE [worker EXCEPT ![w] = Idle]

Listed(w) ==
    [worker EXCEPT ![w] = [Idle EXCEPT !.pc = "fetch", !.from = row.status,
                                       !.new = row]]

\* A mutant: the sweep clears every quota with the row, not only a legacy task's.
SweptClears(r) == [Failed(r) EXCEPT !.quota = 0]

\* sweepTimedOutTasks: a legacy task is not refunded, its quota goes with it.
Swept(r) == IF kind.age = "legacy" THEN [Failed(r) EXCEPT !.quota = 0]
                                   ELSE Failed(r)

\* A mutant: a pass that never sweeps.
PassNeverSweeps(w) ==
    /\ worker[w].pc = "idle"
    /\ Unfinished(row)
    /\ worker' = Listed(w)
    /\ UNCHANGED <<kind, row, sub, paid, up, late, faults, crashes, spoiled>>

\* A pass is scheduled while there are unfinished tasks; it sweeps first.
Pass(w) ==
    /\ worker[w].pc = "idle"
    /\ Unfinished(row)
    /\ worker' = IF late = "yes"
                 THEN [worker EXCEPT ![w] =
                          [Idle EXCEPT !.pc = "write", !.by = "sweep",
                                       !.from = row.status,
                                       !.new = Swept(row)]]
                 ELSE Listed(w)
    /\ UNCHANGED <<kind, row, sub, paid, up, late, faults, crashes, spoiled>>

List(w) ==
    /\ worker[w].pc = "list"
    /\ worker' = IF Unfinished(row) THEN Listed(w)
                                    ELSE [worker EXCEPT ![w] = Idle]
    /\ UNCHANGED <<kind, row, sub, paid, up, late, faults, crashes, spoiled>>

\* A mutant: the cutoff comes one poll too late.
recordPollFailureLate(r) ==
    LET counted == [r EXCEPT !.failures = @ + 1] IN
    IF r.failures > MaxFailures
    THEN [by |-> "fail", new |-> Failed(counted)]
    ELSE [by |-> "poll", new |-> counted]

\* A poll that fails is counted in the row; the last one allowed fails the
\* task.
recordPollFailure(r) ==
    LET counted == [r EXCEPT !.failures = @ + 1] IN
    IF MaxFailures = 0 THEN [by |-> "poll", new |-> r]
    ELSE IF r.failures + 1 >= MaxFailures
    THEN [by |-> "fail", new |-> Failed(counted)]
    ELSE [by |-> "poll", new |-> counted]

\* What the answer of upstream makes of the copy: its status (an answer that
\* is not final clears the count of failures), a failure to get one, or the
\* task is unknown there (failTaskFromPoll).
Answers(r) ==
    {[by |-> "poll",
      new |-> IF up \in Final
              THEN [r EXCEPT !.status = up, !.progress = "100%"]
              ELSE [r EXCEPT !.status = up, !.progress = p, !.failures = 0]]
        : p \in Progress}
    \cup {recordPollFailure(r), [by |-> "fail", new |-> Failed(r)]}

\* The answer arrives. Nothing is written when there is no adaptor for the
\* platform or the copy is as it was.
Answer(w) ==
    /\ worker[w].pc = "fetch"
    /\ \/ \E a \in Answers(worker[w].new) :
            worker' = [worker EXCEPT ![w].pc = "write", ![w].by = a.by,
                                     ![w].new = a.new]
       \/ worker' = [worker EXCEPT ![w] = Idle]
    /\ UNCHANGED <<kind, row, sub, paid, up, late, faults, crashes, spoiled>>

\* The channel of the task cannot be read: TaskBulkUpdateByID fails the row
\* whatever has become of it, and nobody bills it.
BulkFail(w) ==
    /\ worker[w].pc = "fetch"
    /\ \/ /\ row' = Failed(row)
          /\ spoiled' = spoiled \cup {"bulk"}
          /\ UNCHANGED faults
       \/ Fault /\ UNCHANGED <<row, spoiled>>
    /\ worker' = [worker EXCEPT ![w] = Idle]
    /\ UNCHANGED <<kind, sub, paid, up, late, crashes>>

-----------------------------------------------------------------------------
(* Writing the copy back, and billing.                                     *)

\* A mutant: the tiered settlement takes over failed tasks too, and nobody
\* refunds them.
BillsTieredKept(by, new) ==
    IF \/ new.status \notin Final
       \/ by = "poll" /\ kind.billing = "tiered"
    THEN {new.quota} ELSE {0}

\* The prices settleTaskBillingOnComplete and the caller's refund may leave
\* the user with.  The hook of a plugin may find usage in any outcome, a task
\* given up after failing polls included.
Bills(by, new) ==
    LET unsettled == IF new.status = "FAILURE" THEN 0 ELSE new.quota IN
    IF by = "fetch" \/ new.status \notin Final THEN {new.quota}
    ELSE CASE by = "sweep" -> {IF kind.age = "legacy" THEN new.quota ELSE 0}
           [] by # "sweep" /\ kind.billing = "perCall" -> {unsettled}
           [] by # "sweep" /\ kind.billing = "tiered" ->
                 IF new.status = "FAILURE" THEN {0}
                 ELSE Amounts \cup {new.quota}
           [] by # "sweep" /\ kind.billing = "usage" ->
                 Amounts \cup {unsettled}

\* A mutant: the row is saved without its compare-and-swap.
WonAlways(w) == row.status # "none"

Won(w) == row.status = worker[w].from

\* UpdateWithStatus writes the whole copy if the status is still the one that
\* was read; the winner of a move to a final status bills the task.
Write(w) ==
    LET new == worker[w].new IN
    /\ worker[w].pc = "write"
    /\ \/ /\ Won(w)
          /\ row' = new
          /\ \E t \in Bills(worker[w].by, new) :
                worker' = IF t = new.quota THEN After(w)
                          ELSE [worker EXCEPT ![w].pc = "adjust",
                                              ![w].target = t]
          /\ spoiled' = IF worker[w].by = "sweep" /\ kind.age = "legacy"
                        THEN spoiled \cup {"legacy"} ELSE spoiled
          /\ UNCHANGED faults
       \/ /\ ~Won(w)
          /\ worker' = After(w)
          /\ UNCHANGED <<row, faults, spoiled>>
       \/ /\ Fault
          /\ worker' = After(w)
          /\ UNCHANGED <<row, spoiled>>
    /\ UNCHANGED <<kind, sub, paid, up, late, crashes>>

\* RefundTaskQuota and RecalculateTaskQuota move the difference between the
\* price wanted and the copy's quota; a failure leaves everything as it is.
Adjust(w) ==
    /\ worker[w].pc = "adjust"
    /\ \/ /\ paid' = paid + (worker[w].target - worker[w].new.quota)
          /\ worker' = Goto(w, "mark")
          /\ UNCHANGED <<faults, spoiled>>
       \/ /\ Fault
          /\ spoiled' = spoiled \cup {"funding"}
          /\ worker' = After(w)
          /\ UNCHANGED paid
    /\ UNCHANGED <<kind, row, sub, up, late, crashes>>

\* A mutant: a price that cannot be written is billed again.
MarkRetriesBilling(w) ==
    /\ worker[w].pc = "mark"
    /\ \/ /\ row' = [row EXCEPT !.quota = worker[w].target]
          /\ worker' = After(w)
          /\ UNCHANGED faults
       \/ /\ Fault
          /\ worker' = Goto(w, "adjust")
          /\ UNCHANGED row
    /\ UNCHANGED <<kind, sub, paid, up, late, crashes, spoiled>>

\* UpdateQuota writes the new price into the row, by primary key.
Mark(w) ==
    /\ worker[w].pc = "mark"
    /\ \/ /\ row' = [row EXCEPT !.quota = worker[w].target]
          /\ UNCHANGED <<faults, spoiled>>
       \/ /\ Fault
          /\ spoiled' = spoiled \cup {"mark"}
          /\ UNCHANGED row
    /\ worker' = After(w)
    /\ UNCHANGED <<kind, sub, paid, up, late, crashes>>

\* The process of a pass dies. What it had won stays won.
Crash(w) ==
    /\ worker[w].pc # "idle"
    /\ crashes < MaxCrashes
    /\ crashes' = crashes + 1
    /\ worker' = [worker EXCEPT ![w] = Idle]
    /\ spoiled' = IF worker[w].pc \in {"adjust", "mark"}
                  THEN spoiled \cup {"crash"} ELSE spoiled
    /\ UNCHANGED <<kind, row, sub, paid, up, late, faults>>

Step(w) ==
    \/ Pass(w) \/ List(w) \/ Answer(w)
    \/ Write(w) \/ Adjust(w) \/ Mark(w)

Next ==
    \/ Insert \/ InsertFails \/ SettleSubmission
    \/ UpstreamEnds \/ Expire
    \/ \E w \in Poller : Step(w) \/ BulkFail(w) \/ Crash(w)

Spec == Init /\ [][Next]_vars

-----------------------------------------------------------------------------
(* The fetch of a Gemini or Vertex task by its user.                       *)

\* GetByTaskId reads the row whatever its status.
FetchRead(w) ==
    /\ worker[w].pc = "idle"
    /\ row.status # "none"
    /\ worker' = Listed(w)
    /\ UNCHANGED <<kind, row, sub, paid, up, late, faults, crashes, spoiled>>

\* The answer goes into the copy; unless that changes nothing, or there was
\* no answer, the copy is written back, and nobody bills it.
FetchReply(w) ==
    /\ worker[w].pc = "fetch"
    /\ \/ \E p \in {"part", "100%"} :
            worker' = [worker EXCEPT ![w].pc = "write", ![w].by = "fetch",
                                     ![w].new.status = up,
                                     ![w].new.progress = p]
       \/ worker' = [worker EXCEPT ![w] = Idle]
    /\ UNCHANGED <<kind, row, sub, paid, up, late, faults, crashes, spoiled>>

RealtimeNext ==
    \/ Next
    \/ \E w \in Fetcher : FetchRead(w) \/ FetchReply(w) \/ Write(w)

RealtimeSpec == Init /\ [][RealtimeNext]_vars

-----------------------------------------------------------------------------
(* Fairness: the scheduler starts a pass every 15 seconds while a task is  *)
(* unfinished and a pass that runs goes on (its HTTP calls time out); time *)
(* passes. Nothing is assumed of the upstream service.                     *)
Fairness ==
    /\ \A w \in Poller : WF_vars(Step(w))
    /\ WF_vars(Expire)

FairSpec == Spec /\ Fairness

-----------------------------------------------------------------------------
(* Properties.                                                             *)

\* The types of the row, the submission and the passes; the count of failed
\* polls never exceeds TaskPollMaxFailures.
TypeOK ==
    /\ kind \in [billing : Billing, age : Ages]
    /\ row \in Row
    /\ sub \in [stage : {"reserved", "dropped", "settling", "settled",
                         "unsettled"},
                quota : Nat]
    /\ paid \in Int
    /\ up \in Status \ {"NOT_START"}
    /\ late \in {"no", "yes"}
    /\ worker \in [Poller \cup Fetcher -> Worker]
    /\ faults \in 0 .. MaxFaults /\ crashes \in 0 .. MaxCrashes
    /\ spoiled \subseteq {"bulk", "legacy", "funding", "mark", "crash"}

\* What the hold still exceeds the recorded price by.
Excess == CASE sub.stage = "reserved" -> Hold
            [] sub.stage \in {"settling", "unsettled"} -> Hold - sub.quota
            [] OTHER -> 0

\* The price of the task: what the user pays apart from that excess.
Price == paid - Excess

\* A poller's refund or settlement (RefundTaskQuota, RecalculateTaskQuota)
\* never returns more than the task was charged, however many passes, sweeps
\* and crashes meet on it: the price of a task is never negative.
NeverOverRefunded == Price >= 0

\* Task.Quota in the row is what the user still pays for the task, which
\* operators and later refunds rely on, at every moment at which no pass is
\* between moving the money and writing the row; the exceptions are a crash
\* or a failed UPDATE just there, and legacy tasks.
RowTellsThePrice ==
    \/ sub.stage \in {"reserved", "dropped"}
    \/ \E w \in Poller : worker[w].pc = "mark"
    \/ spoiled \cap {"legacy", "mark", "crash"} # {}
    \/ Price = row.quota

\* A failed task that is billed by the call or by tiers costs nothing once
\* nobody is about to refund it, unless its refund failed or was cut short,
\* the task is a legacy one, or the channel of the task was gone
\* (TaskBulkUpdateByID, which its own comment forbids here).
FailedIsRefunded ==
    \/ row.status # "FAILURE"
    \/ kind.billing = "usage"
    \/ \E w \in Poller : worker[w].pc \in {"adjust", "mark"}
    \/ spoiled # {}
    \/ Price = 0

\* A final status stays: the copies of slow passes never revive a task, and
\* only a lost channel turns a success into a failure.
EndedForGood ==
    [][row.status \in Final =>
          /\ row'.status \in Final
          /\ row'.status # row.status =>
                row'.status = "FAILURE" /\ "bulk" \in spoiled']_vars

\* Every recorded task gets a final status, whatever upstream does: polls
\* that keep failing count up to the limit, and the sweep ends the rest.
EveryTaskEnds == (sub.stage = "settling") ~> (row.status \in Final)

\* The phase of the task's account, as Escrow has it.
Phase ==
    IF sub.stage = "reserved" THEN "new"
    ELSE IF row.status \in Status \ Final THEN "open"
    ELSE IF \E w \in Poller : worker[w].pc = "adjust" THEN "due"
    ELSE "closed"

E == INSTANCE Escrow WITH phase <- Phase, price <- Price

\* The polling passes implement the account a user is promised: one decision
\* after the end of the task, and none after that.
Escrowed == E!Spec
=============================================================================
