----------------------------- MODULE SystemTask -----------------------------
(***************************************************************************)
(* The system-task runner: model/system_task.go and service/system_task.go.*)
(* Every master node runs a runner; a task of a given type is a row of     *)
(* system_tasks, and the type's row of system_task_locks is a lease that   *)
(* its runner renews while the handler works.  Types do not interact, so   *)
(* the module is about one type.                                           *)
(*                                                                         *)
(* Every SQL statement is a step, and so is the moment at which an         *)
(* operation reads the clock that a later statement compares with.         *)
(***************************************************************************)
EXTENDS Integers

CONSTANTS
    Runner,      \* runner ids; a restarted node has a new one
    Nobody,      \* the empty locked_by column
    MaxTask,     \* bound on the rows that are created
    TTL,         \* systemTaskLockTTL
    MaxTime,     \* bound on the clock
    MaxCrashes,  \* bound on the runners that crash
    MaxFaults,   \* bound on failing statements and panicking handlers
    Stalls       \* a live runner may be stalled for longer than a lease

ASSUME RunnerAssumption == Nobody \notin Runner

ASSUME BoundAssumption ==
    /\ MaxTask \in Nat
    /\ TTL \in Nat
    /\ MaxTime \in Nat
    /\ MaxCrashes \in Nat
    /\ MaxFaults \in Nat
    /\ Stalls \in BOOLEAN

TaskId == 1..MaxTask

VARIABLES
    now,      \* the clock of the nodes
    rows,     \* system_tasks
    lock,     \* the type's row of system_task_locks
    runner,   \* Runner -> its loop, in runPass
    handler,  \* Runner -> task -> the goroutine of runWithLeaseHeartbeat
    crashes,
    faults

vars == <<now, rows, lock, runner, handler, crashes, faults>>

\* active_key is set exactly while a row is pending or running: every
\* statement that changes one of the two changes both.
Row == [status : {"absent", "pending", "running", "succeeded", "failed"},
        lockedBy : Runner \cup {Nobody}]

\* task 0 stands for a missing row
Lock == [task : 0..MaxTask, lockedBy : Runner \cup {Nobody}, until : Nat]

NoLock == [task |-> 0, lockedBy |-> Nobody, until |-> 0]

Claiming == {"select", "insert", "existing", "takeover"}
Acquired == {"expire", "run", "release", "reread"}
LoopPc == {"idle", "stale", "mark", "delete", "find", "dead"}
              \cup Claiming \cup Acquired

\* now is the timestamp the current operation has read, task and owner the
\* row it works on, expired the task of the lease that was taken over
Loop == [pc : LoopPc,
         task : 0..MaxTask, owner : Runner \cup {Nobody}, now : Nat,
         until : Nat, expired : 0..MaxTask]

\* beat is the heartbeat's goroutine, sent between its clock and its UPDATE
Handler == [pc : {"none", "run", "finish", "release", "done"}, now : Nat,
            beat : {"on", "sent", "off"}, beatNow : Nat]

\* Rows, leases, loops and handlers have their types, and no timestamp that
\* an operation has read lies in the future.
TypeOK ==
    /\ now \in Nat
    /\ rows \in [TaskId -> Row]
    /\ lock \in Lock
    /\ runner \in [Runner -> Loop]
    /\ handler \in [Runner -> [TaskId -> Handler]]
    /\ crashes \in Nat
    /\ faults \in Nat
    /\ \A r \in Runner : runner[r].now <= now
    /\ \A r \in Runner, t \in TaskId :
           handler[r][t].now <= now /\ handler[r][t].beatNow <= now

Idle == [pc |-> "idle", task |-> 0, owner |-> Nobody, now |-> 0,
         until |-> 0, expired |-> 0]

NoHandler == [pc |-> "none", now |-> 0, beat |-> "off", beatNow |-> 0]

Init ==
    /\ now = 0
    /\ rows = [t \in TaskId |-> [status |-> "absent", lockedBy |-> Nobody]]
    /\ lock = NoLock
    /\ runner = [r \in Runner |-> Idle]
    /\ handler = [r \in Runner |-> [t \in TaskId |-> NoHandler]]
    /\ crashes = 0
    /\ faults = 0

Active(t) == rows[t].status \in {"pending", "running"}
Working(r, t) == handler[r][t].pc \in {"run", "finish"}

\* A statement fails, or a handler panics.
Fault == faults < MaxFaults /\ faults' = faults + 1
NoFault == UNCHANGED faults

\* A goroutine keeps no more than what its next step uses.
Goto(r, pc) == runner' = [runner EXCEPT ![r].pc = pc]
Restart(r, pc) == runner' = [runner EXCEPT ![r] = [Idle EXCEPT !.pc = pc]]
Done(r) == Restart(r, "idle")
Hold(r, pc) ==
    runner' = [runner EXCEPT ![r] = [Idle EXCEPT !.pc = pc,
                                                 !.task = runner[r].task]]
HandlerGoto(r, t, pc) ==
    handler' = [handler EXCEPT ![r][t].pc = pc, ![r][t].now = 0]

\* The handler returns; its heartbeat still ends a renewal it has begun.
HandlerDone(r, t) ==
    handler' = [handler EXCEPT ![r][t].pc = "done", ![r][t].now = 0,
                               ![r][t].beat = IF @ = "sent" THEN @ ELSE "off"]

(***************************************************************************)
(* Rows are created by the scheduler of every runner and by API requests.  *)
(***************************************************************************)
\* A mutant: active_key without its unique index.
CreateSystemTaskAnyway(t) ==
    /\ rows[t].status = "absent"
    /\ \A u \in TaskId : u < t => rows[u].status # "absent"
    /\ rows' = [rows EXCEPT ![t].status = "pending"]
    /\ UNCHANGED <<now, lock, runner, handler, crashes, faults>>

\* CreateSystemTask: the unique index on active_key refuses a second active
\* row, whatever the caller looked up before.
CreateSystemTask(t) ==
    /\ rows[t].status = "absent"
    /\ \A u \in TaskId : u < t => rows[u].status # "absent"
    /\ \A u \in TaskId : ~Active(u)
    /\ rows' = [rows EXCEPT ![t].status = "pending"]
    /\ UNCHANGED <<now, lock, runner, handler, crashes, faults>>

(***************************************************************************)
(* runPass: the stale-lock pass when it is due, then the claim pass.       *)
(***************************************************************************)
\* ExpireStaleSystemTaskLocks gets the time as its argument.
BeginStale(r) ==
    /\ runner[r].pc = "idle"
    /\ runner' = [runner EXCEPT ![r].pc = "stale", ![r].now = now]
    /\ UNCHANGED <<now, rows, lock, handler, crashes, faults>>

SkipStale(r) ==
    /\ runner[r].pc = "idle"
    /\ Restart(r, "find")
    /\ UNCHANGED <<now, rows, lock, handler, crashes, faults>>

\* The type's lease has lapsed, as a runner that has read the time n sees it.
Lapsed(n) == lock.task # 0 /\ lock.until < n

\* ExpireStaleSystemTaskLocks: SELECT the lapsed lease.
StaleSelect(r) ==
    /\ runner[r].pc = "stale"
    /\ \/ /\ Lapsed(runner[r].now) /\ NoFault
          /\ runner' = [runner EXCEPT ![r].pc = "mark", ![r].task = lock.task,
                                      ![r].owner = lock.lockedBy]
       \/ ~Lapsed(runner[r].now) /\ Restart(r, "find") /\ NoFault
       \/ Fault /\ Restart(r, "find")
    /\ UNCHANGED <<now, rows, lock, handler, crashes>>

\* Mutants: the UPDATE without its condition on the status, and with the wrong
\* status.
LeaseExpiredAlways(t) == rows' = [rows EXCEPT ![t].status = "failed"]
LeaseExpiredPending(t) ==
    rows' = [rows EXCEPT ![t].status = IF @ = "pending" THEN "failed" ELSE @]

\* MarkSystemTaskLeaseExpired(t)
LeaseExpired(t) ==
    rows' = [rows EXCEPT ![t].status = IF @ = "running" THEN "failed" ELSE @]

StaleMark(r) ==
    /\ runner[r].pc = "mark"
    /\ \/ LeaseExpired(runner[r].task) /\ Goto(r, "delete") /\ NoFault
       \/ Fault /\ Restart(r, "find") /\ UNCHANGED rows
    /\ UNCHANGED <<now, lock, handler, crashes>>

\* A mutant: the DELETE by type and task only.
StaleDeleteAny(r) ==
    /\ runner[r].pc = "delete"
    /\ lock' = IF lock.task = runner[r].task THEN NoLock ELSE lock
    /\ Restart(r, "find")
    /\ UNCHANGED <<now, rows, handler, crashes, faults>>

\* The DELETE only matches the lease that was selected.
StaleDelete(r) ==
    LET me == runner[r]
        same == /\ lock.task = me.task /\ lock.lockedBy = me.owner
                /\ Lapsed(me.now)
    IN  /\ me.pc = "delete"
        /\ \/ same /\ lock' = NoLock /\ NoFault
           \/ ~same /\ UNCHANGED lock /\ NoFault
           \/ Fault /\ UNCHANGED lock
        /\ Restart(r, "find")
        /\ UNCHANGED <<now, rows, handler, crashes>>

\* runSystemTaskClaimPass: the earliest pending row, and lockUntil.
FindPending(r) ==
    /\ runner[r].pc = "find"
    /\ \/ /\ \E t \in TaskId :
                /\ rows[t].status = "pending"
                /\ \A u \in TaskId : rows[u].status = "pending" => t <= u
                /\ runner' = [runner EXCEPT ![r].pc = "select", ![r].task = t,
                                            ![r].until = now + TTL]
          /\ NoFault
       \/ (\A t \in TaskId : rows[t].status # "pending") /\ Done(r) /\ NoFault
       \/ Fault /\ Done(r)
    /\ UNCHANGED <<now, rows, lock, handler, crashes>>

(***************************************************************************)
(* ClaimSystemTask and acquireSystemTaskLock.                              *)
(***************************************************************************)
\* A mutant: lockUntil passed where now is expected.
ClaimSelectSwapped(r) ==
    /\ runner[r].pc = "select" /\ rows[runner[r].task].status = "pending"
    /\ runner' = [runner EXCEPT ![r].pc = "insert", ![r].now = runner[r].until]
    /\ UNCHANGED <<now, rows, lock, handler, crashes, faults>>

ClaimSelect(r) ==
    /\ runner[r].pc = "select"
    /\ \/ /\ rows[runner[r].task].status = "pending" /\ NoFault
          /\ runner' = [runner EXCEPT ![r].pc = "insert", ![r].now = now]
       \/ rows[runner[r].task].status # "pending" /\ Done(r) /\ NoFault
       \/ Fault /\ Done(r)
    /\ UNCHANGED <<now, rows, lock, handler, crashes>>

\* The lease that this claim writes.
Lease(r) == [task |-> runner[r].task, lockedBy |-> r,
             until |-> runner[r].until]

\* Any error of the INSERT is taken for a duplicate key.
AcquireInsert(r) ==
    /\ runner[r].pc = "insert"
    /\ \/ lock.task = 0 /\ lock' = Lease(r) /\ Hold(r, "run") /\ NoFault
       \/ lock.task # 0 /\ Goto(r, "existing") /\ NoFault /\ UNCHANGED lock
       \/ Fault /\ Goto(r, "existing") /\ UNCHANGED lock
    /\ UNCHANGED <<now, rows, handler, crashes>>

AcquireSelect(r) ==
    /\ runner[r].pc = "existing"
    /\ \/ /\ Lapsed(runner[r].now) /\ NoFault
          /\ runner' = [runner EXCEPT ![r].pc = "takeover",
                                      ![r].expired = lock.task]
       \/ ~Lapsed(runner[r].now) /\ Done(r) /\ NoFault
       \/ Fault /\ Done(r)
    /\ UNCHANGED <<now, rows, lock, handler, crashes>>

AcquireTakeover(r) ==
    /\ runner[r].pc = "takeover"
    /\ \/ /\ Lapsed(runner[r].now) /\ lock' = Lease(r) /\ NoFault
          /\ IF runner[r].expired = runner[r].task
             THEN Hold(r, "run") ELSE Goto(r, "expire")
       \/ ~Lapsed(runner[r].now) /\ Done(r) /\ NoFault /\ UNCHANGED lock
       \/ Fault /\ Done(r) /\ UNCHANGED lock
    /\ UNCHANGED <<now, rows, handler, crashes>>

ClaimExpire(r) ==
    /\ runner[r].pc = "expire"
    /\ \/ LeaseExpired(runner[r].expired) /\ Hold(r, "run") /\ NoFault
       \/ Fault /\ Hold(r, "release") /\ UNCHANGED rows
    /\ UNCHANGED <<now, lock, handler, crashes>>

\* A mutant: the UPDATE by id alone, trusting the lease.
ClaimRunAnyway(r) ==
    /\ runner[r].pc = "run"
    /\ rows' = [rows EXCEPT ![runner[r].task].status = "running",
                            ![runner[r].task].lockedBy = r]
    /\ Goto(r, "reread")
    /\ UNCHANGED <<now, lock, handler, crashes, faults>>

\* The conditional UPDATE pending -> running decides who runs the task.
ClaimRun(r) ==
    LET t == runner[r].task
    IN  /\ runner[r].pc = "run"
        /\ \/ /\ rows[t].status = "pending" /\ NoFault
              /\ rows' = [rows EXCEPT ![t].status = "running",
                                      ![t].lockedBy = r]
              /\ Goto(r, "reread")
           \/ /\ rows[t].status # "pending" /\ NoFault
              /\ Goto(r, "release") /\ UNCHANGED rows
           \/ Fault /\ Goto(r, "release") /\ UNCHANGED rows
        /\ UNCHANGED <<now, lock, handler, crashes>>

\* ReleaseSystemTaskLock(t, r)
Released(r, t) ==
    lock' = IF lock.task = t /\ lock.lockedBy = r THEN NoLock ELSE lock

ClaimRelease(r) ==
    /\ runner[r].pc = "release"
    /\ \/ Released(r, runner[r].task) /\ NoFault
       \/ Fault /\ UNCHANGED lock
    /\ Done(r)
    /\ UNCHANGED <<now, rows, handler, crashes>>

\* A mutant: a claim whose last read fails gives the lease back.
ClaimRereadReleases(r) ==
    /\ runner[r].pc = "reread"
    /\ \/ /\ handler' = [handler EXCEPT ![r][runner[r].task] =
                           [NoHandler EXCEPT !.pc = "run", !.beat = "on"]]
          /\ NoFault /\ UNCHANGED lock
       \/ Fault /\ Released(r, runner[r].task) /\ UNCHANGED handler
    /\ Done(r)
    /\ UNCHANGED <<now, rows, crashes>>

\* The claimed row is read again and dispatched; when that fails nobody runs
\* it and the lease lapses.
ClaimReread(r) ==
    /\ runner[r].pc = "reread"
    /\ \/ /\ handler' = [handler EXCEPT ![r][runner[r].task] =
                           [NoHandler EXCEPT !.pc = "run", !.beat = "on"]]
          /\ NoFault
       \/ Fault /\ UNCHANGED handler
    /\ Done(r)
    /\ UNCHANGED <<now, rows, lock, crashes>>

(***************************************************************************)
(* runWithLeaseHeartbeat: the heartbeat and the handler.                   *)
(***************************************************************************)
LockIs(r, t) == lock.task = t /\ lock.lockedBy = r

\* The heartbeat ticks.
RenewRead(r, t) ==
    /\ handler[r][t].beat = "on"
    /\ handler' = [handler EXCEPT ![r][t].beat = "sent",
                                  ![r][t].beatNow = now]
    /\ UNCHANGED <<now, rows, lock, runner, crashes, faults>>

\* A lease that is lost, or an error, cancels the handler's context and ends
\* the heartbeat.
RenewSystemTaskLock(r, t) ==
    LET n == handler[r][t].beatNow
        held == LockIs(r, t) /\ lock.until >= n
        beat(b) == handler' = [handler EXCEPT ![r][t].beat = b,
                                              ![r][t].beatNow = 0]
    IN  /\ handler[r][t].beat = "sent"
        /\ \/ /\ held /\ NoFault
              /\ beat(IF handler[r][t].pc = "done" THEN "off" ELSE "on")
              /\ lock' = [lock EXCEPT !.until = n + TTL]
           \/ ~held /\ NoFault /\ beat("off") /\ UNCHANGED lock
           \/ Fault /\ beat("off") /\ UNCHANGED lock
        /\ UNCHANGED <<now, rows, runner, crashes>>

\* The handler returns without finishing: UpdateSystemTaskState reports that
\* the lease is lost or fails, or the handler panics.
HandlerGivesUp(r, t) ==
    /\ handler[r][t].pc = "run"
    /\ \/ /\ ~(LockIs(r, t) /\ lock.until >= now /\ rows[t].status = "running")
          /\ NoFault
       \/ Fault
    /\ HandlerDone(r, t)
    /\ UNCHANGED <<now, rows, lock, runner, crashes>>

FinishRead(r, t) ==
    /\ handler[r][t].pc = "run"
    /\ handler' = [handler EXCEPT ![r][t].pc = "finish", ![r][t].now = now]
    /\ UNCHANGED <<now, rows, lock, runner, crashes, faults>>

\* FinishSystemTask: the UPDATE needs the row and the lease.
FinishSystemTask(r, t) ==
    LET held == /\ rows[t].status = "running" /\ rows[t].lockedBy = r
                /\ LockIs(r, t) /\ lock.until >= handler[r][t].now
    IN  /\ handler[r][t].pc = "finish"
        /\ \/ /\ held /\ NoFault /\ HandlerGoto(r, t, "release")
              /\ \E s \in {"succeeded", "failed"} :
                    rows' = [rows EXCEPT ![t].status = s]
           \/ ~held /\ NoFault /\ HandlerDone(r, t) /\ UNCHANGED rows
           \/ Fault /\ HandlerDone(r, t) /\ UNCHANGED rows
        /\ UNCHANGED <<now, lock, runner, crashes>>

FinishRelease(r, t) ==
    /\ handler[r][t].pc = "release"
    /\ \/ Released(r, t) /\ NoFault
       \/ Fault /\ UNCHANGED lock
    /\ HandlerDone(r, t)
    /\ UNCHANGED <<now, rows, runner, crashes>>

(***************************************************************************)
(* Crashes and time.                                                       *)
(***************************************************************************)
\* The process dies with its loop, its handlers and its heartbeats.
Crash(r) ==
    /\ runner[r].pc # "dead" /\ crashes < MaxCrashes
    /\ crashes' = crashes + 1
    /\ runner' = [runner EXCEPT ![r] = [Idle EXCEPT !.pc = "dead"]]
    /\ handler' = [handler EXCEPT ![r] =
         [t \in TaskId |-> IF @[t].pc = "none" THEN @[t]
                           ELSE [NoHandler EXCEPT !.pc = "done"]]]
    /\ UNCHANGED <<now, rows, lock, faults>>

\* Somebody will still renew, use or release the lease.
HolderAlive ==
    \E r \in Runner, t \in TaskId :
        /\ LockIs(r, t)
        /\ \/ runner[r].pc \in Acquired /\ runner[r].task = t
           \/ handler[r][t].pc = "run" /\ handler[r][t].beat # "off"
           \/ handler[r][t].pc \in {"finish", "release"}

\* No live runner lets the lease it holds, or is about to write, lapse: a
\* claim takes less than systemTaskLockTTL and heartbeats come in time.
Timely ==
    /\ HolderAlive => now < lock.until
    /\ \A r \in Runner : runner[r].pc \in Claiming => now < runner[r].until

\* The clock passes its bound only where a lease that nobody will renew has
\* yet to lapse.
Tick ==
    /\ \/ now < MaxTime
       \/ lock.task # 0 /\ lock.until >= now /\ ~HolderAlive
    /\ Stalls \/ Timely
    /\ now' = now + 1
    /\ UNCHANGED <<rows, lock, runner, handler, crashes, faults>>

(***************************************************************************)
(* The specification.                                                      *)
(***************************************************************************)
ClaimStep(r) ==
    \/ ClaimSelect(r) \/ AcquireInsert(r) \/ AcquireSelect(r)
    \/ AcquireTakeover(r) \/ ClaimExpire(r) \/ ClaimRun(r)
    \/ ClaimRelease(r) \/ ClaimReread(r)

PassStep(r) ==
    \/ BeginStale(r) \/ SkipStale(r)
    \/ StaleSelect(r) \/ StaleMark(r) \/ StaleDelete(r)
    \/ FindPending(r) \/ ClaimStep(r)

HandlerStep(r, t) ==
    \/ HandlerGivesUp(r, t)
    \/ FinishRead(r, t) \/ FinishSystemTask(r, t) \/ FinishRelease(r, t)

HeartbeatStep(r, t) == RenewRead(r, t) \/ RenewSystemTaskLock(r, t)

Next ==
    \/ \E t \in TaskId : CreateSystemTask(t)
    \/ \E r \in Runner : PassStep(r) \/ Crash(r)
    \/ \E r \in Runner, t \in TaskId : HandlerStep(r, t) \/ HeartbeatStep(r, t)
    \/ Tick

Spec == Init /\ [][Next]_vars

\* Runners keep passing, the stale-lock pass is due again and again
\* (systemTaskStaleLockInterval), handlers end and time passes.
FairSpec ==
    /\ Spec
    /\ WF_vars(Tick)
    /\ \A r \in Runner : WF_vars(PassStep(r)) /\ SF_vars(BeginStale(r))
    /\ \A r \in Runner, t \in TaskId : WF_vars(HandlerStep(r, t))

(***************************************************************************)
(* Properties.                                                             *)
(***************************************************************************)
\* "the per-type lock guarantees only one runner executes the task"
\* (runSystemTaskScheduler): no row is ever dispatched by two runners, however
\* stale the lease they acquired.
OneRunnerPerTask ==
    \A r1, r2 \in Runner, t \in TaskId :
        handler[r1][t].pc # "none" /\ handler[r2][t].pc # "none" => r1 = r2

\* When two handlers of the type work at the same time, all but the newest
\* have had their row failed by an expired lease: what they still do can no
\* longer be recorded as a result.
OverlapOnlyAfterExpiry ==
    \A r1, r2 \in Runner, t1, t2 \in TaskId :
        Working(r1, t1) /\ Working(r2, t2) /\ t1 < t2 =>
            rows[t1].status = "failed"

\* A finished row is final: neither a superseded handler nor a stale-lock pass
\* that comes late changes its outcome or who is recorded as its runner.
FinishedForGood ==
    [][\A t \in TaskId : rows[t].status \in {"succeeded", "failed"} =>
                             rows'[t] = rows[t]]_rows

\* A lease that has not lapsed goes away only because its holder releases it,
\* whatever timestamps the other runners have read before.
LeaseRespected ==
    [][(lock.task # 0 /\ lock.until >= now
            /\ ~(lock'.task = lock.task /\ lock'.lockedBy = lock.lockedBy)) =>
          /\ lock' = NoLock
          /\ \/ /\ runner[lock.lockedBy].pc = "release"
                /\ runner[lock.lockedBy].task = lock.task
             \/ handler[lock.lockedBy][lock.task].pc = "release"]_lock

\* "mark expired leases failed" (systemTaskRunnerIdleInterval): a running row
\* keeps its lease row, which is what the stale-lock pass finds it by.
RunningIsLeased ==
    \A t \in TaskId : rows[t].status = "running" => lock.task = t

\* "The TTL is a crash-detection window, not a task time limit: an arbitrarily
\* long handler stays alive as long as the heartbeat succeeds"
\* (runWithLeaseHeartbeat): a running row whose runner holds a lease that has
\* not lapsed is failed by its own handler only.
LiveLeaseNeverExpired ==
    [][\A t \in TaskId, r \in Runner :
          /\ rows[t].status = "running" /\ rows[t].lockedBy = r
          /\ LockIs(r, t) /\ lock.until >= now
          /\ rows'[t].status # "running"
          => handler[r][t].pc = "finish"]_rows

\* Every row that is created reaches a final status, after a crash of its
\* runner too: until then no new row of the type can be created.
EveryTaskEnds == \A t \in TaskId : Active(t) ~> ~Active(t)
=============================================================================
