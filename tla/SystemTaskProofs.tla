-------------------------- MODULE SystemTaskProofs --------------------------
(***************************************************************************)
(* Proofs about SystemTask, for any number of runners and rows, any TTL,   *)
(* any bound on time, crashes and faults, and runners that may be stalled  *)
(* for any time; the last section is about runners that are not.           *)
(***************************************************************************)
EXTENDS SystemTask, TLAPS

\* A handler was dispatched by the runner the row is recorded for.
Dispatched ==
    \A r \in Runner, t \in TaskId : handler[r][t].pc # "none" =>
        rows[t].lockedBy = r /\ rows[t].status \notin {"absent", "pending"}

\* A claim works on a row, and one that has made its row running is about to
\* dispatch the row's first handler.
ClaimsOwn ==
    /\ \A r \in Runner : runner[r].pc \in Claiming \cup Acquired =>
           runner[r].task \in TaskId
    /\ \A r \in Runner : runner[r].pc = "reread" =>
           /\ rows[runner[r].task].lockedBy = r
           /\ rows[runner[r].task].status \in {"running", "failed"}
           /\ handler[r][runner[r].task].pc = "none"

\* The row of a handler that still works has no result.
WorkingOpen ==
    \A r \in Runner, t \in TaskId :
        Working(r, t) => rows[t].status \in {"running", "failed"}

\* A row is created after all earlier ones are finished.
Ordered ==
    \A t1, t2 \in TaskId : t1 < t2 /\ rows[t2].status # "absent" =>
        rows[t1].status \in {"succeeded", "failed"}

\* The inductive invariant.
IInv == TypeOK /\ Dispatched /\ ClaimsOwn /\ WorkingOpen /\ Ordered

(***************************************************************************)
(* What the moves of a loop, a handler and a row do to the fields.         *)
(***************************************************************************)
\* The loop of r moves to pc, keeping task and a timestamp n.
LoopTo(r, pc, task, n) ==
    /\ runner' \in [Runner -> Loop]
    /\ runner'[r].pc = pc /\ runner'[r].task = task /\ runner'[r].now = n
    /\ \A q \in Runner : q # r => runner'[q] = runner[q]

\* The loop of r moves, without having made a row running.
LoopMoved(r) ==
    /\ runner' \in [Runner -> Loop]
    /\ runner'[r].now <= now /\ runner'[r].pc # "reread"
    /\ runner'[r].pc \in Claiming \cup Acquired => runner'[r].task \in TaskId
    /\ \A q \in Runner : q # r => runner'[q] = runner[q]

\* The handler of r for t moves to pc.
HandlerTo(r, t, pc) ==
    /\ handler' \in [Runner -> [TaskId -> Handler]]
    /\ handler'[r][t].pc = pc
    /\ handler'[r][t].now <= now /\ handler'[r][t].beatNow <= now
    /\ \A q \in Runner, u \in TaskId :
           q # r \/ u # t => handler'[q][u] = handler[q][u]

\* No row changes but for running rows that fail.
OnlyFails ==
    /\ rows' \in [TaskId -> Row]
    /\ \A t \in TaskId :
          \/ rows'[t] = rows[t]
          \/ /\ rows[t].status = "running" /\ rows'[t].status = "failed"
             /\ rows'[t].lockedBy = rows[t].lockedBy

\* Goto keeps everything but the position.
LEMMA GotoEffect ==
    ASSUME TypeOK, NEW r \in Runner, NEW pc \in LoopPc, Goto(r, pc)
    PROVE  LoopTo(r, pc, runner[r].task, runner[r].now)
BY DEF TypeOK, Loop, Goto, LoopTo

\* Restart and Done forget the pass.
LEMMA RestartEffect ==
    ASSUME TypeOK, NEW r \in Runner, NEW pc \in LoopPc, Restart(r, pc)
    PROVE  LoopTo(r, pc, 0, 0)
<1> DEFINE v == [Idle EXCEPT !.pc = pc]
<1>1. v \in Loop /\ v.pc = pc /\ v.task = 0 /\ v.now = 0
      BY BoundAssumption DEF Idle, Loop
<1>2. runner' = [runner EXCEPT ![r] = v]
      BY DEF Restart
<1> HIDE DEF v
<1> QED BY <1>1, <1>2 DEF TypeOK, LoopTo

\* Hold keeps the task.
LEMMA HoldEffect ==
    ASSUME TypeOK, NEW r \in Runner, NEW pc \in LoopPc, Hold(r, pc)
    PROVE  LoopTo(r, pc, runner[r].task, 0)
<1> DEFINE k == runner[r].task
           v == [Idle EXCEPT !.pc = pc, !.task = k]
<1>1. k \in 0..MaxTask
      BY DEF TypeOK, Loop
<1>2. runner' = [runner EXCEPT ![r] = v]
      BY DEF Hold
<1> HIDE DEF k
<1>3. v \in Loop
      <2>1. 0 \in 0..MaxTask
            BY BoundAssumption
      <2> QED BY <1>1, <2>1 DEF Idle, Loop
<1>4. v.pc = pc /\ v.task = k /\ v.now = 0
      BY DEF Idle
<1> HIDE DEF v
<1>5. LoopTo(r, pc, k, 0)
      BY <1>2, <1>3, <1>4 DEF TypeOK, LoopTo
<1> QED BY <1>5 DEF k

\* A handler becomes what an update of its record says.
LEMMA HandlerSet ==
    ASSUME TypeOK, NEW r \in Runner, NEW t \in TaskId, NEW v \in Handler,
           v.now <= now, v.beatNow <= now,
           handler' = [handler EXCEPT ![r][t] = v]
    PROVE  HandlerTo(r, t, v.pc)
<1>1. \A q \in Runner, u \in TaskId :
          handler'[q][u] = IF q = r /\ u = t THEN v ELSE handler[q][u]
      BY DEF TypeOK
<1>2. handler' \in [Runner -> [TaskId -> Handler]]
      BY DEF TypeOK
<1> QED BY <1>1, <1>2 DEF HandlerTo

\* HandlerGoto forgets the timestamp only.
LEMMA HandlerGotoEffect ==
    ASSUME TypeOK, NEW r \in Runner, NEW t \in TaskId,
           NEW pc \in {"none", "run", "finish", "release", "done"},
           HandlerGoto(r, t, pc)
    PROVE  HandlerTo(r, t, pc)
<1> DEFINE h == handler[r][t]
           v == [h EXCEPT !.pc = pc, !.now = 0]
<1>1. h \in Handler /\ h.beatNow <= now /\ now \in Nat
      BY DEF TypeOK
<1>2. handler' = [handler EXCEPT ![r][t] = v]
      BY DEF HandlerGoto
<1> HIDE DEF h
<1>3. v \in Handler /\ v.pc = pc /\ v.now = 0 /\ v.beatNow = h.beatNow
      BY <1>1 DEF Handler
<1> HIDE DEF v
<1>4. v.now <= now /\ v.beatNow <= now
      BY <1>1, <1>3
<1>5. HandlerTo(r, t, v.pc)
      BY <1>2, <1>3, <1>4, HandlerSet
<1> QED BY <1>3, <1>5

\* So does HandlerDone, which ends the heartbeat too.
LEMMA HandlerDoneEffect ==
    ASSUME TypeOK, NEW r \in Runner, NEW t \in TaskId, HandlerDone(r, t)
    PROVE  HandlerTo(r, t, "done")
<1> DEFINE h == handler[r][t]
           b == IF h.beat = "sent" THEN "sent" ELSE "off"
           v == [h EXCEPT !.pc = "done", !.now = 0, !.beat = b]
<1>1. h \in Handler /\ h.beatNow <= now /\ now \in Nat
      BY DEF TypeOK
<1>2. handler' = [handler EXCEPT ![r][t] = v]
      BY DEF HandlerDone
<1> HIDE DEF h
<1>3. v \in Handler /\ v.pc = "done" /\ v.now = 0 /\ v.beatNow = h.beatNow
      BY <1>1 DEF Handler
<1> HIDE DEF v
<1>4. v.now <= now /\ v.beatNow <= now
      BY <1>1, <1>3
<1>5. HandlerTo(r, t, v.pc)
      BY <1>2, <1>3, <1>4, HandlerSet
<1> QED BY <1>3, <1>5

\* MarkSystemTaskLeaseExpired touches running rows only.
LEMMA LeaseExpiredEffect ==
    ASSUME TypeOK, NEW u \in 0..MaxTask, LeaseExpired(u)
    PROVE  OnlyFails
BY DEF TypeOK, LeaseExpired, Row, OnlyFails

\* A lease that is written, kept, renewed or deleted is a lease.
LEMMA LockTypes ==
    ASSUME TypeOK, NEW r \in Runner
    PROVE  /\ NoLock \in Lock
           /\ Lease(r) \in Lock
           /\ \A n \in Nat : [lock EXCEPT !.until = n] \in Lock
<1>1. NoLock \in Lock
      BY BoundAssumption DEF NoLock, Lock
<1>2. Lease(r) \in Lock
      <2>1. runner[r].task \in 0..MaxTask /\ runner[r].until \in Nat
            BY DEF TypeOK, Loop
      <2> QED BY <2>1 DEF Lease, Lock
<1>3. \A n \in Nat : [lock EXCEPT !.until = n] \in Lock
      BY DEF TypeOK, Lock
<1> QED BY <1>1, <1>2, <1>3

(***************************************************************************)
(* The three kinds of steps that change no row, or only fail one.          *)
(***************************************************************************)
\* A loop moves, without having made a row running.
LEMMA LoopStep ==
    ASSUME IInv, NEW r \in Runner, LoopMoved(r), OnlyFails, UNCHANGED <<now, handler>>,
           lock' \in Lock, crashes' \in Nat, faults' \in Nat
    PROVE  IInv'
<1>1. TypeOK'
      BY DEF IInv, TypeOK, LoopMoved, OnlyFails
<1>2. Dispatched'
      BY DEF IInv, TypeOK, Dispatched, OnlyFails
<1>3. ClaimsOwn'
      <2>1. \A q \in Runner : runner'[q].pc \in Claiming \cup Acquired =>
                runner'[q].task \in TaskId
            BY DEF IInv, ClaimsOwn, LoopMoved
      <2>2. ASSUME NEW q \in Runner, runner'[q].pc = "reread"
            PROVE  /\ rows'[runner'[q].task].lockedBy = q
                   /\ rows'[runner'[q].task].status \in {"running", "failed"}
                   /\ handler'[q][runner'[q].task].pc = "none"
            <3>1. q # r /\ runner'[q] = runner[q]
                  BY <2>2 DEF LoopMoved
            <3>2. runner[q].task \in TaskId
                  BY <2>2, <3>1 DEF IInv, ClaimsOwn, Acquired
            <3> QED BY <2>2, <3>1, <3>2 DEF IInv, ClaimsOwn, OnlyFails
      <2> QED BY <2>1, <2>2 DEF ClaimsOwn
<1>4. WorkingOpen'
      BY DEF IInv, WorkingOpen, Working, OnlyFails
<1>5. Ordered'
      BY DEF IInv, Ordered, OnlyFails
<1> QED BY <1>1, <1>2, <1>3, <1>4, <1>5 DEF IInv

\* A handler that was dispatched moves on, or its heartbeat beats.
LEMMA HandlerMove ==
    ASSUME IInv, NEW r \in Runner, NEW t \in TaskId, NEW pc,
           HandlerTo(r, t, pc),
           \/ pc = handler[r][t].pc
           \/ /\ handler[r][t].pc # "none" /\ pc # "none"
              /\ pc \in {"run", "finish"} => Working(r, t),
           UNCHANGED <<now, rows, runner>>,
           lock' \in Lock, crashes' \in Nat, faults' \in Nat
    PROVE  IInv'
<1>1. TypeOK'
      BY DEF IInv, TypeOK, HandlerTo
<1>2. Dispatched'
      BY DEF IInv, Dispatched, HandlerTo
<1>3. ClaimsOwn'
      <2>1. \A q \in Runner, u \in TaskId :
                handler[q][u].pc = "none" => handler'[q][u].pc = "none"
            BY DEF HandlerTo
      <2> QED BY <2>1 DEF IInv, ClaimsOwn, Acquired
<1>4. WorkingOpen'
      BY DEF IInv, WorkingOpen, Working, HandlerTo
<1>5. Ordered'
      BY DEF IInv, Ordered
<1> QED BY <1>1, <1>2, <1>3, <1>4, <1>5 DEF IInv

\* The counter of faults stays a number.
LEMMA FaultType == TypeOK /\ (Fault \/ NoFault) => faults' \in Nat
BY DEF TypeOK, Fault, NoFault

\* Rows that do not change are rows of which none but running ones fail.
LEMMA SameRows == TypeOK /\ UNCHANGED rows => OnlyFails
BY DEF TypeOK, OnlyFails

(***************************************************************************)
(* One lemma per action.                                                   *)
(***************************************************************************)
\* BeginStale reads the clock.
LEMMA BeginStaleKeeps ==
    ASSUME IInv, NEW r \in Runner, BeginStale(r)
    PROVE  IInv'
<1>1. TypeOK /\ ClaimsOwn /\ now \in Nat /\ runner[r].now <= now
      BY DEF IInv, TypeOK
<1>2. ASSUME runner' = [runner EXCEPT ![r].pc = "stale", ![r].now = now]
      PROVE  LoopMoved(r)
      <2>1. LoopTo(r, "stale", runner[r].task, now)
            <3>1. "stale" \in LoopPc
                  BY DEF LoopPc, Claiming, Acquired
            <3>2. runner' \in [Runner -> Loop]
                  BY <3>1, <1>2, <1>1 DEF TypeOK, Loop
            <3> QED BY <3>2, <1>2, <1>1 DEF TypeOK, Loop, LoopTo
      <2> QED BY <2>1, <1>2, <1>1 DEF LoopTo, LoopMoved, Claiming, Acquired
<1>3. LoopMoved(r)
      BY <1>2 DEF BeginStale
<1>4. lock' \in Lock
      BY <1>1, LockTypes DEF BeginStale, TypeOK
<1>5. faults' \in Nat /\ crashes' \in Nat
      BY <1>1, FaultType DEF BeginStale, TypeOK, NoFault
<1>6. OnlyFails
      BY <1>1, SameRows DEF BeginStale
<1> QED BY <1>3, <1>4, <1>5, <1>6, LoopStep DEF BeginStale

\* SkipStale goes on to the claim pass.
LEMMA SkipStaleKeeps ==
    ASSUME IInv, NEW r \in Runner, SkipStale(r)
    PROVE  IInv'
<1>1. TypeOK /\ ClaimsOwn /\ now \in Nat /\ runner[r].now <= now
      BY DEF IInv, TypeOK
<1>2. ASSUME Restart(r, "find")
      PROVE  LoopMoved(r)
      <2>1. LoopTo(r, "find", 0, 0)
            BY <1>2, <1>1, RestartEffect DEF LoopPc, Claiming, Acquired
      <2> QED BY <1>1, <2>1 DEF LoopTo, LoopMoved, Claiming, Acquired
<1>3. LoopMoved(r)
      BY <1>2 DEF SkipStale
<1>4. lock' \in Lock
      BY <1>1, LockTypes DEF SkipStale, TypeOK
<1>5. faults' \in Nat /\ crashes' \in Nat
      BY <1>1, FaultType DEF SkipStale, TypeOK, NoFault
<1>6. OnlyFails
      BY <1>1, SameRows DEF SkipStale
<1> QED BY <1>3, <1>4, <1>5, <1>6, LoopStep DEF SkipStale

\* StaleSelect remembers the lease it found.
LEMMA StaleSelectKeeps ==
    ASSUME IInv, NEW r \in Runner, StaleSelect(r)
    PROVE  IInv'
<1>1. TypeOK /\ ClaimsOwn /\ now \in Nat /\ runner[r].now <= now
      BY DEF IInv, TypeOK
<1>2. ASSUME runner' = [runner EXCEPT ![r].pc = "mark", ![r].task = lock.task,
                                        ![r].owner = lock.lockedBy]
      PROVE  LoopMoved(r)
      <2>1. lock.task \in 0..MaxTask /\ lock.lockedBy \in Runner \cup {Nobody}
            BY <1>1 DEF TypeOK, Lock
      <2>2. LoopTo(r, "mark", lock.task, runner[r].now)
            <3>1. "mark" \in LoopPc
                  BY DEF LoopPc, Claiming, Acquired
            <3>2. PICK l \in Loop : l = runner[r]
                  BY <1>1 DEF TypeOK
            <3> DEFINE v == [l EXCEPT !.pc = "mark", !.task = lock.task,
                                    !.owner = lock.lockedBy]
            <3>3. v \in Loop /\ v.pc = "mark" /\ v.task = lock.task
                  /\ v.now = l.now
                  BY <3>1, <2>1 DEF Loop
            <3>4. runner' = [runner EXCEPT ![r] = v] /\ runner \in [Runner -> Loop]
                  BY <1>1, <1>2, <3>2 DEF TypeOK
            <3> HIDE DEF v
            <3>5. /\ runner' \in [Runner -> Loop] /\ runner'[r] = v
                  /\ \A q \in Runner : q # r => runner'[q] = runner[q]
                  BY <3>3, <3>4
            <3> QED BY <3>1, <3>2, <3>3, <3>5 DEF LoopTo
      <2> QED BY <2>2, <1>2, <1>1, <2>1 DEF LoopTo, LoopMoved, Claiming, Acquired
<1>3. ASSUME Restart(r, "find")
      PROVE  LoopMoved(r)
      <2>1. LoopTo(r, "find", 0, 0)
            BY <1>3, <1>1, RestartEffect DEF LoopPc, Claiming, Acquired
      <2> QED BY <1>1, <2>1 DEF LoopTo, LoopMoved, Claiming, Acquired
<1>4. LoopMoved(r)
      BY <1>2, <1>3 DEF StaleSelect
<1>5. lock' \in Lock
      BY <1>1, LockTypes DEF StaleSelect, TypeOK
<1>6. faults' \in Nat /\ crashes' \in Nat
      BY <1>1, FaultType DEF StaleSelect, TypeOK, NoFault
<1>7. OnlyFails
      BY <1>1, SameRows DEF StaleSelect
<1> QED BY <1>4, <1>5, <1>6, <1>7, LoopStep DEF StaleSelect

\* StaleMark fails a running row at most.
LEMMA StaleMarkKeeps ==
    ASSUME IInv, NEW r \in Runner, StaleMark(r)
    PROVE  IInv'
<1>1. TypeOK /\ ClaimsOwn /\ now \in Nat /\ runner[r].now <= now
      BY DEF IInv, TypeOK
<1>2. ASSUME Goto(r, "delete")
      PROVE  LoopMoved(r)
      <2>1. LoopTo(r, "delete", runner[r].task, runner[r].now)
            BY <1>2, <1>1, GotoEffect DEF LoopPc, Claiming, Acquired
      <2> QED BY <1>2, <1>1, <2>1 DEF LoopTo, LoopMoved, ClaimsOwn, Claiming, Acquired
<1>3. ASSUME Restart(r, "find")
      PROVE  LoopMoved(r)
      <2>1. LoopTo(r, "find", 0, 0)
            BY <1>3, <1>1, RestartEffect DEF LoopPc, Claiming, Acquired
      <2> QED BY <1>1, <2>1 DEF LoopTo, LoopMoved, Claiming, Acquired
<1>4. LoopMoved(r)
      BY <1>2, <1>3 DEF StaleMark
<1>5. lock' \in Lock
      BY <1>1, LockTypes DEF StaleMark, TypeOK
<1>6. faults' \in Nat /\ crashes' \in Nat
      BY <1>1, FaultType DEF StaleMark, TypeOK, NoFault
<1>7. OnlyFails
      BY <1>1, LeaseExpiredEffect, SameRows DEF StaleMark, TypeOK, Loop
<1> QED BY <1>4, <1>5, <1>6, <1>7, LoopStep DEF StaleMark

\* StaleDelete deletes a lease at most.
LEMMA StaleDeleteKeeps ==
    ASSUME IInv, NEW r \in Runner, StaleDelete(r)
    PROVE  IInv'
<1>1. TypeOK /\ ClaimsOwn /\ now \in Nat /\ runner[r].now <= now
      BY DEF IInv, TypeOK
<1>2. ASSUME Restart(r, "find")
      PROVE  LoopMoved(r)
      <2>1. LoopTo(r, "find", 0, 0)
            BY <1>2, <1>1, RestartEffect DEF LoopPc, Claiming, Acquired
      <2> QED BY <1>1, <2>1 DEF LoopTo, LoopMoved, Claiming, Acquired
<1>3. LoopMoved(r)
      BY <1>2 DEF StaleDelete
<1>4. lock' \in Lock
      BY <1>1, LockTypes DEF StaleDelete, TypeOK
<1>5. faults' \in Nat /\ crashes' \in Nat
      BY <1>1, FaultType DEF StaleDelete, TypeOK, NoFault
<1>6. OnlyFails
      BY <1>1, SameRows DEF StaleDelete
<1> QED BY <1>3, <1>4, <1>5, <1>6, LoopStep DEF StaleDelete

\* FindPending chooses a row.
LEMMA FindPendingKeeps ==
    ASSUME IInv, NEW r \in Runner, FindPending(r)
    PROVE  IInv'
<1>1. TypeOK /\ ClaimsOwn /\ now \in Nat /\ runner[r].now <= now
      BY DEF IInv, TypeOK
<1>2. ASSUME NEW t \in TaskId,
             runner' = [runner EXCEPT ![r].pc = "select", ![r].task = t,
                                        ![r].until = now + TTL]
      PROVE  LoopMoved(r)
      <2>1. now + TTL \in Nat /\ t \in 0..MaxTask
            BY <1>1, BoundAssumption DEF TaskId
      <2>2. LoopTo(r, "select", t, runner[r].now)
            <3>1. "select" \in LoopPc
                  BY DEF LoopPc, Claiming, Acquired
            <3>2. PICK l \in Loop : l = runner[r]
                  BY <1>1 DEF TypeOK
            <3> DEFINE v == [l EXCEPT !.pc = "select", !.task = t,
                                    !.until = now + TTL]
            <3>3. v \in Loop /\ v.pc = "select" /\ v.task = t
                  /\ v.now = l.now
                  BY <3>1, <2>1 DEF Loop
            <3>4. runner' = [runner EXCEPT ![r] = v] /\ runner \in [Runner -> Loop]
                  BY <1>1, <1>2, <3>2 DEF TypeOK
            <3> HIDE DEF v
            <3>5. /\ runner' \in [Runner -> Loop] /\ runner'[r] = v
                  /\ \A q \in Runner : q # r => runner'[q] = runner[q]
                  BY <3>3, <3>4
            <3> QED BY <3>1, <3>2, <3>3, <3>5 DEF LoopTo
      <2> QED BY <2>2, <1>2, <1>1, <2>1 DEF LoopTo, LoopMoved, Claiming, Acquired
<1>3. ASSUME Done(r)
      PROVE  LoopMoved(r)
      <2>1. LoopTo(r, "idle", 0, 0)
            BY <1>3, <1>1, RestartEffect DEF LoopPc, Claiming, Acquired, Done
      <2> QED BY <1>1, <2>1 DEF LoopTo, LoopMoved, Claiming, Acquired
<1>4. LoopMoved(r)
      BY <1>2, <1>3 DEF FindPending
<1>5. lock' \in Lock
      BY <1>1, LockTypes DEF FindPending, TypeOK
<1>6. faults' \in Nat /\ crashes' \in Nat
      BY <1>1, FaultType DEF FindPending, TypeOK, NoFault
<1>7. OnlyFails
      BY <1>1, SameRows DEF FindPending
<1> QED BY <1>4, <1>5, <1>6, <1>7, LoopStep DEF FindPending

\* ClaimSelect reads the clock.
LEMMA ClaimSelectKeeps ==
    ASSUME IInv, NEW r \in Runner, ClaimSelect(r)
    PROVE  IInv'
<1>1. TypeOK /\ ClaimsOwn /\ now \in Nat /\ runner[r].now <= now
      BY DEF IInv, TypeOK
<1>2. ASSUME runner[r].pc = "select",
             runner' = [runner EXCEPT ![r].pc = "insert", ![r].now = now]
      PROVE  LoopMoved(r)
      <2>1. runner[r].task \in TaskId
            BY <1>2, <1>1 DEF ClaimsOwn, Claiming
      <2>2. LoopTo(r, "insert", runner[r].task, now)
            <3>1. "insert" \in LoopPc
                  BY DEF LoopPc, Claiming, Acquired
            <3>2. runner' \in [Runner -> Loop]
                  BY <3>1, <1>2, <1>1, <2>1 DEF TypeOK, Loop
            <3> QED BY <3>2, <1>2, <1>1, <2>1 DEF TypeOK, Loop, LoopTo
      <2> QED BY <2>2, <1>2, <1>1, <2>1 DEF LoopTo, LoopMoved, Claiming, Acquired
<1>3. ASSUME Done(r)
      PROVE  LoopMoved(r)
      <2>1. LoopTo(r, "idle", 0, 0)
            BY <1>3, <1>1, RestartEffect DEF LoopPc, Claiming, Acquired, Done
      <2> QED BY <1>1, <2>1 DEF LoopTo, LoopMoved, Claiming, Acquired
<1>4. LoopMoved(r)
      BY <1>2, <1>3 DEF ClaimSelect
<1>5. lock' \in Lock
      BY <1>1, LockTypes DEF ClaimSelect, TypeOK
<1>6. faults' \in Nat /\ crashes' \in Nat
      BY <1>1, FaultType DEF ClaimSelect, TypeOK, NoFault
<1>7. OnlyFails
      BY <1>1, SameRows DEF ClaimSelect
<1> QED BY <1>4, <1>5, <1>6, <1>7, LoopStep DEF ClaimSelect

\* AcquireInsert writes a lease at most.
LEMMA AcquireInsertKeeps ==
    ASSUME IInv, NEW r \in Runner, AcquireInsert(r)
    PROVE  IInv'
<1>1. TypeOK /\ ClaimsOwn /\ now \in Nat /\ runner[r].now <= now
      BY DEF IInv, TypeOK
<1>2. ASSUME runner[r].pc = "insert", Hold(r, "run")
      PROVE  LoopMoved(r)
      <2>1. LoopTo(r, "run", runner[r].task, 0)
            BY <1>2, <1>1, HoldEffect DEF LoopPc, Claiming, Acquired
      <2> QED BY <1>2, <1>1, <2>1 DEF LoopTo, LoopMoved, ClaimsOwn, Claiming, Acquired
<1>3. ASSUME runner[r].pc = "insert", Goto(r, "existing")
      PROVE  LoopMoved(r)
      <2>1. LoopTo(r, "existing", runner[r].task, runner[r].now)
            BY <1>3, <1>1, GotoEffect DEF LoopPc, Claiming, Acquired
      <2> QED BY <1>3, <1>1, <2>1 DEF LoopTo, LoopMoved, ClaimsOwn, Claiming, Acquired
<1>4. LoopMoved(r)
      BY <1>2, <1>3 DEF AcquireInsert
<1>5. lock' \in Lock
      BY <1>1, LockTypes DEF AcquireInsert, TypeOK
<1>6. faults' \in Nat /\ crashes' \in Nat
      BY <1>1, FaultType DEF AcquireInsert, TypeOK, NoFault
<1>7. OnlyFails
      BY <1>1, SameRows DEF AcquireInsert
<1> QED BY <1>4, <1>5, <1>6, <1>7, LoopStep DEF AcquireInsert

\* AcquireSelect remembers the task of the lapsed lease.
LEMMA AcquireSelectKeeps ==
    ASSUME IInv, NEW r \in Runner, AcquireSelect(r)
    PROVE  IInv'
<1>1. TypeOK /\ ClaimsOwn /\ now \in Nat /\ runner[r].now <= now
      BY DEF IInv, TypeOK
<1>2. ASSUME runner[r].pc = "existing",
             runner' = [runner EXCEPT ![r].pc = "takeover",
                                        ![r].expired = lock.task]
      PROVE  LoopMoved(r)
      <2>1. runner[r].task \in TaskId
            BY <1>2, <1>1 DEF ClaimsOwn, Claiming
      <2>2. lock.task \in 0..MaxTask
            BY <1>1 DEF TypeOK, Lock
      <2>3. LoopTo(r, "takeover", runner[r].task, runner[r].now)
            <3>1. "takeover" \in LoopPc
                  BY DEF LoopPc, Claiming, Acquired
            <3>2. runner' \in [Runner -> Loop]
                  BY <3>1, <1>2, <1>1, <2>1, <2>2 DEF TypeOK, Loop
            <3> QED BY <3>2, <1>2, <1>1, <2>1, <2>2 DEF TypeOK, Loop, LoopTo
      <2> QED BY <2>3, <1>2, <1>1, <2>1, <2>2 DEF LoopTo, LoopMoved, Claiming, Acquired
<1>3. ASSUME Done(r)
      PROVE  LoopMoved(r)
      <2>1. LoopTo(r, "idle", 0, 0)
            BY <1>3, <1>1, RestartEffect DEF LoopPc, Claiming, Acquired, Done
      <2> QED BY <1>1, <2>1 DEF LoopTo, LoopMoved, Claiming, Acquired
<1>4. LoopMoved(r)
      BY <1>2, <1>3 DEF AcquireSelect
<1>5. lock' \in Lock
      BY <1>1, LockTypes DEF AcquireSelect, TypeOK
<1>6. faults' \in Nat /\ crashes' \in Nat
      BY <1>1, FaultType DEF AcquireSelect, TypeOK, NoFault
<1>7. OnlyFails
      BY <1>1, SameRows DEF AcquireSelect
<1> QED BY <1>4, <1>5, <1>6, <1>7, LoopStep DEF AcquireSelect

\* AcquireTakeover writes a lease at most.
LEMMA AcquireTakeoverKeeps ==
    ASSUME IInv, NEW r \in Runner, AcquireTakeover(r)
    PROVE  IInv'
<1>1. TypeOK /\ ClaimsOwn /\ now \in Nat /\ runner[r].now <= now
      BY DEF IInv, TypeOK
<1>2. ASSUME runner[r].pc = "takeover", Hold(r, "run")
      PROVE  LoopMoved(r)
      <2>1. LoopTo(r, "run", runner[r].task, 0)
            BY <1>2, <1>1, HoldEffect DEF LoopPc, Claiming, Acquired
      <2> QED BY <1>2, <1>1, <2>1 DEF LoopTo, LoopMoved, ClaimsOwn, Claiming, Acquired
<1>3. ASSUME runner[r].pc = "takeover", Goto(r, "expire")
      PROVE  LoopMoved(r)
      <2>1. LoopTo(r, "expire", runner[r].task, runner[r].now)
            BY <1>3, <1>1, GotoEffect DEF LoopPc, Claiming, Acquired
      <2> QED BY <1>3, <1>1, <2>1 DEF LoopTo, LoopMoved, ClaimsOwn, Claiming, Acquired
<1>4. ASSUME Done(r)
      PROVE  LoopMoved(r)
      <2>1. LoopTo(r, "idle", 0, 0)
            BY <1>4, <1>1, RestartEffect DEF LoopPc, Claiming, Acquired, Done
      <2> QED BY <1>1, <2>1 DEF LoopTo, LoopMoved, Claiming, Acquired
<1>5. LoopMoved(r)
      BY <1>2, <1>3, <1>4 DEF AcquireTakeover
<1>6. lock' \in Lock
      BY <1>1, LockTypes DEF AcquireTakeover, TypeOK
<1>7. faults' \in Nat /\ crashes' \in Nat
      BY <1>1, FaultType DEF AcquireTakeover, TypeOK, NoFault
<1>8. OnlyFails
      BY <1>1, SameRows DEF AcquireTakeover
<1> QED BY <1>5, <1>6, <1>7, <1>8, LoopStep DEF AcquireTakeover

\* ClaimExpire fails a running row at most.
LEMMA ClaimExpireKeeps ==
    ASSUME IInv, NEW r \in Runner, ClaimExpire(r)
    PROVE  IInv'
<1>1. TypeOK /\ ClaimsOwn /\ now \in Nat /\ runner[r].now <= now
      BY DEF IInv, TypeOK
<1>2. ASSUME runner[r].pc = "expire", Hold(r, "run")
      PROVE  LoopMoved(r)
      <2>1. LoopTo(r, "run", runner[r].task, 0)
            BY <1>2, <1>1, HoldEffect DEF LoopPc, Claiming, Acquired
      <2> QED BY <1>2, <1>1, <2>1 DEF LoopTo, LoopMoved, ClaimsOwn, Claiming, Acquired
<1>3. ASSUME runner[r].pc = "expire", Hold(r, "release")
      PROVE  LoopMoved(r)
      <2>1. LoopTo(r, "release", runner[r].task, 0)
            BY <1>3, <1>1, HoldEffect DEF LoopPc, Claiming, Acquired
      <2> QED BY <1>3, <1>1, <2>1 DEF LoopTo, LoopMoved, ClaimsOwn, Claiming, Acquired
<1>4. LoopMoved(r)
      BY <1>2, <1>3 DEF ClaimExpire
<1>5. lock' \in Lock
      BY <1>1, LockTypes DEF ClaimExpire, TypeOK
<1>6. faults' \in Nat /\ crashes' \in Nat
      BY <1>1, FaultType DEF ClaimExpire, TypeOK, NoFault
<1>7. OnlyFails
      BY <1>1, LeaseExpiredEffect, SameRows DEF ClaimExpire, TypeOK, Loop
<1> QED BY <1>4, <1>5, <1>6, <1>7, LoopStep DEF ClaimExpire

\* ClaimRelease deletes a lease at most.
LEMMA ClaimReleaseKeeps ==
    ASSUME IInv, NEW r \in Runner, ClaimRelease(r)
    PROVE  IInv'
<1>1. TypeOK /\ ClaimsOwn /\ now \in Nat /\ runner[r].now <= now
      BY DEF IInv, TypeOK
<1>2. ASSUME Done(r)
      PROVE  LoopMoved(r)
      <2>1. LoopTo(r, "idle", 0, 0)
            BY <1>2, <1>1, RestartEffect DEF LoopPc, Claiming, Acquired, Done
      <2> QED BY <1>1, <2>1 DEF LoopTo, LoopMoved, Claiming, Acquired
<1>3. LoopMoved(r)
      BY <1>2 DEF ClaimRelease
<1>4. lock' \in Lock
      BY <1>1, LockTypes DEF ClaimRelease, TypeOK, Released
<1>5. faults' \in Nat /\ crashes' \in Nat
      BY <1>1, FaultType DEF ClaimRelease, TypeOK, NoFault
<1>6. OnlyFails
      BY <1>1, SameRows DEF ClaimRelease
<1> QED BY <1>3, <1>4, <1>5, <1>6, LoopStep DEF ClaimRelease

\* CreateSystemTask comes after the end of every earlier row.
LEMMA CreateSystemTaskKeeps ==
    ASSUME IInv, NEW t \in TaskId, CreateSystemTask(t)
    PROVE  IInv'
<1>1. /\ rows' \in [TaskId -> Row]
      /\ rows'[t].status = "pending"
      /\ \A u \in TaskId : u # t => rows'[u] = rows[u]
      BY DEF IInv, TypeOK, CreateSystemTask, Row
<1>2. TypeOK'
      BY <1>1 DEF IInv, TypeOK, CreateSystemTask
<1>3. rows[t].status = "absent"
      BY DEF CreateSystemTask
<1>4. Dispatched'
      BY <1>1, <1>3 DEF IInv, Dispatched, CreateSystemTask
<1>5. ClaimsOwn'
      BY <1>1, <1>3 DEF IInv, ClaimsOwn, CreateSystemTask, Acquired
<1>6. WorkingOpen'
      BY <1>1, <1>3 DEF IInv, WorkingOpen, Working, CreateSystemTask
<1>7. Ordered'
      <2>1. \A u \in TaskId : u < t => rows[u].status \in {"succeeded", "failed"}
            BY DEF CreateSystemTask, Active, IInv, TypeOK, Row
      <2>2. \A u \in TaskId : t < u => rows[u].status = "absent"
            BY <1>3 DEF IInv, Ordered
      <2> QED BY <1>1, <2>1, <2>2 DEF IInv, Ordered, TaskId
<1> QED BY <1>2, <1>4, <1>5, <1>6, <1>7 DEF IInv

\* ClaimRun makes a pending row running, so that nobody has dispatched it.
LEMMA ClaimRunKeeps ==
    ASSUME IInv, NEW r \in Runner, ClaimRun(r)
    PROVE  IInv'
<1> DEFINE t == runner[r].task
<1>1. TypeOK /\ ClaimsOwn /\ now \in Nat /\ runner[r].now <= now /\ t \in TaskId
      BY DEF IInv, TypeOK, ClaimsOwn, ClaimRun, Acquired
<1>2. lock' \in Lock /\ faults' \in Nat /\ crashes' \in Nat
      BY <1>1, FaultType DEF ClaimRun, TypeOK, NoFault
<1>3. CASE Goto(r, "release") /\ UNCHANGED rows
      <2>1. LoopTo(r, "release", t, runner[r].now)
            BY <1>1, <1>3, GotoEffect DEF LoopPc, Acquired
      <2>2. LoopMoved(r)
            BY <1>1, <2>1 DEF LoopTo, LoopMoved
      <2> QED BY <1>1, <1>2, <1>3, <2>2, LoopStep, SameRows DEF ClaimRun
<1>4. CASE /\ rows[t].status = "pending" /\ Goto(r, "reread")
           /\ rows' = [rows EXCEPT ![t].status = "running", ![t].lockedBy = r]
      <2> HIDE DEF t
      <2>1. LoopTo(r, "reread", t, runner[r].now)
            BY <1>1, <1>4, GotoEffect DEF LoopPc, Acquired, t
      <2>2. /\ rows' \in [TaskId -> Row]
            /\ rows'[t].status = "running" /\ rows'[t].lockedBy = r
            /\ \A u \in TaskId : u # t => rows'[u] = rows[u]
            BY <1>1, <1>4 DEF TypeOK, Row
      <2>3. UNCHANGED <<now, lock, handler>>
            BY DEF ClaimRun
      <2>4. TypeOK'
            BY <1>1, <1>2, <2>1, <2>2, <2>3 DEF TypeOK, LoopTo
      <2>5. \A q \in Runner : handler[q][t].pc = "none"
            BY <1>1, <1>4 DEF IInv, Dispatched
      <2>6. Dispatched'
            BY <2>2, <2>3, <2>5 DEF IInv, Dispatched
      <2>7. ClaimsOwn'
            <3>1. ASSUME NEW q \in Runner, q # r, runner[q].pc = "reread"
                  PROVE  runner[q].task \in TaskId /\ runner[q].task # t
                  BY <1>4, <3>1 DEF IInv, ClaimsOwn, Acquired
            <3> QED BY <1>1, <2>1, <2>2, <2>3, <2>5, <3>1
                    DEF ClaimsOwn, LoopTo
      <2>8. WorkingOpen'
            BY <2>2, <2>3 DEF IInv, WorkingOpen, Working
      <2>9. Ordered'
            BY <1>1, <1>4, <2>2 DEF IInv, Ordered
      <2> QED BY <2>4, <2>6, <2>7, <2>8, <2>9 DEF IInv
<1> QED BY <1>3, <1>4 DEF ClaimRun

\* ClaimReread dispatches the first handler of its row.
LEMMA ClaimRereadKeeps ==
    ASSUME IInv, NEW r \in Runner, ClaimReread(r)
    PROVE  IInv'
<1> DEFINE t == runner[r].task
<1>1. TypeOK /\ ClaimsOwn /\ now \in Nat /\ t \in TaskId
      BY DEF IInv, TypeOK, ClaimsOwn, ClaimReread, Acquired
<1>2. lock' \in Lock /\ faults' \in Nat /\ crashes' \in Nat
      BY <1>1, FaultType DEF ClaimReread, TypeOK, NoFault
<1>3. LoopTo(r, "idle", 0, 0)
      BY <1>1, RestartEffect DEF ClaimReread, Done, LoopPc
<1>4. CASE UNCHANGED handler
      <2>1. LoopMoved(r)
            BY <1>1, <1>3 DEF LoopTo, LoopMoved, Claiming, Acquired
      <2> QED BY <1>1, <1>2, <1>4, <2>1, LoopStep, SameRows DEF ClaimReread
<1>5. CASE handler' = [handler EXCEPT ![r][t] =
                         [NoHandler EXCEPT !.pc = "run", !.beat = "on"]]
      <2> HIDE DEF t
      <2> DEFINE v == [NoHandler EXCEPT !.pc = "run", !.beat = "on"]
      <2>1. v \in Handler /\ v.pc = "run" /\ v.now = 0 /\ v.beatNow = 0
            BY DEF NoHandler, Handler
      <2>2. handler' = [handler EXCEPT ![r][t] = v]
            BY <1>5
      <2> HIDE DEF v
      <2>3. HandlerTo(r, t, v.pc)
            <3>1. v.now <= now /\ v.beatNow <= now
                  BY <1>1, <2>1
            <3> QED BY <1>1, <2>1, <2>2, <3>1, HandlerSet
      <2>4. HandlerTo(r, t, "run")
            BY <2>1, <2>3
      <2>5. UNCHANGED <<now, rows, lock>>
            BY DEF ClaimReread
      <2>6. TypeOK'
            <3>1. \A q \in Runner : runner'[q].now <= now
                  BY <1>1, <1>3 DEF TypeOK, LoopTo
            <3>2. \A q \in Runner, u \in TaskId :
                      handler'[q][u].now <= now /\ handler'[q][u].beatNow <= now
                  BY <1>1, <2>4 DEF TypeOK, HandlerTo
            <3> QED BY <1>1, <1>2, <1>3, <2>4, <2>5, <3>1, <3>2
                    DEF TypeOK, LoopTo, HandlerTo
      <2>7. rows[t].lockedBy = r /\ rows[t].status \in {"running", "failed"}
            BY <1>1 DEF ClaimsOwn, ClaimReread, t
      <2>8. Dispatched'
            BY <1>1, <2>4, <2>5, <2>7 DEF IInv, Dispatched, HandlerTo
      <2>9. ClaimsOwn'
            <3>1. ASSUME NEW q \in Runner, runner'[q].pc \in Claiming \cup Acquired
                  PROVE  q # r /\ runner'[q] = runner[q]
                  BY <1>3, <3>1 DEF LoopTo, Claiming, Acquired
            <3> QED BY <1>1, <2>4, <2>5, <3>1
                    DEF ClaimsOwn, HandlerTo, Acquired
      <2>10. WorkingOpen'
            BY <2>4, <2>5, <2>7 DEF IInv, WorkingOpen, Working, HandlerTo
      <2>11. Ordered'
            BY <2>5 DEF IInv, Ordered
      <2> QED BY <2>6, <2>8, <2>9, <2>10, <2>11 DEF IInv
<1> QED BY <1>4, <1>5 DEF ClaimReread

\* RenewRead reads the clock.
LEMMA RenewReadKeeps ==
    ASSUME IInv, NEW r \in Runner, NEW t \in TaskId, RenewRead(r, t)
    PROVE  IInv'
<1> DEFINE h == handler[r][t]
           v == [h EXCEPT !.beat = "sent", !.beatNow = now]
<1>1. TypeOK /\ h \in Handler /\ h.now <= now /\ now \in Nat
      BY DEF IInv, TypeOK
<1>2. handler' = [handler EXCEPT ![r][t] = v]
      BY DEF RenewRead
<1>3. v \in Handler /\ v.pc = h.pc /\ v.now = h.now /\ v.beatNow = now
      <2> HIDE DEF h
      <2> QED BY <1>1 DEF Handler
<1> HIDE DEF v
<1>4. HandlerTo(r, t, v.pc)
      <2>1. v.now <= now /\ v.beatNow <= now
            BY <1>1, <1>3
      <2> QED BY <1>1, <1>2, <1>3, <2>1, HandlerSet
<1> QED BY <1>1, <1>3, <1>4, HandlerMove DEF RenewRead, TypeOK

\* RenewSystemTaskLock prolongs a lease at most.
LEMMA RenewSystemTaskLockKeeps ==
    ASSUME IInv, NEW r \in Runner, NEW t \in TaskId, RenewSystemTaskLock(r, t)
    PROVE  IInv'
<1> DEFINE h == handler[r][t]
<1>1. /\ TypeOK /\ h \in Handler /\ h.now <= now /\ now \in Nat
      /\ h.beatNow \in Nat
      BY DEF IInv, TypeOK, Handler
<1>2. PICK b \in {"on", "off"} :
          handler' = [handler EXCEPT ![r][t].beat = b, ![r][t].beatNow = 0]
      BY DEF RenewSystemTaskLock
<1> DEFINE v == [h EXCEPT !.beat = b, !.beatNow = 0]
<1>3. handler' = [handler EXCEPT ![r][t] = v]
      BY <1>2
<1>4. v \in Handler /\ v.pc = h.pc /\ v.now = h.now /\ v.beatNow = 0
      <2> HIDE DEF h
      <2> QED BY <1>1 DEF Handler
<1> HIDE DEF v
<1>5. HandlerTo(r, t, v.pc)
      <2>1. v.now <= now /\ v.beatNow <= now
            BY <1>1, <1>4
      <2> QED BY <1>1, <1>3, <1>4, <2>1, HandlerSet
<1>6. lock' \in Lock
      <2>1. h.beatNow + TTL \in Nat
            BY <1>1, BoundAssumption
      <2> QED BY <1>1, <2>1, LockTypes DEF RenewSystemTaskLock, TypeOK
<1>7. faults' \in Nat
      BY <1>1, FaultType DEF RenewSystemTaskLock
<1> QED BY <1>1, <1>4, <1>5, <1>6, <1>7, HandlerMove
        DEF RenewSystemTaskLock, TypeOK

\* HandlerGivesUp ends a handler.
LEMMA HandlerGivesUpKeeps ==
    ASSUME IInv, NEW r \in Runner, NEW t \in TaskId, HandlerGivesUp(r, t)
    PROVE  IInv'
<1>1. TypeOK
      BY DEF IInv
<1>2. HandlerTo(r, t, "done")
      BY <1>1, HandlerDoneEffect DEF HandlerGivesUp
<1>3. faults' \in Nat
      BY <1>1, FaultType DEF HandlerGivesUp
<1> QED BY <1>1, <1>2, <1>3, HandlerMove DEF HandlerGivesUp, TypeOK

\* FinishRead reads the clock.
LEMMA FinishReadKeeps ==
    ASSUME IInv, NEW r \in Runner, NEW t \in TaskId, FinishRead(r, t)
    PROVE  IInv'
<1> DEFINE h == handler[r][t]
           v == [h EXCEPT !.pc = "finish", !.now = now]
<1>1. TypeOK /\ h \in Handler /\ h.beatNow <= now /\ now \in Nat
      BY DEF IInv, TypeOK
<1>2. handler' = [handler EXCEPT ![r][t] = v]
      BY DEF FinishRead
<1>3. v \in Handler /\ v.pc = "finish" /\ v.now = now /\ v.beatNow = h.beatNow
      <2> HIDE DEF h
      <2> QED BY <1>1 DEF Handler
<1> HIDE DEF v
<1>4. HandlerTo(r, t, "finish")
      <2>1. v.now <= now /\ v.beatNow <= now
            BY <1>1, <1>3
      <2>2. HandlerTo(r, t, v.pc)
            BY <1>1, <1>2, <1>3, <2>1, HandlerSet
      <2> QED BY <1>3, <2>2
<1>5. Working(r, t) /\ handler[r][t].pc # "none"
      BY DEF FinishRead, Working
<1> QED BY <1>1, <1>4, <1>5, HandlerMove DEF FinishRead, TypeOK

\* FinishSystemTask records a result of the row's only handler.
LEMMA FinishSystemTaskKeeps ==
    ASSUME IInv, NEW r \in Runner, NEW t \in TaskId, FinishSystemTask(r, t)
    PROVE  IInv'
<1>1. TypeOK /\ lock' \in Lock /\ crashes' \in Nat
      BY DEF IInv, TypeOK, FinishSystemTask
<1>2. faults' \in Nat
      BY <1>1, FaultType DEF FinishSystemTask
<1>3. CASE HandlerDone(r, t) /\ UNCHANGED rows
      <2>1. HandlerTo(r, t, "done")
            BY <1>1, <1>3, HandlerDoneEffect
      <2> QED BY <1>1, <1>2, <1>3, <2>1, HandlerMove DEF FinishSystemTask
<1>4. CASE /\ rows[t].status = "running" /\ rows[t].lockedBy = r
           /\ HandlerGoto(r, t, "release")
           /\ \E s \in {"succeeded", "failed"} :
                 rows' = [rows EXCEPT ![t].status = s]
      <2>1. HandlerTo(r, t, "release")
            BY <1>1, <1>4, HandlerGotoEffect
      <2>2. /\ rows' \in [TaskId -> Row]
            /\ rows'[t].lockedBy = r
            /\ rows'[t].status \in {"succeeded", "failed"}
            /\ \A u \in TaskId : u # t => rows'[u] = rows[u]
            BY <1>1, <1>4 DEF TypeOK, Row
      <2>3. UNCHANGED <<now, lock, runner>> /\ handler[r][t].pc = "finish"
            BY DEF FinishSystemTask
      <2>4. TypeOK'
            BY <1>1, <1>2, <2>1, <2>2, <2>3 DEF TypeOK, HandlerTo, FinishSystemTask
      <2>5. \A q \in Runner : q # r => handler[q][t].pc = "none"
            BY <1>4 DEF IInv, Dispatched
      <2>6. Dispatched'
            BY <2>1, <2>2, <2>5 DEF IInv, Dispatched, HandlerTo
      <2>7. ClaimsOwn'
            <3>1. ASSUME NEW q \in Runner, runner[q].pc = "reread"
                  PROVE  runner[q].task \in TaskId /\ runner[q].task # t
                  BY <1>4, <2>3, <3>1 DEF IInv, ClaimsOwn, Acquired
            <3> QED BY <2>1, <2>2, <2>3, <3>1 DEF IInv, ClaimsOwn, HandlerTo
      <2>8. WorkingOpen'
            BY <2>1, <2>2, <2>5 DEF IInv, WorkingOpen, Working, HandlerTo
      <2>9. Ordered'
            BY <1>4, <2>2 DEF IInv, Ordered
      <2> QED BY <2>4, <2>6, <2>7, <2>8, <2>9 DEF IInv
<1> QED BY <1>3, <1>4 DEF FinishSystemTask

\* FinishRelease ends a handler and deletes a lease at most.
LEMMA FinishReleaseKeeps ==
    ASSUME IInv, NEW r \in Runner, NEW t \in TaskId, FinishRelease(r, t)
    PROVE  IInv'
<1>1. TypeOK
      BY DEF IInv
<1>2. HandlerTo(r, t, "done")
      BY <1>1, HandlerDoneEffect DEF FinishRelease
<1>3. faults' \in Nat
      BY <1>1, FaultType DEF FinishRelease
<1>4. lock' \in Lock
      BY <1>1, LockTypes DEF FinishRelease, Released, TypeOK
<1> QED BY <1>1, <1>2, <1>3, <1>4, HandlerMove DEF FinishRelease, TypeOK

\* Crash ends what the runner does.
LEMMA CrashKeeps ==
    ASSUME IInv, NEW r \in Runner, Crash(r)
    PROVE  IInv'
<1>1. TypeOK /\ now \in Nat
      BY DEF IInv, TypeOK
<1>2. LoopTo(r, "dead", 0, 0)
      BY <1>1, RestartEffect DEF Crash, Restart, LoopPc
<1> DEFINE v == [NoHandler EXCEPT !.pc = "done"]
<1>3. v \in Handler /\ v.pc = "done" /\ v.now = 0 /\ v.beatNow = 0
      BY DEF NoHandler, Handler
<1>4. handler' = [handler EXCEPT ![r] =
          [t \in TaskId |-> IF handler[r][t].pc = "none" THEN handler[r][t]
                            ELSE v]]
      BY DEF Crash
<1> HIDE DEF v
<1>5. /\ handler' \in [Runner -> [TaskId -> Handler]]
      /\ \A q \in Runner, t \in TaskId :
            \/ handler'[q][t] = handler[q][t]
            \/ handler[q][t].pc # "none" /\ handler'[q][t] = v
      BY <1>1, <1>3, <1>4 DEF TypeOK
<1>6. UNCHANGED <<now, rows, lock, faults>>
      BY DEF Crash
<1>7. TypeOK'
      <2>1. \A q \in Runner : runner'[q].now <= now
            BY <1>1, <1>2 DEF TypeOK, LoopTo
      <2>2. \A q \in Runner, t \in TaskId :
                handler'[q][t].now <= now /\ handler'[q][t].beatNow <= now
            <3>1. v.now <= now /\ v.beatNow <= now
                  BY <1>1, <1>3
            <3> QED BY <1>1, <1>5, <3>1 DEF TypeOK
      <2>3. crashes' \in Nat
            BY <1>1 DEF TypeOK, Crash
      <2> QED BY <1>1, <1>2, <1>5, <1>6, <2>1, <2>2, <2>3 DEF TypeOK, LoopTo
<1>8. Dispatched'
      BY <1>3, <1>5, <1>6 DEF IInv, Dispatched
<1>9. ClaimsOwn'
      <2>1. ASSUME NEW q \in Runner, runner'[q].pc \in Claiming \cup Acquired
            PROVE  runner'[q] = runner[q]
            BY <1>2, <2>1 DEF LoopTo, Claiming, Acquired
      <2> QED BY <1>3, <1>5, <1>6, <2>1 DEF IInv, ClaimsOwn, Acquired
<1>10. WorkingOpen'
      BY <1>3, <1>5, <1>6 DEF IInv, WorkingOpen, Working
<1>11. Ordered'
      BY <1>6 DEF IInv, Ordered
<1> QED BY <1>7, <1>8, <1>9, <1>10, <1>11 DEF IInv

\* Tick leaves every timestamp in the past.
LEMMA TickKeeps ==
    ASSUME IInv, Tick
    PROVE  IInv'
<1>1. now \in Nat /\ now' = now + 1
      BY DEF IInv, TypeOK, Tick
<1>2. UNCHANGED <<rows, lock, runner, handler, crashes, faults>>
      BY DEF Tick
<1>3. \A n \in Nat : n <= now => n <= now'
      BY <1>1
<1>4. \A r \in Runner : runner[r].now \in Nat
      BY DEF IInv, TypeOK, Loop
<1>5. \A r \in Runner, t \in TaskId :
          handler[r][t].now \in Nat /\ handler[r][t].beatNow \in Nat
      BY DEF IInv, TypeOK, Handler
<1>6. TypeOK'
      BY <1>1, <1>2, <1>3, <1>4, <1>5 DEF IInv, TypeOK
<1>7. Dispatched' /\ ClaimsOwn' /\ WorkingOpen' /\ Ordered'
      BY <1>2 DEF IInv, Dispatched, ClaimsOwn, WorkingOpen, Working, Ordered
<1> QED BY <1>6, <1>7 DEF IInv

(***************************************************************************)
(* The theorems.                                                           *)
(***************************************************************************)
\* The initial state satisfies the inductive invariant.
LEMMA InitHolds == Init => IInv
<1> SUFFICES ASSUME Init PROVE IInv
    OBVIOUS
<1>1. Idle \in Loop /\ Idle.pc = "idle" /\ Idle.now = 0
      BY BoundAssumption DEF Idle, Loop, LoopPc
<1>2. NoHandler \in Handler /\ NoHandler.pc = "none"
      /\ NoHandler.now = 0 /\ NoHandler.beatNow = 0
      BY DEF NoHandler, Handler
<1>3. NoLock \in Lock
      BY BoundAssumption DEF NoLock, Lock
<1>4. /\ rows \in [TaskId -> Row]
      /\ \A t \in TaskId : rows[t].status = "absent"
      BY DEF Init, Row
<1>5. TypeOK
      BY <1>1, <1>2, <1>3, <1>4 DEF Init, TypeOK
<1>6. Dispatched /\ ClaimsOwn /\ WorkingOpen /\ Ordered
      BY <1>1, <1>2, <1>4 DEF Init, Dispatched, ClaimsOwn, WorkingOpen,
         Working, Ordered, Claiming, Acquired
<1> QED BY <1>5, <1>6 DEF IInv

\* Every step keeps the inductive invariant.
LEMMA StepKeeps == IInv /\ [Next]_vars => IInv'
<1> SUFFICES ASSUME IInv, [Next]_vars PROVE IInv'
    OBVIOUS
<1>1. ASSUME NEW r \in Runner, PassStep(r)
      PROVE  IInv'
      <2>1. CASE ClaimStep(r)
            BY <2>1, ClaimSelectKeeps, AcquireInsertKeeps, AcquireSelectKeeps,
               AcquireTakeoverKeeps, ClaimExpireKeeps, ClaimRunKeeps,
               ClaimReleaseKeeps, ClaimRereadKeeps DEF ClaimStep
      <2> QED BY <1>1, <2>1, BeginStaleKeeps, SkipStaleKeeps,
                 StaleSelectKeeps, StaleMarkKeeps, StaleDeleteKeeps,
                 FindPendingKeeps DEF PassStep
<1>2. ASSUME NEW r \in Runner, NEW t \in TaskId, HandlerStep(r, t)
      PROVE  IInv'
      BY <1>2, HandlerGivesUpKeeps, FinishReadKeeps, FinishSystemTaskKeeps,
         FinishReleaseKeeps DEF HandlerStep
<1>3. ASSUME NEW r \in Runner, NEW t \in TaskId, HeartbeatStep(r, t)
      PROVE  IInv'
      BY <1>3, RenewReadKeeps, RenewSystemTaskLockKeeps DEF HeartbeatStep
<1>4. CASE UNCHANGED vars
      BY <1>4 DEF IInv, TypeOK, Dispatched, ClaimsOwn, WorkingOpen, Working,
         Ordered, vars
<1> QED BY <1>1, <1>2, <1>3, <1>4, CreateSystemTaskKeeps, CrashKeeps,
           TickKeeps DEF Next

\* The inductive invariant holds in every reachable state.
THEOREM Invariance == Spec => []IInv
BY InitHolds, StepKeeps, PTL DEF Spec

\* Every variable keeps its type, and no operation of a runner compares leases
\* with a timestamp from the future.
THEOREM TypeCorrect == Spec => []TypeOK
<1>1. IInv => TypeOK
      BY DEF IInv
<1> QED BY Invariance, <1>1, PTL

\* No row is dispatched by two runners, however stale the leases they hold.
THEOREM DispatchedOnce == Spec => []OneRunnerPerTask
<1>1. IInv => OneRunnerPerTask
      BY DEF IInv, Dispatched, OneRunnerPerTask
<1> QED BY Invariance, <1>1, PTL

\* A handler that works beside a newer one has had its row failed.
THEOREM SupersededIsFailed == Spec => []OverlapOnlyAfterExpiry
<1>1. IInv => OverlapOnlyAfterExpiry
      <2> SUFFICES ASSUME IInv, NEW r1 \in Runner, NEW r2 \in Runner,
                          NEW t1 \in TaskId, NEW t2 \in TaskId,
                          Working(r1, t1), Working(r2, t2), t1 < t2
                   PROVE  rows[t1].status = "failed"
          BY DEF OverlapOnlyAfterExpiry
      <2>1. rows[t2].status # "absent"
            BY DEF IInv, Dispatched, Working
      <2>2. rows[t1].status \in {"succeeded", "failed"}
            BY <2>1 DEF IInv, Ordered
      <2>3. rows[t1].status \in {"running", "failed"}
            BY DEF IInv, WorkingOpen
      <2> QED BY <2>2, <2>3
<1> QED BY Invariance, <1>1, PTL

\* A step that fails running rows only leaves finished rows alone.
LEMMA FailsKeepsFinished ==
    ASSUME OnlyFails
    PROVE  \A t \in TaskId : rows[t].status \in {"succeeded", "failed"} =>
               rows'[t] = rows[t]
BY DEF OnlyFails

\* A finished row never changes again.
THEOREM FinishedIsFinal == Spec => FinishedForGood
<1> DEFINE Final == \A t \in TaskId :
               rows[t].status \in {"succeeded", "failed"} => rows'[t] = rows[t]
<1>1. IInv /\ [Next]_vars => Final
      <2> SUFFICES ASSUME IInv, [Next]_vars PROVE Final
          OBVIOUS
      <2>1. TypeOK
            BY DEF IInv
      <2>2. CASE UNCHANGED rows
            BY <2>2
      <2>3. ASSUME NEW t \in TaskId, CreateSystemTask(t)
            PROVE  Final
            BY <2>1, <2>3 DEF CreateSystemTask, TypeOK
      <2>4. ASSUME NEW r \in Runner, StaleMark(r)
            PROVE  Final
            BY <2>1, <2>4, LeaseExpiredEffect, SameRows, FailsKeepsFinished
               DEF StaleMark, TypeOK, Loop
      <2>5. ASSUME NEW r \in Runner, ClaimExpire(r)
            PROVE  Final
            BY <2>1, <2>5, LeaseExpiredEffect, SameRows, FailsKeepsFinished
               DEF ClaimExpire, TypeOK, Loop
      <2>6. ASSUME NEW r \in Runner, ClaimRun(r)
            PROVE  Final
            BY <2>1, <2>6 DEF ClaimRun, TypeOK
      <2>7. ASSUME NEW r \in Runner, NEW t \in TaskId, FinishSystemTask(r, t)
            PROVE  Final
            BY <2>1, <2>7 DEF FinishSystemTask, TypeOK
      <2>8. ASSUME NEW r \in Runner, PassStep(r)
            PROVE  Final
            <3> HIDE DEF Final
            <3> QED BY <2>2, <2>4, <2>5, <2>6, <2>8
                DEF PassStep, ClaimStep, BeginStale, SkipStale, StaleSelect,
                    StaleDelete, FindPending, ClaimSelect, AcquireInsert,
                    AcquireSelect, AcquireTakeover, ClaimRelease, ClaimReread
      <2>9. ASSUME NEW r \in Runner, NEW t \in TaskId,
                   HandlerStep(r, t) \/ HeartbeatStep(r, t)
            PROVE  Final
            <3> HIDE DEF Final
            <3> QED BY <2>2, <2>7, <2>9
                DEF HandlerStep, HeartbeatStep, HandlerGivesUp, FinishRead,
                    FinishRelease, RenewRead, RenewSystemTaskLock
      <2> HIDE DEF Final
      <2> QED BY <2>2, <2>3, <2>8, <2>9 DEF Next, Crash, Tick, vars
<1> QED BY Invariance, <1>1, PTL DEF Spec, FinishedForGood

\* A lease that has not lapsed is taken from its holder by nobody.
THEOREM LeaseIsRespected == Spec => LeaseRespected
<1> DEFINE Gone == /\ lock.task # 0 /\ lock.until >= now
                   /\ ~(/\ lock'.task = lock.task
                        /\ lock'.lockedBy = lock.lockedBy)
           ByHolder == /\ lock' = NoLock
                       /\ \/ /\ runner[lock.lockedBy].pc = "release"
                             /\ runner[lock.lockedBy].task = lock.task
                          \/ handler[lock.lockedBy][lock.task].pc = "release"
<1>1. IInv /\ [Next]_vars => (Gone => ByHolder)
      <2> SUFFICES ASSUME IInv, [Next]_vars PROVE Gone => ByHolder
          OBVIOUS
      <2>1. /\ now \in Nat /\ lock.until \in Nat
            /\ \A r \in Runner : runner[r].now \in Nat /\ runner[r].now <= now
            BY DEF IInv, TypeOK, Lock, Loop
      <2>2. CASE UNCHANGED lock
            BY <2>2
      <2>3. ASSUME NEW r \in Runner, Lapsed(runner[r].now) \/ lock.task = 0
            PROVE  Gone => ByHolder
            BY <2>1, <2>3 DEF Lapsed
      <2>4. ASSUME NEW r \in Runner, ClaimRelease(r)
            PROVE  Gone => ByHolder
            BY <2>4 DEF ClaimRelease, Released
      <2>5. ASSUME NEW r \in Runner, NEW t \in TaskId, FinishRelease(r, t)
            PROVE  Gone => ByHolder
            BY <2>5 DEF FinishRelease, Released
      <2>6. ASSUME NEW r \in Runner, NEW t \in TaskId, RenewSystemTaskLock(r, t)
            PROVE  Gone => ByHolder
            BY <2>6 DEF RenewSystemTaskLock, IInv, TypeOK, Lock
      <2>7. ASSUME NEW r \in Runner, PassStep(r)
            PROVE  Gone => ByHolder
            <3> HIDE DEF Gone, ByHolder
            <3> QED BY <2>2, <2>3, <2>4, <2>7
                DEF PassStep, ClaimStep, BeginStale, SkipStale, StaleSelect,
                    StaleMark, StaleDelete, FindPending, ClaimSelect,
                    AcquireInsert, AcquireSelect, AcquireTakeover,
                    ClaimExpire, ClaimRun, ClaimReread
      <2>8. ASSUME NEW r \in Runner, NEW t \in TaskId,
                   HandlerStep(r, t) \/ HeartbeatStep(r, t)
            PROVE  Gone => ByHolder
            <3> HIDE DEF Gone, ByHolder
            <3> QED BY <2>2, <2>5, <2>6, <2>8
                DEF HandlerStep, HeartbeatStep, HandlerGivesUp, FinishRead,
                    FinishSystemTask, RenewRead
      <2> HIDE DEF Gone, ByHolder
      <2> QED BY <2>2, <2>7, <2>8 DEF Next, CreateSystemTask, Crash, Tick, vars
<1> QED BY Invariance, <1>1, PTL DEF Spec, LeaseRespected

(***************************************************************************)
(* Runners that are never stalled for longer than a lease.                 *)
(***************************************************************************)
\* The claim compares leases with its clock, or the stale-lock pass is about
\* to delete the lease it has selected.
Looking == {"insert", "existing", "takeover", "delete"}

\* A claim that has the lease still has it and is in time, one that is about
\* to write it is in time; it has not dispatched its row, and it has not made
\* it running before it is said to.
ClaimLeased(r) ==
    /\ runner[r].pc \in Acquired =>
           LockIs(r, runner[r].task) /\ now <= lock.until
    /\ runner[r].pc \in Claiming =>
           now <= runner[r].until /\ runner[r].until <= now + TTL
    /\ runner[r].pc \in Claiming \cup Acquired =>
           handler[r][runner[r].task].pc = "none"
    /\ runner[r].pc \in {"expire", "run", "release"} =>
           rows[runner[r].task].status # "running"

\* A timestamp that a loop compares leases with was read before the running
\* row had its lease, but for the row that the stale-lock pass will mark.
ClockLeased(r) ==
    \A t \in TaskId :
        /\ rows[t].status = "running"
        /\ \/ runner[r].pc \in Looking
           \/ runner[r].pc = "mark" /\ runner[r].task # t
        => runner[r].now <= lock.until

\* A heartbeat only prolongs a lease, and a lease is released after the row
\* is finished.
BeatLeased(r, t) ==
    /\ handler[r][t].beat = "sent" /\ LockIs(r, t) =>
           lock.until <= handler[r][t].beatNow + TTL
    /\ handler[r][t].pc = "none" => handler[r][t].beat = "off"
    /\ handler[r][t].pc = "release" =>
           rows[t].status \in {"succeeded", "failed"}

\* The inductive invariant of runners that are never stalled.
LeaseInv ==
    /\ RunningIsLeased
    /\ lock.until <= now + TTL
    /\ \A r \in Runner : ClaimLeased(r) /\ ClockLeased(r)
    /\ \A r \in Runner, t \in TaskId : BeatLeased(r, t)

\* The numbers that the invariant compares.
LEMMA Numbers ==
    ASSUME TypeOK
    PROVE  /\ now \in Nat /\ lock.until \in Nat /\ TTL \in Nat
           /\ \A r \in Runner : /\ runner[r].now \in Nat
                                /\ runner[r].until \in Nat
                                /\ runner[r].now <= now
           /\ \A r \in Runner, t \in TaskId : handler[r][t].beatNow \in Nat
           /\ \A r \in Runner, t \in TaskId : handler[r][t].beatNow <= now
BY BoundAssumption DEF TypeOK, Lock, Loop, Handler

\* Rows are never numbered 0, and no runner is Nobody.
LEMMA NoLockIsNobodys ==
    ASSUME NEW r \in Runner, NEW t \in TaskId
    PROVE  ~(NoLock.task = t /\ NoLock.lockedBy = r) /\ t # 0
           /\ NoLock.until = 0 /\ NoLock.task = 0
BY DEF NoLock, TaskId

\* A loop moves and the lease stays; rows fail at most.
LEMMA LeaseLoop ==
    ASSUME IInv, LeaseInv, NEW r \in Runner,
           \A q \in Runner : q # r => runner'[q] = runner[q],
           OnlyFails, UNCHANGED <<now, lock, handler>>,
           ClaimLeased(r)', ClockLeased(r)'
    PROVE  LeaseInv'
<1>1. /\ \A t \in TaskId : rows'[t].status = "running" =>
             rows[t].status = "running"
      /\ \A t \in TaskId : rows[t].status \in {"succeeded", "failed"} =>
             rows'[t].status \in {"succeeded", "failed"}
      BY DEF OnlyFails
<1>2. RunningIsLeased' /\ lock'.until <= now' + TTL
      BY <1>1 DEF LeaseInv, RunningIsLeased
<1>3. ASSUME NEW q \in Runner
      PROVE  ClaimLeased(q)' /\ ClockLeased(q)'
      <2>1. CASE q = r
            BY <2>1
      <2>2. CASE q # r
            <3>1. ClaimLeased(q) /\ ClockLeased(q) /\ runner'[q] = runner[q]
                  BY <2>2 DEF LeaseInv
            <3>2. ClaimLeased(q)'
                  <4>1. runner[q].pc \in {"expire", "run", "release"} =>
                            runner[q].task \in TaskId
                        BY DEF IInv, ClaimsOwn, Acquired
                  <4> QED BY <1>1, <3>1, <4>1 DEF ClaimLeased, LockIs
            <3>3. ClockLeased(q)'
                  BY <1>1, <3>1 DEF ClockLeased
            <3> QED BY <3>2, <3>3
      <2> QED BY <2>1, <2>2
<1>4. \A q \in Runner, t \in TaskId : BeatLeased(q, t)'
      BY <1>1 DEF LeaseInv, BeatLeased, LockIs
<1> QED BY <1>2, <1>3, <1>4 DEF LeaseInv

\* A claim that finds no lease, or a lapsed one, finds no running row and
\* nobody else who has acquired the lease.
LEMMA Unleased ==
    ASSUME IInv, LeaseInv, NEW r \in Runner, runner[r].pc \in Looking,
           lock.task = 0 \/ Lapsed(runner[r].now)
    PROVE  /\ \A t \in TaskId : rows[t].status # "running"
           /\ \A q \in Runner : runner[q].pc \notin Acquired
<1>1. TypeOK
      BY DEF IInv
<1>2. \A t \in TaskId : rows[t].status # "running"
      <2> SUFFICES ASSUME NEW t \in TaskId, rows[t].status = "running"
                   PROVE  FALSE
          OBVIOUS
      <2>1. lock.task = t /\ t # 0
            BY NoLockIsNobodys DEF LeaseInv, RunningIsLeased, TaskId
      <2>2. runner[r].now <= lock.until
            BY DEF LeaseInv, ClockLeased
      <2> QED BY <1>1, <2>1, <2>2, Numbers DEF Lapsed
<1>3. \A q \in Runner : runner[q].pc \notin Acquired
      <2> SUFFICES ASSUME NEW q \in Runner, runner[q].pc \in Acquired
                   PROVE  FALSE
          OBVIOUS
      <2>1. runner[q].task \in TaskId
            BY DEF IInv, ClaimsOwn
      <2>2. lock.task = runner[q].task /\ now <= lock.until
            BY DEF LeaseInv, ClaimLeased, LockIs
      <2>3. lock.task # 0
            BY <2>1, <2>2 DEF TaskId
      <2> QED BY <1>1, <2>2, <2>3, Numbers DEF Lapsed
<1> QED BY <1>2, <1>3

\* The claim of r writes the lease of its row.
LEMMA LeaseAcquire ==
    ASSUME IInv, LeaseInv, NEW r \in Runner,
           runner[r].pc \in {"insert", "takeover"},
           lock.task = 0 \/ Lapsed(runner[r].now),
           lock' = Lease(r),
           runner'[r].pc \in {"run", "expire"},
           runner'[r].task = runner[r].task,
           \A q \in Runner : q # r => runner'[q] = runner[q],
           UNCHANGED <<now, rows, handler>>
    PROVE  LeaseInv'
<1>1. /\ \A t \in TaskId : rows[t].status # "running"
      /\ \A q \in Runner : runner[q].pc \notin Acquired
      BY Unleased DEF Looking
<1>2. /\ lock'.task = runner[r].task /\ lock'.lockedBy = r
      /\ lock'.until = runner[r].until
      BY DEF Lease
<1>3. runner[r].task \in TaskId
      BY DEF IInv, ClaimsOwn, Claiming
<1>4. /\ now <= runner[r].until /\ runner[r].until <= now + TTL
      /\ handler[r][runner[r].task].pc = "none"
      BY DEF LeaseInv, ClaimLeased, Claiming
<1>5. \A q \in Runner, t \in TaskId : BeatLeased(q, t)'
      <2> SUFFICES ASSUME NEW q \in Runner, NEW t \in TaskId
                   PROVE  BeatLeased(q, t)'
          OBVIOUS
      <2>1. BeatLeased(q, t)
            BY DEF LeaseInv
      <2>2. q = r /\ t = runner[r].task => handler[q][t].beat = "off"
            BY <1>4, <2>1 DEF BeatLeased
      <2>3. LockIs(q, t)' => q = r /\ t = runner[r].task
            BY <1>2 DEF LockIs
      <2> QED BY <2>1, <2>2, <2>3 DEF BeatLeased
<1>6. ASSUME NEW q \in Runner
      PROVE  ClaimLeased(q)' /\ ClockLeased(q)'
      <2>1. ClockLeased(q)'
            BY <1>1 DEF ClockLeased
      <2>2. CASE q = r
            BY <1>1, <1>2, <1>3, <1>4, <2>1, <2>2
               DEF ClaimLeased, LockIs, Claiming, Acquired
      <2>3. CASE q # r
            <3>1. ClaimLeased(q) /\ runner'[q] = runner[q]
                  BY <2>3 DEF LeaseInv
            <3> QED BY <1>1, <2>1, <3>1 DEF ClaimLeased, Acquired
      <2> QED BY <2>2, <2>3
<1>7. RunningIsLeased' /\ lock'.until <= now' + TTL
      BY <1>1, <1>2, <1>4 DEF RunningIsLeased
<1> QED BY <1>5, <1>6, <1>7 DEF LeaseInv

\* The lease is deleted when no row is running and nobody has acquired it.
LEMMA LeaseDelete ==
    ASSUME IInv, LeaseInv, lock' = NoLock,
           \A t \in TaskId : rows[t].status # "running",
           \A q \in Runner : runner'[q].pc \notin Acquired,
           \A q \in Runner : \/ runner'[q] = runner[q]
                             \/ runner'[q].pc \in {"idle", "find"},
           \A q \in Runner, t \in TaskId :
               \/ handler'[q][t] = handler[q][t]
               \/ handler[q][t].pc # "none" /\ handler'[q][t].pc = "done",
           UNCHANGED <<now, rows>>
    PROVE  LeaseInv'
<1>1. TypeOK
      BY DEF IInv
<1>2. \A q \in Runner, t \in TaskId : ~LockIs(q, t)'
      BY NoLockIsNobodys DEF LockIs
<1>3. lock'.until <= now' + TTL
      <2>1. lock'.until = 0
            BY DEF NoLock
      <2> QED BY <1>1, <2>1, Numbers
<1>4. RunningIsLeased'
      BY DEF RunningIsLeased
<1>5. ASSUME NEW q \in Runner, NEW t \in TaskId
      PROVE  BeatLeased(q, t)'
      <2>1. BeatLeased(q, t)
            BY DEF LeaseInv
      <2> QED BY <1>2, <2>1 DEF BeatLeased
<1>6. ASSUME NEW q \in Runner
      PROVE  ClaimLeased(q)' /\ ClockLeased(q)'
      <2>1. ClockLeased(q)'
            BY DEF ClockLeased
      <2>2. CASE runner'[q].pc \in {"idle", "find"}
            BY <2>1, <2>2 DEF ClaimLeased, Claiming, Acquired
      <2>3. CASE runner'[q] = runner[q]
            <3>1. ClaimLeased(q) /\ runner'[q].pc \notin Acquired
                  BY DEF LeaseInv
            <3>2. runner[q].pc \in Claiming => runner[q].task \in TaskId
                  BY DEF IInv, ClaimsOwn
            <3>3. runner[q].pc \in Claiming =>
                      handler'[q][runner[q].task].pc = "none"
                  BY <3>1, <3>2 DEF ClaimLeased
            <3> QED BY <2>1, <2>3, <3>1, <3>3 DEF ClaimLeased, Acquired
      <2> QED BY <2>2, <2>3
<1> QED BY <1>3, <1>4, <1>5, <1>6 DEF LeaseInv

\* A dispatched handler or its heartbeat moves; the lease stays or is renewed.
LEMMA LeaseHandler ==
    ASSUME IInv, LeaseInv, NEW r \in Runner, NEW t \in TaskId,
           handler[r][t].pc # "none", handler'[r][t].pc # "none",
           \A q \in Runner, u \in TaskId :
               q # r \/ u # t => handler'[q][u] = handler[q][u],
           BeatLeased(r, t)',
           lock'.task = lock.task, lock'.lockedBy = lock.lockedBy,
           lock'.until \in Nat,
           lock'.until # lock.until => LockIs(r, t),
           lock.until <= lock'.until, lock'.until <= now + TTL,
           \A u \in TaskId : rows'[u].status = "running" =>
               rows[u].status = "running",
           \A u \in TaskId : rows[u].status \in {"succeeded", "failed"} =>
               rows'[u].status \in {"succeeded", "failed"},
           UNCHANGED <<now, runner>>
    PROVE  LeaseInv'
<1>1. TypeOK
      BY DEF IInv
<1>2. \A q \in Runner, u \in TaskId : LockIs(q, u)' <=> LockIs(q, u)
      BY DEF LockIs
<1>3. RunningIsLeased' /\ lock'.until <= now' + TTL
      BY DEF LeaseInv, RunningIsLeased
<1>4. ASSUME NEW q \in Runner, NEW u \in TaskId
      PROVE  BeatLeased(q, u)'
      <2>1. CASE q = r /\ u = t
            BY <2>1
      <2>2. CASE q # r \/ u # t
            <3>1. BeatLeased(q, u) /\ handler'[q][u] = handler[q][u]
                  BY <2>2 DEF LeaseInv
            <3>2. LockIs(q, u)' => lock'.until = lock.until
                  BY <1>2, <2>2 DEF LockIs
            <3> QED BY <1>2, <3>1, <3>2 DEF BeatLeased
      <2> QED BY <2>1, <2>2
<1>5. ASSUME NEW q \in Runner
      PROVE  ClaimLeased(q)' /\ ClockLeased(q)'
      <2>1. ClaimLeased(q) /\ ClockLeased(q)
            BY DEF LeaseInv
      <2>2. /\ now \in Nat /\ lock.until \in Nat
            /\ runner[q].now \in Nat /\ runner[q].until \in Nat
            BY <1>1, Numbers
      <2>3. ClockLeased(q)'
            BY <2>1, <2>2 DEF ClockLeased
      <2>4. runner[q].pc \in Claiming \cup Acquired =>
                runner[q].task \in TaskId
            BY DEF IInv, ClaimsOwn
      <2>5. runner[q].pc \in Claiming \cup Acquired =>
                handler'[q][runner[q].task].pc = "none"
            BY <2>1, <2>4 DEF ClaimLeased
      <2>6. runner[q].pc \in Acquired =>
                LockIs(q, runner[q].task)' /\ now <= lock'.until
            BY <1>2, <2>1, <2>2, <2>4 DEF ClaimLeased
      <2>7. runner[q].pc \in {"expire", "run", "release"} =>
                rows'[runner[q].task].status # "running"
            BY <2>1, <2>4 DEF ClaimLeased, Acquired
      <2>8. ClaimLeased(q)'
            BY <2>1, <2>5, <2>6, <2>7 DEF ClaimLeased
      <2> QED BY <2>3, <2>8
<1> QED BY <1>3, <1>4, <1>5 DEF LeaseInv

\* A loop that claims nothing and compares nothing is bound by nothing.
LEMMA LeaseIdle ==
    ASSUME NEW r \in Runner,
           runner'[r].pc \in {"idle", "stale", "find", "dead"}
    PROVE  ClaimLeased(r)' /\ ClockLeased(r)'
BY DEF ClaimLeased, ClockLeased, Claiming, Acquired, Looking

\* What Goto, Restart and Hold leave in the loop.
LEMMA LoopFields ==
    ASSUME TypeOK, NEW r \in Runner, NEW pc
    PROVE  /\ Goto(r, pc) => /\ runner'[r].pc = pc
                             /\ runner'[r].task = runner[r].task
                             /\ runner'[r].now = runner[r].now
                             /\ runner'[r].until = runner[r].until
           /\ Restart(r, pc) => runner'[r].pc = pc
           /\ Hold(r, pc) => /\ runner'[r].pc = pc
                             /\ runner'[r].task = runner[r].task
           /\ Goto(r, pc) \/ Restart(r, pc) \/ Hold(r, pc) =>
                  \A q \in Runner : q # r => runner'[q] = runner[q]
<1>1. runner \in [Runner -> Loop]
      BY DEF TypeOK
<1>2. ASSUME Goto(r, pc)
      PROVE  /\ runner'[r].pc = pc
             /\ runner'[r].task = runner[r].task
             /\ runner'[r].now = runner[r].now
             /\ runner'[r].until = runner[r].until
             /\ \A q \in Runner : q # r => runner'[q] = runner[q]
      BY <1>1, <1>2 DEF Goto, Loop
<1>3. ASSUME NEW v, runner' = [runner EXCEPT ![r] = v]
      PROVE  runner'[r] = v /\ \A q \in Runner : q # r => runner'[q] = runner[q]
      BY <1>1, <1>3
<1>4. ASSUME Restart(r, pc)
      PROVE  /\ runner'[r].pc = pc
             /\ \A q \in Runner : q # r => runner'[q] = runner[q]
      BY <1>3, <1>4 DEF Restart, Idle
<1>5. ASSUME Hold(r, pc)
      PROVE  /\ runner'[r].pc = pc
             /\ runner'[r].task = runner[r].task
             /\ \A q \in Runner : q # r => runner'[q] = runner[q]
      <2> DEFINE k == runner[r].task
                 v == [Idle EXCEPT !.pc = pc, !.task = k]
      <2>1. runner' = [runner EXCEPT ![r] = v]
            BY <1>5 DEF Hold
      <2> HIDE DEF k
      <2>2. v.pc = pc /\ v.task = k
            BY DEF Idle
      <2> HIDE DEF v
      <2>3. runner'[r] = v /\ \A q \in Runner : q # r => runner'[q] = runner[q]
            BY <1>3, <2>1
      <2> QED BY <2>2, <2>3 DEF k
<1> QED BY <1>2, <1>4, <1>5

\* A pass that begins, is skipped, fails or ends leaves the lease alone.
LEMMA LeaseRestart ==
    ASSUME IInv, LeaseInv, NEW r \in Runner, NEW pc \in {"idle", "find"},
           Restart(r, pc), UNCHANGED <<now, rows, lock, handler>>
    PROVE  LeaseInv'
<1>1. TypeOK
      BY DEF IInv
<1>2. /\ runner'[r].pc = pc
      /\ \A q \in Runner : q # r => runner'[q] = runner[q]
      BY <1>1, LoopFields
<1>3. OnlyFails
      BY <1>1, SameRows
<1>4. ClaimLeased(r)' /\ ClockLeased(r)'
      BY <1>2, LeaseIdle
<1> QED BY <1>2, <1>3, <1>4, LeaseLoop

\* BeginStale reads the clock.
LEMMA BeginStaleLeased ==
    ASSUME IInv, LeaseInv, NEW r \in Runner, BeginStale(r)
    PROVE  LeaseInv'
<1>1. TypeOK /\ OnlyFails
      BY SameRows DEF IInv, BeginStale
<1>2. /\ runner'[r].pc = "stale"
      /\ \A q \in Runner : q # r => runner'[q] = runner[q]
      BY <1>1 DEF BeginStale, TypeOK, Loop
<1>3. ClaimLeased(r)' /\ ClockLeased(r)'
      BY <1>2, LeaseIdle
<1> QED BY <1>1, <1>2, <1>3, LeaseLoop DEF BeginStale

\* StaleSelect finds the lapsed lease of the running row, if one runs.
LEMMA StaleSelectLeased ==
    ASSUME IInv, LeaseInv, NEW r \in Runner, StaleSelect(r)
    PROVE  LeaseInv'
<1>1. TypeOK /\ OnlyFails
      BY SameRows DEF IInv, StaleSelect
<1>2. CASE runner' = [runner EXCEPT ![r].pc = "mark", ![r].task = lock.task,
                                    ![r].owner = lock.lockedBy]
      <2>1. /\ runner'[r].pc = "mark" /\ runner'[r].task = lock.task
            /\ \A q \in Runner : q # r => runner'[q] = runner[q]
            BY <1>1, <1>2 DEF TypeOK, Loop
      <2>2. ClaimLeased(r)'
            BY <2>1 DEF ClaimLeased, Claiming, Acquired
      <2>3. ClockLeased(r)'
            BY <2>1 DEF ClockLeased, Looking, LeaseInv, RunningIsLeased,
               StaleSelect
      <2> QED BY <1>1, <2>1, <2>2, <2>3, LeaseLoop DEF StaleSelect
<1>3. CASE Restart(r, "find")
      BY <1>3, LeaseRestart DEF StaleSelect
<1> QED BY <1>2, <1>3 DEF StaleSelect

\* StaleMark leaves no running row whose lease was lapsed at its timestamp.
LEMMA StaleMarkLeased ==
    ASSUME IInv, LeaseInv, NEW r \in Runner, StaleMark(r)
    PROVE  LeaseInv'
<1>1. TypeOK /\ runner[r].task \in 0..MaxTask
      BY DEF IInv, TypeOK, Loop
<1>2. CASE LeaseExpired(runner[r].task) /\ Goto(r, "delete")
      <2>1. /\ runner'[r].pc = "delete" /\ runner'[r].now = runner[r].now
            /\ \A q \in Runner : q # r => runner'[q] = runner[q]
            BY <1>1, <1>2, LoopFields
      <2>2. OnlyFails
            BY <1>1, <1>2, LeaseExpiredEffect
      <2>3. ClaimLeased(r)'
            BY <2>1 DEF ClaimLeased, Claiming, Acquired
      <2>4. ASSUME NEW t \in TaskId, rows'[t].status = "running"
            PROVE  rows[t].status = "running" /\ runner[r].task # t
            BY <1>1, <1>2, <2>4 DEF LeaseExpired, TypeOK, Row
      <2>5. ClockLeased(r)'
            <3>1. ClockLeased(r)
                  BY DEF LeaseInv
            <3> QED BY <2>1, <2>4, <3>1 DEF ClockLeased, StaleMark
      <2> QED BY <2>1, <2>2, <2>3, <2>5, LeaseLoop DEF StaleMark
<1>3. CASE Restart(r, "find") /\ UNCHANGED rows
      BY <1>3, LeaseRestart DEF StaleMark
<1> QED BY <1>2, <1>3 DEF StaleMark

\* StaleDelete deletes a lease only when no row is running.
LEMMA StaleDeleteLeased ==
    ASSUME IInv, LeaseInv, NEW r \in Runner, StaleDelete(r)
    PROVE  LeaseInv'
<1>1. TypeOK /\ Restart(r, "find")
      BY DEF IInv, StaleDelete
<1>2. CASE UNCHANGED lock
      BY <1>1, <1>2, LeaseRestart DEF StaleDelete
<1>3. CASE Lapsed(runner[r].now) /\ lock' = NoLock
      <2>1. /\ \A t \in TaskId : rows[t].status # "running"
            /\ \A q \in Runner : runner[q].pc \notin Acquired
            BY <1>3, Unleased DEF StaleDelete, Looking
      <2>2. /\ runner'[r].pc = "find"
            /\ \A q \in Runner : q # r => runner'[q] = runner[q]
            BY <1>1, LoopFields
      <2>3. \A q \in Runner : runner'[q].pc \notin Acquired
            BY <2>1, <2>2 DEF Acquired
      <2> QED BY <1>3, <2>1, <2>2, <2>3, LeaseDelete DEF StaleDelete
<1> QED BY <1>2, <1>3 DEF StaleDelete

\* FindPending finds a row that nobody has dispatched.
LEMMA FindPendingLeased ==
    ASSUME IInv, LeaseInv, NEW r \in Runner, FindPending(r)
    PROVE  LeaseInv'
<1>1. TypeOK /\ OnlyFails
      BY SameRows DEF IInv, FindPending
<1>2. ASSUME NEW t \in TaskId, rows[t].status = "pending",
             runner' = [runner EXCEPT ![r].pc = "select", ![r].task = t,
                                      ![r].until = now + TTL]
      PROVE  LeaseInv'
      <2>1. /\ runner'[r].pc = "select" /\ runner'[r].task = t
            /\ runner'[r].until = now + TTL
            /\ \A q \in Runner : q # r => runner'[q] = runner[q]
            BY <1>1, <1>2 DEF TypeOK, Loop
      <2>2. handler[r][t].pc = "none"
            BY <1>2 DEF IInv, Dispatched
      <2>3. now \in Nat /\ TTL \in Nat
            BY <1>1, Numbers
      <2>4. ClaimLeased(r)'
            <3>1. now <= now + TTL /\ now + TTL <= now + TTL
                  BY <2>3
            <3> QED BY <2>1, <2>2, <3>1 DEF ClaimLeased, Acquired, FindPending
      <2>5. ClockLeased(r)'
            BY <2>1 DEF ClockLeased, Looking
      <2> QED BY <1>1, <2>1, <2>4, <2>5, LeaseLoop DEF FindPending
<1>3. CASE Done(r)
      BY <1>3, LeaseRestart DEF FindPending, Done
<1> QED BY <1>2, <1>3 DEF FindPending

\* Of two rows at most one is pending or running.
LEMMA OneActive ==
    ASSUME IInv, NEW t \in TaskId, NEW u \in TaskId, Active(t), Active(u)
    PROVE  t = u
BY DEF IInv, Ordered, Active, TaskId

\* ClaimSelect reads the clock while the row is pending and so none is running.
LEMMA ClaimSelectLeased ==
    ASSUME IInv, LeaseInv, NEW r \in Runner, ClaimSelect(r)
    PROVE  LeaseInv'
<1>1. TypeOK /\ OnlyFails
      BY SameRows DEF IInv, ClaimSelect
<1>2. CASE /\ rows[runner[r].task].status = "pending"
           /\ runner' = [runner EXCEPT ![r].pc = "insert", ![r].now = now]
      <2>1. /\ runner'[r].pc = "insert" /\ runner'[r].now = now
            /\ runner'[r].task = runner[r].task
            /\ runner'[r].until = runner[r].until
            /\ \A q \in Runner : q # r => runner'[q] = runner[q]
            BY <1>1, <1>2 DEF TypeOK, Loop
      <2>2. ClaimLeased(r)'
            <3>1. ClaimLeased(r) /\ runner[r].pc = "select"
                  BY DEF LeaseInv, ClaimSelect
            <3> QED BY <2>1, <3>1
                DEF ClaimLeased, Claiming, Acquired, ClaimSelect
      <2>3. \A t \in TaskId : rows[t].status # "running"
            <3>1. runner[r].task \in TaskId
                  BY DEF IInv, ClaimsOwn, Claiming, ClaimSelect
            <3> QED BY <1>2, <3>1, OneActive DEF Active
      <2>4. ClockLeased(r)'
            BY <2>3 DEF ClockLeased, ClaimSelect
      <2> QED BY <1>1, <2>1, <2>2, <2>4, LeaseLoop DEF ClaimSelect
<1>3. CASE Done(r)
      BY <1>3, LeaseRestart DEF ClaimSelect, Done
<1> QED BY <1>2, <1>3 DEF ClaimSelect

\* A claim goes on with its timestamp and its lockUntil.
LEMMA LeaseClaiming ==
    ASSUME IInv, LeaseInv, NEW r \in Runner,
           runner[r].pc \in {"insert", "existing"},
           runner'[r].pc \in {"existing", "takeover"},
           runner'[r].task = runner[r].task,
           runner'[r].now = runner[r].now,
           runner'[r].until = runner[r].until,
           \A q \in Runner : q # r => runner'[q] = runner[q],
           UNCHANGED <<now, rows, lock, handler>>
    PROVE  LeaseInv'
<1>1. ClaimLeased(r) /\ ClockLeased(r) /\ OnlyFails
      BY SameRows DEF LeaseInv, IInv
<1>2. ClaimLeased(r)'
      BY <1>1 DEF ClaimLeased, Claiming, Acquired
<1>3. ClockLeased(r)'
      BY <1>1 DEF ClockLeased, Looking
<1> QED BY <1>1, <1>2, <1>3, LeaseLoop

\* AcquireInsert writes the lease when there is none.
LEMMA AcquireInsertLeased ==
    ASSUME IInv, LeaseInv, NEW r \in Runner, AcquireInsert(r)
    PROVE  LeaseInv'
<1>1. TypeOK
      BY DEF IInv
<1>2. CASE lock.task = 0 /\ lock' = Lease(r) /\ Hold(r, "run")
      <2>1. /\ runner'[r].pc = "run" /\ runner'[r].task = runner[r].task
            /\ \A q \in Runner : q # r => runner'[q] = runner[q]
            BY <1>1, <1>2, LoopFields
      <2> QED BY <1>2, <2>1, LeaseAcquire DEF AcquireInsert
<1>3. CASE Goto(r, "existing") /\ UNCHANGED lock
      <2>1. /\ runner'[r].pc = "existing" /\ runner'[r].task = runner[r].task
            /\ runner'[r].now = runner[r].now
            /\ runner'[r].until = runner[r].until
            /\ \A q \in Runner : q # r => runner'[q] = runner[q]
            BY <1>1, <1>3, LoopFields
      <2> QED BY <1>3, <2>1, LeaseClaiming DEF AcquireInsert
<1> QED BY <1>2, <1>3 DEF AcquireInsert

\* AcquireSelect remembers whose lease has lapsed.
LEMMA AcquireSelectLeased ==
    ASSUME IInv, LeaseInv, NEW r \in Runner, AcquireSelect(r)
    PROVE  LeaseInv'
<1>1. TypeOK
      BY DEF IInv
<1>2. CASE runner' = [runner EXCEPT ![r].pc = "takeover",
                                    ![r].expired = lock.task]
      <2>1. /\ runner'[r].pc = "takeover" /\ runner'[r].task = runner[r].task
            /\ runner'[r].now = runner[r].now
            /\ runner'[r].until = runner[r].until
            /\ \A q \in Runner : q # r => runner'[q] = runner[q]
            BY <1>1, <1>2 DEF TypeOK, Loop
      <2> QED BY <2>1, LeaseClaiming DEF AcquireSelect
<1>3. CASE Done(r)
      BY <1>3, LeaseRestart DEF AcquireSelect, Done
<1> QED BY <1>2, <1>3 DEF AcquireSelect

\* AcquireTakeover replaces a lease that is lapsed at its timestamp.
LEMMA AcquireTakeoverLeased ==
    ASSUME IInv, LeaseInv, NEW r \in Runner, AcquireTakeover(r)
    PROVE  LeaseInv'
<1>1. TypeOK
      BY DEF IInv
<1>2. CASE /\ Lapsed(runner[r].now) /\ lock' = Lease(r)
           /\ Hold(r, "run") \/ Goto(r, "expire")
      <2>1. /\ runner'[r].pc \in {"run", "expire"}
            /\ runner'[r].task = runner[r].task
            /\ \A q \in Runner : q # r => runner'[q] = runner[q]
            BY <1>1, <1>2, LoopFields
      <2> QED BY <1>2, <2>1, LeaseAcquire DEF AcquireTakeover
<1>3. CASE Done(r) /\ UNCHANGED lock
      BY <1>3, LeaseRestart DEF AcquireTakeover, Done
<1> QED BY <1>2, <1>3 DEF AcquireTakeover

\* A claim that holds its lease goes on, its row not running.
LEMMA LeaseHolding ==
    ASSUME IInv, LeaseInv, NEW r \in Runner,
           runner[r].pc \in {"expire", "run"},
           runner'[r].pc \in {"run", "release"},
           runner'[r].task = runner[r].task,
           \A q \in Runner : q # r => runner'[q] = runner[q],
           OnlyFails, UNCHANGED <<now, lock, handler>>
    PROVE  LeaseInv'
<1>1. ClaimLeased(r)
      BY DEF LeaseInv
<1>2. runner[r].task \in TaskId
      BY DEF IInv, ClaimsOwn, Acquired
<1>3. rows'[runner[r].task].status # "running"
      BY <1>1, <1>2 DEF ClaimLeased, OnlyFails
<1>4. ClaimLeased(r)'
      BY <1>1, <1>3 DEF ClaimLeased, Claiming, Acquired, LockIs
<1>5. ClockLeased(r)'
      BY DEF ClockLeased, Looking
<1> QED BY <1>4, <1>5, LeaseLoop

\* ClaimExpire fails the row of the lease that was taken over.
LEMMA ClaimExpireLeased ==
    ASSUME IInv, LeaseInv, NEW r \in Runner, ClaimExpire(r)
    PROVE  LeaseInv'
<1>1. TypeOK /\ runner[r].expired \in 0..MaxTask
      BY DEF IInv, TypeOK, Loop
<1>2. OnlyFails
      BY <1>1, SameRows, LeaseExpiredEffect DEF ClaimExpire
<1>3. /\ runner'[r].pc \in {"run", "release"}
      /\ runner'[r].task = runner[r].task
      /\ \A q \in Runner : q # r => runner'[q] = runner[q]
      BY <1>1, LoopFields DEF ClaimExpire
<1> QED BY <1>2, <1>3, LeaseHolding DEF ClaimExpire

\* ClaimRun makes a row running under a lease that is in time, later than any
\* timestamp the other runners have read.
LEMMA ClaimRunLeased ==
    ASSUME IInv, LeaseInv, NEW r \in Runner, ClaimRun(r)
    PROVE  LeaseInv'
<1> DEFINE t == runner[r].task
<1>1. TypeOK
      BY DEF IInv
<1>2. CASE Goto(r, "release") /\ UNCHANGED rows
      <2>1. /\ runner'[r].pc = "release" /\ runner'[r].task = runner[r].task
            /\ \A q \in Runner : q # r => runner'[q] = runner[q]
            BY <1>1, <1>2, LoopFields
      <2> QED BY <1>1, <1>2, <2>1, SameRows, LeaseHolding DEF ClaimRun
<1>3. CASE /\ rows[t].status = "pending"
           /\ rows' = [rows EXCEPT ![t].status = "running", ![t].lockedBy = r]
           /\ Goto(r, "reread")
      <2>1. /\ runner'[r].pc = "reread" /\ runner'[r].task = t
            /\ \A q \in Runner : q # r => runner'[q] = runner[q]
            BY <1>1, <1>3, LoopFields
      <2>2. t \in TaskId /\ runner[r].pc = "run"
            BY DEF IInv, ClaimsOwn, Acquired, ClaimRun
      <2>3. /\ rows'[t].status = "running"
            /\ \A u \in TaskId : u # t => rows'[u] = rows[u]
            BY <1>1, <1>3, <2>2 DEF TypeOK, Row
      <2>4. UNCHANGED <<now, lock, handler>>
            BY DEF ClaimRun
      <2>5. LockIs(r, t) /\ now <= lock.until /\ handler[r][t].pc = "none"
            BY <2>2 DEF LeaseInv, ClaimLeased, Acquired
      <2>6. RunningIsLeased' /\ lock'.until <= now' + TTL
            <3>1. \A u \in TaskId : rows'[u].status = "running" => lock.task = u
                  BY <2>3, <2>5 DEF LeaseInv, RunningIsLeased, LockIs
            <3> QED BY <2>4, <3>1 DEF RunningIsLeased, LeaseInv
      <2>7. \A q \in Runner, u \in TaskId : BeatLeased(q, u)'
            BY <1>3, <2>3, <2>4 DEF LeaseInv, BeatLeased, LockIs
      <2>8. ASSUME NEW q \in Runner
            PROVE  ClaimLeased(q)' /\ ClockLeased(q)'
            <3>1. runner'[q].now <= now \/ q = r
                  BY <1>1, <2>1, Numbers
            <3>2. q # r => runner[q].pc \notin Acquired
                  <4> SUFFICES ASSUME q # r, runner[q].pc \in Acquired
                               PROVE  FALSE
                      OBVIOUS
                  <4>1. LockIs(q, runner[q].task)
                        BY DEF LeaseInv, ClaimLeased
                  <4> QED BY <2>5, <4>1 DEF LockIs
            <3>3. CASE q = r
                  BY <2>1, <2>4, <2>5, <3>3
                     DEF ClaimLeased, ClockLeased, Claiming, Acquired, LockIs,
                         Looking
            <3>4. CASE q # r
                  <4>1. ClaimLeased(q) /\ runner'[q] = runner[q]
                        BY <2>1, <3>4 DEF LeaseInv
                  <4>2. ClaimLeased(q)'
                        BY <2>4, <3>2, <3>4, <4>1 DEF ClaimLeased, Acquired
                  <4>3. runner[q].now <= lock.until
                        BY <1>1, <2>5, Numbers
                  <4>4. ClockLeased(q)'
                        BY <2>4, <4>1, <4>3 DEF ClockLeased
                  <4> QED BY <4>2, <4>4
            <3> QED BY <3>3, <3>4
      <2> QED BY <2>6, <2>7, <2>8 DEF LeaseInv
<1> QED BY <1>2, <1>3 DEF ClaimRun

\* ClaimRelease deletes the claim's own lease, under which no row runs.
LEMMA ClaimReleaseLeased ==
    ASSUME IInv, LeaseInv, NEW r \in Runner, ClaimRelease(r)
    PROVE  LeaseInv'
<1>1. TypeOK /\ Restart(r, "idle") /\ runner[r].pc = "release"
      BY DEF IInv, ClaimRelease, Done
<1>2. CASE UNCHANGED lock
      BY <1>1, <1>2, LeaseRestart DEF ClaimRelease
<1>3. CASE lock' = NoLock
      <2>1. /\ LockIs(r, runner[r].task)
            /\ rows[runner[r].task].status # "running"
            BY <1>1 DEF LeaseInv, ClaimLeased, Acquired
      <2>2. \A t \in TaskId : rows[t].status # "running"
            BY <2>1 DEF LeaseInv, RunningIsLeased, LockIs
      <2>3. /\ runner'[r].pc = "idle"
            /\ \A q \in Runner : q # r => runner'[q] = runner[q]
            BY <1>1, LoopFields
      <2>4. \A q \in Runner : runner'[q].pc \notin Acquired
            <3> SUFFICES ASSUME NEW q \in Runner, runner'[q].pc \in Acquired
                         PROVE  FALSE
                OBVIOUS
            <3>1. q # r /\ runner[q].pc \in Acquired
                  BY <2>3 DEF Acquired
            <3>2. LockIs(q, runner[q].task)
                  BY <3>1 DEF LeaseInv, ClaimLeased
            <3> QED BY <2>1, <3>1, <3>2 DEF LockIs
      <2> QED BY <1>3, <2>2, <2>3, <2>4, LeaseDelete DEF ClaimRelease
<1> QED BY <1>2, <1>3 DEF ClaimRelease, Released

\* ClaimReread dispatches the row, or leaves it to the stale-lock pass.
LEMMA ClaimRereadLeased ==
    ASSUME IInv, LeaseInv, NEW r \in Runner, ClaimReread(r)
    PROVE  LeaseInv'
<1>1. TypeOK /\ Restart(r, "idle") /\ runner[r].pc = "reread"
      BY DEF IInv, ClaimReread, Done
<1>2. UNCHANGED <<now, rows, lock>>
      BY DEF ClaimReread
<1>3. CASE UNCHANGED handler
      BY <1>1, <1>2, <1>3, LeaseRestart
<1>4. CASE handler' = [handler EXCEPT ![r][runner[r].task] =
                         [NoHandler EXCEPT !.pc = "run", !.beat = "on"]]
      <2>1. runner[r].task \in TaskId
            BY <1>1 DEF IInv, ClaimsOwn, Acquired
      <2>2. PICK t \in TaskId : t = runner[r].task
            BY <2>1
      <2>3. /\ handler'[r][t].pc = "run" /\ handler'[r][t].beat = "on"
            /\ \A q \in Runner, u \in TaskId :
                   q # r \/ u # t => handler'[q][u] = handler[q][u]
            BY <1>1, <1>4, <2>2 DEF TypeOK, NoHandler
      <2>4. /\ runner'[r].pc = "idle"
            /\ \A q \in Runner : q # r => runner'[q] = runner[q]
            BY <1>1, LoopFields
      <2>5. ASSUME NEW q \in Runner, NEW u \in TaskId
            PROVE  BeatLeased(q, u)'
            <3>1. BeatLeased(q, u)
                  BY DEF LeaseInv
            <3> QED BY <1>2, <2>3, <3>1 DEF BeatLeased, LockIs
      <2>6. ASSUME NEW q \in Runner
            PROVE  ClaimLeased(q)' /\ ClockLeased(q)'
            <3>1. CASE q = r
                  BY <2>4, <3>1, LeaseIdle
            <3>2. CASE q # r
                  <4>1. ClaimLeased(q) /\ ClockLeased(q)
                        BY DEF LeaseInv
                  <4>2. runner[q].pc \in Claiming \cup Acquired =>
                            runner[q].task \in TaskId
                        BY DEF IInv, ClaimsOwn
                  <4>3. runner'[q] = runner[q]
                        BY <2>4, <3>2
                  <4>4. ClaimLeased(q)'
                        BY <1>2, <2>3, <3>2, <4>1, <4>2, <4>3
                           DEF ClaimLeased, LockIs
                  <4>5. ClockLeased(q)'
                        BY <1>2, <4>1, <4>3 DEF ClockLeased
                  <4> QED BY <4>4, <4>5
            <3> QED BY <3>1, <3>2
      <2>7. RunningIsLeased' /\ lock'.until <= now' + TTL
            BY <1>2 DEF LeaseInv, RunningIsLeased
      <2> QED BY <2>5, <2>6, <2>7 DEF LeaseInv
<1> QED BY <1>3, <1>4 DEF ClaimReread

\* What HandlerDone leaves of the handler and its heartbeat.
LEMMA HandlerDoneFields ==
    ASSUME TypeOK, NEW r \in Runner, NEW t \in TaskId, HandlerDone(r, t)
    PROVE  /\ handler'[r][t].pc = "done"
           /\ handler'[r][t].beat = "sent" => handler[r][t].beat = "sent"
           /\ handler'[r][t].beatNow = handler[r][t].beatNow
           /\ \A q \in Runner, u \in TaskId :
                  q # r \/ u # t => handler'[q][u] = handler[q][u]
<1> DEFINE h == handler[r][t]
           b == IF h.beat = "sent" THEN "sent" ELSE "off"
           v == [h EXCEPT !.pc = "done", !.now = 0, !.beat = b]
<1>1. h \in Handler
      BY DEF TypeOK
<1>2. handler' = [handler EXCEPT ![r][t] = v]
      BY DEF HandlerDone
<1>3. /\ v.pc = "done" /\ v.beatNow = h.beatNow
      /\ v.beat = "sent" => h.beat = "sent"
      <2> HIDE DEF h
      <2> QED BY <1>1 DEF Handler
<1> HIDE DEF v
<1>4. /\ handler'[r][t] = v
      /\ \A q \in Runner, u \in TaskId :
             q # r \/ u # t => handler'[q][u] = handler[q][u]
      BY <1>2 DEF TypeOK
<1> QED BY <1>3, <1>4

\* A handler ends with the lease as it is.
LEMMA LeaseDone ==
    ASSUME IInv, LeaseInv, NEW r \in Runner, NEW t \in TaskId,
           handler[r][t].pc # "none", HandlerDone(r, t),
           UNCHANGED <<now, rows, lock, runner>>
    PROVE  LeaseInv'
<1>1. TypeOK
      BY DEF IInv
<1>2. /\ handler'[r][t].pc = "done"
      /\ handler'[r][t].beat = "sent" => handler[r][t].beat = "sent"
      /\ handler'[r][t].beatNow = handler[r][t].beatNow
      /\ \A q \in Runner, u \in TaskId :
             q # r \/ u # t => handler'[q][u] = handler[q][u]
      BY <1>1, HandlerDoneFields
<1>3. BeatLeased(r, t)'
      <2>1. BeatLeased(r, t)
            BY DEF LeaseInv
      <2> QED BY <1>2, <2>1 DEF BeatLeased, LockIs
<1>4. lock.until \in Nat /\ lock.until <= lock.until /\ lock.until <= now + TTL
      BY <1>1, Numbers DEF LeaseInv
<1> QED BY <1>2, <1>3, <1>4, LeaseHandler

\* FinishRead reads the clock.
LEMMA FinishReadLeased ==
    ASSUME IInv, LeaseInv, NEW r \in Runner, NEW t \in TaskId, FinishRead(r, t)
    PROVE  LeaseInv'
<1>1. TypeOK
      BY DEF IInv
<1>2. /\ handler'[r][t].pc = "finish"
      /\ handler'[r][t].beat = handler[r][t].beat
      /\ handler'[r][t].beatNow = handler[r][t].beatNow
      /\ \A q \in Runner, u \in TaskId :
             q # r \/ u # t => handler'[q][u] = handler[q][u]
      BY <1>1 DEF FinishRead, TypeOK, Handler
<1>3. BeatLeased(r, t)'
      <2>1. BeatLeased(r, t)
            BY DEF LeaseInv
      <2> QED BY <1>2, <2>1 DEF BeatLeased, LockIs, FinishRead
<1>4. lock.until \in Nat /\ lock.until <= lock.until /\ lock.until <= now + TTL
      BY <1>1, Numbers DEF LeaseInv
<1> QED BY <1>2, <1>3, <1>4, LeaseHandler DEF FinishRead

\* RenewRead reads a clock that the lease is no more than a TTL ahead of.
LEMMA RenewReadLeased ==
    ASSUME IInv, LeaseInv, NEW r \in Runner, NEW t \in TaskId, RenewRead(r, t)
    PROVE  LeaseInv'
<1>1. TypeOK
      BY DEF IInv
<1>2. /\ handler'[r][t].pc = handler[r][t].pc
      /\ handler'[r][t].beatNow = now
      /\ \A q \in Runner, u \in TaskId :
             q # r \/ u # t => handler'[q][u] = handler[q][u]
      BY <1>1 DEF RenewRead, TypeOK, Handler
<1>3. handler[r][t].pc # "none" /\ BeatLeased(r, t)
      BY DEF LeaseInv, BeatLeased, RenewRead
<1>4. lock.until \in Nat /\ lock.until <= lock.until /\ lock.until <= now + TTL
      BY <1>1, Numbers DEF LeaseInv
<1>5. BeatLeased(r, t)'
      BY <1>2, <1>3, <1>4 DEF BeatLeased, RenewRead
<1> QED BY <1>2, <1>3, <1>4, <1>5, LeaseHandler DEF RenewRead

\* RenewSystemTaskLock never makes a lease end earlier.
LEMMA RenewSystemTaskLockLeased ==
    ASSUME IInv, LeaseInv, NEW r \in Runner, NEW t \in TaskId,
           RenewSystemTaskLock(r, t)
    PROVE  LeaseInv'
<1> DEFINE n == handler[r][t].beatNow
<1>1. TypeOK
      BY DEF IInv
<1>2. handler[r][t].pc # "none" /\ BeatLeased(r, t)
      BY DEF LeaseInv, BeatLeased, RenewSystemTaskLock
<1>3. /\ handler'[r][t].pc = handler[r][t].pc
      /\ handler'[r][t].beat # "sent"
      /\ \A q \in Runner, u \in TaskId :
             q # r \/ u # t => handler'[q][u] = handler[q][u]
      <2>1. PICK b \in {"on", "off"} :
                handler' = [handler EXCEPT ![r][t].beat = b,
                                           ![r][t].beatNow = 0]
            BY DEF RenewSystemTaskLock
      <2> QED BY <1>1, <2>1 DEF TypeOK, Handler
<1>4. UNCHANGED <<now, rows, runner>>
      BY DEF RenewSystemTaskLock
<1>5. BeatLeased(r, t)'
      BY <1>2, <1>3, <1>4 DEF BeatLeased
<1>6. n \in Nat /\ now \in Nat /\ lock.until \in Nat /\ TTL \in Nat
      /\ n <= now /\ lock.until <= now + TTL
      BY <1>1, Numbers DEF LeaseInv
<1>7. /\ lock'.task = lock.task /\ lock'.lockedBy = lock.lockedBy
      /\ lock'.until # lock.until => LockIs(r, t)
      /\ lock'.until = lock.until \/ (lock'.until = n + TTL /\ LockIs(r, t))
      BY <1>1 DEF RenewSystemTaskLock, TypeOK, Lock
<1>8. LockIs(r, t) => lock.until <= n + TTL
      BY <1>2 DEF BeatLeased, RenewSystemTaskLock
<1>9. /\ lock'.until \in Nat /\ lock.until <= lock'.until
      /\ lock'.until <= now + TTL
      <2> HIDE DEF n
      <2> QED BY <1>6, <1>7, <1>8
<1> QED BY <1>2, <1>3, <1>4, <1>5, <1>7, <1>9, LeaseHandler

\* FinishSystemTask finishes the row before the lease is released.
LEMMA FinishSystemTaskLeased ==
    ASSUME IInv, LeaseInv, NEW r \in Runner, NEW t \in TaskId,
           FinishSystemTask(r, t)
    PROVE  LeaseInv'
<1>1. TypeOK /\ handler[r][t].pc = "finish"
      BY DEF IInv, FinishSystemTask
<1>2. CASE HandlerDone(r, t) /\ UNCHANGED rows
      BY <1>1, <1>2, LeaseDone DEF FinishSystemTask
<1>3. CASE /\ rows[t].status = "running"
           /\ HandlerGoto(r, t, "release")
           /\ \E s \in {"succeeded", "failed"} :
                 rows' = [rows EXCEPT ![t].status = s]
      <2>1. /\ handler'[r][t].pc = "release"
            /\ handler'[r][t].beat = handler[r][t].beat
            /\ handler'[r][t].beatNow = handler[r][t].beatNow
            /\ \A q \in Runner, u \in TaskId :
                   q # r \/ u # t => handler'[q][u] = handler[q][u]
            BY <1>1, <1>3 DEF HandlerGoto, TypeOK, Handler
      <2>2. /\ rows'[t].status \in {"succeeded", "failed"}
            /\ \A u \in TaskId : u # t => rows'[u] = rows[u]
            BY <1>1, <1>3 DEF TypeOK, Row
      <2>3. UNCHANGED <<now, lock, runner>>
            BY DEF FinishSystemTask
      <2>4. BeatLeased(r, t)'
            <3>1. BeatLeased(r, t)
                  BY DEF LeaseInv
            <3> QED BY <2>1, <2>2, <2>3, <3>1 DEF BeatLeased, LockIs
      <2>5. /\ \A u \in TaskId : rows'[u].status = "running" =>
                   rows[u].status = "running"
            /\ \A u \in TaskId : rows[u].status \in {"succeeded", "failed"} =>
                   rows'[u].status \in {"succeeded", "failed"}
            BY <2>2
      <2>6. lock.until \in Nat /\ lock.until <= lock.until
            /\ lock.until <= now + TTL
            BY <1>1, Numbers DEF LeaseInv
      <2> QED BY <1>1, <2>1, <2>3, <2>4, <2>5, <2>6, LeaseHandler
<1> QED BY <1>2, <1>3 DEF FinishSystemTask

\* FinishRelease deletes the lease of a finished row.
LEMMA FinishReleaseLeased ==
    ASSUME IInv, LeaseInv, NEW r \in Runner, NEW t \in TaskId,
           FinishRelease(r, t)
    PROVE  LeaseInv'
<1>1. TypeOK /\ handler[r][t].pc = "release" /\ HandlerDone(r, t)
      BY DEF IInv, FinishRelease
<1>2. CASE UNCHANGED lock
      BY <1>1, <1>2, LeaseDone DEF FinishRelease
<1>3. CASE LockIs(r, t) /\ lock' = NoLock
      <2>1. rows[t].status # "running"
            BY <1>1 DEF LeaseInv, BeatLeased
      <2>2. \A u \in TaskId : rows[u].status # "running"
            BY <1>3, <2>1 DEF LeaseInv, RunningIsLeased, LockIs
      <2>3. \A q \in Runner : runner[q].pc \notin Acquired
            <3> SUFFICES ASSUME NEW q \in Runner, runner[q].pc \in Acquired
                         PROVE  FALSE
                OBVIOUS
            <3>1. /\ LockIs(q, runner[q].task)
                  /\ handler[q][runner[q].task].pc = "none"
                  BY DEF LeaseInv, ClaimLeased
            <3>2. q = r /\ runner[q].task = t
                  BY <1>3, <3>1 DEF LockIs
            <3> QED BY <1>1, <3>1, <3>2
      <2>4. \A q \in Runner, u \in TaskId :
                \/ handler'[q][u] = handler[q][u]
                \/ handler[q][u].pc # "none" /\ handler'[q][u].pc = "done"
            BY <1>1, HandlerDoneFields
      <2> QED BY <1>3, <2>2, <2>3, <2>4, LeaseDelete DEF FinishRelease
<1> QED BY <1>2, <1>3 DEF FinishRelease, Released, LockIs

\* A row is created pending.
LEMMA CreateSystemTaskLeased ==
    ASSUME IInv, LeaseInv, NEW t \in TaskId, CreateSystemTask(t)
    PROVE  LeaseInv'
<1>1. /\ rows'[t].status = "pending" /\ rows[t].status = "absent"
      /\ \A u \in TaskId : u # t => rows'[u] = rows[u]
      BY DEF CreateSystemTask, IInv, TypeOK, Row
<1>2. UNCHANGED <<now, lock, runner, handler>>
      BY DEF CreateSystemTask
<1>3. RunningIsLeased' /\ lock'.until <= now' + TTL
      BY <1>1, <1>2 DEF LeaseInv, RunningIsLeased
<1>4. \A q \in Runner, u \in TaskId : BeatLeased(q, u)'
      BY <1>1, <1>2 DEF LeaseInv, BeatLeased, LockIs
<1>5. ASSUME NEW q \in Runner
      PROVE  ClaimLeased(q)' /\ ClockLeased(q)'
      <2>1. ClaimLeased(q) /\ ClockLeased(q)
            BY DEF LeaseInv
      <2>2. runner[q].pc \in Claiming \cup Acquired =>
                runner[q].task \in TaskId
            BY DEF IInv, ClaimsOwn
      <2>3. ClaimLeased(q)'
            BY <1>1, <1>2, <2>1, <2>2 DEF ClaimLeased, LockIs, Acquired
      <2>4. ClockLeased(q)'
            BY <1>1, <1>2, <2>1 DEF ClockLeased
      <2> QED BY <2>3, <2>4
<1> QED BY <1>3, <1>4, <1>5 DEF LeaseInv

\* A crash leaves the lease to lapse.
LEMMA CrashLeased ==
    ASSUME IInv, LeaseInv, NEW r \in Runner, Crash(r)
    PROVE  LeaseInv'
<1> DEFINE v == [NoHandler EXCEPT !.pc = "done"]
<1>1. TypeOK /\ Restart(r, "dead")
      BY DEF IInv, Crash, Restart
<1>2. /\ runner'[r].pc = "dead"
      /\ \A q \in Runner : q # r => runner'[q] = runner[q]
      BY <1>1, LoopFields
<1>3. v.pc = "done" /\ v.beat = "off"
      BY DEF NoHandler
<1>4. handler' = [handler EXCEPT ![r] =
          [t \in TaskId |-> IF handler[r][t].pc = "none" THEN handler[r][t]
                            ELSE v]]
      BY DEF Crash
<1> HIDE DEF v
<1>5. \A q \in Runner, t \in TaskId :
          \/ handler'[q][t] = handler[q][t]
          \/ handler[q][t].pc # "none" /\ handler'[q][t] = v
      BY <1>1, <1>4 DEF TypeOK
<1>6. UNCHANGED <<now, rows, lock>>
      BY DEF Crash
<1>7. RunningIsLeased' /\ lock'.until <= now' + TTL
      BY <1>6 DEF LeaseInv, RunningIsLeased
<1>8. \A q \in Runner, t \in TaskId : BeatLeased(q, t)'
      BY <1>3, <1>5, <1>6 DEF LeaseInv, BeatLeased, LockIs
<1>9. ASSUME NEW q \in Runner
      PROVE  ClaimLeased(q)' /\ ClockLeased(q)'
      <2>1. CASE q = r
            BY <1>2, <2>1, LeaseIdle
      <2>2. CASE q # r
            <3>1. ClaimLeased(q) /\ ClockLeased(q) /\ runner'[q] = runner[q]
                  BY <1>2, <2>2 DEF LeaseInv
            <3>2. runner[q].pc \in Claiming \cup Acquired =>
                      runner[q].task \in TaskId
                  BY DEF IInv, ClaimsOwn
            <3>3. runner[q].pc \in Claiming \cup Acquired =>
                      handler'[q][runner[q].task].pc = "none"
                  BY <1>5, <3>1, <3>2 DEF ClaimLeased
            <3>4. ClaimLeased(q)'
                  BY <1>6, <3>1, <3>3 DEF ClaimLeased, LockIs
            <3>5. ClockLeased(q)'
                  BY <1>6, <3>1 DEF ClockLeased
            <3> QED BY <3>4, <3>5
      <2> QED BY <2>1, <2>2
<1> QED BY <1>7, <1>8, <1>9 DEF LeaseInv

\* Time does not pass the lease of a claim that is under way.
LEMMA TickLeased ==
    ASSUME ~Stalls, IInv, LeaseInv, Tick
    PROVE  LeaseInv'
<1>1. TypeOK /\ Timely /\ now' = now + 1
      BY DEF IInv, Tick
<1>2. UNCHANGED <<rows, lock, runner, handler>>
      BY DEF Tick
<1>3. now \in Nat /\ lock.until \in Nat /\ TTL \in Nat
      BY <1>1, Numbers
<1>4. RunningIsLeased' /\ lock'.until <= now' + TTL
      BY <1>1, <1>2, <1>3 DEF LeaseInv, RunningIsLeased
<1>5. \A q \in Runner, t \in TaskId : BeatLeased(q, t)'
      BY <1>2 DEF LeaseInv, BeatLeased, LockIs
<1>6. ASSUME NEW q \in Runner
      PROVE  ClaimLeased(q)' /\ ClockLeased(q)'
      <2>1. ClaimLeased(q) /\ ClockLeased(q) /\ runner[q].until \in Nat
            BY <1>1, Numbers DEF LeaseInv
      <2>2. runner[q].pc \in Acquired => runner[q].task \in TaskId
            BY DEF IInv, ClaimsOwn
      <2>3. runner[q].pc \in Acquired => HolderAlive
            BY <2>1, <2>2 DEF ClaimLeased, HolderAlive
      <2>4. runner[q].pc \in Acquired => now' <= lock.until
            BY <1>1, <1>3, <2>3 DEF Timely
      <2>5. runner[q].pc \in Claiming =>
                now' <= runner[q].until /\ runner[q].until <= now' + TTL
            BY <1>1, <1>3, <2>1 DEF Timely, ClaimLeased
      <2>6. ClaimLeased(q)'
            BY <1>2, <2>1, <2>4, <2>5 DEF ClaimLeased, LockIs
      <2>7. ClockLeased(q)'
            BY <1>2, <2>1 DEF ClockLeased
      <2> QED BY <2>6, <2>7
<1> QED BY <1>4, <1>5, <1>6 DEF LeaseInv

\* There is no lease and no claim at first.
LEMMA InitLeased == Init => LeaseInv
<1> SUFFICES ASSUME Init PROVE LeaseInv
    OBVIOUS
<1>1. Idle.pc = "idle" /\ NoHandler.pc = "none" /\ NoHandler.beat = "off"
      /\ NoLock.until = 0
      BY DEF Idle, NoHandler, NoLock
<1>2. lock.until <= now + TTL
      BY <1>1, BoundAssumption DEF Init
<1>3. RunningIsLeased
      BY DEF Init, RunningIsLeased
<1>4. \A r \in Runner : ClaimLeased(r) /\ ClockLeased(r)
      BY <1>1 DEF Init, ClaimLeased, ClockLeased, Claiming, Acquired, Looking
<1>5. \A r \in Runner, t \in TaskId : BeatLeased(r, t)
      BY <1>1 DEF Init, BeatLeased
<1> QED BY <1>2, <1>3, <1>4, <1>5 DEF LeaseInv

\* Every step of runners that are never stalled keeps the invariant.
LEMMA StepLeased == ~Stalls /\ IInv /\ LeaseInv /\ [Next]_vars => LeaseInv'
<1> SUFFICES ASSUME ~Stalls, IInv, LeaseInv, [Next]_vars PROVE LeaseInv'
    OBVIOUS
<1>1. ASSUME NEW r \in Runner, PassStep(r)
      PROVE  LeaseInv'
      <2>1. CASE ClaimStep(r)
            BY <2>1, ClaimSelectLeased, AcquireInsertLeased,
               AcquireSelectLeased, AcquireTakeoverLeased, ClaimExpireLeased,
               ClaimRunLeased, ClaimReleaseLeased, ClaimRereadLeased
               DEF ClaimStep
      <2>2. CASE SkipStale(r)
            BY <2>2, LeaseRestart DEF SkipStale
      <2> QED BY <1>1, <2>1, <2>2, BeginStaleLeased, StaleSelectLeased,
                 StaleMarkLeased, StaleDeleteLeased, FindPendingLeased
                 DEF PassStep
<1>2. ASSUME NEW r \in Runner, NEW t \in TaskId, HandlerStep(r, t)
      PROVE  LeaseInv'
      <2>1. CASE HandlerGivesUp(r, t)
            BY <2>1, LeaseDone DEF HandlerGivesUp
      <2> QED BY <1>2, <2>1, FinishReadLeased, FinishSystemTaskLeased,
                 FinishReleaseLeased DEF HandlerStep
<1>3. ASSUME NEW r \in Runner, NEW t \in TaskId, HeartbeatStep(r, t)
      PROVE  LeaseInv'
      BY <1>3, RenewReadLeased, RenewSystemTaskLockLeased DEF HeartbeatStep
<1>4. CASE UNCHANGED vars
      BY <1>4 DEF LeaseInv, RunningIsLeased, ClaimLeased, ClockLeased,
         BeatLeased, LockIs, vars
<1> QED BY <1>1, <1>2, <1>3, <1>4, CreateSystemTaskLeased, CrashLeased,
           TickLeased DEF Next

\* A running row keeps the lease row that the stale-lock pass finds it by,
\* whichever runners crash and whichever statements fail, as long as no live
\* runner is stalled for longer than a lease.
THEOREM RunningStaysLeased == Spec => [](~Stalls => RunningIsLeased)
<1> DEFINE Inv == ~Stalls => LeaseInv
<1>1. Init => Inv
      BY InitLeased
<1>2. IInv /\ Inv /\ [Next]_vars => Inv'
      BY StepLeased
<1>3. Inv => (~Stalls => RunningIsLeased)
      BY DEF LeaseInv
<1> HIDE DEF Inv
<1> QED BY Invariance, <1>1, <1>2, <1>3, PTL DEF Spec
=============================================================================
