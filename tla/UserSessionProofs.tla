-------------------------- MODULE UserSessionProofs --------------------------
(***************************************************************************)
(* Proofs about UserSession for any number of requests and revocations and *)
(* any values of the bounds: however late a snapshot of the active row is  *)
(* published, a revoked session is not accepted a TTL later, and not at    *)
(* all once its final tombstone is out.                                    *)
(***************************************************************************)
EXTENDS UserSession, TLAPS

-----------------------------------------------------------------------------
(***************************************************************************)
(* The inductive invariant.                                                *)
(***************************************************************************)

\* The places where a request holds a snapshot of the active row.
Holding == {"cas", "prepare", "write", "verify", "confirm"}

\* Any time an active snapshot may last is counted from before the row was
\* read, so it ends within a TTL of now while the row is active, and within
\* a TTL of the revocation afterwards.
Horizon == IF row.status = "active" THEN now + TTL ELSE row.at + TTL

\* No request starts a snapshot in the future.
DeadlinesInReach ==
    \A p \in Request :
        req[p].pc \in {"db", "advance"} => req[p].dl <= now + TTL

SnapshotsEnd ==
    \A p \in Request : req[p].pc \in Holding => req[p].dl <= Horizon

CacheEnds == cache.status = "active" => cache.until <= Horizon

RevokedInThePast == row.status = "revoked" => row.at <= now

\* A request that began too late finds the row revoked, so it never holds a
\* snapshot of the active one.
OverdueHoldsNothing ==
    \A p \in overdue :
        /\ row.status = "revoked"
        /\ row.at + TTL <= now
        /\ req[p].pc \notin Holding \cup {"accepted"}

LateHoldsNothing ==
    \A p \in late :
        final # {} /\ req[p].pc \notin Holding \cup {"accepted"}

\* A published tombstone outlasts every snapshot of the active row, or the
\* session itself.
TombstoneOutlasts ==
    final # {} =>
        /\ row.status = "revoked"
        /\ \/ row.at + TTL <= now
           \/ Expiry <= now
           \/ /\ cache.status \in {"revoking", "revoked"}
              /\ Earlier(row.at + TTL, Expiry) <= cache.until

FinalizesRevoked ==
    \A r \in Revoker : rev[r].pc = "final" => row.status = "revoked"

IInv ==
    /\ TypeOK
    /\ DeadlinesInReach
    /\ SnapshotsEnd
    /\ CacheEnds
    /\ RevokedInThePast
    /\ OverdueHoldsNothing
    /\ LateHoldsNothing
    /\ TombstoneOutlasts
    /\ FinalizesRevoked

USE BoundAssumption

-----------------------------------------------------------------------------
(***************************************************************************)
(* Type correctness.                                                       *)
(***************************************************************************)

\* What is written to Redis is an entry.
LEMMA EntriesTyped ==
    ASSUME TypeOK, NEW v \in 0..MaxVersion, NEW dl \in Nat
    PROVE  /\ ActiveEntry(v, dl) \in Entry
           /\ DenyEntry("revoking", v) \in Entry
           /\ DenyEntry("revoked", v) \in Entry
BY DEF TypeOK, ActiveEntry, DenyEntry, Entry, Earlier

\* The types at first.
LEMMA TypeInit == Init => TypeOK
<1> SUFFICES ASSUME Init PROVE TypeOK
    OBVIOUS
<1> USE DEF Init
<1>1. row \in Row
    BY DEF Row
<1>2. cache \in Entry
    BY DEF Entry, NoEntry
<1>3. NoReq \in Req
    BY DEF NoReq, Req
<1>4. req \in [Request -> Req]
    BY <1>3
<1>5. rev \in [Revoker -> Rev]
    BY DEF Rev
<1> QED BY <1>1, <1>2, <1>4, <1>5 DEF TypeOK

\* A request keeps the types.
LEMMA RequestTyped ==
    ASSUME TypeOK, NEW p \in Request, RequestStep(p)
    PROVE  TypeOK'
<1> USE DEF TypeOK
<1>1. CASE \E op \in {"get", "rotate", "advance"} : Begin(p, op)
    BY <1>1 DEF Begin, Req, Row
<1>2. CASE Lookup(p)
    BY <1>2 DEF Lookup, Proceed, Goto, Accept, Reject, Fault, Req, NoReq
<1>3. CASE Deadline(p)
  <2>1. ASSUME NEW c \in {"advance", "db"}
        PROVE  [req[p] EXCEPT !.dl = now + TTL, !.pc = c] \in Req
    <3>1. now + TTL \in Nat
        OBVIOUS
    <3> QED BY <3>1 DEF Req
  <2> QED BY <1>3, <2>1 DEF Deadline, Proceed
<1>4. CASE ReadRow(p)
  <2>1. row.version \in 0..MaxVersion
    BY DEF Row
  <2>2. /\ [req[p] EXCEPT !.pc = IF req[p].op = "rotate" THEN "cas"
                                ELSE "prepare",
                         !.version = row.version] \in Req
        /\ [req[p] EXCEPT !.pc = "tombstone",
                         !.version = row.version] \in Req
    BY <2>1 DEF Req
  <2>3. NoReq \in Req
    BY DEF NoReq, Req
  <2> QED BY <1>4, <2>2, <2>3 DEF ReadRow, Proceed, Reject
<1>5. CASE Rotate(p)
    BY <1>5 DEF Rotate, Proceed, Goto, Reject, Req, NoReq
<1>6. CASE Advance(p)
  <2>1. NoReq \in Req
    BY DEF NoReq, Req
  <2>2. ASSUME row.version < MaxVersion
        PROVE  /\ [row EXCEPT !.version = @ + 1] \in Row
               /\ [req[p] EXCEPT !.pc = "prepare",
                                !.version = row.version + 1] \in Req
    <3>1. row.version + 1 \in 1..MaxVersion
        BY <2>2 DEF Row
    <3>2. [row EXCEPT !.version = @ + 1] \in Row
        BY <3>1 DEF Row
    <3>3. row.version + 1 \in 0..MaxVersion
        BY <3>1
    <3>4. [req[p] EXCEPT !.pc = "prepare",
                         !.version = row.version + 1] \in Req
        BY <3>3 DEF Req
    <3> QED BY <3>2, <3>4
  <2> QED BY <1>6, <2>1, <2>2 DEF Advance, Proceed, Reject
<1>7. CASE Prepare(p)
    BY <1>7 DEF Prepare, Proceed, Goto, Reject, Req, NoReq
<1>8. CASE Write(p)
  <2>1. /\ req' \in [Request -> Req] /\ faults' \in Nat
        /\ late' \subseteq Request /\ overdue' \subseteq Request
    BY <1>8 DEF Write, Proceed, Goto, Accept, Reject, Fault, Req, NoReq
  <2>2. req[p].version \in 0..MaxVersion /\ req[p].dl \in Nat
    BY DEF Req
  <2>3. cache' \in Entry
    BY <1>8, <2>2, EntriesTyped DEF Write
  <2> QED BY <1>8, <2>1, <2>3 DEF Write
<1>9. CASE Verify(p)
    BY <1>9 DEF Verify, Proceed, Goto, Accept, Reject, Req, NoReq
<1>10. CASE Confirm(p)
    BY <1>10 DEF Confirm, Proceed, Accept, Reject, Req, NoReq
<1>11. CASE Tombstone(p)
  <2>1. /\ req' \in [Request -> Req]
        /\ late' \subseteq Request /\ overdue' \subseteq Request
    BY <1>11 DEF Tombstone, Reject, Req, NoReq
  <2>2. req[p].version \in 0..MaxVersion /\ req[p].dl \in Nat
    BY DEF Req
  <2>3. cache' \in Entry
    BY <1>11, <2>2, EntriesTyped DEF Tombstone
  <2> QED BY <1>11, <2>1, <2>3 DEF Tombstone
<1>12. CASE Return(p)
    BY <1>12 DEF Return, Reject, Req, NoReq
<1> QED
    BY <1>1, <1>2, <1>3, <1>4, <1>5, <1>6, <1>7, <1>8, <1>9, <1>10, <1>11,
       <1>12 DEF RequestStep

\* So does a revocation.
LEMMA RevokerTyped ==
    ASSUME TypeOK, NEW r \in Revoker, RevokerStep(r)
    PROVE  TypeOK'
<1> USE DEF TypeOK
<1>v. rev[r].version \in 0..MaxVersion
    BY DEF Rev
<1>1. CASE Candidate(r)
    BY <1>1 DEF Candidate, Rev, Row
<1>2. CASE Fence(r)
  <2>1. rev' \in [Revoker -> Rev] /\ faults' \in Nat
    BY <1>2 DEF Fence, Fault, Rev
  <2>2. cache' \in Entry
    BY <1>2, <1>v, EntriesTyped DEF Fence
  <2> QED BY <1>2, <2>1, <2>2 DEF Fence
<1>3. CASE UpdateRow(r)
  <2>1. [row EXCEPT !.status = "revoked", !.at = now] \in Row
    BY DEF Row
  <2>2. rev' \in [Revoker -> Rev] /\ faults' \in Nat
    BY <1>3 DEF UpdateRow, Fault, Rev
  <2> QED BY <1>3, <2>1, <2>2 DEF UpdateRow
<1>4. CASE Finalize(r)
  <2>1. rev' \in [Revoker -> Rev] /\ faults' \in Nat /\ final' \subseteq Revoker
    BY <1>4 DEF Finalize, Fault, Rev
  <2>2. cache' \in Entry
    BY <1>4, <1>v, EntriesTyped DEF Finalize
  <2> QED BY <1>4, <2>1, <2>2 DEF Finalize
<1> QED BY <1>1, <1>2, <1>3, <1>4 DEF RevokerStep

\* And so does every step.
LEMMA TypeStep == TypeOK /\ [Next]_vars => TypeOK'
<1> SUFFICES ASSUME TypeOK, [Next]_vars PROVE TypeOK'
    OBVIOUS
<1>1. CASE Tick
    BY <1>1 DEF Tick, TypeOK
<1>2. CASE UNCHANGED vars
    BY <1>2 DEF vars, TypeOK
<1> QED BY <1>1, <1>2, RequestTyped, RevokerTyped DEF Next

\* Every field of the row, the snapshot, the requests and the revocations
\* keeps its type under every step of the specification.
THEOREM TypeCorrect == Spec => []TypeOK
<1>1. Init => TypeOK
    BY TypeInit
<1>2. TypeOK /\ [Next]_vars => TypeOK'
    BY TypeStep
<1> QED BY <1>1, <1>2, PTL DEF Spec

-----------------------------------------------------------------------------
(***************************************************************************)
(* What IInv says about its numbers, without the records.                  *)
(***************************************************************************)

\* The numbers that the invariant compares.
LEMMA Numbers ==
    ASSUME TypeOK
    PROVE  /\ now \in Nat /\ row.at \in Nat /\ cache.until \in Nat
           /\ row.status \in {"active", "revoked"}
           /\ \A p \in Request : req[p].dl \in Nat
           /\ Horizon \in Nat
BY DEF TypeOK, Row, Entry, Req, Horizon

\* While the row is active nothing lasts longer than a TTL from now; once it
\* is revoked the horizon is fixed, and not beyond a TTL from now either.
LEMMA HorizonWithinTTL ==
    ASSUME IInv PROVE Horizon <= now + TTL
BY Numbers DEF IInv, RevokedInThePast, Horizon

\* A request that steps from s to t without touching anything shared.
LEMMA RequestMoves ==
    ASSUME IInv, TypeOK', NEW p \in Request, NEW t,
           UNCHANGED <<now, row, cache, rev, final>>,
           req' = [req EXCEPT ![p] = t],
           late' \subseteq late, overdue' \subseteq overdue,
           t.pc \in {"db", "advance"} => t.dl <= now + TTL,
           t.pc \in Holding => t.dl <= Horizon,
           p \in late' \cup overdue' => t.pc \notin Holding \cup {"accepted"}
    PROVE  IInv'
<1> USE DEF IInv
<1>0. /\ req'[p] = t
      /\ \A q \in Request : q # p => req'[q] = req[q]
      /\ late \subseteq Request /\ overdue \subseteq Request
    BY DEF TypeOK
<1>h. Horizon' = Horizon
    BY DEF Horizon
<1>1. DeadlinesInReach'
    BY <1>0 DEF DeadlinesInReach
<1>2. SnapshotsEnd'
    BY <1>0, <1>h DEF SnapshotsEnd
<1>3. CacheEnds'
    BY <1>h DEF CacheEnds
<1>4. RevokedInThePast'
    BY DEF RevokedInThePast
<1>5. OverdueHoldsNothing'
    BY <1>0 DEF OverdueHoldsNothing
<1>6. LateHoldsNothing'
    BY <1>0 DEF LateHoldsNothing
<1>7. TombstoneOutlasts'
    BY DEF TombstoneOutlasts, Earlier
<1>8. FinalizesRevoked'
    BY DEF FinalizesRevoked
<1> QED BY <1>1, <1>2, <1>3, <1>4, <1>5, <1>6, <1>7, <1>8

\* The same, for a request that gives up.
LEMMA RequestRejects ==
    ASSUME IInv, TypeOK', NEW p \in Request,
           UNCHANGED <<now, row, cache, rev, final>>, Reject(p)
    PROVE  IInv'
<1>1. NoReq.pc = "idle"
    BY DEF NoReq
<1> QED BY <1>1, RequestMoves DEF Reject, Holding

\* A tombstone written over the snapshot, whoever writes it.
LEMMA Denies ==
    ASSUME IInv, NEW v, NEW s \in {"revoking", "revoked"},
           UNCHANGED <<now, row, final>>, cache' = DenyEntry(s, v)
    PROVE  CacheEnds' /\ TombstoneOutlasts'
<1> USE DEF IInv
<1>1. cache'.status = s
    BY DEF DenyEntry
<1>2. CacheEnds'
    BY <1>1 DEF CacheEnds
<1>3. CASE Expiry <= now
    BY <1>2, <1>3 DEF TombstoneOutlasts
<1>4. CASE now < Expiry
  <2>1. cache'.until = Earlier(Expiry, now + TTL)
    BY <1>4 DEF DenyEntry, TypeOK
  <2>2. row.status = "revoked" =>
            Earlier(row.at + TTL, Expiry) <= cache'.until
    BY <2>1, Numbers DEF RevokedInThePast, Earlier
  <2> QED BY <1>1, <1>2, <2>2 DEF TombstoneOutlasts, Earlier
<1> QED BY <1>2, <1>3, <1>4 DEF TypeOK

-----------------------------------------------------------------------------
(***************************************************************************)
(* The steps of a request.                                                 *)
(***************************************************************************)

\* A request begins with nothing in hand.
LEMMA BeginInv ==
    ASSUME IInv, TypeOK', NEW p \in Request, NEW op, Begin(p, op)
    PROVE  IInv'
<1> USE DEF IInv
<1>0. /\ req'[p].pc \in {"lookup", "deadline"}
      /\ \A q \in Request : q # p => req'[q] = req[q]
      /\ late \subseteq Request /\ overdue \subseteq Request
      /\ UNCHANGED <<now, row, cache, rev, final>>
    BY DEF Begin, TypeOK
<1>h. Horizon' = Horizon
    BY <1>0 DEF Horizon
<1>1. DeadlinesInReach'
    BY <1>0 DEF DeadlinesInReach
<1>2. SnapshotsEnd'
    BY <1>0, <1>h DEF SnapshotsEnd, Holding
<1>3. CacheEnds' /\ RevokedInThePast' /\ TombstoneOutlasts'
    BY <1>0, <1>h DEF CacheEnds, RevokedInThePast, TombstoneOutlasts, Earlier
<1>4. OverdueHoldsNothing'
  <2> SUFFICES ASSUME NEW q \in overdue'
               PROVE  /\ row.status = "revoked"
                      /\ row.at + TTL <= now
                      /\ req'[q].pc \notin Holding \cup {"accepted"}
    BY <1>0 DEF OverdueHoldsNothing
  <2>1. CASE q = p
    <3>1. req'[p].pc \notin Holding \cup {"accepted"}
        BY <1>0 DEF Holding
    <3>2. CASE p \in overdue
        BY <2>1, <3>1, <3>2 DEF OverdueHoldsNothing
    <3>3. CASE p \notin overdue
        BY <2>1, <3>1, <3>3, Numbers DEF Begin
    <3> QED BY <3>2, <3>3
  <2>2. CASE q # p
    BY <2>2, <1>0 DEF OverdueHoldsNothing, Begin
  <2> QED BY <2>1, <2>2
<1>5. LateHoldsNothing'
    BY <1>0 DEF LateHoldsNothing, Holding, Begin
<1>6. FinalizesRevoked'
    BY <1>0 DEF FinalizesRevoked
<1> QED BY <1>1, <1>2, <1>3, <1>4, <1>5, <1>6

\* An overdue or late request finds no active snapshot to be accepted by.
LEMMA LookupInv ==
    ASSUME IInv, TypeOK', NEW p \in Request, Lookup(p)
    PROVE  IInv'
<1> USE DEF IInv
<1>1. UNCHANGED <<now, row, cache, rev, final>>
    BY DEF Lookup
<1>2. CASE Cached.status = "active" /\ now < Expiry /\ Accept(p)
  <2>1. cache.status = "active" /\ now < cache.until
    BY <1>2 DEF Cached, NoEntry
  <2>2. now < Horizon
    BY <2>1, Numbers DEF CacheEnds
  <2>3. p \notin overdue
    BY <2>2, Numbers DEF OverdueHoldsNothing, Horizon
  <2>4. p \notin late
    BY <1>2, <2>1, <2>2, Numbers
       DEF LateHoldsNothing, TombstoneOutlasts, Horizon
  <2>5. [NoReq EXCEPT !.pc = "accepted"].pc = "accepted"
    BY DEF NoReq
  <2> QED BY <1>1, <1>2, <2>3, <2>4, <2>5, RequestMoves
          DEF Accept, Proceed, Holding
<1>3. CASE Goto(p, "deadline")
  <2>1. [req[p] EXCEPT !.pc = "deadline"].pc = "deadline"
    BY DEF TypeOK, Req
  <2> QED BY <1>1, <1>3, <2>1, RequestMoves DEF Goto, Proceed, Holding
<1>4. CASE Reject(p)
    BY <1>1, <1>4, RequestRejects
<1> QED BY <1>2, <1>3, <1>4 DEF Lookup

\* The deadline is taken before the row is read.
LEMMA DeadlineInv ==
    ASSUME IInv, TypeOK', NEW p \in Request, Deadline(p)
    PROVE  IInv'
<1> DEFINE t == [req[p] EXCEPT
                    !.dl = now + TTL,
                    !.pc = IF req[p].op = "advance" THEN "advance" ELSE "db"]
<1>1. t.pc \in {"advance", "db"} /\ t.dl = now + TTL
    BY DEF IInv, TypeOK, Req
<1>2. /\ UNCHANGED <<now, row, cache, rev, final, late, overdue>>
      /\ req' = [req EXCEPT ![p] = t]
    BY DEF Deadline, Proceed
<1> HIDE DEF t
<1>3. t.pc \notin Holding \cup {"accepted"}
    BY <1>1 DEF Holding
<1>4. t.dl <= now + TTL
    BY <1>1, Numbers DEF IInv
<1> QED BY <1>2, <1>3, <1>4, RequestMoves

\* Reading an active row turns a deadline within reach into one below the
\* horizon.
LEMMA ReadRowInv ==
    ASSUME IInv, TypeOK', NEW p \in Request, ReadRow(p)
    PROVE  IInv'
<1> USE DEF IInv
<1>1. UNCHANGED <<now, row, cache, rev, final>>
    BY DEF ReadRow
<1>2. CASE Reject(p)
    BY <1>1, <1>2, RequestRejects
<1>3. CASE /\ row.status = "active"
           /\ \E c \in {"cas", "prepare"} :
                  Proceed(p, [req[p] EXCEPT !.pc = c, !.version = row.version])
  <2>1. PICK c \in {"cas", "prepare"} :
            Proceed(p, [req[p] EXCEPT !.pc = c, !.version = row.version])
    BY <1>3
  <2> DEFINE t == [req[p] EXCEPT !.pc = c, !.version = row.version]
  <2>2. t.pc = c /\ t.dl = req[p].dl
    BY DEF TypeOK, Req
  <2>3. t.dl <= Horizon
    BY <1>3, <2>2 DEF ReadRow, DeadlinesInReach, Horizon
  <2>4. p \notin late /\ p \notin overdue
    BY <1>3 DEF LateHoldsNothing, OverdueHoldsNothing, TombstoneOutlasts
  <2>5. req' = [req EXCEPT ![p] = t] /\ UNCHANGED <<late, overdue>>
    BY <2>1 DEF Proceed
  <2> HIDE DEF t
  <2> QED BY <1>1, <2>2, <2>3, <2>4, <2>5, RequestMoves DEF Holding
<1>4. CASE Proceed(p, [req[p] EXCEPT !.pc = "tombstone",
                                     !.version = row.version])
  <2>1. [req[p] EXCEPT !.pc = "tombstone", !.version = row.version].pc
            = "tombstone"
    BY DEF TypeOK, Req
  <2> QED BY <1>1, <1>4, <2>1, RequestMoves DEF Proceed, Holding
<1> QED BY <1>2, <1>3, <1>4 DEF ReadRow

\* A request that keeps its snapshot while it goes on.
LEMMA HoldingGoesOn ==
    ASSUME IInv, TypeOK', NEW p \in Request,
           req[p].pc \in Holding,
           UNCHANGED <<now, row, cache, rev, final>>,
           NEW c \in Holding \cup {"accepted"},
           \/ Goto(p, c)
           \/ c = "accepted" /\ Accept(p)
    PROVE  IInv'
<1> USE DEF IInv
<1>1. p \notin late /\ p \notin overdue
    BY DEF LateHoldsNothing, OverdueHoldsNothing
<1>2. CASE Goto(p, c)
  <2> DEFINE t == [req[p] EXCEPT !.pc = c]
  <2>1. t.pc = c /\ t.dl = req[p].dl
    BY DEF TypeOK, Req
  <2>2. t.dl <= Horizon
    BY <2>1 DEF SnapshotsEnd
  <2>3. req' = [req EXCEPT ![p] = t] /\ UNCHANGED <<late, overdue>>
    BY <1>2 DEF Goto, Proceed
  <2> HIDE DEF t
  <2> QED BY <1>1, <2>1, <2>2, <2>3, RequestMoves DEF Holding
<1>3. CASE c = "accepted" /\ Accept(p)
  <2>1. [NoReq EXCEPT !.pc = "accepted"].pc = "accepted"
    BY DEF NoReq
  <2> QED BY <1>1, <1>3, <2>1, RequestMoves DEF Accept, Proceed, Holding
<1> QED BY <1>2, <1>3

\* Steps that change nothing but the position of the request.
LEMMA LocalInv ==
    ASSUME IInv, TypeOK', NEW p \in Request,
           Rotate(p) \/ Prepare(p) \/ Verify(p) \/ Confirm(p)
    PROVE  IInv'
<1>1. /\ UNCHANGED <<now, row, cache, rev, final>>
      /\ req[p].pc \in Holding
    BY DEF Rotate, Prepare, Verify, Confirm, Holding
<1>2. \/ Reject(p)
      \/ Accept(p)
      \/ \E c \in Holding : Goto(p, c)
    BY DEF Rotate, Prepare, Verify, Confirm, Holding
<1> QED BY <1>1, <1>2, RequestRejects, HoldingGoesOn

\* A new version of the row: the request that wrote it holds a snapshot of it.
LEMMA AdvanceInv ==
    ASSUME IInv, TypeOK', NEW p \in Request, Advance(p)
    PROVE  IInv'
<1> USE DEF IInv
<1>1. CASE Reject(p) /\ UNCHANGED row
    BY <1>1, RequestRejects DEF Advance
<1>2. CASE ~(Reject(p) /\ UNCHANGED row)
  <2> DEFINE t == [req[p] EXCEPT !.pc = "prepare",
                                 !.version = row.version + 1]
  <2>1. /\ row.status = "active"
        /\ row' = [row EXCEPT !.version = @ + 1]
        /\ req' = [req EXCEPT ![p] = t]
        /\ UNCHANGED <<late, overdue, now, cache, rev, final>>
        /\ req[p].pc = "advance"
    BY <1>2 DEF Advance, Proceed
  <2>2. t.pc = "prepare" /\ t.dl = req[p].dl
    BY DEF TypeOK, Req
  <2>3. req'[p] = t /\ \A q \in Request : q # p => req'[q] = req[q]
    BY <2>1 DEF TypeOK
  <2>4. row'.status = "active" /\ row'.at = row.at
    BY <2>1 DEF TypeOK, Row
  <2>5. t.dl <= now + TTL
    BY <2>1, <2>2 DEF DeadlinesInReach
  <2> HIDE DEF t
  <2>6. Horizon = now + TTL /\ Horizon' = now + TTL
    BY <2>1, <2>4 DEF Horizon
  <2>7. late = {} /\ overdue = {} /\ final = {}
    BY <2>1 DEF LateHoldsNothing, OverdueHoldsNothing, TombstoneOutlasts
  <2>8. DeadlinesInReach'
    BY <2>1, <2>2, <2>3 DEF DeadlinesInReach
  <2>9. SnapshotsEnd'
    BY <2>1, <2>3, <2>5, <2>6 DEF SnapshotsEnd
  <2>10. CacheEnds'
    BY <2>1, <2>6 DEF CacheEnds
  <2>11. RevokedInThePast' /\ TombstoneOutlasts'
    BY <2>1, <2>4, <2>7 DEF RevokedInThePast, TombstoneOutlasts
  <2>12. OverdueHoldsNothing' /\ LateHoldsNothing'
    BY <2>1, <2>7 DEF OverdueHoldsNothing, LateHoldsNothing
  <2>13. FinalizesRevoked'
    BY <2>1 DEF FinalizesRevoked
  <2> QED BY <2>8, <2>9, <2>10, <2>11, <2>12, <2>13
<1> QED BY <1>1, <1>2

\* The script: what it publishes ends before the horizon, and it never
\* replaces a tombstone.
LEMMA WriteInv ==
    ASSUME IInv, TypeOK', NEW p \in Request, Write(p)
    PROVE  IInv'
<1> USE DEF IInv
<1>0. req[p].pc \in Holding /\ UNCHANGED <<now, row, rev, final>>
    BY DEF Write, Holding
<1>1. CASE UNCHANGED cache /\ (Reject(p) \/ Accept(p))
    BY <1>0, <1>1, RequestRejects, HoldingGoesOn
<1>2. CASE /\ MayPublishActive(req[p].version)
           /\ cache' = ActiveEntry(req[p].version, req[p].dl)
           /\ Goto(p, "verify")
  <2> DEFINE t == [req[p] EXCEPT !.pc = "verify"]
  <2>1. t.pc = "verify" /\ t.dl = req[p].dl
    BY DEF TypeOK, Req
  <2>2. req' = [req EXCEPT ![p] = t] /\ UNCHANGED <<late, overdue>>
    BY <1>2 DEF Goto, Proceed
  <2>3. req'[p] = t /\ \A q \in Request : q # p => req'[q] = req[q]
    BY <2>2 DEF TypeOK
  <2> HIDE DEF t
  <2>h. Horizon' = Horizon
    BY <1>0 DEF Horizon
  <2>4. cache'.status = "active" /\ cache'.until <= req[p].dl
    BY <1>2, Numbers DEF ActiveEntry, Earlier
  <2>5. req[p].dl <= Horizon
    BY <1>0 DEF SnapshotsEnd
  <2>6. CacheEnds'
    <3>1. cache'.until \in Nat
        BY DEF TypeOK, Entry
    <3> QED BY <2>4, <2>5, <2>h, <3>1, Numbers DEF CacheEnds
  <2>7. TombstoneOutlasts'
    <3>1. CASE final = {}
        BY <1>0, <3>1 DEF TombstoneOutlasts
    <3>2. CASE final # {} /\ (row.at + TTL <= now \/ Expiry <= now)
        BY <1>0, <3>2 DEF TombstoneOutlasts
    <3>3. CASE /\ cache.status \in {"revoking", "revoked"}
               /\ Earlier(row.at + TTL, Expiry) <= cache.until
        <4>1. cache.until <= now
            BY <1>2, <3>3, Numbers DEF MayPublishActive, Cached
        <4>2. row.at + TTL <= now \/ Expiry <= now
            BY <3>3, <4>1, Numbers DEF Earlier
        <4> QED BY <1>0, <4>2 DEF TombstoneOutlasts
    <3> QED BY <3>1, <3>2, <3>3 DEF TombstoneOutlasts
  <2>8. DeadlinesInReach'
    BY <1>0, <2>1, <2>3 DEF DeadlinesInReach
  <2>9. SnapshotsEnd'
    BY <2>1, <2>3, <2>5, <2>h DEF SnapshotsEnd
  <2>10. RevokedInThePast'
    BY <1>0 DEF RevokedInThePast
  <2>11. OverdueHoldsNothing' /\ LateHoldsNothing'
    <3>1. p \notin late /\ p \notin overdue
        BY <1>0 DEF LateHoldsNothing, OverdueHoldsNothing
    <3>2. late \subseteq Request /\ overdue \subseteq Request
        BY DEF TypeOK
    <3> QED BY <1>0, <2>2, <2>3, <3>1, <3>2
            DEF OverdueHoldsNothing, LateHoldsNothing
  <2>12. FinalizesRevoked'
    BY <1>0 DEF FinalizesRevoked
  <2> QED BY <2>6, <2>7, <2>8, <2>9, <2>10, <2>11, <2>12
<1> QED BY <1>1, <1>2 DEF Write

\* A request that finds the row revoked writes a tombstone.
LEMMA TombstoneInv ==
    ASSUME IInv, TypeOK', NEW p \in Request, Tombstone(p)
    PROVE  IInv'
<1> USE DEF IInv
<1>0. Reject(p) /\ UNCHANGED <<now, row, rev, final>>
    BY DEF Tombstone
<1>1. CASE UNCHANGED cache
    BY <1>0, <1>1, RequestRejects
<1>2. CASE cache' = DenyEntry("revoked", req[p].version)
  <2>1. CacheEnds' /\ TombstoneOutlasts'
    BY <1>0, <1>2, Denies
  <2>2. req'[p].pc = "idle" /\ \A q \in Request : q # p => req'[q] = req[q]
    BY <1>0 DEF Reject, NoReq, TypeOK
  <2>h. Horizon' = Horizon
    BY <1>0 DEF Horizon
  <2>3. DeadlinesInReach' /\ SnapshotsEnd'
    BY <1>0, <2>2, <2>h DEF DeadlinesInReach, SnapshotsEnd, Holding
  <2>4. RevokedInThePast' /\ FinalizesRevoked'
    BY <1>0 DEF RevokedInThePast, FinalizesRevoked
  <2>5. OverdueHoldsNothing' /\ LateHoldsNothing'
    <3>1. late \subseteq Request /\ overdue \subseteq Request
        BY DEF TypeOK
    <3> QED BY <1>0, <2>2, <3>1
            DEF OverdueHoldsNothing, LateHoldsNothing, Reject
  <2> QED BY <2>1, <2>3, <2>4, <2>5
<1> QED BY <1>1, <1>2 DEF Tombstone

\* A request keeps the invariant.
LEMMA RequestInv ==
    ASSUME IInv, NEW p \in Request, RequestStep(p)
    PROVE  IInv'
<1>1. TypeOK'
    BY RequestTyped DEF IInv
<1>2. CASE Return(p)
    BY <1>1, <1>2, RequestRejects DEF Return
<1> QED BY <1>1, <1>2, BeginInv, LookupInv, DeadlineInv, ReadRowInv, LocalInv,
        AdvanceInv, WriteInv, TombstoneInv DEF RequestStep

-----------------------------------------------------------------------------
(***************************************************************************)
(* The steps of a revocation, and time.                                    *)
(***************************************************************************)

\* A step of a revocation that leaves the row and the requests alone.
LEMMA RevokerMoves ==
    ASSUME IInv, TypeOK', NEW r \in Revoker,
           UNCHANGED <<now, row, req, final, late, overdue>>,
           \A q \in Revoker : q # r => rev'[q] = rev[q],
           rev'[r].pc # "final",
           CacheEnds', TombstoneOutlasts'
    PROVE  IInv'
<1>h. Horizon' = Horizon
    BY DEF Horizon
<1> QED BY <1>h DEF IInv, DeadlinesInReach, SnapshotsEnd, RevokedInThePast,
        OverdueHoldsNothing, LateHoldsNothing, FinalizesRevoked

\* A revocation looks at the row.
LEMMA CandidateInv ==
    ASSUME IInv, TypeOK', NEW r \in Revoker, Candidate(r)
    PROVE  IInv'
<1>1. /\ rev'[r].pc = "fence"
      /\ \A q \in Revoker : q # r => rev'[q] = rev[q]
      /\ UNCHANGED <<now, row, cache, req, final, late, overdue>>
    BY DEF Candidate, IInv, TypeOK
<1>2. CacheEnds' /\ TombstoneOutlasts'
    BY <1>1 DEF IInv, CacheEnds, TombstoneOutlasts, Horizon, Earlier
<1> QED BY <1>1, <1>2, RevokerMoves

\* It raises its fence.
LEMMA FenceInv ==
    ASSUME IInv, TypeOK', NEW r \in Revoker, Fence(r)
    PROVE  IInv'
<1>1. /\ rev'[r].pc \in {"update", "done"}
      /\ \A q \in Revoker : q # r => rev'[q] = rev[q]
      /\ UNCHANGED <<now, row, req, final, late, overdue>>
    BY DEF Fence, IInv, TypeOK, Rev
<1>2. CASE UNCHANGED cache
  <2>1. CacheEnds' /\ TombstoneOutlasts'
    BY <1>1, <1>2 DEF IInv, CacheEnds, TombstoneOutlasts, Horizon, Earlier
  <2> QED BY <1>1, <2>1, RevokerMoves
<1>3. CASE cache' = DenyEntry("revoking", rev[r].version)
  <2>1. CacheEnds' /\ TombstoneOutlasts'
    BY <1>1, <1>3, Denies
  <2> QED BY <1>1, <2>1, RevokerMoves
<1> QED BY <1>2, <1>3 DEF Fence

\* The row is revoked: whatever was within a TTL of now is within a TTL of
\* the revocation.
LEMMA UpdateRowInv ==
    ASSUME IInv, TypeOK', NEW r \in Revoker, UpdateRow(r)
    PROVE  IInv'
<1> USE DEF IInv
<1>1. /\ rev'[r].pc \in {"final", "done"}
      /\ \A q \in Revoker : q # r => rev'[q] = rev[q]
      /\ UNCHANGED <<now, cache, req, final, late, overdue>>
    BY DEF UpdateRow, TypeOK, Rev
<1>2. CASE UNCHANGED row /\ rev'[r].pc = "done"
  <2>1. CacheEnds' /\ TombstoneOutlasts'
    BY <1>1, <1>2 DEF CacheEnds, TombstoneOutlasts, Horizon, Earlier
  <2> QED BY <1>1, <1>2, <2>1, RevokerMoves
<1>3. CASE /\ row.status = "active"
           /\ row' = [row EXCEPT !.status = "revoked", !.at = now]
  <2>1. row'.status = "revoked" /\ row'.at = now
    BY <1>3 DEF TypeOK, Row
  <2>2. Horizon = now + TTL /\ Horizon' = now + TTL
    BY <1>1, <1>3, <2>1 DEF Horizon
  <2>3. late = {} /\ overdue = {} /\ final = {}
    BY <1>3 DEF LateHoldsNothing, OverdueHoldsNothing, TombstoneOutlasts
  <2>4. DeadlinesInReach' /\ SnapshotsEnd' /\ CacheEnds'
    BY <1>1, <2>2 DEF DeadlinesInReach, SnapshotsEnd, CacheEnds
  <2>5. RevokedInThePast' /\ TombstoneOutlasts'
    BY <1>1, <2>1, <2>3, Numbers DEF RevokedInThePast, TombstoneOutlasts
  <2>6. OverdueHoldsNothing' /\ LateHoldsNothing'
    BY <1>1, <2>3 DEF OverdueHoldsNothing, LateHoldsNothing
  <2>7. FinalizesRevoked'
    BY <2>1 DEF FinalizesRevoked
  <2> QED BY <2>4, <2>5, <2>6, <2>7
<1> QED BY <1>2, <1>3 DEF UpdateRow, TypeOK, Rev

\* A final tombstone is published while the row is already revoked, so it
\* outlasts every snapshot there can be.
LEMMA FinalizeInv ==
    ASSUME IInv, TypeOK', NEW r \in Revoker, Finalize(r)
    PROVE  IInv'
<1> USE DEF IInv
<1>1. /\ rev'[r].pc = "done"
      /\ \A q \in Revoker : q # r => rev'[q] = rev[q]
      /\ UNCHANGED <<now, row, req, late, overdue>>
    BY DEF Finalize, TypeOK, Rev
<1>2. CASE UNCHANGED <<cache, final>>
  <2>1. CacheEnds' /\ TombstoneOutlasts'
    BY <1>1, <1>2 DEF CacheEnds, TombstoneOutlasts, Horizon, Earlier
  <2> QED BY <1>1, <1>2, <2>1, RevokerMoves
<1>3. CASE /\ cache' = DenyEntry("revoked", rev[r].version)
           /\ final' = final \cup {r}
  <2>1. row.status = "revoked"
    BY DEF FinalizesRevoked, Finalize
  <2>2. cache'.status = "revoked"
    BY <1>3 DEF DenyEntry
  <2>3. TombstoneOutlasts'
    <3>1. CASE Expiry <= now
        BY <1>1, <2>1, <3>1 DEF TombstoneOutlasts
    <3>2. CASE now < Expiry
        <4>1. cache'.until = Earlier(Expiry, now + TTL)
            BY <1>3, <3>2, Numbers DEF DenyEntry
        <4>2. Earlier(row.at + TTL, Expiry) <= cache'.until
            BY <2>1, <4>1, Numbers DEF RevokedInThePast, Earlier
        <4> QED BY <1>1, <2>1, <2>2, <4>2 DEF TombstoneOutlasts, Earlier
    <3> QED BY <3>1, <3>2, Numbers
  <2>4. CacheEnds'
    BY <2>2 DEF CacheEnds
  <2>h. Horizon' = Horizon
    BY <1>1 DEF Horizon
  <2>5. DeadlinesInReach' /\ SnapshotsEnd' /\ RevokedInThePast'
    BY <1>1, <2>h DEF DeadlinesInReach, SnapshotsEnd, RevokedInThePast
  <2>6. OverdueHoldsNothing' /\ LateHoldsNothing'
    BY <1>1, <1>3 DEF OverdueHoldsNothing, LateHoldsNothing
  <2>7. FinalizesRevoked'
    BY <1>1 DEF FinalizesRevoked
  <2> QED BY <2>3, <2>4, <2>5, <2>6, <2>7
<1> QED BY <1>2, <1>3 DEF Finalize

\* A revocation keeps the invariant.
LEMMA RevokerInv ==
    ASSUME IInv, NEW r \in Revoker, RevokerStep(r)
    PROVE  IInv'
<1>1. TypeOK'
    BY RevokerTyped DEF IInv
<1> QED BY <1>1, CandidateInv, FenceInv, UpdateRowInv, FinalizeInv
        DEF RevokerStep

\* Time only ends what was to end.
LEMMA TickInv ==
    ASSUME IInv, Tick
    PROVE  IInv'
<1> USE DEF IInv
<1>1. TypeOK'
    BY TypeStep DEF Next
<1>2. now' = now + 1 /\ UNCHANGED <<row, cache, req, rev, final, late, overdue>>
    BY DEF Tick
<1>3. Horizon <= Horizon' /\ Horizon' \in Nat /\ now' \in Nat
    BY <1>2, Numbers DEF Horizon
<1>4. DeadlinesInReach'
    BY <1>2, <1>3, Numbers DEF DeadlinesInReach
<1>5. SnapshotsEnd'
    BY <1>2, <1>3, Numbers DEF SnapshotsEnd
<1>6. CacheEnds'
    BY <1>2, <1>3, Numbers DEF CacheEnds
<1>7. RevokedInThePast' /\ FinalizesRevoked'
    BY <1>2, Numbers DEF RevokedInThePast, FinalizesRevoked
<1>8. OverdueHoldsNothing' /\ LateHoldsNothing'
    BY <1>2, Numbers DEF OverdueHoldsNothing, LateHoldsNothing
<1>9. TombstoneOutlasts'
    BY <1>2, Numbers DEF TombstoneOutlasts, Earlier
<1> QED BY <1>1, <1>4, <1>5, <1>6, <1>7, <1>8, <1>9

-----------------------------------------------------------------------------
(***************************************************************************)
(* The theorems.                                                           *)
(***************************************************************************)

\* The invariant holds at first.
LEMMA InvInit == Init => IInv
<1> SUFFICES ASSUME Init PROVE IInv
    OBVIOUS
<1>1. TypeOK
    BY TypeInit
<1>2. \A p \in Request : req[p].pc = "idle"
    BY DEF Init, NoReq
<1>3. \A r \in Revoker : rev[r].pc = "idle"
    BY DEF Init
<1>4. /\ row.status = "active" /\ cache.status = "none"
      /\ final = {} /\ late = {} /\ overdue = {}
    BY DEF Init, NoEntry
<1> QED BY <1>1, <1>2, <1>3, <1>4
        DEF IInv, DeadlinesInReach, SnapshotsEnd, CacheEnds, RevokedInThePast,
            OverdueHoldsNothing, LateHoldsNothing, TombstoneOutlasts,
            FinalizesRevoked, Holding

\* Every step keeps it.
LEMMA InvStep == IInv /\ [Next]_vars => IInv'
<1> SUFFICES ASSUME IInv, [Next]_vars PROVE IInv'
    OBVIOUS
<1>1. CASE UNCHANGED vars
    BY <1>1 DEF vars, IInv, TypeOK, DeadlinesInReach, SnapshotsEnd, CacheEnds,
       RevokedInThePast, OverdueHoldsNothing, LateHoldsNothing,
       TombstoneOutlasts, FinalizesRevoked, Horizon, Earlier
<1> QED BY <1>1, TickInv, RequestInv, RevokerInv DEF Next

\* The bounds on snapshots, tombstones and late requests hold together in
\* every reachable state (writeUserSessionCache and its callers).
THEOREM Invariance == Spec => []IInv
<1>1. Init => IInv
    BY InvInit
<1>2. IInv /\ [Next]_vars => IInv'
    BY InvStep
<1> QED BY <1>1, <1>2, PTL DEF Spec

\* A request that begins a TTL after the row was revoked is refused, for any
\* number of requests, revocations and failing calls: the deadline taken
\* before the row is read bounds every snapshot (user_session.go,
\* userSessionCacheDeadline and the PEXPIREAT of writeUserSessionCache).
THEOREM Staleness == Spec => []StalenessBounded
<1>1. IInv => StalenessBounded
    BY DEF IInv, OverdueHoldsNothing, StalenessBounded
<1> QED BY <1>1, Invariance, PTL

\* Once a final tombstone has been published no later request is accepted:
\* the tombstone outlasts every snapshot of the active row, and the script
\* never replaces it.
THEOREM Denial == Spec => []DeniedAtOnce
<1>1. IInv => DeniedAtOnce
    BY DEF IInv, LateHoldsNothing, DeniedAtOnce
<1> QED BY <1>1, Invariance, PTL
=============================================================================
