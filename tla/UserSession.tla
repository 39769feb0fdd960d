----------------------------- MODULE UserSession -----------------------------
(***************************************************************************)
(* The control plane of one login session (model/user_session.go): its row *)
(* in the database, its snapshot in a shared Redis, the requests that fill *)
(* the snapshot and the operations that revoke the session.  Sessions do   *)
(* not interact, so the module is about one SID.                           *)
(*                                                                         *)
(* Every database statement, every script run by Redis and every reading   *)
(* of the clock that a later step compares with is a step of its own.      *)
(***************************************************************************)
EXTENDS Integers

CONSTANTS
    Request,     \* requests and refreshes that check the session
    Revoker,     \* operations that revoke it
    TTL,         \* userCacheTTLSeconds
    Expiry,      \* the row's expires_at
    MaxTime,     \* bound on the clock
    MaxVersion,  \* bound on the row's version
    MaxFaults    \* bound on failing calls to Redis and on crashes

ASSUME BoundAssumption ==
    /\ TTL \in Nat \ {0}
    /\ Expiry \in Nat
    /\ MaxTime \in Nat
    /\ MaxVersion \in Nat \ {0}
    /\ MaxFaults \in Nat

VARIABLES
    now,     \* the clock of the nodes and of Redis
    row,     \* the row of user_sessions
    cache,   \* the hash stored under userSessionCacheKey
    req,     \* Request -> its progress
    rev,     \* Revoker -> its progress
    faults,
    final,   \* ghost: the revocations that have published a final tombstone
    late,    \* ghost: requests that began after a final tombstone
    overdue  \* ghost: requests that began a TTL or more after the revocation

vars == <<now, row, cache, req, rev, faults, final, late, overdue>>

\* at: revoked_at
Row == [status : {"active", "revoked"}, version : 1..MaxVersion, at : Nat]

\* until: when Redis drops the key
Entry == [status : {"none", "active", "revoking", "revoked"},
          version : 0..MaxVersion, until : Nat]

NoEntry == [status |-> "none", version |-> 0, until |-> 0]

\* dl: cacheDeadline
Req == [pc : {"idle", "lookup", "deadline", "db", "cas", "advance", "prepare",
              "write", "verify", "confirm", "tombstone", "accepted"},
        op : {"get", "rotate", "advance"},
        version : 0..MaxVersion, dl : Nat]

Rev == [pc : {"idle", "fence", "update", "final", "done"},
        version : 0..MaxVersion]

NoReq == [pc |-> "idle", op |-> "get", version |-> 0, dl |-> 0]

Init ==
    /\ now = 0
    /\ row = [status |-> "active", version |-> 1, at |-> 0]
    /\ cache = NoEntry
    /\ req = [p \in Request |-> NoReq]
    /\ rev = [r \in Revoker |-> [pc |-> "idle", version |-> 0]]
    /\ faults = 0
    /\ final = {}
    /\ late = {}
    /\ overdue = {}

Tick ==
    /\ now < MaxTime
    /\ now' = now + 1
    /\ UNCHANGED <<row, cache, req, rev, faults, final, late, overdue>>

Fault ==
    /\ faults < MaxFaults
    /\ faults' = faults + 1

-----------------------------------------------------------------------------
(***************************************************************************)
(* The snapshot: getUserSessionCache and the script of                     *)
(* writeUserSessionCache.                                                  *)
(***************************************************************************)

\* The key as Redis sees it now.
Cached == IF now < cache.until THEN cache ELSE NoEntry

Earlier(a, b) == IF a < b THEN a ELSE b

\* A mutant: an active snapshot may replace a tombstone.
MayPublishActiveAnyway(v) == Cached.version <= v

MayPublishActive(v) ==
    /\ Cached.status \notin {"revoking", "revoked"}
    /\ Cached.version <= v

MayDeny(v) == Cached.version <= v

\* A mutant: the whole TTL again, as PEXPIRE would set it.
ActiveEntryRelative(v, dl) ==
    [status |-> "active", version |-> v, until |-> Earlier(now + TTL, Expiry)]

\* PEXPIREAT with the deadline of the observation; a deadline in the past
\* drops the key.
ActiveEntry(v, dl) ==
    [status |-> "active", version |-> v, until |-> Earlier(dl, Expiry)]

\* A mutant: a tombstone that claims the next version of the row.
DenyEntryAhead(status, v) ==
    [status |-> status, version |-> v + 1,
     until |-> IF Expiry > now THEN Earlier(Expiry, now + TTL) ELSE now + 1]

\* PEXPIRE with the session's remaining life, the TTL at most and a second
\* at least.
DenyEntry(status, v) ==
    [status |-> status, version |-> v,
     until |-> IF Expiry > now THEN Earlier(Expiry, now + TTL) ELSE now + 1]

-----------------------------------------------------------------------------
(***************************************************************************)
(* GetUserSessionCached, RotateUserSessionRefresh (the digests are the     *)
(* subject of AuthSession) and AdvanceUserSessionAuthVersion.              *)
(***************************************************************************)

Proceed(p, state) ==
    /\ req' = [req EXCEPT ![p] = state]
    /\ UNCHANGED <<late, overdue>>

Goto(p, pc) == Proceed(p, [req[p] EXCEPT !.pc = pc])

\* The caller gets the session, or an error and may begin again.
Accept(p) == Proceed(p, [NoReq EXCEPT !.pc = "accepted"])

Reject(p) ==
    /\ req' = [req EXCEPT ![p] = NoReq]
    /\ late' = late \ {p}
    /\ overdue' = overdue \ {p}

Begin(p, op) ==
    /\ req[p].pc = "idle"
    /\ req' = [req EXCEPT ![p] =
                  [pc |-> IF op = "get" THEN "lookup" ELSE "deadline",
                   op |-> op,
                   version |-> IF op = "advance" THEN row.version ELSE 0,
                   dl |-> 0]]
    /\ late' = IF final # {} THEN late \cup {p} ELSE late
    /\ overdue' = IF row.status = "revoked" /\ now >= row.at + TTL
                  THEN overdue \cup {p} ELSE overdue
    /\ UNCHANGED <<now, row, cache, rev, faults, final>>

\* getUserSessionCache: a live active snapshot is enough, a tombstone is
\* final, a miss or a failing Redis falls back to the database.
Lookup(p) ==
    /\ req[p].pc = "lookup"
    /\ \/ /\ Cached.status = "active" /\ now < Expiry
          /\ Accept(p)
          /\ UNCHANGED faults
       \/ /\ \/ Cached.status \in {"revoking", "revoked"}
             \/ Cached.status = "active" /\ now >= Expiry
          /\ Reject(p)
          /\ UNCHANGED faults
       \/ /\ \/ Cached.status = "none" /\ UNCHANGED faults
             \/ Cached.status # "none" /\ Fault
          /\ Goto(p, "deadline")
    /\ UNCHANGED <<now, row, cache, rev, final>>

\* cacheDeadline := userSessionCacheDeadline(), before the row is read.
Deadline(p) ==
    /\ req[p].pc = "deadline"
    /\ Proceed(p, [req[p] EXCEPT
                      !.dl = now + TTL,
                      !.pc = IF req[p].op = "advance" THEN "advance" ELSE "db"])
    /\ UNCHANGED <<now, row, cache, rev, faults, final>>

\* The row is read.
ReadRow(p) ==
    /\ req[p].pc = "db"
    /\ \/ /\ row.status = "active" /\ now < Expiry
          /\ Proceed(p, [req[p] EXCEPT
                            !.pc = IF req[p].op = "rotate" THEN "cas"
                                   ELSE "prepare",
                            !.version = row.version])
       \/ /\ ~(row.status = "active" /\ now < Expiry)
          /\ req[p].op = "rotate"
          /\ Reject(p)
       \/ /\ ~(row.status = "active" /\ now < Expiry)
          /\ req[p].op = "get"
          /\ Proceed(p, [req[p] EXCEPT !.pc = "tombstone",
                                       !.version = row.version])
    /\ UNCHANGED <<now, row, cache, rev, faults, final>>

\* The compare-and-swap of the digests; it also needs the row to be active.
Rotate(p) ==
    /\ req[p].pc = "cas"
    /\ \/ /\ row.status = "active" /\ now < Expiry
          /\ Goto(p, "prepare")
       \/ Reject(p)
    /\ UNCHANGED <<now, row, cache, rev, faults, final>>

\* The transaction of AdvanceUserSessionAuthVersion.
Advance(p) ==
    /\ req[p].pc = "advance"
    /\ \/ /\ row.status = "active" /\ now < Expiry
          /\ row.version = req[p].version
          /\ row.version < MaxVersion
          /\ row' = [row EXCEPT !.version = @ + 1]
          /\ Proceed(p, [req[p] EXCEPT !.pc = "prepare",
                                       !.version = row.version + 1])
       \/ /\ Reject(p)
          /\ UNCHANGED row
    /\ UNCHANGED <<now, cache, rev, faults, final>>

\* writeUserSessionCache before the script.
Prepare(p) ==
    /\ req[p].pc = "prepare"
    /\ \/ now >= req[p].dl /\ Goto(p, "confirm")
       \/ now < req[p].dl /\ now >= Expiry /\ Reject(p)
       \/ now < req[p].dl /\ now < Expiry /\ Goto(p, "write")
    /\ UNCHANGED <<now, row, cache, rev, faults, final>>

\* The script, or an error of Redis: a request then trusts the row it has
\* read, AdvanceUserSessionAuthVersion gives up.
Write(p) ==
    /\ req[p].pc = "write"
    /\ \/ /\ MayPublishActive(req[p].version)
          /\ cache' = ActiveEntry(req[p].version, req[p].dl)
          /\ Goto(p, "verify")
          /\ UNCHANGED faults
       \/ /\ ~MayPublishActive(req[p].version)
          /\ Reject(p)
          /\ UNCHANGED <<cache, faults>>
       \/ /\ Fault
          /\ IF req[p].op = "advance" THEN Reject(p) ELSE Accept(p)
          /\ UNCHANGED cache
    /\ UNCHANGED <<now, row, rev, final>>

\* After the script: a write that came back too late confirms its row.
Verify(p) ==
    /\ req[p].pc = "verify"
    /\ \/ now >= req[p].dl /\ Goto(p, "confirm")
       \/ now < req[p].dl /\ now >= Expiry /\ Reject(p)
       \/ now < req[p].dl /\ now < Expiry /\ Accept(p)
    /\ UNCHANGED <<now, row, cache, rev, faults, final>>

\* confirmUserSessionActiveSnapshot
Confirm(p) ==
    /\ req[p].pc = "confirm"
    /\ IF /\ row.status = "active" /\ now < Expiry
          /\ row.version = req[p].version
       THEN Accept(p) ELSE Reject(p)
    /\ UNCHANGED <<now, row, cache, rev, faults, final>>

\* GetUserSessionCached of an inactive row publishes a tombstone; whether it
\* could makes no difference to the caller.
Tombstone(p) ==
    /\ req[p].pc = "tombstone"
    /\ cache' = IF MayDeny(req[p].version)
                THEN DenyEntry("revoked", req[p].version) ELSE cache
    /\ Reject(p)
    /\ UNCHANGED <<now, row, rev, faults, final>>

\* The next request of the same client.
Return(p) ==
    /\ req[p].pc = "accepted"
    /\ Reject(p)
    /\ UNCHANGED <<now, row, cache, rev, faults, final>>

-----------------------------------------------------------------------------
(***************************************************************************)
(* RevokeUserSession, revokeUserSessions and the reuse branch of           *)
(* RotateUserSessionRefresh: a fence, the row, the final tombstone.        *)
(***************************************************************************)

Candidate(r) ==
    /\ rev[r].pc = "idle"
    /\ row.status = "active" /\ now < Expiry
    /\ rev' = [rev EXCEPT ![r] = [pc |-> "fence", version |-> row.version]]
    /\ UNCHANGED <<now, row, cache, req, faults, final, late, overdue>>

\* writeUserSessionDenyFence: without a fence nothing is revoked.
Fence(r) ==
    /\ rev[r].pc = "fence"
    /\ \/ /\ MayDeny(rev[r].version)
          /\ cache' = DenyEntry("revoking", rev[r].version)
          /\ rev' = [rev EXCEPT ![r].pc = "update"]
          /\ UNCHANGED faults
       \/ /\ ~MayDeny(rev[r].version)
          /\ rev' = [rev EXCEPT ![r].pc = "done"]
          /\ UNCHANGED <<cache, faults>>
       \/ /\ Fault
          /\ rev' = [rev EXCEPT ![r].pc = "done"]
          /\ UNCHANGED cache
    /\ UNCHANGED <<now, row, req, final, late, overdue>>

\* The transaction; a crash or an error of the database leaves the fence.
UpdateRow(r) ==
    /\ rev[r].pc = "update"
    /\ \/ /\ row.status = "active"
          /\ row' = [row EXCEPT !.status = "revoked", !.at = now]
          /\ rev' = [rev EXCEPT ![r].pc = "final"]
          /\ UNCHANGED faults
       \/ /\ row.status # "active"
          /\ rev' = [rev EXCEPT ![r].pc = "done"]
          /\ UNCHANGED <<row, faults>>
       \/ /\ Fault
          /\ rev' = [rev EXCEPT ![r].pc = "done"]
          /\ UNCHANGED row
    /\ UNCHANGED <<now, cache, req, final, late, overdue>>

\* The final tombstone; an error is only logged.
Finalize(r) ==
    /\ rev[r].pc = "final"
    /\ rev' = [rev EXCEPT ![r].pc = "done"]
    /\ \/ /\ MayDeny(rev[r].version)
          /\ cache' = DenyEntry("revoked", rev[r].version)
          /\ final' = final \cup {r}
          /\ UNCHANGED faults
       \/ /\ ~MayDeny(rev[r].version)
          /\ UNCHANGED <<cache, final, faults>>
       \/ /\ Fault
          /\ UNCHANGED <<cache, final>>
    /\ UNCHANGED <<now, row, req, late, overdue>>

-----------------------------------------------------------------------------
RequestStep(p) ==
    \/ \E op \in {"get", "rotate", "advance"} : Begin(p, op)
    \/ Lookup(p) \/ Deadline(p) \/ ReadRow(p) \/ Rotate(p) \/ Advance(p)
    \/ Prepare(p) \/ Write(p) \/ Verify(p) \/ Confirm(p) \/ Tombstone(p)
    \/ Return(p)

RevokerStep(r) ==
    Candidate(r) \/ Fence(r) \/ UpdateRow(r) \/ Finalize(r)

Next ==
    \/ Tick
    \/ \E p \in Request : RequestStep(p)
    \/ \E r \in Revoker : RevokerStep(r)

Spec == Init /\ [][Next]_vars

-----------------------------------------------------------------------------
\* The types of the row, the snapshot in Redis and the operations; the
\* snapshot's version never exceeds the versions the row may have.
TypeOK ==
    /\ now \in Nat
    /\ row \in Row
    /\ cache \in Entry
    /\ req \in [Request -> Req]
    /\ rev \in [Revoker -> Rev]
    /\ faults \in Nat
    /\ final \subseteq Revoker
    /\ late \subseteq Request
    /\ overdue \subseteq Request

\* A request that begins a TTL or more after the row was revoked is refused,
\* however late snapshots of the active row are written, whichever calls to
\* Redis fail and wherever a revocation stops ("stale no longer than
\* SYNC_FREQUENCY", docs/authentication.md).
StalenessBounded ==
    \A p \in Request : req[p].pc = "accepted" => p \notin overdue

\* Once a revocation has published its final tombstone, no request that
\* begins later is accepted: not by a snapshot written afterwards, and not
\* after the tombstone has expired.
DeniedAtOnce ==
    \A p \in Request : req[p].pc = "accepted" => p \notin late
=============================================================================
