--------------------------- MODULE ImagePlayground ---------------------------
(***************************************************************************)
(* The history of the image playground (stores/image-playground-store.ts)  *)
(* and the hook that fills it (use-image-generate.ts): browser tabs that   *)
(* share one localStorage, each with a copy in memory, and the paid calls  *)
(* whose outcome the history records.  The buckets of different users do   *)
(* not interact; the module is about one user's bucket.                    *)
(*                                                                         *)
(* A tab is one thread, but localStorage is shared without a lock: the     *)
(* store reads it, merges and writes it back, and another tab may write in *)
(* between.  A mutation of the store is one step that ends with the merge, *)
(* the write to localStorage is a second one.                              *)
(***************************************************************************)
EXTENDS Integers, Sequences

CONSTANTS
    Tabs,
    Runs,        \* run ids
    Fresh,       \* the ids for runs started from the form, the others retry
    Outcomes,    \* what the page learns of a call: see BoundAssumption
    RefKinds,    \* a request's reference images: subset of {"none", "held"}
    Expiry,      \* LEASE_EXPIRY_MS
    MaxTime,     \* bound on the time of what users do
    MaxClears,   \* bound on clearing the history
    MaxMoves,    \* bound on leaving, closing and opening the page
    MaxLag       \* bound on the events a timer may overtake

NoTab == "none"
NoRun == "none"

ASSUME BoundAssumption ==
    /\ NoTab \notin Tabs
    /\ NoRun \notin Runs
    /\ Fresh \subseteq Runs
    /\ Outcomes \subseteq {"url", "b64", "error", "lost"}
    /\ RefKinds \subseteq {"none", "held"}
    /\ Expiry \in Nat \ {0}
    /\ MaxTime \in Nat
    /\ MaxClears \in Nat
    /\ MaxMoves \in Nat
    /\ MaxLag \in Nat

VARIABLES
    now,
    disk,     \* the envelope in localStorage
    mem,      \* Tabs -> _envelope
    writing,  \* the tabs between the merge and the write of _persist
    events,   \* Tabs -> storage events not yet delivered
    page,     \* Tabs -> the playground is mounted, unmounted, or the tab shut
    active,   \* Tabs -> activeRunRef, set exactly while inFlightRef is
    call,     \* Runs -> the paid call behind the run
    clears, moves,
    retried,  \* ghost: runs that have been replayed
    swept,    \* ghost: Runs -> what a Clear found the run to be
    torn      \* ghost: a page came or went, or a result arrived that no
              \* mounted page would hear of, in the middle of an exchange

vars == <<now, disk, mem, writing, events, page, active, call, clears, moves,
          retried, swept, torn>>

\* data: where the images are; refs: where the reference images are.  Only an
\* active run has a lease.
Copy == [status : {"running"}, updated : Nat, owner : Tabs, beat : Nat,
         data : {"none"}, refs : {"none", "held", "stripped"}]
        \cup
        [status : {"none", "complete", "error", "unknown"},
         updated : Nat, owner : {NoTab}, beat : {0},
         data : {"none", "url", "b64", "gone"},
         refs : {"none", "held", "stripped"}]

NoCopy == [status |-> "none", updated |-> 0, owner |-> NoTab, beat |-> 0,
           data |-> "none", refs |-> "none"]

\* cleared: clearedAt, 0 when undefined; rev: revision
History == [run : [Runs -> Copy], cleared : Nat, rev : Nat]

EmptyHistory == [run |-> [r \in Runs |-> NoCopy], cleared |-> 0, rev |-> 0]

\* state: "over" when the page has been told the outcome; by: the tab whose
\* callbacks wait for it; at: when the call was sent; paid: it brought images;
\* upstream: the server may still be at work on it, and bill it.
Call == [state : {"none", "sent", "over"}, by : Tabs \cup {NoTab}, at : Nat,
         paid : BOOLEAN, upstream : BOOLEAN]

NoCall == [state |-> "none", by |-> NoTab, at |-> 0, paid |-> FALSE,
           upstream |-> FALSE]

Init ==
    /\ now = 1
    /\ disk = EmptyHistory
    /\ mem = [t \in Tabs |-> EmptyHistory]
    /\ writing = {}
    /\ events = [t \in Tabs |-> <<>>]
    /\ page = [t \in Tabs |-> "open"]
    /\ active = [t \in Tabs |-> NoRun]
    /\ call = [r \in Runs |-> NoCall]
    /\ clears = 0
    /\ moves = 0
    /\ retried = {}
    /\ swept = [r \in Runs |-> "no"]
    /\ torn = FALSE

-----------------------------------------------------------------------------
(***************************************************************************)
(* Merging two copies of the history.                                      *)
(***************************************************************************)

IsActive(c) == c.status = "running"

Later(a, b) == IF a >= b THEN a ELSE b

\* runInMemoryRichness
Richness(c) == (IF c.data = "b64" THEN 1 ELSE 0)
               + (IF c.refs = "held" THEN 1 ELSE 0)

\* A mutant: the incoming copy wins a tie.
PreferredIncoming(previous, incoming) ==
    IF previous.updated > incoming.updated THEN previous ELSE incoming

\* mergeConcurrentRunCopies of two copies that are both active or both not
Preferred(previous, incoming) ==
    IF \/ previous.updated > incoming.updated
       \/ /\ previous.updated = incoming.updated
          /\ Richness(previous) >= Richness(incoming)
    THEN previous ELSE incoming

\* A mutant: the newer copy wins, active or not.
mergeByTimestamp(previous, incoming) ==
    IF previous.status = "none" THEN incoming
    ELSE IF incoming.status = "none" THEN previous
    ELSE Preferred(previous, incoming)

mergeConcurrentRunCopies(previous, incoming) ==
    IF previous.status = "none" THEN incoming
    ELSE IF incoming.status = "none" THEN previous
    ELSE IF IsActive(previous) # IsActive(incoming)
    THEN IF IsActive(previous) THEN incoming ELSE previous
    ELSE LET preferred == Preferred(previous, incoming)
         IN  IF IsActive(preferred) /\ previous.owner = incoming.owner
             THEN [preferred EXCEPT !.beat = Later(previous.beat,
                                                   incoming.beat)]
             ELSE preferred

\* An active run outlives any Clear, an ended one those before its last
\* update.
applyTombstone(c, cleared) ==
    IF ~IsActive(c) /\ c.updated <= cleared THEN NoCopy ELSE c

mergeHistoryEnvelopes(local, remote) ==
    LET cleared == CASE local.rev > remote.rev -> local.cleared
                     [] remote.rev > local.rev -> remote.cleared
                     [] OTHER -> Later(local.cleared, remote.cleared)
    IN  [run |-> [r \in Runs |->
                    applyTombstone(mergeConcurrentRunCopies(remote.run[r],
                                                            local.run[r]),
                                   cleared)],
         cleared |-> cleared,
         rev |-> Later(local.rev, remote.rev)]

\* A mutant: the session id stays on a run whose outcome is unknown.
reclaimKeepingLease(h) ==
    [h EXCEPT !.run =
        [r \in Runs |->
            IF IsActive(h.run[r]) /\ now - h.run[r].beat >= Expiry
            THEN [h.run[r] EXCEPT !.status = "unknown"]
            ELSE h.run[r]]]

\* An active run whose lease has not been renewed for Expiry has an unknown
\* outcome; its updatedAt stays.
reclaimExpiredLeases(h) ==
    [h EXCEPT !.run =
        [r \in Runs |->
            IF IsActive(h.run[r]) /\ now - h.run[r].beat >= Expiry
            THEN [h.run[r] EXCEPT !.status = "unknown", !.owner = NoTab,
                                  !.beat = 0]
            ELSE h.run[r]]]

\* What a copy is after toPersistedRun and validatePersistedRun: base64
\* images and reference images do not reach localStorage.
Persisted(c) ==
    [c EXCEPT !.data = IF @ = "b64" THEN "gone" ELSE @,
              !.refs = IF @ = "held" THEN "stripped" ELSE @]

persistEnvelope(h) == [h EXCEPT !.run = [r \in Runs |-> Persisted(h.run[r])]]

-----------------------------------------------------------------------------
(***************************************************************************)
(* The store.                                                              *)
(***************************************************************************)

\* The tab's script may run: it is not in the middle of a write.
Ready(t) == t \notin writing /\ page[t] # "shut"

\* The merge of _persist with what localStorage holds; the write is another
\* step, unless there is nothing to write.
Persist(t, h) ==
    /\ mem' = [mem EXCEPT ![t] = h]
    /\ writing' = IF persistEnvelope(h) = disk THEN writing
                  ELSE writing \cup {t}

SetAndPersist(t, next) ==
    /\ \E h \in {next} : \E merged \in {mergeHistoryEnvelopes(disk, h)} :
          Persist(t, merged)
    /\ UNCHANGED <<disk, events>>

\* setItem; the other mounted pages will hear of it.
Flush(t) ==
    /\ t \in writing
    /\ writing' = writing \ {t}
    /\ LET h == persistEnvelope(mem[t])
       IN  /\ disk' = h
           /\ events' = [u \in Tabs |->
                            IF h # disk /\ u # t /\ page[u] = "open"
                            THEN Append(events[u], h) ELSE events[u]]
    /\ UNCHANGED <<now, mem, page, active, call, clears, moves, retried, swept,
                   torn>>

\* A mutant: the event is merged into memory and not written back.
DeliverToMemory(t) ==
    /\ Ready(t) /\ page[t] = "open"
    /\ events[t] # <<>>
    /\ mem' = [mem EXCEPT ![t] =
                  reclaimExpiredLeases(
                      mergeHistoryEnvelopes(mem[t], Head(events[t])))]
    /\ events' = [events EXCEPT ![t] = Tail(@)]
    /\ UNCHANGED <<now, disk, writing, page, active, call, clears, moves,
                   retried, swept, torn>>

\* A storage event: mergeEnvelope.  (Here and below a quantifier over a
\* one-element set names an intermediate value.)
Deliver(t) ==
    /\ Ready(t) /\ page[t] = "open"
    /\ events[t] # <<>>
    /\ \E incoming \in {mergeHistoryEnvelopes(mem[t], Head(events[t]))} :
       \E h \in {reclaimExpiredLeases(incoming)} :
       \E merged \in {mergeHistoryEnvelopes(disk, h)} :
          Persist(t, merged)
    /\ events' = [events EXCEPT ![t] = Tail(@)]
    /\ UNCHANGED <<now, disk, page, active, call, clears, moves, retried,
                   swept, torn>>

\* refreshHeartbeat: at most every half window, and only on a run this tab
\* still sees as its own.
refreshHeartbeat(h, t) ==
    [h EXCEPT !.run =
        [r \in Runs |->
            IF /\ r = active[t]
               /\ IsActive(h.run[r]) /\ h.run[r].owner = t
               /\ 2 * (now - h.run[r].beat) >= Expiry
            THEN [h.run[r] EXCEPT !.beat = now]
            ELSE h.run[r]]]

\* A mutant: the ticker only keeps this tab's own lease.
BeatOwnLease(t) ==
    /\ Ready(t) /\ page[t] = "open"
    /\ Len(events[t]) <= MaxLag
    /\ \E merged \in {mergeHistoryEnvelopes(disk, mem[t])} :
          Persist(t, refreshHeartbeat(merged, t))
    /\ UNCHANGED <<now, disk, events, page, active, call, clears, moves,
                   retried, swept, torn>>

\* The ticker of the mounted page: reclaimNow, then refreshHeartbeat.
Beat(t) ==
    /\ Ready(t) /\ page[t] = "open"
    /\ Len(events[t]) <= MaxLag
    /\ \E h \in {reclaimExpiredLeases(mem[t])} :
       \E merged \in {mergeHistoryEnvelopes(disk, h)} :
          Persist(t, refreshHeartbeat(merged, t))
    /\ UNCHANGED <<now, disk, events, page, active, call, clears, moves,
                   retried, swept, torn>>

-----------------------------------------------------------------------------
(***************************************************************************)
(* Generating, retrying, the answer.                                       *)
(***************************************************************************)

\* Every Clear that a copy of the history records came before the time n.
ClearedBefore(n) ==
    /\ disk.cleared < n
    /\ \A t \in Tabs : mem[t].cleared < n
    /\ \A t \in Tabs : \A i \in DOMAIN events[t] : events[t][i].cleared < n

\* onMutate: addRun takes the lease, updateRun stamps it again, and the
\* active ref is set; then the call leaves.  Nobody generates in the very
\* instant of a Clear.
StartGeneration(t, r, refs) ==
    /\ Ready(t) /\ page[t] = "open"
    /\ active[t] = NoRun
    /\ call[r].state = "none"
    /\ now <= MaxTime
    /\ ClearedBefore(now)
    /\ SetAndPersist(t, [mem[t] EXCEPT !.run[r] =
                            [status |-> "running", updated |-> now, owner |-> t,
                             beat |-> now, data |-> "none", refs |-> refs]])
    /\ active' = [active EXCEPT ![t] = r]
    /\ call' = [call EXCEPT ![r] = [state |-> "sent", by |-> t, at |-> now,
                                    paid |-> FALSE, upstream |-> TRUE]]
    /\ UNCHANGED <<now, page, clears, moves, swept, torn>>

Generate(t, r, refs) ==
    /\ r \in Fresh
    /\ StartGeneration(t, r, refs)
    /\ UNCHANGED retried

\* isLeasedByOtherSession
LeasedElsewhere(t, c) == IsActive(c) /\ c.owner # t /\ now - c.beat < Expiry

\* A mutant: every card has the button unless the run is known to be blocked.
showRetryUnlessHidden(t, c) ==
    c.status \notin {"none", "unknown"} /\ ~LeasedElsewhere(t, c)

\* The card of a failed run has a button.
showRetry(t, c) == c.status = "error" /\ ~LeasedElsewhere(t, c)

\* The button is there, and retry() lets it through: the store has the run, no
\* outcome is unknown, no other tab has it, and its reference images, which
\* must be sent again, are in memory.
MayRetry(t, c) ==
    /\ showRetry(t, c)
    /\ c.status \notin {"none", "unknown"}
    /\ ~LeasedElsewhere(t, c)
    /\ c.refs # "stripped"

Retry(t, source, r) ==
    /\ r \notin Fresh
    /\ MayRetry(t, mem[t].run[source])
    /\ StartGeneration(t, r, mem[t].run[source].refs)
    /\ retried' = retried \cup {source}

\* A mutant: a run that is no longer active is not patched.
updateActiveRun(h, r, status, data) ==
    IF ~IsActive(h.run[r]) THEN h
    ELSE [h EXCEPT !.run[r] =
             [@ EXCEPT !.status = status, !.owner = NoTab, !.beat = 0,
                       !.data = data, !.updated = now]]

\* updateRun by onSuccess or onError: it patches the run if the store still
\* has it, strictly after the last Clear this tab knows of.
updateRun(h, r, status, data) ==
    IF h.run[r].status = "none" THEN h
    ELSE [h EXCEPT !.run[r] =
             [@ EXCEPT !.status = status, !.owner = NoTab, !.beat = 0,
                       !.data = data,
                       !.updated = IF now <= h.cleared THEN h.cleared + 1
                                   ELSE now]]

Quiet(t) == t \notin writing /\ events[t] = <<>>

Settled == \A t \in Tabs : Quiet(t)

\* No playground is mounted: nobody would hear of an overwritten write.
Unheard == \A t \in Tabs : page[t] # "open"

\* The server's error message, or no usable response at all: onError makes the
\* same of both.
Failure(outcome) == outcome \in {"error", "lost"}

\* The callbacks run even when the page has been left; onSettled clears the
\* ref only if it still is this run's.  A connection that is lost tells nothing
\* of the server's work.
Finish(t, r, outcome) ==
    /\ Ready(t)
    /\ call[r].state = "sent" /\ call[r].by = t
    /\ now > call[r].at
    /\ SetAndPersist(t, IF Failure(outcome)
                        THEN updateRun(mem[t], r, "error", mem[t].run[r].data)
                        ELSE updateRun(mem[t], r, "complete", outcome))
    /\ call' = [call EXCEPT ![r].state = "over",
                            ![r].paid = ~Failure(outcome),
                            ![r].upstream = outcome = "lost"]
    /\ active' = [active EXCEPT ![t] = IF @ = r THEN NoRun ELSE @]
    /\ torn' = (torn \/ (Unheard /\ ~Settled))
    /\ UNCHANGED <<now, page, clears, moves, retried, swept>>

\* clearUser, offered while this page generates nothing.
Clear(t) ==
    /\ Ready(t) /\ page[t] = "open"
    /\ active[t] = NoRun
    /\ clears < MaxClears /\ now <= MaxTime
    /\ \E r \in Runs : mem[t].run[r].status # "none"
    /\ SetAndPersist(t, [run |-> [r \in Runs |->
                                    IF IsActive(mem[t].run[r])
                                    THEN mem[t].run[r] ELSE NoCopy],
                         cleared |-> now,
                         rev |-> mem[t].rev + 1])
    /\ clears' = clears + 1
    /\ swept' = [r \in Runs |->
                    IF call[r].state = "none" THEN swept[r]
                    ELSE IF \/ call[r].state = "over"
                            \/ mem[t].run[r].status = "unknown"
                            \/ swept[r] = "ended"
                         THEN "ended" ELSE "active"]
    /\ UNCHANGED <<now, page, active, call, moves, retried, torn>>

-----------------------------------------------------------------------------
(***************************************************************************)
(* Pages come and go.                                                      *)
(***************************************************************************)

Move ==
    /\ moves < MaxMoves /\ now <= MaxTime
    /\ moves' = moves + 1

Detach(t) ==
    /\ events' = [events EXCEPT ![t] = <<>>]
    /\ active' = [active EXCEPT ![t] = NoRun]
    /\ torn' = (torn \/ ~Settled)

\* Another page of the application: no ticker and no listener, but the store
\* and the calls live on.
Leave(t) ==
    /\ Ready(t) /\ page[t] = "open"
    /\ Move
    /\ Detach(t)
    /\ page' = [page EXCEPT ![t] = "left"]
    /\ UNCHANGED <<now, disk, mem, writing, call, clears, retried, swept>>

\* The tab is closed, reloaded or crashes, possibly in the middle of a write;
\* its calls go on, but nobody waits for their answers.
Shut(t) ==
    /\ page[t] # "shut"
    /\ Move
    /\ Detach(t)
    /\ page' = [page EXCEPT ![t] = "shut"]
    /\ mem' = [mem EXCEPT ![t] = EmptyHistory]
    /\ writing' = writing \ {t}
    /\ call' = [r \in Runs |-> IF call[r].by = t
                               THEN [call[r] EXCEPT !.by = NoTab]
                               ELSE call[r]]
    /\ UNCHANGED <<now, disk, clears, retried, swept>>

\* The page mounts: hydrate takes what localStorage has, and the listener is
\* attached.
Mount(t) ==
    /\ page[t] # "open" /\ t \notin writing
    /\ page' = [page EXCEPT ![t] = "open"]
    /\ Persist(t, reclaimExpiredLeases(disk))
    /\ torn' = (torn \/ ~Settled)
    /\ UNCHANGED <<now, disk, events, active, call, clears, moves, retried,
                   swept>>

\* Time goes on after the last operation until every lease has run out.
Tick ==
    /\ now < MaxTime + Expiry
    /\ now' = now + 1
    /\ UNCHANGED <<disk, mem, writing, events, page, active, call, clears,
                   moves, retried, swept, torn>>

Next ==
    \/ Tick
    \/ \E t \in Tabs :
        \/ Flush(t) \/ Deliver(t) \/ Beat(t) \/ Clear(t)
        \/ Leave(t) \/ Shut(t) \/ Mount(t)
        \/ \E r \in Runs :
            \/ \E refs \in RefKinds : Generate(t, r, refs)
            \/ \E source \in Runs : Retry(t, source, r)
            \/ \E outcome \in Outcomes : Finish(t, r, outcome)

Spec == Init /\ [][Next]_vars

\* What the browser runs by itself: writes, events, timers.
Script(t) == Flush(t) \/ Deliver(t) \/ Beat(t)

Answer(t) == \E r \in Runs, outcome \in Outcomes : Finish(t, r, outcome)

\* Timers fire, events are delivered, calls are answered.
FairSpec ==
    /\ Spec
    /\ WF_vars(Tick)
    /\ \A t \in Tabs : WF_vars(Script(t)) /\ WF_vars(Answer(t))

-----------------------------------------------------------------------------
(***************************************************************************)
(* Properties.                                                             *)
(***************************************************************************)

\* The types of the two kinds of copies and of the pages: in localStorage and
\* in every tab, a run has a lease exactly while it is active.
TypeOK ==
    /\ now \in Nat
    /\ disk \in History
    /\ mem \in [Tabs -> History]
    /\ writing \subseteq Tabs
    /\ events \in [Tabs -> Seq(History)]
    /\ page \in [Tabs -> {"open", "left", "shut"}]
    /\ active \in [Tabs -> Runs \cup {NoRun}]
    /\ call \in [Runs -> Call]
    /\ clears \in 0..MaxClears
    /\ moves \in 0..MaxMoves
    /\ retried \subseteq Runs
    /\ swept \in [Runs -> {"no", "active", "ended"}]
    /\ torn \in BOOLEAN

\* A mounted page that has handled its events shows what localStorage holds,
\* although tabs overwrite each other's writes: every overwritten write comes
\* back as an event.
QuietTabsAgree ==
    \A t \in Tabs :
        page[t] = "open" /\ Quiet(t) => persistEnvelope(mem[t]) = disk

\* The result of a paid call is in the history once the tabs are quiet, even
\* when its lease had expired and other tabs had already declared its outcome
\* unknown: no Clear happened while it ran, no page came or went in the middle
\* of an exchange, and no two results crossed while no page was mounted.
PaidResultKept ==
    \A r \in Runs :
        /\ call[r].paid /\ swept[r] = "no" /\ ~torn
        /\ Settled
        => disk.run[r].status = "complete"

\* "Active runs are never tombstoned, even by a cross-tab Clear: the
\* generation may still complete and must be able to write its result": a
\* result is in the history unless it was cleared after it had ended.
ClearSparesActive ==
    \A r \in Runs :
        /\ call[r].paid /\ swept[r] # "ended" /\ ~torn
        /\ Settled
        => disk.run[r].status = "complete"

\* A run is replayed only after a page has been told that its call failed:
\* never because a lease expired, a tab was reloaded or left, or a stale copy was
\* merged while the answer was on its way, and never when images have come.
ReplayOnlyAfterFailure ==
    [][\A r \in Runs :
          r \in retried' \ retried =>
              call[r].state = "over" /\ ~call[r].paid]_vars

\* What the comments of runRetryBlocked and retry() aim at: a run is never
\* replayed while the call behind it may still complete and be billed.  It is
\* not so when the connection is lost (README, section 9).
NoDoubleSend ==
    [][\A r \in Runs : r \in retried' \ retried => ~call[r].upstream]_vars

Ended(c) == c.status \in {"complete", "error", "unknown"}

\* No Clear that the tab knows of, or meets in its next step, covers the run.
Uncovered(t, r) ==
    LET before(h) == h.cleared < mem[t].run[r].updated
    IN  /\ before(mem[t]) /\ before(disk)
        /\ events[t] # <<>> => before(Head(events[t]))

\* A page that has seen a run end never shows it as running again, nor forgets
\* it, unless a Clear covers the run: a tab's stale copy is never the one that
\* survives.
EndedStaysEnded ==
    [][\A t \in Tabs, r \in Runs :
          /\ Ended(mem[t].run[r]) /\ Uncovered(t, r)
          /\ page'[t] = page[t] /\ clears' = clears
          => Ended(mem'[t].run[r])]_vars

\* Base64 results live in the page's memory only; merging with the copies of
\* other tabs, which have lost them, never loses them here.
MemoryResultStays ==
    [][\A t \in Tabs, r \in Runs :
          /\ mem[t].run[r].data = "b64" /\ Uncovered(t, r)
          /\ page'[t] = page[t] /\ clears' = clears
          => mem'[t].run[r].data = "b64"]_vars

\* No run spins forever: a mounted page sees each run end, become unknown or
\* go, whichever tab was shut.
RunsEnd ==
    \A t \in Tabs, r \in Runs :
        IsActive(mem[t].run[r]) ~> (~IsActive(mem[t].run[r])
                                    \/ page[t] # "open")
=============================================================================
