------------------------ MODULE ImagePlaygroundProofs ------------------------
(***************************************************************************)
(* Proofs about ImagePlayground, for any tabs and runs, any lease expiry   *)
(* and any number of Clears, moves and overtaken events.                   *)
(***************************************************************************)
EXTENDS ImagePlayground, TLAPS

(***************************************************************************)
(* The operators on copies.                                                *)
(***************************************************************************)
ActiveCopy == [status : {"running"}, updated : Nat, owner : Tabs, beat : Nat,
               data : {"none"}, refs : {"none", "held", "stripped"}]

IdleCopy == [status : {"none", "complete", "error", "unknown"},
             updated : Nat, owner : {NoTab}, beat : {0},
             data : {"none", "url", "b64", "gone"},
             refs : {"none", "held", "stripped"}]

\* The two copies tell the same about the run; only the leases may differ.
Like(c, d) == /\ c.status = d.status /\ c.updated = d.updated
              /\ c.data = d.data /\ c.refs = d.refs

\* A copy is active and leased, or neither.
LEMMA CopyKinds ==
    ASSUME NEW c \in Copy
    PROVE  /\ IsActive(c) => c \in ActiveCopy
           /\ ~IsActive(c) => c \in IdleCopy
           /\ c.updated \in Nat /\ c.beat \in Nat
           /\ c.status \in {"none", "running", "complete", "error", "unknown"}
           /\ c.data \in {"none", "url", "b64", "gone"}
           /\ c.refs \in {"none", "held", "stripped"}
BY DEF Copy, ActiveCopy, IdleCopy, IsActive

\* The two kinds are copies.
LEMMA KindsAreCopies == ActiveCopy \subseteq Copy /\ IdleCopy \subseteq Copy
BY DEF Copy, ActiveCopy, IdleCopy

\* So is the empty one.
LEMMA NoCopyTyped == NoCopy \in Copy /\ NoCopy.status = "none"
                     /\ NoCopy.data = "none" /\ NoCopy.refs = "none"
BY DEF NoCopy, Copy

\* The later of two times is one of them.
LEMMA LaterOf ==
    ASSUME NEW a \in Nat, NEW b \in Nat
    PROVE  Later(a, b) \in Nat /\ Later(a, b) \in {a, b}
BY DEF Later

\* Of two copies the preferred one is not the older one.
LEMMA PreferredOf ==
    ASSUME NEW p \in Copy, NEW i \in Copy
    PROVE  /\ Preferred(p, i) \in {p, i}
           /\ p.updated <= Preferred(p, i).updated
           /\ i.updated <= Preferred(p, i).updated
           /\ p.updated > i.updated => Preferred(p, i) = p
           /\ i.updated > p.updated => Preferred(p, i) = i
           /\ p.updated = i.updated /\ Richness(p) >= Richness(i) =>
                  Preferred(p, i) = p
           /\ p.updated = i.updated /\ ~(Richness(p) >= Richness(i)) =>
                  Preferred(p, i) = i
<1>1. p.updated \in Nat /\ i.updated \in Nat
      BY CopyKinds
<1> QED BY <1>1 DEF Preferred

\* What merging two copies of a run gives.
MergedFrom(m, p, i) ==
    /\ m \in Copy
    /\ Like(m, p) \/ Like(m, i)
    /\ p.status = "none" => Like(m, i)
    /\ i.status = "none" /\ p.status # "none" => Like(m, p)
    /\ IsActive(p) /\ Ended(i) => Like(m, i)
    /\ IsActive(i) /\ Ended(p) => Like(m, p)
    /\ Ended(p) /\ Ended(i) => Like(m, Preferred(p, i))

\* mergeConcurrentRunCopies takes one of the copies: an ended one rather than
\* an active one, and of two ended ones the preferred one.
LEMMA MergeOfCopies ==
    ASSUME NEW p \in Copy, NEW i \in Copy
    PROVE  MergedFrom(mergeConcurrentRunCopies(p, i), p, i)
<1> DEFINE m == mergeConcurrentRunCopies(p, i)
           q == Preferred(p, i)
<1> SUFFICES MergedFrom(m, p, i)
    OBVIOUS
<1>1. q \in {p, i}
      BY PreferredOf
<1>2. /\ p.status = "none" => ~IsActive(p) /\ ~Ended(p)
      /\ i.status = "none" => ~IsActive(i) /\ ~Ended(i)
      /\ IsActive(p) => ~Ended(p) /\ p.status # "none"
      /\ IsActive(i) => ~Ended(i) /\ i.status # "none"
      BY DEF IsActive, Ended
<1>3. /\ p.status = "none" => m = i
      /\ p.status # "none" /\ i.status = "none" => m = p
      /\ p.status # "none" /\ i.status # "none" /\ IsActive(p) /\ ~IsActive(i)
            => m = i
      /\ p.status # "none" /\ i.status # "none" /\ ~IsActive(p) /\ IsActive(i)
            => m = p
      BY DEF mergeConcurrentRunCopies
<1>4. ASSUME p.status # "none", i.status # "none", ~IsActive(p), ~IsActive(i)
      PROVE  m = q
      BY <1>1, <1>4 DEF mergeConcurrentRunCopies, IsActive
<1>5. ASSUME IsActive(p), IsActive(i)
      PROVE  m \in Copy /\ Like(m, q)
      <2> DEFINE n == Later(p.beat, i.beat)
      <2>1. n \in Nat
            BY CopyKinds, LaterOf
      <2>2. q \in ActiveCopy
            BY <1>1, <1>5, CopyKinds
      <2>3. m = q \/ m = [q EXCEPT !.beat = n]
            BY <1>2, <1>5 DEF mergeConcurrentRunCopies
      <2> HIDE DEF n, q, m
      <2>4. m \in ActiveCopy /\ Like(m, q)
            BY <2>1, <2>2, <2>3 DEF ActiveCopy, Like
      <2> QED BY <2>4, KindsAreCopies
<1>6. \A c : Like(c, c)
      BY DEF Like
<1> HIDE DEF m, q
<1>7. CASE IsActive(p) /\ IsActive(i)
      BY <1>1, <1>2, <1>5, <1>7 DEF MergedFrom
<1>8. CASE p.status = "none"
      BY <1>2, <1>3, <1>6, <1>8 DEF MergedFrom
<1>9. CASE p.status # "none" /\ i.status = "none"
      BY <1>2, <1>3, <1>6, <1>9 DEF MergedFrom
<1>10. CASE p.status # "none" /\ i.status # "none" /\ IsActive(p) # IsActive(i)
      <2>1. IsActive(p) \in BOOLEAN /\ IsActive(i) \in BOOLEAN
            BY DEF IsActive
      <2> QED BY <1>2, <1>3, <1>6, <1>10, <2>1 DEF MergedFrom
<1>11. CASE p.status # "none" /\ i.status # "none" /\ ~IsActive(p) /\ ~IsActive(i)
      <2>1. m = q
            BY <1>4, <1>11
      <2> QED BY <1>1, <1>2, <1>6, <1>11, <2>1 DEF MergedFrom, q
<1> QED BY <1>7, <1>8, <1>9, <1>10, <1>11 DEF IsActive

\* applyTombstone keeps a copy or drops it, and drops none that is updated
\* after the Clear.
LEMMA TombstoneOf ==
    ASSUME NEW c \in Copy, NEW n \in Nat
    PROVE  /\ applyTombstone(c, n) \in {c, NoCopy}
           /\ applyTombstone(c, n) \in Copy
           /\ IsActive(c) \/ n < c.updated => applyTombstone(c, n) = c
BY NoCopyTyped, CopyKinds DEF applyTombstone

(***************************************************************************)
(* The operators on histories.                                             *)
(***************************************************************************)
\* What the copies and the last Clear of a history are.
LEMMA HistoryFields ==
    ASSUME NEW h \in History
    PROVE  /\ h.run \in [Runs -> Copy] /\ h.cleared \in Nat /\ h.rev \in Nat
           /\ \A r \in Runs : h.run[r] \in Copy
BY DEF History

\* A history whose copies are replaced is a history.
LEMMA HistoryWith ==
    ASSUME NEW h \in History, NEW f \in [Runs -> Copy]
    PROVE  /\ [h EXCEPT !.run = f] \in History
           /\ [h EXCEPT !.run = f].run = f
           /\ [h EXCEPT !.run = f].cleared = h.cleared
           /\ [h EXCEPT !.run = f].rev = h.rev
BY DEF History

\* mergeHistoryEnvelopes merges run by run and takes the Clear of one of them.
LEMMA MergeOfHistories ==
    ASSUME NEW a \in History, NEW b \in History
    PROVE  LET m == mergeHistoryEnvelopes(a, b)
           IN  /\ m \in History
               /\ m.cleared \in {a.cleared, b.cleared}
               /\ \A r \in Runs :
                     m.run[r] = applyTombstone(
                         mergeConcurrentRunCopies(b.run[r], a.run[r]),
                         m.cleared)
<1> DEFINE cleared == CASE a.rev > b.rev -> a.cleared
                        [] b.rev > a.rev -> b.cleared
                        [] OTHER -> Later(a.cleared, b.cleared)
           f == [r \in Runs |->
                    applyTombstone(mergeConcurrentRunCopies(b.run[r], a.run[r]),
                                   cleared)]
           v == Later(a.rev, b.rev)
           m == mergeHistoryEnvelopes(a, b)
<1>1. /\ a.cleared \in Nat /\ b.cleared \in Nat /\ a.rev \in Nat /\ b.rev \in Nat
      /\ \A r \in Runs : a.run[r] \in Copy /\ b.run[r] \in Copy
      BY HistoryFields
<1>2. cleared \in Nat /\ cleared \in {a.cleared, b.cleared}
      <2>1. Later(a.cleared, b.cleared) \in {a.cleared, b.cleared}
            BY <1>1, LaterOf
      <2>2. CASE a.rev > b.rev
            BY <1>1, <2>2
      <2>3. CASE b.rev > a.rev
            BY <1>1, <2>3
      <2>4. CASE ~(a.rev > b.rev) /\ ~(b.rev > a.rev)
            BY <1>1, <2>1, <2>4
      <2> QED BY <2>2, <2>3, <2>4
<1>3. v \in Nat
      BY <1>1, LaterOf
<1>4. m = [run |-> f, cleared |-> cleared, rev |-> v]
      BY DEF mergeHistoryEnvelopes
<1> HIDE DEF cleared, v, m
<1>5. f \in [Runs -> Copy]
      <2> SUFFICES ASSUME NEW r \in Runs
                   PROVE  applyTombstone(
                             mergeConcurrentRunCopies(b.run[r], a.run[r]),
                             cleared) \in Copy
          OBVIOUS
      <2>1. mergeConcurrentRunCopies(b.run[r], a.run[r]) \in Copy
            BY <1>1, MergeOfCopies DEF MergedFrom
      <2> QED BY <1>2, <2>1, TombstoneOf
<1>6. m \in History
      <2> HIDE DEF f
      <2> QED BY <1>2, <1>3, <1>4, <1>5 DEF History
<1>7. m.run = f /\ m.cleared = cleared
      BY <1>4
<1>8. \A r \in Runs :
          m.run[r] = applyTombstone(
              mergeConcurrentRunCopies(b.run[r], a.run[r]), m.cleared)
      BY <1>7
<1> QED BY <1>2, <1>6, <1>7, <1>8 DEF m

\* What a history h is after a step that changes a copy only for its lease or
\* to say that the outcome is unknown.
Aged(h, g) ==
    /\ h \in History
    /\ h.cleared = g.cleared
    /\ \A r \in Runs :
          \/ Like(h.run[r], g.run[r])
          \/ /\ IsActive(g.run[r]) /\ h.run[r].status = "unknown"
             /\ h.run[r].updated = g.run[r].updated
             /\ h.run[r].data = g.run[r].data /\ h.run[r].refs = g.run[r].refs

\* reclaimExpiredLeases ages a history.
LEMMA ReclaimAges ==
    ASSUME NEW g \in History
    PROVE  Aged(reclaimExpiredLeases(g), g)
<1> DEFINE late(r) == IsActive(g.run[r]) /\ now - g.run[r].beat >= Expiry
           c(r) == IF late(r)
                   THEN [g.run[r] EXCEPT !.status = "unknown", !.owner = NoTab,
                                         !.beat = 0]
                   ELSE g.run[r]
           f == [r \in Runs |-> c(r)]
<1>1. ASSUME NEW r \in Runs
      PROVE  /\ c(r) \in Copy
             /\ \/ Like(c(r), g.run[r])
                \/ /\ IsActive(g.run[r]) /\ c(r).status = "unknown"
                   /\ c(r).updated = g.run[r].updated
                   /\ c(r).data = g.run[r].data /\ c(r).refs = g.run[r].refs
      <2>1. PICK d \in Copy : d = g.run[r]
            BY HistoryFields
      <2>2. CASE late(r)
            <3>1. d \in ActiveCopy /\ IsActive(d)
                  BY <2>1, <2>2, CopyKinds
            <3>2. c(r) = [d EXCEPT !.status = "unknown", !.owner = NoTab,
                                   !.beat = 0]
                  BY <2>1, <2>2
            <3> HIDE DEF c, late
            <3>3. /\ c(r) \in IdleCopy /\ c(r).status = "unknown"
                  /\ c(r).updated = d.updated /\ c(r).data = d.data
                  /\ c(r).refs = d.refs
                  BY <3>1, <3>2 DEF ActiveCopy, IdleCopy
            <3> QED BY <2>1, <3>1, <3>3, KindsAreCopies
      <2>3. CASE ~late(r)
            BY <2>1, <2>3 DEF Like
      <2> QED BY <2>2, <2>3
<1>2. reclaimExpiredLeases(g) = [g EXCEPT !.run = f]
      BY DEF reclaimExpiredLeases
<1> HIDE DEF c
<1>3. f \in [Runs -> Copy]
      BY <1>1
<1>4. \A r \in Runs : f[r] = c(r)
      OBVIOUS
<1> HIDE DEF f
<1> QED BY <1>1, <1>2, <1>3, <1>4, HistoryWith DEF Aged

\* So does refreshHeartbeat.
LEMMA RefreshAges ==
    ASSUME NEW g \in History, NEW t \in Tabs, now \in Nat
    PROVE  /\ Aged(refreshHeartbeat(g, t), g)
           /\ \A r \in Runs : Like(refreshHeartbeat(g, t).run[r], g.run[r])
<1> DEFINE due(r) == /\ r = active[t]
                     /\ IsActive(g.run[r]) /\ g.run[r].owner = t
                     /\ 2 * (now - g.run[r].beat) >= Expiry
           c(r) == IF due(r) THEN [g.run[r] EXCEPT !.beat = now] ELSE g.run[r]
           f == [r \in Runs |-> c(r)]
<1>1. ASSUME NEW r \in Runs
      PROVE  c(r) \in Copy /\ Like(c(r), g.run[r])
      <2>1. PICK d \in Copy : d = g.run[r]
            BY HistoryFields
      <2>2. CASE due(r)
            <3>1. d \in ActiveCopy
                  BY <2>1, <2>2, CopyKinds
            <3>2. c(r) = [d EXCEPT !.beat = now]
                  BY <2>1, <2>2
            <3> HIDE DEF c, due
            <3>3. c(r) \in ActiveCopy /\ Like(c(r), d)
                  BY <3>1, <3>2 DEF ActiveCopy, Like
            <3> QED BY <2>1, <3>3, KindsAreCopies
      <2>3. CASE ~due(r)
            BY <2>1, <2>3 DEF Like
      <2> QED BY <2>2, <2>3
<1>2. refreshHeartbeat(g, t) = [g EXCEPT !.run = f]
      BY DEF refreshHeartbeat
<1> HIDE DEF c
<1>3. f \in [Runs -> Copy] /\ \A r \in Runs : f[r] = c(r)
      BY <1>1
<1> HIDE DEF f
<1> QED BY <1>1, <1>2, <1>3, HistoryWith DEF Aged

\* What localStorage gets of a history: every run, without what only lives in
\* memory.
LEMMA PersistOf ==
    ASSUME NEW g \in History
    PROVE  LET h == persistEnvelope(g)
           IN  /\ h \in History
               /\ h.cleared = g.cleared
               /\ \A r \in Runs :
                     /\ h.run[r].status = g.run[r].status
                     /\ h.run[r].updated = g.run[r].updated
                     /\ h.run[r].data # "b64" /\ h.run[r].refs # "held"
<1> DEFINE f == [r \in Runs |-> Persisted(g.run[r])]
<1>1. ASSUME NEW d \in Copy
      PROVE  /\ Persisted(d) \in Copy
             /\ Persisted(d).status = d.status
             /\ Persisted(d).updated = d.updated
             /\ Persisted(d).data # "b64" /\ Persisted(d).refs # "held"
      <2> DEFINE x == IF d.data = "b64" THEN "gone" ELSE d.data
                 y == IF d.refs = "held" THEN "stripped" ELSE d.refs
      <2>1. Persisted(d) = [d EXCEPT !.data = x, !.refs = y]
            BY DEF Persisted
      <2>2. x # "b64" /\ y # "held" /\ (IsActive(d) => x = "none")
            /\ x \in {"none", "url", "b64", "gone"}
            /\ y \in {"none", "held", "stripped"}
            BY CopyKinds DEF ActiveCopy
      <2> HIDE DEF x, y
      <2>3. CASE IsActive(d)
            <3>1. d \in ActiveCopy
                  BY <2>3, CopyKinds
            <3>2. Persisted(d) \in ActiveCopy
                  BY <2>1, <2>2, <2>3, <3>1 DEF ActiveCopy
            <3> QED BY <2>1, <2>2, <3>1, <3>2, KindsAreCopies DEF ActiveCopy
      <2>4. CASE ~IsActive(d)
            <3>1. d \in IdleCopy
                  BY <2>4, CopyKinds
            <3>2. Persisted(d) \in IdleCopy
                  BY <2>1, <2>2, <3>1 DEF IdleCopy
            <3> QED BY <2>1, <2>2, <3>1, <3>2, KindsAreCopies DEF IdleCopy
      <2> QED BY <2>3, <2>4
<1>2. f \in [Runs -> Copy]
      BY <1>1, HistoryFields
<1>3. persistEnvelope(g) = [g EXCEPT !.run = f]
      BY DEF persistEnvelope
<1>4. \A r \in Runs : f[r] = Persisted(g.run[r]) /\ g.run[r] \in Copy
      BY HistoryFields
<1> HIDE DEF f
<1>5. /\ persistEnvelope(g) \in History
      /\ persistEnvelope(g).cleared = g.cleared
      /\ persistEnvelope(g).run = f
      BY <1>2, <1>3, HistoryWith
<1> QED BY <1>1, <1>4, <1>5

(***************************************************************************)
(* The steps of the store.                                                 *)
(***************************************************************************)
\* What a step of tab t finds.
LEMMA StoreTypes ==
    ASSUME TypeOK, NEW t \in Tabs
    PROVE  /\ now \in Nat /\ disk \in History /\ mem[t] \in History
           /\ events[t] \in Seq(History)
           /\ events[t] # <<>> => /\ Head(events[t]) \in History
                                  /\ Tail(events[t]) \in Seq(History)
           /\ \A i \in DOMAIN events[t] : events[t][i] \in History
BY DEF TypeOK

\* Persist replaces the memory of the tab and nothing of the others.
LEMMA PersistEffect ==
    ASSUME TypeOK, NEW t \in Tabs, NEW h \in History, Persist(t, h)
    PROVE  /\ mem' \in [Tabs -> History] /\ writing' \subseteq Tabs
           /\ mem'[t] = h
           /\ \A u \in Tabs : u # t => mem'[u] = mem[u]
           /\ \A u \in Tabs : u # t => (u \in writing' <=> u \in writing)
           /\ writing \subseteq writing'
           /\ persistEnvelope(h) # disk => t \in writing'
           /\ persistEnvelope(h) = disk => writing' = writing
BY DEF TypeOK, Persist

\* What a mutation of the store leaves in memory: its result, merged with
\* what localStorage holds.
LEMMA SetAndPersistEffect ==
    ASSUME TypeOK, NEW t \in Tabs, NEW g \in History, SetAndPersist(t, g)
    PROVE  /\ mergeHistoryEnvelopes(disk, g) \in History
           /\ Persist(t, mergeHistoryEnvelopes(disk, g))
           /\ UNCHANGED <<disk, events>>
BY StoreTypes, MergeOfHistories DEF SetAndPersist

\* What the history of the tab is when it starts the run.
Started(t, r, refs) ==
    [mem[t] EXCEPT !.run[r] =
        [status |-> "running", updated |-> now, owner |-> t,
         beat |-> now, data |-> "none", refs |-> refs]]

\* A run that starts is active and has the time of its call.
LEMMA StartedOf ==
    ASSUME TypeOK, NEW t \in Tabs, NEW r \in Runs,
           NEW refs \in {"none", "held", "stripped"}
    PROVE  LET g == Started(t, r, refs)
           IN  /\ g \in History /\ g.cleared = mem[t].cleared
               /\ g.run[r].status = "running" /\ g.run[r].updated = now
               /\ g.run[r].data = "none"
               /\ \A q \in Runs : q # r => g.run[q] = mem[t].run[q]
<1> DEFINE c == [status |-> "running", updated |-> now, owner |-> t,
                 beat |-> now, data |-> "none", refs |-> refs]
           f == [mem[t].run EXCEPT ![r] = c]
<1>1. mem[t] \in History /\ now \in Nat /\ mem[t].run \in [Runs -> Copy]
      BY StoreTypes, HistoryFields
<1>2. c \in ActiveCopy
      BY <1>1 DEF ActiveCopy
<1>3. c \in Copy
      BY <1>2, KindsAreCopies
<1>4. c.status = "running" /\ c.updated = now /\ c.data = "none"
      OBVIOUS
<1>5. Started(t, r, refs) = [mem[t] EXCEPT !.run = f]
      BY DEF Started
<1> HIDE DEF c
<1>6. /\ f \in [Runs -> Copy] /\ f[r] = c
      /\ \A q \in Runs : q # r => f[q] = mem[t].run[q]
      BY <1>1, <1>3
<1> HIDE DEF f
<1> QED BY <1>1, <1>4, <1>5, <1>6, HistoryWith

\* g is h with the run r patched, if h has it, after the last Clear of h.
Updated(g, h, r, s, d) ==
    /\ g \in History /\ g.cleared = h.cleared
    /\ \A q \in Runs : q # r => g.run[q] = h.run[q]
    /\ h.run[r].status = "none" => g.run[r] = h.run[r]
    /\ h.run[r].status # "none" =>
           /\ g.run[r].status = s /\ g.run[r].data = d
           /\ now <= g.run[r].updated
           /\ h.cleared < g.run[r].updated

\* That is what updateRun does.
LEMMA UpdateOf ==
    ASSUME now \in Nat, NEW h \in History, NEW r \in Runs,
           NEW s \in {"complete", "error"},
           NEW d \in {"none", "url", "b64", "gone"}
    PROVE  Updated(updateRun(h, r, s, d), h, r, s, d)
<1> DEFINE n == IF now <= h.cleared THEN h.cleared + 1 ELSE now
           c == [h.run[r] EXCEPT !.status = s, !.owner = NoTab, !.beat = 0,
                                 !.data = d, !.updated = n]
           f == [h.run EXCEPT ![r] = c]
<1>1. h.cleared \in Nat /\ h.run \in [Runs -> Copy] /\ h.run[r] \in Copy
      BY HistoryFields
<1>2. n \in Nat /\ now <= n /\ h.cleared < n
      BY <1>1
<1> HIDE DEF n
<1>3. PICK b \in Copy : b = h.run[r]
      BY <1>1
<1>4. /\ c \in IdleCopy /\ c.status = s /\ c.data = d /\ c.updated = n
      <2>1. c = [b EXCEPT !.status = s, !.owner = NoTab, !.beat = 0,
                          !.data = d, !.updated = n]
            BY <1>3
      <2> HIDE DEF c
      <2>2. b \in ActiveCopy \/ b \in IdleCopy
            BY CopyKinds
      <2> QED BY <1>2, <2>1, <2>2 DEF ActiveCopy, IdleCopy
<1>5. c \in Copy
      BY <1>4, KindsAreCopies
<1>6. h.run[r].status # "none" =>
          updateRun(h, r, s, d) = [h EXCEPT !.run = f]
      BY DEF updateRun, n
<1>7. h.run[r].status = "none" => updateRun(h, r, s, d) = h
      BY DEF updateRun
<1> HIDE DEF c
<1>8. /\ f \in [Runs -> Copy] /\ f[r] = c
      /\ \A q \in Runs : q # r => f[q] = h.run[q]
      BY <1>1, <1>5
<1> HIDE DEF f
<1>9. CASE h.run[r].status = "none"
      BY <1>7, <1>9 DEF Updated
<1>10. CASE h.run[r].status # "none"
      <2>1. PICK g : g = updateRun(h, r, s, d)
            OBVIOUS
      <2>2. g \in History /\ g.run = f /\ g.cleared = h.cleared
            <3>1. g = [h EXCEPT !.run = f]
                  BY <1>6, <1>10, <2>1
            <3>2. f \in [Runs -> Copy]
                  BY <1>8
            <3> QED BY <3>1, <3>2, HistoryWith
      <2>3. Updated(g, h, r, s, d)
            BY <1>2, <1>4, <1>8, <1>10, <2>2 DEF Updated
      <2> QED BY <2>1, <2>3
<1> QED BY <1>9, <1>10

\* The history that Finish merges.
Answered(t, r, outcome) ==
    IF Failure(outcome)
    THEN updateRun(mem[t], r, "error", mem[t].run[r].data)
    ELSE updateRun(mem[t], r, "complete", outcome)

\* The run is patched with what the call gave.
LEMMA AnsweredOf ==
    ASSUME TypeOK, NEW t \in Tabs, NEW r \in Runs, NEW outcome \in Outcomes
    PROVE  Updated(Answered(t, r, outcome), mem[t], r,
                   IF Failure(outcome) THEN "error" ELSE "complete",
                   IF Failure(outcome) THEN mem[t].run[r].data ELSE outcome)
<1>1. now \in Nat /\ mem[t] \in History /\ mem[t].run[r] \in Copy
      BY StoreTypes, HistoryFields
<1>2. mem[t].run[r].data \in {"none", "url", "b64", "gone"}
      BY <1>1, CopyKinds
<1>3. outcome \in {"url", "b64", "error", "lost"}
      BY BoundAssumption
<1>4. CASE Failure(outcome)
      <2>1. Updated(updateRun(mem[t], r, "error", mem[t].run[r].data),
                    mem[t], r, "error", mem[t].run[r].data)
            BY <1>1, <1>2, UpdateOf
      <2> QED BY <1>4, <2>1 DEF Answered
<1>5. CASE ~Failure(outcome)
      <2>1. outcome \in {"none", "url", "b64", "gone"}
            BY <1>3, <1>5 DEF Failure
      <2>2. Updated(updateRun(mem[t], r, "complete", outcome),
                    mem[t], r, "complete", outcome)
            BY <1>1, <2>1, UpdateOf
      <2> QED BY <1>5, <2>2 DEF Answered
<1> QED BY <1>4, <1>5

\* The history that Clear merges.
Wiped(t) ==
    [run |-> [r \in Runs |-> IF IsActive(mem[t].run[r])
                             THEN mem[t].run[r] ELSE NoCopy],
     cleared |-> now,
     rev |-> mem[t].rev + 1]

\* Clear keeps the active runs.
LEMMA WipedOf ==
    ASSUME TypeOK, NEW t \in Tabs
    PROVE  /\ Wiped(t) \in History /\ Wiped(t).cleared = now
           /\ \A r \in Runs : Wiped(t).run[r] \in {mem[t].run[r], NoCopy}
<1> DEFINE f == [r \in Runs |-> IF IsActive(mem[t].run[r])
                                THEN mem[t].run[r] ELSE NoCopy]
<1>1. now \in Nat /\ mem[t].rev \in Nat /\ \A r \in Runs : mem[t].run[r] \in Copy
      BY StoreTypes, HistoryFields
<1>2. f \in [Runs -> Copy]
      BY <1>1, NoCopyTyped
<1>3. \A r \in Runs : f[r] \in {mem[t].run[r], NoCopy}
      OBVIOUS
<1> HIDE DEF f
<1>4. Wiped(t) = [run |-> f, cleared |-> now, rev |-> mem[t].rev + 1]
      BY DEF Wiped, f
<1>5. mem[t].rev + 1 \in Nat
      BY <1>1
<1> QED BY <1>1, <1>2, <1>3, <1>4, <1>5 DEF History

\* The empty history is one.
LEMMA EmptyTyped ==
    /\ EmptyHistory \in History /\ EmptyHistory.cleared = 0
    /\ \A r \in Runs : EmptyHistory.run[r] = NoCopy
BY NoCopyTyped DEF EmptyHistory, History

(***************************************************************************)
(* Types.                                                                  *)
(***************************************************************************)
\* A tab takes a new history; the rest keeps its type.
LEMMA TypedStep ==
    ASSUME TypeOK, NEW t \in Tabs, NEW h \in History, Persist(t, h),
           UNCHANGED <<now, disk, moves>>,
           events' \in [Tabs -> Seq(History)],
           page' \in [Tabs -> {"open", "left", "shut"}],
           active' \in [Tabs -> Runs \cup {NoRun}],
           call' \in [Runs -> Call],
           clears' \in 0..MaxClears,
           retried' \subseteq Runs,
           swept' \in [Runs -> {"no", "active", "ended"}],
           torn' \in BOOLEAN
    PROVE  TypeOK'
BY PersistEffect DEF TypeOK

\* Delivering an event takes a history and the event.
DeliverResult(t) ==
    mergeHistoryEnvelopes(disk,
        reclaimExpiredLeases(mergeHistoryEnvelopes(mem[t], Head(events[t]))))

\* The ticker takes a history.
BeatResult(t) ==
    refreshHeartbeat(mergeHistoryEnvelopes(disk, reclaimExpiredLeases(mem[t])),
                     t)

\* The histories that tabs take are histories.
LEMMA ResultsTyped ==
    ASSUME TypeOK, NEW t \in Tabs
    PROVE  /\ events[t] # <<>> => DeliverResult(t) \in History
           /\ BeatResult(t) \in History
           /\ reclaimExpiredLeases(disk) \in History
<1>1. now \in Nat /\ disk \in History /\ mem[t] \in History
      BY StoreTypes
<1>2. ASSUME NEW g \in History
      PROVE  /\ reclaimExpiredLeases(g) \in History
             /\ refreshHeartbeat(g, t) \in History
             /\ mergeHistoryEnvelopes(disk, g) \in History
             /\ mergeHistoryEnvelopes(mem[t], g) \in History
      BY <1>1, ReclaimAges, RefreshAges, MergeOfHistories DEF Aged
<1>3. ASSUME events[t] # <<>>
      PROVE  DeliverResult(t) \in History
      <2>1. Head(events[t]) \in History
            BY <1>3, StoreTypes
      <2> QED BY <1>2, <2>1 DEF DeliverResult
<1> QED BY <1>1, <1>2, <1>3 DEF BeatResult

\* What the actions do to the store, in those terms.
LEMMA ActionResults ==
    ASSUME TypeOK, NEW t \in Tabs
    PROVE  /\ Deliver(t) => Persist(t, DeliverResult(t)) /\ UNCHANGED disk
                            /\ DeliverResult(t) \in History
           /\ Beat(t) => Persist(t, BeatResult(t))
                         /\ UNCHANGED <<disk, events>>
                         /\ BeatResult(t) \in History
           /\ Mount(t) => Persist(t, reclaimExpiredLeases(disk))
                          /\ UNCHANGED <<disk, events>>
                          /\ reclaimExpiredLeases(disk) \in History
           /\ Clear(t) => LET h == mergeHistoryEnvelopes(disk, Wiped(t))
                          IN  /\ Persist(t, h) /\ UNCHANGED <<disk, events>>
                              /\ h \in History
           /\ \A r \in Runs, refs \in {"none", "held", "stripped"} :
                StartGeneration(t, r, refs) =>
                  LET h == mergeHistoryEnvelopes(disk, Started(t, r, refs))
                  IN  /\ Persist(t, h) /\ UNCHANGED <<disk, events>>
                      /\ h \in History
           /\ \A r \in Runs, outcome \in Outcomes :
                Finish(t, r, outcome) =>
                  LET h == mergeHistoryEnvelopes(disk, Answered(t, r, outcome))
                  IN  /\ Persist(t, h) /\ UNCHANGED <<disk, events>>
                      /\ h \in History
<1>1. Deliver(t) => Persist(t, DeliverResult(t)) /\ UNCHANGED disk
                    /\ DeliverResult(t) \in History
      BY ResultsTyped DEF Deliver, DeliverResult
<1>2. Beat(t) => Persist(t, BeatResult(t)) /\ UNCHANGED <<disk, events>>
                 /\ BeatResult(t) \in History
      BY ResultsTyped DEF Beat, BeatResult
<1>3. Mount(t) => Persist(t, reclaimExpiredLeases(disk))
                  /\ UNCHANGED <<disk, events>>
                  /\ reclaimExpiredLeases(disk) \in History
      BY ResultsTyped DEF Mount
<1>4. Clear(t) => LET h == mergeHistoryEnvelopes(disk, Wiped(t))
                  IN  /\ Persist(t, h) /\ UNCHANGED <<disk, events>>
                      /\ h \in History
      <2>1. Clear(t) => SetAndPersist(t, Wiped(t))
            BY DEF Clear, Wiped
      <2> QED BY <2>1, WipedOf, SetAndPersistEffect
<1>5. ASSUME NEW r \in Runs, NEW refs \in {"none", "held", "stripped"},
             StartGeneration(t, r, refs)
      PROVE  LET h == mergeHistoryEnvelopes(disk, Started(t, r, refs))
             IN  /\ Persist(t, h) /\ UNCHANGED <<disk, events>>
                 /\ h \in History
      <2>1. SetAndPersist(t, Started(t, r, refs))
            BY <1>5 DEF StartGeneration, Started
      <2> QED BY <2>1, StartedOf, SetAndPersistEffect
<1>6. ASSUME NEW r \in Runs, NEW outcome \in Outcomes, Finish(t, r, outcome)
      PROVE  LET h == mergeHistoryEnvelopes(disk, Answered(t, r, outcome))
             IN  /\ Persist(t, h) /\ UNCHANGED <<disk, events>>
                 /\ h \in History
      <2>1. SetAndPersist(t, Answered(t, r, outcome))
            BY <1>6 DEF Finish, Answered
      <2> QED BY <2>1, AnsweredOf, SetAndPersistEffect DEF Updated
<1> QED BY <1>1, <1>2, <1>3, <1>4, <1>5, <1>6

\* A retry takes over the reference images of its source.
LEMMA RetryRefs ==
    ASSUME TypeOK, NEW t \in Tabs, NEW source \in Runs
    PROVE  mem[t].run[source].refs \in {"none", "held", "stripped"}
BY StoreTypes, HistoryFields, CopyKinds

\* A function with one value replaced.
LEMMA Replaced ==
    ASSUME NEW S, NEW T, NEW f \in [S -> T], NEW x \in S, NEW v \in T, NEW g,
           g = [f EXCEPT ![x] = v]
    PROVE  g \in [S -> T] /\ g[x] = v /\ \A y \in S : y # x => g[y] = f[y]
OBVIOUS

\* What a call is when it is sent.
LEMMA SentCall ==
    ASSUME TypeOK, NEW t \in Tabs, NEW r \in Runs,
           call' = [call EXCEPT ![r] = [state |-> "sent", by |-> t, at |-> now,
                                        paid |-> FALSE, upstream |-> TRUE]]
    PROVE  /\ call' \in [Runs -> Call]
           /\ call'[r].state = "sent" /\ call'[r].by = t
           /\ call'[r].at = now /\ call'[r].paid = FALSE
           /\ \A q \in Runs : q # r => call'[q] = call[q]
<1> DEFINE v == [state |-> "sent", by |-> t, at |-> now, paid |-> FALSE,
                 upstream |-> TRUE]
<1>1. v \in Call /\ v.state = "sent" /\ v.by = t /\ v.at = now /\ v.paid = FALSE
      BY DEF TypeOK, Call
<1> HIDE DEF v
<1>2. call' = [call EXCEPT ![r] = v]
      BY DEF v
<1>3. call \in [Runs -> Call]
      BY DEF TypeOK
<1>4. /\ call' \in [Runs -> Call] /\ call'[r] = v
      /\ \A q \in Runs : q # r => call'[q] = call[q]
      BY ONLY <1>1, <1>2, <1>3, r \in Runs, Replaced
<1> QED BY <1>1, <1>4

\* What a call is when it is answered.
LEMMA AnsweredCall ==
    ASSUME TypeOK, NEW r \in Runs, NEW outcome,
           call' = [call EXCEPT ![r].state = "over",
                                ![r].paid = ~Failure(outcome),
                                ![r].upstream = outcome = "lost"]
    PROVE  /\ call' \in [Runs -> Call]
           /\ call'[r].state = "over" /\ call'[r].by = call[r].by
           /\ call'[r].at = call[r].at
           /\ call'[r].paid <=> ~Failure(outcome)
           /\ \A q \in Runs : q # r => call'[q] = call[q]
<1>1. PICK b \in BOOLEAN, w \in BOOLEAN :
          b = ~Failure(outcome) /\ w = (outcome = "lost")
      OBVIOUS
<1>2. call' = [call EXCEPT ![r] = [call[r] EXCEPT !.state = "over",
                                                  !.paid = b,
                                                  !.upstream = w]]
      BY <1>1 DEF TypeOK
<1>3. PICK c \in Call : c = call[r]
      BY DEF TypeOK
<1> DEFINE v == [c EXCEPT !.state = "over", !.paid = b, !.upstream = w]
<1>4. v \in Call /\ v.state = "over" /\ v.by = c.by /\ v.at = c.at /\ v.paid = b
      BY <1>3 DEF Call
<1> HIDE DEF v
<1>5. call' = [call EXCEPT ![r] = v]
      BY <1>2, <1>3 DEF v
<1>6. /\ call' \in [Runs -> Call] /\ call'[r] = v
      /\ \A q \in Runs : q # r => call'[q] = call[q]
      <2>1. call \in [Runs -> Call]
            BY DEF TypeOK
      <2> QED BY ONLY <1>4, <1>5, <2>1, r \in Runs, Replaced
<1> QED BY <1>1, <1>3, <1>4, <1>6

\* The calls of a tab that is shut have nobody who waits for them.
LEMMA OrphanedCall ==
    ASSUME TypeOK, NEW t \in Tabs, Shut(t)
    PROVE  /\ call' \in [Runs -> Call]
           /\ \A r \in Runs : /\ call'[r].state = call[r].state
                              /\ call'[r].at = call[r].at
                              /\ call'[r].paid = call[r].paid
                              /\ call'[r].by # t \/ t \notin Tabs
                              /\ call'[r].by \in {call[r].by, NoTab}
<1> DEFINE v(r) == IF call[r].by = t THEN [call[r] EXCEPT !.by = NoTab]
                   ELSE call[r]
<1>1. ASSUME NEW r \in Runs
      PROVE  /\ v(r) \in Call
             /\ v(r).state = call[r].state /\ v(r).at = call[r].at
             /\ v(r).paid = call[r].paid /\ v(r).by # t
             /\ v(r).by \in {call[r].by, NoTab}
      <2>1. PICK c \in Call : c = call[r]
            BY DEF TypeOK
      <2>2. NoTab # t
            BY BoundAssumption
      <2> QED BY <2>1, <2>2 DEF Call
<1>2. call' = [r \in Runs |-> v(r)]
      BY DEF Shut
<1> HIDE DEF v
<1> QED BY <1>1, <1>2

\* StartGeneration, of a form or of a retry.
LEMMA StartTyped ==
    ASSUME TypeOK, NEW t \in Tabs, NEW r \in Runs,
           NEW refs \in {"none", "held", "stripped"},
           StartGeneration(t, r, refs), retried' \subseteq Runs
    PROVE  TypeOK'
<1>1. PICK h \in History : Persist(t, h)
      BY ActionResults
<1>2. UNCHANGED <<disk, events>>
      BY ActionResults
<1>3. call' \in [Runs -> Call]
      BY SentCall DEF StartGeneration
<1>4. active' \in [Tabs -> Runs \cup {NoRun}]
      BY DEF StartGeneration, TypeOK
<1> QED BY <1>1, <1>2, <1>3, <1>4, TypedStep DEF StartGeneration, TypeOK

\* Generate and Retry.
LEMMA GenerateTyped ==
    ASSUME TypeOK, NEW t \in Tabs, NEW r \in Runs
    PROVE  /\ \A refs \in RefKinds : Generate(t, r, refs) => TypeOK'
           /\ \A source \in Runs : Retry(t, source, r) => TypeOK'
<1>1. ASSUME NEW refs \in RefKinds, Generate(t, r, refs)
      PROVE  TypeOK'
      <2>1. refs \in {"none", "held", "stripped"}
            BY BoundAssumption
      <2>2. retried' \subseteq Runs
            BY <1>1 DEF Generate, TypeOK
      <2> QED BY <1>1, <2>1, <2>2, StartTyped DEF Generate
<1>2. ASSUME NEW source \in Runs, Retry(t, source, r)
      PROVE  TypeOK'
      <2>1. retried' \subseteq Runs
            BY <1>2 DEF Retry, TypeOK
      <2> QED BY <1>2, <2>1, RetryRefs, StartTyped DEF Retry
<1> QED BY <1>1, <1>2

\* Deliver and Beat.
LEMMA DeliverTyped ==
    ASSUME TypeOK, NEW t \in Tabs, Deliver(t)
    PROVE  /\ TypeOK'
           /\ events' \in [Tabs -> Seq(History)]
           /\ events'[t] = Tail(events[t])
           /\ \A u \in Tabs : u # t => events'[u] = events[u]
<1>1. Persist(t, DeliverResult(t)) /\ DeliverResult(t) \in History
      /\ UNCHANGED disk
      BY ActionResults
<1>2. Tail(events[t]) \in Seq(History)
      BY StoreTypes DEF Deliver
<1>3. /\ events' \in [Tabs -> Seq(History)]
      /\ events'[t] = Tail(events[t])
      /\ \A u \in Tabs : u # t => events'[u] = events[u]
      BY <1>2 DEF Deliver, TypeOK
<1> QED BY <1>1, <1>3, TypedStep DEF Deliver, TypeOK

\* The ticker.
LEMMA BeatTyped ==
    ASSUME TypeOK, NEW t \in Tabs, Beat(t)
    PROVE  TypeOK'
<1>1. Persist(t, BeatResult(t)) /\ BeatResult(t) \in History
      /\ UNCHANGED <<disk, events>>
      BY ActionResults
<1> QED BY <1>1, TypedStep DEF Beat, TypeOK

\* Clear.
LEMMA ClearTyped ==
    ASSUME TypeOK, NEW t \in Tabs, Clear(t)
    PROVE  /\ TypeOK'
           /\ \A r \in Runs : /\ call[r].state # "none" => swept'[r] # "no"
                              /\ call[r].state = "none" => swept'[r] = swept[r]
<1>1. PICK h \in History : Persist(t, h)
      BY ActionResults
<1>2. UNCHANGED <<disk, events>>
      BY ActionResults
<1> DEFINE s(r) == IF call[r].state = "none" THEN swept[r]
                   ELSE IF \/ call[r].state = "over"
                           \/ mem[t].run[r].status = "unknown"
                           \/ swept[r] = "ended"
                        THEN "ended" ELSE "active"
<1>3. ASSUME NEW r \in Runs
      PROVE  /\ s(r) \in {"no", "active", "ended"}
             /\ call[r].state # "none" => s(r) # "no"
             /\ call[r].state = "none" => s(r) = swept[r]
      <2>1. swept[r] \in {"no", "active", "ended"}
            BY DEF TypeOK
      <2> QED BY <2>1
<1>4. swept' = [r \in Runs |-> s(r)]
      BY DEF Clear
<1> HIDE DEF s
<1>5. /\ swept' \in [Runs -> {"no", "active", "ended"}]
      /\ \A r \in Runs : swept'[r] = s(r)
      BY <1>3, <1>4
<1>6. clears' \in 0..MaxClears
      BY BoundAssumption DEF Clear, TypeOK
<1>7. TypeOK'
      BY <1>1, <1>2, <1>5, <1>6, TypedStep DEF Clear, TypeOK
<1> QED BY <1>3, <1>5, <1>7

\* The answer of a call.
LEMMA FinishTyped ==
    ASSUME TypeOK, NEW t \in Tabs, NEW r \in Runs, NEW outcome \in Outcomes,
           Finish(t, r, outcome)
    PROVE  TypeOK'
<1>1. PICK h \in History : Persist(t, h)
      BY ActionResults
<1>2. UNCHANGED <<disk, events>>
      BY ActionResults
<1>3. call' \in [Runs -> Call]
      BY AnsweredCall DEF Finish
<1>4. active' \in [Tabs -> Runs \cup {NoRun}]
      BY DEF Finish, TypeOK
<1>5. torn' \in BOOLEAN
      BY DEF Finish, TypeOK
<1> QED BY <1>1, <1>2, <1>3, <1>4, <1>5, TypedStep DEF Finish, TypeOK

\* The write to localStorage.
LEMMA FlushTyped ==
    ASSUME TypeOK, NEW t \in Tabs, Flush(t)
    PROVE  /\ TypeOK'
           /\ disk' = persistEnvelope(mem[t]) /\ disk' \in History
           /\ events' \in [Tabs -> Seq(History)]
           /\ \A u \in Tabs : events'[u] =
                  IF disk' # disk /\ u # t /\ page[u] = "open"
                  THEN Append(events[u], disk') ELSE events[u]
<1> DEFINE h == persistEnvelope(mem[t])
<1>1. h \in History
      BY StoreTypes, PersistOf
<1>2. /\ disk' = h
      /\ events' = [u \in Tabs |->
                       IF h # disk /\ u # t /\ page[u] = "open"
                       THEN Append(events[u], h) ELSE events[u]]
      BY DEF Flush
<1> HIDE DEF h
<1>3. \A u \in Tabs : events[u] \in Seq(History)
                      /\ Append(events[u], h) \in Seq(History)
      BY <1>1 DEF TypeOK
<1>4. /\ events' \in [Tabs -> Seq(History)]
      /\ \A u \in Tabs : events'[u] =
             IF h # disk /\ u # t /\ page[u] = "open"
             THEN Append(events[u], h) ELSE events[u]
      BY <1>2, <1>3
<1>5. TypeOK'
      BY <1>1, <1>2, <1>4 DEF Flush, TypeOK
<1> QED BY <1>1, <1>2, <1>4, <1>5 DEF h

\* Pages that come and go.
LEMMA MovesTyped ==
    ASSUME TypeOK, NEW t \in Tabs
    PROVE  /\ Leave(t) => TypeOK'
           /\ Shut(t) => TypeOK'
           /\ Mount(t) => TypeOK'
<1>1. Move => moves' \in 0..MaxMoves
      BY BoundAssumption DEF Move, TypeOK
<1>2. Detach(t) => /\ events' \in [Tabs -> Seq(History)]
                   /\ active' \in [Tabs -> Runs \cup {NoRun}]
                   /\ torn' \in BOOLEAN
      <2>1. <<>> \in Seq(History)
            OBVIOUS
      <2> QED BY <2>1 DEF Detach, TypeOK
<1>3. ASSUME Leave(t)
      PROVE  TypeOK'
      BY <1>1, <1>2, <1>3 DEF Leave, TypeOK
<1>4. ASSUME Shut(t)
      PROVE  TypeOK'
      <2>1. call' \in [Runs -> Call]
            BY <1>4, OrphanedCall
      <2>2. mem' \in [Tabs -> History]
            BY <1>4, EmptyTyped DEF Shut, TypeOK
      <2> QED BY <1>1, <1>2, <1>4, <2>1, <2>2 DEF Shut, TypeOK
<1>5. ASSUME Mount(t)
      PROVE  TypeOK'
      <2>1. PICK h \in History : Persist(t, h)
            BY <1>5, ActionResults
      <2>2. page' \in [Tabs -> {"open", "left", "shut"}]
            BY <1>5 DEF Mount, TypeOK
      <2>3. torn' \in BOOLEAN
            BY <1>5 DEF Mount, TypeOK
      <2> QED BY <1>5, <2>1, <2>2, <2>3, TypedStep DEF Mount, TypeOK
<1> QED BY <1>3, <1>4, <1>5

\* There is nothing at first.
LEMMA InitTyped == Init => TypeOK
<1> SUFFICES ASSUME Init PROVE TypeOK
    OBVIOUS
<1>1. NoCall \in Call
      BY DEF NoCall, Call
<1>2. [t \in Tabs |-> <<>>] \in [Tabs -> Seq(History)]
      OBVIOUS
<1>3. disk \in History /\ mem \in [Tabs -> History]
      BY EmptyTyped DEF Init
<1>4. call \in [Runs -> Call] /\ events \in [Tabs -> Seq(History)]
      BY <1>1, <1>2 DEF Init
<1>5. clears \in 0..MaxClears /\ moves \in 0..MaxMoves /\ now \in Nat
      BY BoundAssumption DEF Init
<1> QED BY <1>3, <1>4, <1>5 DEF Init, TypeOK

\* Every step keeps the types.
LEMMA StepTyped == TypeOK /\ [Next]_vars => TypeOK'
<1> SUFFICES ASSUME TypeOK, [Next]_vars PROVE TypeOK'
    OBVIOUS
<1>1. CASE Tick
      BY <1>1 DEF Tick, TypeOK
<1>2. CASE UNCHANGED vars
      BY <1>2 DEF vars, TypeOK
<1> QED BY <1>1, <1>2, FlushTyped, DeliverTyped, BeatTyped, ClearTyped,
           MovesTyped, GenerateTyped, FinishTyped DEF Next

\* In localStorage, in every tab and in every event a run has a lease exactly
\* while it is active, and everything else has its type.
THEOREM TypeCorrect == Spec => []TypeOK
BY InitTyped, StepTyped, PTL DEF Spec

(***************************************************************************)
(* Quiet tabs agree with localStorage.                                     *)
(***************************************************************************)
\* A tab that takes a new history agrees with localStorage or will write.
LEMMA AgreeStep ==
    ASSUME TypeOK, QuietTabsAgree, NEW t \in Tabs, NEW h \in History,
           Persist(t, h), UNCHANGED disk,
           \A u \in Tabs : u # t => events'[u] = events[u],
           \A u \in Tabs : u # t => page'[u] = page[u]
    PROVE  QuietTabsAgree'
<1> SUFFICES ASSUME NEW u \in Tabs, page'[u] = "open", Quiet(u)'
             PROVE  persistEnvelope(mem'[u]) = disk
    BY DEF QuietTabsAgree, persistEnvelope, Persisted
<1>1. CASE u = t
      BY <1>1, PersistEffect DEF Quiet
<1>2. CASE u # t
      BY <1>2, PersistEffect DEF Quiet, QuietTabsAgree
<1> QED BY <1>1, <1>2

\* A write changes localStorage for the pages that will hear of it.
LEMMA AgreeFlush ==
    ASSUME TypeOK, QuietTabsAgree, NEW t \in Tabs, Flush(t)
    PROVE  QuietTabsAgree'
<1> SUFFICES ASSUME NEW u \in Tabs, page'[u] = "open", Quiet(u)'
             PROVE  persistEnvelope(mem'[u]) = disk'
    BY DEF QuietTabsAgree, persistEnvelope, Persisted
<1>1. UNCHANGED <<mem, page>> /\ writing' = writing \ {t}
      BY DEF Flush
<1>2. CASE u = t
      BY <1>1, <1>2, FlushTyped
<1>3. CASE u # t
      <2>1. events[u] \in Seq(History) /\ disk' \in History
            BY FlushTyped, StoreTypes
      <2>2. Append(events[u], disk') # <<>>
            BY <2>1
      <2>3. disk' = disk /\ events'[u] = events[u]
            BY <1>1, <1>3, <2>2, FlushTyped DEF Quiet
      <2>4. Quiet(u)
            BY <1>1, <1>3, <2>3 DEF Quiet
      <2> QED BY <1>1, <2>3, <2>4 DEF QuietTabsAgree
<1> QED BY <1>2, <1>3

\* A page that goes takes its memory with it.
LEMMA AgreeDetach ==
    ASSUME TypeOK, QuietTabsAgree, NEW t \in Tabs,
           events' = [events EXCEPT ![t] = <<>>], page'[t] # "open",
           \A u \in Tabs : u # t => page'[u] = page[u] /\ mem'[u] = mem[u],
           \A u \in Tabs : u # t => (u \in writing' <=> u \in writing),
           UNCHANGED disk
    PROVE  QuietTabsAgree'
<1> SUFFICES ASSUME NEW u \in Tabs, page'[u] = "open", Quiet(u)'
             PROVE  persistEnvelope(mem'[u]) = disk
    BY DEF QuietTabsAgree, persistEnvelope, Persisted
<1>1. u # t /\ events'[u] = events[u]
      BY DEF TypeOK
<1> QED BY <1>1 DEF Quiet, QuietTabsAgree

\* Every step keeps the agreement.
LEMMA AgreeNext == TypeOK /\ QuietTabsAgree /\ [Next]_vars => QuietTabsAgree'
<1> SUFFICES ASSUME TypeOK, QuietTabsAgree, [Next]_vars PROVE QuietTabsAgree'
    OBVIOUS
<1>1. CASE Tick \/ UNCHANGED vars
      <2>1. UNCHANGED <<disk, mem, writing, events, page>>
            BY <1>1 DEF Tick, vars
      <2> QED BY <2>1 DEF QuietTabsAgree, Quiet, persistEnvelope, Persisted
<1>2. ASSUME NEW t \in Tabs, Deliver(t)
      PROVE  QuietTabsAgree'
      BY <1>2, ActionResults, DeliverTyped, AgreeStep DEF Deliver
<1>3. ASSUME NEW t \in Tabs, Beat(t)
      PROVE  QuietTabsAgree'
      BY <1>3, ActionResults, AgreeStep DEF Beat
<1>4. ASSUME NEW t \in Tabs, Clear(t)
      PROVE  QuietTabsAgree'
      <2>1. PICK h \in History : Persist(t, h) /\ UNCHANGED <<disk, events>>
            BY <1>4, ActionResults
      <2> QED BY <1>4, <2>1, AgreeStep DEF Clear
<1>5. ASSUME NEW t \in Tabs, NEW r \in Runs,
             NEW refs \in {"none", "held", "stripped"},
             StartGeneration(t, r, refs)
      PROVE  QuietTabsAgree'
      <2>1. PICK h \in History : Persist(t, h) /\ UNCHANGED <<disk, events>>
            BY <1>5, ActionResults
      <2> QED BY <1>5, <2>1, AgreeStep DEF StartGeneration
<1>6. ASSUME NEW t \in Tabs, NEW r \in Runs, NEW refs \in RefKinds,
             Generate(t, r, refs)
      PROVE  QuietTabsAgree'
      <2>1. refs \in {"none", "held", "stripped"}
            BY BoundAssumption
      <2> QED BY <1>5, <1>6, <2>1 DEF Generate
<1>7. ASSUME NEW t \in Tabs, NEW r \in Runs, NEW source \in Runs,
             Retry(t, source, r)
      PROVE  QuietTabsAgree'
      BY <1>5, <1>7, RetryRefs DEF Retry
<1>8. ASSUME NEW t \in Tabs, NEW r \in Runs, NEW outcome \in Outcomes,
             Finish(t, r, outcome)
      PROVE  QuietTabsAgree'
      <2>1. PICK h \in History : Persist(t, h) /\ UNCHANGED <<disk, events>>
            BY <1>8, ActionResults
      <2> QED BY <1>8, <2>1, AgreeStep DEF Finish
<1>9. ASSUME NEW t \in Tabs, Mount(t)
      PROVE  QuietTabsAgree'
      <2>1. \A u \in Tabs : u # t => page'[u] = page[u]
            BY <1>9 DEF Mount, TypeOK
      <2> QED BY <1>9, <2>1, ActionResults, AgreeStep
<1>10. ASSUME NEW t \in Tabs, Leave(t) \/ Shut(t)
      PROVE  QuietTabsAgree'
      <2>1. /\ events' = [events EXCEPT ![t] = <<>>] /\ UNCHANGED disk
            /\ page'[t] # "open"
            /\ \A u \in Tabs : u # t => page'[u] = page[u] /\ mem'[u] = mem[u]
            /\ \A u \in Tabs : u # t => (u \in writing' <=> u \in writing)
            BY <1>10 DEF Leave, Shut, Detach, TypeOK
      <2> QED BY <2>1, AgreeDetach
<1> QED BY <1>1, <1>2, <1>3, <1>4, <1>6, <1>7, <1>8, <1>9, <1>10, AgreeFlush
        DEF Next

\* All copies are empty at first.
LEMMA AgreeInit == Init => QuietTabsAgree
<1> SUFFICES ASSUME Init, NEW t \in Tabs
             PROVE  persistEnvelope(EmptyHistory) = EmptyHistory
    BY DEF Init, QuietTabsAgree
<1>1. Persisted(NoCopy) = NoCopy
      <2>1. NoCopy.data = "none" /\ NoCopy.refs = "none"
            BY NoCopyTyped
      <2> QED BY <2>1 DEF Persisted, NoCopy
<1>2. [r \in Runs |-> Persisted(EmptyHistory.run[r])] = [r \in Runs |-> NoCopy]
      BY <1>1, EmptyTyped
<1> QED BY <1>2 DEF persistEnvelope, EmptyHistory

\* A mounted page that has handled its events shows what localStorage holds,
\* however many tabs overwrite each other's writes.
THEOREM QuietTabsShowStorage == Spec => []QuietTabsAgree
BY TypeCorrect, AgreeInit, AgreeNext, PTL DEF Spec

(***************************************************************************)
(* Every copy of a run tells of its one call: whoever knows how the call   *)
(* ended knows the same outcome with the same time.                        *)
(***************************************************************************)
\* Some tab, localStorage or a storage event holds h.
Known(h) ==
    \/ h = disk
    \/ \E t \in Tabs : h = mem[t]
    \/ \E t \in Tabs : \E i \in DOMAIN events[t] : h = events[t][i]

\* How a call ended: what its first answer wrote.
Result == [status : {"complete", "error"}, updated : Nat]

\* The copy c is one of the run whose call is cl and ends with res.
Follows(cl, res, c) ==
    /\ c.status # "none" => cl.state # "none"
    /\ c.status \in {"running", "unknown"} => c.updated = cl.at
    /\ c.status \in {"complete", "error"} =>
           /\ cl.state = "over"
           /\ c.status = res.status /\ c.updated = res.updated
    /\ c.data = "b64" => c.status = "complete"

\* Every copy of r is a copy of that run.
Traced(r, res) ==
    /\ call[r].at <= now
    /\ call[r].state = "over" => call[r].at < res.updated
    /\ call[r].paid => call[r].state = "over" /\ res.status = "complete"
    /\ \A h \in History : Known(h) => Follows(call[r], res, h.run[r])

\* localStorage and the events have nothing that only lives in memory.
Stored(h) == \A r \in Runs : h.run[r].data # "b64" /\ h.run[r].refs # "held"

OnlyStored ==
    /\ Stored(disk)
    /\ \A t \in Tabs : \A i \in DOMAIN events[t] : Stored(events[t][i])

TraceInv == \A r \in Runs : \E res \in Result : Traced(r, res)

\* What a tab and localStorage hold, and the next event, is known.
LEMMA KnownHere ==
    ASSUME TypeOK, NEW t \in Tabs
    PROVE  /\ Known(disk) /\ Known(mem[t])
           /\ events[t] # <<>> => /\ Head(events[t]) \in History
                                  /\ Known(Head(events[t]))
                                  /\ 1 \in DOMAIN events[t]
                                  /\ Head(events[t]) = events[t][1]
<1>1. Known(disk) /\ Known(mem[t])
      BY DEF Known
<1>2. ASSUME events[t] # <<>>
      PROVE  /\ Head(events[t]) \in History
             /\ 1 \in DOMAIN events[t]
             /\ Head(events[t]) = events[t][1]
      BY <1>2, StoreTypes
<1> QED BY <1>1, <1>2 DEF Known

\* A tab that takes a history makes no other one known.
LEMMA KnownPersist ==
    ASSUME TypeOK, NEW t \in Tabs, NEW h \in History, Persist(t, h),
           UNCHANGED <<disk, events>>
    PROVE  \A g : Known(g)' => Known(g) \/ g = h
BY PersistEffect DEF Known

\* The events that are left were events before.
LEMMA KnownTail ==
    ASSUME TypeOK, NEW t \in Tabs, events[t] # <<>>
    PROVE  \A i \in DOMAIN Tail(events[t]) :
               /\ i + 1 \in DOMAIN events[t]
               /\ Tail(events[t])[i] = events[t][i + 1]
BY StoreTypes

\* Delivering an event makes only the merged history known.
LEMMA KnownDeliver ==
    ASSUME TypeOK, NEW t \in Tabs, Deliver(t)
    PROVE  \A g : Known(g)' => Known(g) \/ g = DeliverResult(t)
<1> SUFFICES ASSUME NEW g, Known(g)'
             PROVE  Known(g) \/ g = DeliverResult(t)
    OBVIOUS
<1>1. Persist(t, DeliverResult(t)) /\ UNCHANGED disk
      /\ DeliverResult(t) \in History
      BY ActionResults
<1>2. CASE g = disk' \/ \E u \in Tabs : g = mem'[u]
      BY <1>1, <1>2, PersistEffect DEF Known
<1>3. ASSUME NEW u \in Tabs, NEW i \in DOMAIN events'[u], g = events'[u][i]
      PROVE  Known(g)
      <2>1. CASE u = t
            <3>1. events'[t] = Tail(events[t]) /\ events[t] # <<>>
                  BY DeliverTyped DEF Deliver
            <3> QED BY <1>3, <2>1, <3>1, KnownTail DEF Known
      <2>2. CASE u # t
            BY <1>3, <2>2, DeliverTyped DEF Known
      <2> QED BY <2>1, <2>2
<1> QED BY <1>2, <1>3 DEF Known

\* A write makes only what it writes known.
LEMMA KnownFlush ==
    ASSUME TypeOK, NEW t \in Tabs, Flush(t)
    PROVE  \A g : Known(g)' => Known(g) \/ g = disk'
<1> SUFFICES ASSUME NEW g, Known(g)' PROVE Known(g) \/ g = disk'
    OBVIOUS
<1>1. UNCHANGED mem
      BY DEF Flush
<1>2. CASE g = disk' \/ \E u \in Tabs : g = mem'[u]
      BY <1>1, <1>2 DEF Known
<1>3. ASSUME NEW u \in Tabs, NEW i \in DOMAIN events'[u], g = events'[u][i]
      PROVE  Known(g) \/ g = disk'
      <2>1. events'[u] = events[u] \/ events'[u] = Append(events[u], disk')
            BY FlushTyped
      <2>2. events[u] \in Seq(History) /\ disk' \in History
            BY StoreTypes, FlushTyped
      <2>3. \A j \in DOMAIN Append(events[u], disk') :
                \/ Append(events[u], disk')[j] = disk'
                \/ /\ j \in DOMAIN events[u]
                   /\ Append(events[u], disk')[j] = events[u][j]
            BY <2>2
      <2> QED BY <1>3, <2>1, <2>3 DEF Known
<1> QED BY <1>2, <1>3 DEF Known

\* A page that goes leaves an empty memory at most.
LEMMA KnownDetach ==
    ASSUME TypeOK, NEW t \in Tabs, Leave(t) \/ Shut(t)
    PROVE  \A g : Known(g)' => Known(g) \/ g = EmptyHistory
<1>1. events' = [events EXCEPT ![t] = <<>>] /\ UNCHANGED disk
      BY DEF Leave, Shut, Detach
<1>2. \A u \in Tabs : mem'[u] = mem[u] \/ mem'[u] = EmptyHistory
      BY DEF Leave, Shut, TypeOK
<1>3. \A u \in Tabs : events'[u] = events[u] \/ events'[u] = <<>>
      BY <1>1 DEF TypeOK
<1>4. DOMAIN <<>> = {}
      OBVIOUS
<1> QED BY <1>1, <1>2, <1>3, <1>4 DEF Known

\* What a copy tells of the call does not depend on its lease, and no copy
\* tells nothing wrong.
LEMMA FollowsLike ==
    ASSUME NEW cl, NEW res, NEW c, NEW d, Like(d, c), Follows(cl, res, c)
    PROVE  Follows(cl, res, d)
BY DEF Follows, Like

\* Nor does a run that the history does not have.
LEMMA FollowsNone ==
    ASSUME NEW cl, NEW res
    PROVE  Follows(cl, res, NoCopy)
BY NoCopyTyped DEF Follows

\* Merging copies of one run gives a copy of that run.
LEMMA FollowsMerge ==
    ASSUME NEW a \in History, NEW b \in History, NEW r \in Runs,
           NEW cl, NEW res,
           Follows(cl, res, a.run[r]), Follows(cl, res, b.run[r])
    PROVE  Follows(cl, res, mergeHistoryEnvelopes(a, b).run[r])
<1>1. PICK m : m = mergeHistoryEnvelopes(a, b)
      OBVIOUS
<1>2. PICK c \in Copy : c = mergeConcurrentRunCopies(b.run[r], a.run[r])
      BY MergeOfCopies, HistoryFields DEF MergedFrom
<1>3. Like(c, a.run[r]) \/ Like(c, b.run[r])
      BY <1>2, MergeOfCopies, HistoryFields DEF MergedFrom
<1>4. Follows(cl, res, c)
      BY <1>3, FollowsLike
<1>5. m.run[r] = applyTombstone(c, m.cleared) /\ m.cleared \in Nat
      BY <1>1, <1>2, MergeOfHistories, HistoryFields
<1>6. m.run[r] \in {c, NoCopy}
      BY <1>5, TombstoneOf
<1> QED BY <1>1, <1>4, <1>6, FollowsNone

\* So does giving a lease up or renewing it.
LEMMA FollowsAged ==
    ASSUME NEW g \in History, NEW h, Aged(h, g), NEW r \in Runs,
           NEW cl, NEW res, Follows(cl, res, g.run[r])
    PROVE  Follows(cl, res, h.run[r])
<1>1. CASE Like(h.run[r], g.run[r])
      BY <1>1, FollowsLike
<1>2. CASE /\ IsActive(g.run[r]) /\ h.run[r].status = "unknown"
           /\ h.run[r].updated = g.run[r].updated
           /\ h.run[r].data = g.run[r].data
      BY <1>2 DEF Follows, IsActive
<1> QED BY <1>1, <1>2 DEF Aged

\* And so does writing it to localStorage.
LEMMA FollowsPersist ==
    ASSUME NEW g \in History, NEW r \in Runs, NEW cl, NEW res,
           Follows(cl, res, g.run[r])
    PROVE  Follows(cl, res, persistEnvelope(g).run[r])
BY PersistOf DEF Follows

\* What the browser does by itself keeps every run's copies.
LEMMA FollowsResults ==
    ASSUME TypeOK, NEW t \in Tabs, NEW r \in Runs, NEW cl, NEW res,
           \A h \in History : Known(h) => Follows(cl, res, h.run[r])
    PROVE  /\ events[t] # <<>> => Follows(cl, res, DeliverResult(t).run[r])
           /\ Follows(cl, res, BeatResult(t).run[r])
           /\ Follows(cl, res, reclaimExpiredLeases(disk).run[r])
           /\ Follows(cl, res, persistEnvelope(mem[t]).run[r])
           /\ Follows(cl, res, mergeHistoryEnvelopes(disk, Wiped(t)).run[r])
           /\ \A g \in History :
                 Follows(cl, res, g.run[r]) =>
                     Follows(cl, res, mergeHistoryEnvelopes(disk, g).run[r])
<1>1. now \in Nat /\ disk \in History /\ mem[t] \in History
      BY StoreTypes
<1>2. Follows(cl, res, disk.run[r]) /\ Follows(cl, res, mem[t].run[r])
      BY <1>1, KnownHere
<1>3. \A g \in History : Aged(reclaimExpiredLeases(g), g)
                         /\ reclaimExpiredLeases(g) \in History
      BY ReclaimAges DEF Aged
<1>4. \A g \in History : Follows(cl, res, g.run[r]) =>
          /\ Follows(cl, res, mergeHistoryEnvelopes(disk, g).run[r])
          /\ Follows(cl, res, reclaimExpiredLeases(g).run[r])
      BY <1>1, <1>2, <1>3, FollowsMerge, FollowsAged
<1>5. ASSUME events[t] # <<>>
      PROVE  Follows(cl, res, DeliverResult(t).run[r])
      <2>1. Head(events[t]) \in History
            /\ Follows(cl, res, Head(events[t]).run[r])
            BY <1>5, KnownHere
      <2>2. PICK m \in History : m = mergeHistoryEnvelopes(mem[t], Head(events[t]))
            BY <1>1, <2>1, MergeOfHistories
      <2>3. Follows(cl, res, m.run[r])
            BY <1>1, <1>2, <2>1, <2>2, FollowsMerge
      <2> QED BY <1>3, <1>4, <2>2, <2>3 DEF DeliverResult
<1>6. Follows(cl, res, BeatResult(t).run[r])
      <2>1. PICK m \in History :
                m = mergeHistoryEnvelopes(disk, reclaimExpiredLeases(mem[t]))
            BY <1>1, <1>3, MergeOfHistories
      <2>2. Follows(cl, res, m.run[r])
            BY <1>1, <1>2, <1>3, <1>4, <2>1
      <2>3. Aged(refreshHeartbeat(m, t), m)
            BY <1>1, RefreshAges
      <2> QED BY <2>1, <2>2, <2>3, FollowsAged DEF BeatResult
<1>7. Follows(cl, res, Wiped(t).run[r]) /\ Wiped(t) \in History
      BY <1>2, FollowsNone, WipedOf
<1>8. Follows(cl, res, persistEnvelope(mem[t]).run[r])
      BY <1>1, <1>2, FollowsPersist
<1> QED BY <1>1, <1>2, <1>4, <1>5, <1>6, <1>7, <1>8

\* A step that makes only such histories known and leaves the call alone
\* keeps the trace of a run.
LEMMA TracedStep ==
    ASSUME TypeOK, NEW r \in Runs, NEW res \in Result, Traced(r, res),
           now' \in Nat, now <= now',
           call'[r].state = call[r].state, call'[r].at = call[r].at,
           call'[r].paid = call[r].paid,
           NEW h, Follows(call[r], res, h.run[r]),
           \A g : Known(g)' => Known(g) \/ g = h
    PROVE  Traced(r, res)'
<1>1. call[r].at \in Nat /\ now \in Nat /\ res.updated \in Nat
      BY DEF TypeOK, Call, Result
<1>2. ASSUME NEW g \in History, Known(g)'
      PROVE  Follows(call'[r], res, g.run[r])
      BY <1>2 DEF Traced, Follows
<1>3. \A g \in History' : Known(g)' => Follows(call'[r], res, g.run[r])
      BY <1>2 DEF History, Copy
<1> QED BY <1>1, <1>3 DEF Traced, Follows

\* Starting a run, of a form or of a retry.
LEMMA TracedStart ==
    ASSUME TypeOK, NEW t \in Tabs, NEW q \in Runs,
           NEW refs \in {"none", "held", "stripped"},
           StartGeneration(t, q, refs),
           NEW r \in Runs, NEW res \in Result, Traced(r, res)
    PROVE  Traced(r, res)'
<1>1. PICK h \in History : /\ h = mergeHistoryEnvelopes(disk, Started(t, q, refs))
                           /\ Persist(t, h) /\ UNCHANGED <<disk, events>>
      BY ActionResults
<1>2. \A g : Known(g)' => Known(g) \/ g = h
      BY <1>1, KnownPersist
<1>3. PICK s \in History : s = Started(t, q, refs)
      BY StartedOf
<1>4. UNCHANGED now /\ now \in Nat
      BY StoreTypes DEF StartGeneration
<1>5. /\ call'[q].state = "sent" /\ call'[q].at = now /\ call'[q].paid = FALSE
      /\ \A p \in Runs : p # q => call'[p] = call[p]
      BY SentCall DEF StartGeneration
<1>6. \A g \in History : Known(g) => Follows(call[r], res, g.run[r])
      BY DEF Traced
<1>7. CASE r # q
      <2>1. Follows(call[r], res, s.run[r])
            BY <1>3, <1>6, <1>7, StartedOf, StoreTypes, KnownHere
      <2>2. Follows(call[r], res, h.run[r])
            BY <1>1, <1>3, <1>6, <2>1, FollowsResults
      <2> QED BY <1>2, <1>4, <1>5, <1>7, <2>2, TracedStep
<1>8. CASE r = q
      <2>1. \A g \in History : Known(g) => Follows(call'[r], res, g.run[r])
            <3>1. call[r].state = "none"
                  BY <1>8 DEF StartGeneration
            <3> QED BY <1>6, <3>1 DEF Follows
      <2>2. Follows(call'[r], res, s.run[r])
            BY <1>3, <1>5, <1>8, StartedOf DEF Follows
      <2>3. Follows(call'[r], res, h.run[r])
            BY <1>1, <1>3, <2>1, <2>2, FollowsResults
      <2>4. \A g \in History' : Known(g)' => Follows(call'[r], res, g.run[r])
            BY <1>2, <2>1, <2>3 DEF History, Copy
      <2> QED BY <1>4, <1>5, <1>8, <2>4 DEF Traced, Follows
<1> QED BY <1>7, <1>8

\* The answer decides what the copies of its run may say.
LEMMA TracedFinish ==
    ASSUME TypeOK, NEW t \in Tabs, NEW q \in Runs, NEW outcome \in Outcomes,
           Finish(t, q, outcome),
           NEW r \in Runs, NEW res \in Result, Traced(r, res)
    PROVE  \E end \in Result : Traced(r, end)'
<1>1. PICK h \in History :
          /\ h = mergeHistoryEnvelopes(disk, Answered(t, q, outcome))
          /\ Persist(t, h) /\ UNCHANGED <<disk, events>>
      BY ActionResults
<1>2. \A g : Known(g)' => Known(g) \/ g = h
      BY <1>1, KnownPersist
<1> DEFINE st == IF Failure(outcome) THEN "error" ELSE "complete"
           dt == IF Failure(outcome) THEN mem[t].run[q].data ELSE outcome
<1>3. PICK a \in History : a = Answered(t, q, outcome)
                           /\ Updated(a, mem[t], q, st, dt)
      BY AnsweredOf DEF Updated
<1>4. UNCHANGED now /\ now \in Nat /\ call[q].state = "sent" /\ call[q].at < now
      /\ call[q].at \in Nat
      BY StoreTypes DEF Finish, TypeOK, Call
<1>5. /\ call'[q].state = "over" /\ call'[q].at = call[q].at
      /\ call'[q].paid <=> ~Failure(outcome)
      /\ \A p \in Runs : p # q => call'[p] = call[p]
      BY AnsweredCall DEF Finish
<1>6. \A g \in History : Known(g) => Follows(call[r], res, g.run[r])
      BY DEF Traced
<1>7. Follows(call[r], res, mem[t].run[r])
      BY <1>6, StoreTypes, KnownHere
<1>8. CASE r # q
      <2>1. Follows(call[r], res, a.run[r])
            BY <1>3, <1>7, <1>8 DEF Updated
      <2>2. Follows(call[r], res, h.run[r])
            BY <1>1, <1>3, <1>6, <2>1, FollowsResults
      <2>3. Traced(r, res)'
            BY <1>2, <1>4, <1>5, <1>8, <2>2, TracedStep
      <2> QED BY <2>3
<1>9. CASE r = q
      <2>1. a.run[r].updated \in Nat
            BY HistoryFields, CopyKinds
      <2> DEFINE n == IF mem[t].run[r].status = "none" THEN now
                      ELSE a.run[r].updated
      <2>2. n \in Nat /\ now <= n
            BY <1>3, <1>4, <1>9, <2>1 DEF Updated
      <2>3. st \in {"complete", "error"}
            OBVIOUS
      <2>4. PICK end \in Result : end.status = st /\ end.updated = n
            <3> HIDE DEF st, n
            <3>1. [status |-> st, updated |-> n] \in Result
                  BY <2>2, <2>3 DEF Result
            <3> QED BY <3>1
      <2>5. \A g \in History : Known(g) => Follows(call'[r], end, g.run[r])
            BY <1>4, <1>5, <1>6, <1>9 DEF Follows
      <2>6. Follows(call'[r], end, a.run[r])
            <3>1. CASE mem[t].run[r].status = "none"
                  BY <1>3, <1>9, <2>5, <3>1, StoreTypes, KnownHere DEF Updated
            <3>2. CASE mem[t].run[r].status # "none"
                  <4>1. /\ a.run[r].status = st /\ a.run[r].data = dt
                        /\ a.run[r].updated = n
                        BY <1>3, <1>9, <3>2 DEF Updated
                  <4>2. Failure(outcome) => dt # "b64"
                        BY <1>4, <1>7, <1>9 DEF Follows
                  <4>3. st = "error" <=> Failure(outcome)
                        OBVIOUS
                  <4> HIDE DEF st, dt, n
                  <4> QED BY <1>5, <1>9, <2>3, <2>4, <4>1, <4>2, <4>3 DEF Follows
            <3> QED BY <3>1, <3>2
      <2>7. Follows(call'[r], end, h.run[r])
            BY <1>1, <1>3, <2>5, <2>6, FollowsResults
      <2>8. \A g \in History' : Known(g)' => Follows(call'[r], end, g.run[r])
            BY <1>2, <2>5, <2>7 DEF History, Copy
      <2>9. call'[r].at < end.updated /\ call'[r].at <= now'
            <3> HIDE DEF n, st
            <3> QED BY <1>4, <1>5, <1>9, <2>2, <2>4
      <2>10. call'[r].paid => call'[r].state = "over" /\ end.status = "complete"
            BY <1>5, <1>9, <2>4
      <2>11. Traced(r, end)'
            BY <2>8, <2>9, <2>10 DEF Traced, Follows
      <2> QED BY <2>4, <2>11
<1> QED BY <1>8, <1>9

\* Every step keeps every run's trace.
LEMMA TraceNext == TypeOK /\ TraceInv /\ [Next]_vars => TraceInv'
<1> SUFFICES ASSUME TypeOK, TraceInv, [Next]_vars, NEW r \in Runs
             PROVE  \E end \in Result : Traced(r, end)'
    BY DEF TraceInv, Result
<1>1. PICK res \in Result : Traced(r, res)
      BY DEF TraceInv
<1>2. \A g \in History : Known(g) => Follows(call[r], res, g.run[r])
      BY <1>1 DEF Traced
<1>3. now \in Nat /\ disk \in History /\ Follows(call[r], res, disk.run[r])
      BY <1>2 DEF TypeOK, Known
<1>4. CASE Tick \/ UNCHANGED vars
      <2>1. /\ call' = call /\ now' \in Nat /\ now <= now'
            /\ UNCHANGED <<disk, mem, events>>
            BY <1>3, <1>4 DEF Tick, vars
      <2>2. \A g : Known(g)' => Known(g) \/ g = disk
            BY <2>1 DEF Known
      <2> QED BY <1>1, <1>3, <2>1, <2>2, TracedStep
<1>5. ASSUME NEW t \in Tabs, Flush(t)
      PROVE  Traced(r, res)'
      <2>1. Follows(call[r], res, disk'.run[r])
            BY <1>2, <1>5, FollowsResults, FlushTyped
      <2> QED BY <1>1, <1>3, <1>5, <2>1, KnownFlush, TracedStep DEF Flush
<1>6. ASSUME NEW t \in Tabs, Deliver(t)
      PROVE  Traced(r, res)'
      <2>1. Follows(call[r], res, DeliverResult(t).run[r])
            BY <1>2, <1>6, FollowsResults DEF Deliver
      <2>2. UNCHANGED <<now, call>>
            BY <1>6 DEF Deliver
      <2>3. \A g : Known(g)' => Known(g) \/ g = DeliverResult(t)
            BY <1>6, KnownDeliver
      <2> QED BY <1>1, <1>3, <2>1, <2>2, <2>3, TracedStep
<1>7. ASSUME NEW t \in Tabs, Beat(t)
      PROVE  Traced(r, res)'
      <2>1. Follows(call[r], res, BeatResult(t).run[r])
            BY <1>2, FollowsResults
      <2>2. \A g : Known(g)' => Known(g) \/ g = BeatResult(t)
            BY <1>7, ActionResults, KnownPersist
      <2> QED BY <1>1, <1>3, <1>7, <2>1, <2>2, TracedStep DEF Beat
<1>8. ASSUME NEW t \in Tabs, Mount(t)
      PROVE  Traced(r, res)'
      <2>1. Follows(call[r], res, reclaimExpiredLeases(disk).run[r])
            BY <1>2, <1>8, FollowsResults
      <2>2. \A g : Known(g)' => Known(g) \/ g = reclaimExpiredLeases(disk)
            BY <1>8, ActionResults, KnownPersist
      <2> QED BY <1>1, <1>3, <1>8, <2>1, <2>2, TracedStep DEF Mount
<1>9. ASSUME NEW t \in Tabs, Clear(t)
      PROVE  Traced(r, res)'
      <2>1. PICK h \in History : /\ h = mergeHistoryEnvelopes(disk, Wiped(t))
                                 /\ Persist(t, h) /\ UNCHANGED <<disk, events>>
            BY <1>9, ActionResults
      <2>2. Follows(call[r], res, h.run[r])
            BY <1>2, <2>1, FollowsResults
      <2>3. \A g : Known(g)' => Known(g) \/ g = h
            BY <2>1, KnownPersist
      <2> QED BY <1>1, <1>3, <1>9, <2>2, <2>3, TracedStep DEF Clear
<1>10. ASSUME NEW t \in Tabs, Leave(t) \/ Shut(t)
      PROVE  Traced(r, res)'
      <2>1. /\ call'[r].state = call[r].state /\ call'[r].at = call[r].at
            /\ call'[r].paid = call[r].paid /\ UNCHANGED now
            BY <1>10, OrphanedCall DEF Leave, Shut
      <2>2. Follows(call[r], res, EmptyHistory.run[r])
            BY EmptyTyped, FollowsNone
      <2> QED BY <1>1, <1>3, <1>10, <2>1, <2>2, KnownDetach, TracedStep
<1>11. ASSUME NEW t \in Tabs, NEW q \in Runs, NEW refs \in RefKinds,
              Generate(t, q, refs)
      PROVE  Traced(r, res)'
      <2>1. refs \in {"none", "held", "stripped"}
            BY BoundAssumption
      <2> QED BY <1>1, <1>11, <2>1, TracedStart DEF Generate
<1>12. ASSUME NEW t \in Tabs, NEW q \in Runs, NEW source \in Runs,
              Retry(t, source, q)
      PROVE  Traced(r, res)'
      BY <1>1, <1>12, RetryRefs, TracedStart DEF Retry
<1>13. ASSUME NEW t \in Tabs, NEW q \in Runs, NEW outcome \in Outcomes,
              Finish(t, q, outcome)
      PROVE  \E end \in Result : Traced(r, end)'
      BY <1>1, <1>13, TracedFinish
<1> QED BY <1>4, <1>5, <1>6, <1>7, <1>8, <1>9, <1>10, <1>11, <1>12, <1>13
        DEF Next

\* At first nobody has a copy of any run.
LEMMA TraceInit == Init => TraceInv
<1> SUFFICES ASSUME Init, NEW r \in Runs
             PROVE  \E res \in Result : Traced(r, res)
    BY DEF TraceInv
<1>1. PICK res \in Result : TRUE
      <2>1. [status |-> "error", updated |-> 0] \in Result
            BY DEF Result
      <2> QED BY <2>1
<1>2. call[r] = NoCall /\ now = 1
      BY DEF Init
<1>3. \A h : Known(h) => h = EmptyHistory
      <2>1. DOMAIN <<>> = {}
            OBVIOUS
      <2> QED BY <2>1 DEF Init, Known
<1>4. Follows(call[r], res, EmptyHistory.run[r])
      BY EmptyTyped, FollowsNone
<1>5. \A h \in History : Known(h) => Follows(call[r], res, h.run[r])
      BY <1>3, <1>4
<1>6. call[r].at = 0 /\ call[r].state = "none" /\ ~call[r].paid
      BY <1>2 DEF NoCall
<1>7. Traced(r, res)
      BY <1>2, <1>5, <1>6 DEF Traced
<1> QED BY <1>1, <1>7

\* Every copy of a run anywhere tells of its one call: it has the time of the
\* call while nobody knows the outcome, and everybody who knows the outcome
\* knows the same one.
THEOREM CopiesTellOneStory == Spec => []TraceInv
BY TypeCorrect, TraceInit, TraceNext, PTL DEF Spec

\* Only a failed run is offered for a retry, and a copy says "error" only when
\* the page was told so of its one call: no expired lease, reload or stale copy
\* makes a run replayable while the answer is on its way, or after images came.
THEOREM NothingReplayedEarly == Spec => ReplayOnlyAfterFailure
<1>1. ASSUME TypeOK, TraceInv, [Next]_vars, NEW r \in Runs,
             r \in retried' \ retried
      PROVE  call[r].state = "over" /\ ~call[r].paid
      <2>1. PICK t \in Tabs : MayRetry(t, mem[t].run[r])
            <3>1. ~UNCHANGED retried
                  BY <1>1
            <3>2. ~Tick /\ ~UNCHANGED vars
                  BY <3>1 DEF Tick, vars
            <3>3. ASSUME NEW u \in Tabs
                  PROVE  /\ ~Flush(u) /\ ~Deliver(u) /\ ~Beat(u) /\ ~Clear(u)
                         /\ ~Leave(u) /\ ~Shut(u) /\ ~Mount(u)
                  <4>1. ~Flush(u) /\ ~Deliver(u)
                        BY <3>1 DEF Flush, Deliver
                  <4>2. ~Beat(u)
                        BY <3>1 DEF Beat
                  <4>3. ~Clear(u)
                        BY <3>1 DEF Clear
                  <4>4. ~Leave(u) /\ ~Shut(u) /\ ~Mount(u)
                        BY <3>1 DEF Leave, Shut, Mount
                  <4> QED BY <4>1, <4>2, <4>3, <4>4
            <3>4. ASSUME NEW u \in Tabs, NEW q \in Runs
                  PROVE  /\ \A refs \in RefKinds : ~Generate(u, q, refs)
                         /\ \A outcome \in Outcomes : ~Finish(u, q, outcome)
                  BY <3>1 DEF Generate, Finish
            <3>5. PICK u \in Tabs, q \in Runs, source \in Runs :
                        Retry(u, source, q)
                  BY <1>1, <3>2, <3>3, <3>4 DEF Next
            <3>6. r = source
                  BY <1>1, <3>5 DEF Retry
            <3> QED BY <3>5, <3>6 DEF Retry
      <2>2. PICK res \in Result : Traced(r, res)
            BY <1>1 DEF TraceInv
      <2>3. Follows(call[r], res, mem[t].run[r])
            BY <1>1, <2>2, StoreTypes, KnownHere DEF Traced
      <2>4. call[r].paid => res.status = "complete"
            BY <2>2 DEF Traced
      <2>5. mem[t].run[r].status = "error"
            BY <2>1 DEF MayRetry, showRetry
      <2> QED BY <2>3, <2>4, <2>5 DEF Follows
<1>2. TypeOK /\ TraceInv /\ [Next]_vars =>
          [\A r \in Runs : r \in retried' \ retried =>
              call[r].state = "over" /\ ~call[r].paid]_vars
      BY <1>1
<1> QED BY <1>2, TypeCorrect, CopiesTellOneStory, PTL
        DEF Spec, ReplayOnlyAfterFailure

(***************************************************************************)
(* What a tab has seen of a run that ended it keeps.                       *)
(***************************************************************************)
\* h has the run as ended, with a time not before n, and knows of no Clear
\* that late.
Keeps(h, r, n) ==
    Ended(h.run[r]) /\ n <= h.run[r].updated /\ h.cleared < n

\* A merge with a history that knows of no such Clear either keeps it.
LEMMA KeepsMerge ==
    ASSUME NEW a \in History, NEW b \in History, NEW r \in Runs, NEW n \in Nat,
           Keeps(a, r, n) \/ Keeps(b, r, n), a.cleared < n, b.cleared < n
    PROVE  Keeps(mergeHistoryEnvelopes(a, b), r, n)
<1>1. PICK p \in Copy, i \in Copy : p = b.run[r] /\ i = a.run[r]
      BY HistoryFields
<1>2. PICK m : m = mergeHistoryEnvelopes(a, b)
      OBVIOUS
<1>3. PICK c \in Copy : c = mergeConcurrentRunCopies(p, i) /\ MergedFrom(c, p, i)
      BY MergeOfCopies DEF MergedFrom
<1>4. m \in History /\ m.cleared < n /\ m.run[r] = applyTombstone(c, m.cleared)
      BY <1>1, <1>2, <1>3, MergeOfHistories
<1>5. /\ p.updated \in Nat /\ i.updated \in Nat /\ c.updated \in Nat
      /\ m.cleared \in Nat
      /\ p.status \in {"none", "running", "complete", "error", "unknown"}
      /\ i.status \in {"none", "running", "complete", "error", "unknown"}
      BY <1>4, CopyKinds, HistoryFields
<1>6. \A d, e : Like(d, e) /\ Ended(e) /\ n <= e.updated =>
                    Ended(d) /\ n <= d.updated
      BY DEF Like, Ended
<1>7. Ended(c) /\ n <= c.updated
      <2>1. CASE Ended(p) /\ Ended(i)
            <3>1. Like(c, Preferred(p, i))
                  BY <1>3, <2>1 DEF MergedFrom
            <3>2. Ended(Preferred(p, i)) /\ n <= Preferred(p, i).updated
                  <4>1. PICK d \in {p, i} : /\ d = Preferred(p, i)
                                            /\ p.updated <= d.updated
                                            /\ i.updated <= d.updated
                        BY PreferredOf
                  <4>2. n <= p.updated \/ n <= i.updated
                        BY <1>1 DEF Keeps
                  <4> QED BY <1>5, <2>1, <4>1, <4>2
            <3> QED BY <1>6, <3>1, <3>2
      <2>2. CASE Ended(p) /\ ~Ended(i)
            <3>1. Like(c, p)
                  BY <1>3, <1>5, <2>2 DEF MergedFrom, IsActive, Ended
            <3> QED BY <1>1, <1>6, <2>2, <3>1 DEF Keeps
      <2>3. CASE ~Ended(p)
            <3>1. Ended(i) /\ n <= i.updated
                  BY <1>1, <2>3 DEF Keeps
            <3>2. Like(c, i)
                  BY <1>3, <1>5, <2>3, <3>1 DEF MergedFrom, IsActive, Ended
            <3> QED BY <1>6, <3>1, <3>2
      <2> QED BY <2>1, <2>2, <2>3
<1>8. m.run[r] = c
      BY <1>4, <1>5, <1>7, TombstoneOf
<1> QED BY <1>2, <1>4, <1>7, <1>8 DEF Keeps

\* So does looking at the leases.
LEMMA KeepsAged ==
    ASSUME NEW g \in History, NEW h, Aged(h, g), NEW r \in Runs, NEW n \in Nat,
           Keeps(g, r, n)
    PROVE  Keeps(h, r, n)
BY DEF Aged, Keeps, Ended, IsActive, Like

\* What the browser does by itself keeps it.
LEMMA KeepsResults ==
    ASSUME TypeOK, NEW t \in Tabs, NEW r \in Runs, NEW n \in Nat,
           Keeps(mem[t], r, n), disk.cleared < n
    PROVE  /\ events[t] # <<>> /\ Head(events[t]).cleared < n =>
                  Keeps(DeliverResult(t), r, n)
           /\ Keeps(BeatResult(t), r, n)
<1>1. now \in Nat /\ disk \in History /\ mem[t] \in History /\ mem[t].cleared < n
      BY StoreTypes DEF Keeps
<1>2. \A g \in History : Keeps(g, r, n) =>
          /\ reclaimExpiredLeases(g) \in History
          /\ Keeps(reclaimExpiredLeases(g), r, n)
      BY ReclaimAges, KeepsAged DEF Aged
<1>3. \A g \in History : Keeps(g, r, n) =>
          /\ mergeHistoryEnvelopes(disk, g) \in History
          /\ Keeps(mergeHistoryEnvelopes(disk, g), r, n)
      <2> SUFFICES ASSUME NEW g \in History, Keeps(g, r, n)
                   PROVE  /\ mergeHistoryEnvelopes(disk, g) \in History
                          /\ Keeps(mergeHistoryEnvelopes(disk, g), r, n)
          OBVIOUS
      <2>1. g.cleared < n
            BY DEF Keeps
      <2> QED BY <1>1, <2>1, KeepsMerge, MergeOfHistories
<1>4. ASSUME events[t] # <<>>, Head(events[t]).cleared < n
      PROVE  Keeps(DeliverResult(t), r, n)
      <2>1. Head(events[t]) \in History
            BY <1>4, StoreTypes
      <2>2. PICK m \in History : m = mergeHistoryEnvelopes(mem[t], Head(events[t]))
            BY <1>1, <2>1, MergeOfHistories
      <2>3. Keeps(m, r, n)
            BY <1>1, <1>4, <2>1, <2>2, KeepsMerge
      <2>4. PICK g \in History : g = reclaimExpiredLeases(m) /\ Keeps(g, r, n)
            BY <1>2, <2>3
      <2> QED BY <1>3, <2>2, <2>4 DEF DeliverResult
<1>5. Keeps(BeatResult(t), r, n)
      <2>1. PICK g \in History :
                g = reclaimExpiredLeases(mem[t]) /\ Keeps(g, r, n)
            BY <1>1, <1>2
      <2>2. PICK m \in History :
                m = mergeHistoryEnvelopes(disk, g) /\ Keeps(m, r, n)
            BY <1>3, <2>1
      <2>3. Aged(refreshHeartbeat(m, t), m)
            BY <1>1, RefreshAges
      <2> QED BY <2>1, <2>2, <2>3, KeepsAged DEF BeatResult
<1> QED BY <1>4, <1>5

\* The steps that leave a tab's memory, or that the property excepts.
LEMMA OwnSteps ==
    ASSUME TypeOK, [Next]_vars, NEW t \in Tabs,
           page'[t] = page[t], clears' = clears
    PROVE  \/ mem'[t] = mem[t]
           \/ Deliver(t) \/ Beat(t)
           \/ \E q \in Runs, refs \in {"none", "held", "stripped"} :
                 StartGeneration(t, q, refs)
           \/ \E q \in Runs, outcome \in Outcomes : Finish(t, q, outcome)
<1> SUFFICES ASSUME mem'[t] # mem[t]
             PROVE  \/ Deliver(t) \/ Beat(t)
                    \/ \E q \in Runs, refs \in {"none", "held", "stripped"} :
                          StartGeneration(t, q, refs)
                    \/ \E q \in Runs, outcome \in Outcomes : Finish(t, q, outcome)
    OBVIOUS
<1>1. ~(Tick \/ UNCHANGED vars)
      BY DEF Tick, vars
<1>2. ASSUME NEW u \in Tabs, Flush(u) \/ Clear(u) \/ Leave(u)
      PROVE  FALSE
      BY <1>2 DEF Flush, Clear, Leave, TypeOK
<1>3. ASSUME NEW u \in Tabs, Shut(u)
      PROVE  FALSE
      BY <1>3 DEF Shut, TypeOK
<1>4. ASSUME NEW u \in Tabs, Mount(u)
      PROVE  FALSE
      <2>1. u # t
            BY <1>4 DEF Mount, TypeOK
      <2> QED BY <1>4, <2>1, ActionResults, PersistEffect
<1>5. ASSUME NEW u \in Tabs, Deliver(u) \/ Beat(u)
      PROVE  u = t
      BY <1>5, ActionResults, PersistEffect
<1>6. ASSUME NEW u \in Tabs, NEW q \in Runs,
             NEW refs \in {"none", "held", "stripped"}, StartGeneration(u, q, refs)
      PROVE  u = t
      <2>1. PICK h \in History : Persist(u, h)
            BY <1>6, ActionResults
      <2> QED BY <2>1, PersistEffect
<1>7. ASSUME NEW u \in Tabs, NEW q \in Runs, NEW outcome \in Outcomes,
             Finish(u, q, outcome)
      PROVE  u = t
      <2>1. PICK h \in History : Persist(u, h)
            BY <1>7, ActionResults
      <2> QED BY <2>1, PersistEffect
<1>8. ASSUME NEW u \in Tabs, NEW q \in Runs, NEW refs \in RefKinds,
             Generate(u, q, refs)
      PROVE  StartGeneration(t, q, refs) /\ refs \in {"none", "held", "stripped"}
      <2>1. refs \in {"none", "held", "stripped"}
            BY BoundAssumption
      <2> QED BY <1>6, <1>8, <2>1 DEF Generate
<1>9. ASSUME NEW u \in Tabs, NEW q \in Runs, NEW source \in Runs,
             Retry(u, source, q)
      PROVE  \E refs \in {"none", "held", "stripped"} : StartGeneration(t, q, refs)
      BY <1>6, <1>9, RetryRefs DEF Retry
<1> QED BY <1>1, <1>2, <1>3, <1>4, <1>5, <1>7, <1>8, <1>9 DEF Next

\* A step of the tab keeps a run that it has seen end.
LEMMA EndedStep ==
    ASSUME TypeOK, TraceInv, [Next]_vars, NEW t \in Tabs, NEW r \in Runs,
           Ended(mem[t].run[r]), Uncovered(t, r),
           page'[t] = page[t], clears' = clears
    PROVE  Ended(mem'[t].run[r])
<1>1. PICK n \in Nat : n = mem[t].run[r].updated
      BY StoreTypes, HistoryFields, CopyKinds
<1>2. /\ Keeps(mem[t], r, n) /\ disk.cleared < n
      /\ events[t] # <<>> => Head(events[t]).cleared < n
      BY <1>1 DEF Keeps, Uncovered
<1>3. disk \in History /\ mem[t] \in History /\ now \in Nat
      BY StoreTypes
<1>4. PICK res \in Result : Traced(r, res)
      BY DEF TraceInv
<1>5. Follows(call[r], res, mem[t].run[r]) /\ call[r].at <= now
      BY <1>3, <1>4, KnownHere DEF Traced
<1>6. CASE mem'[t] = mem[t]
      BY <1>6
<1>7. CASE Deliver(t)
      <2>1. mem'[t] = DeliverResult(t) /\ events[t] # <<>>
            BY <1>7, ActionResults, PersistEffect DEF Deliver
      <2> QED BY <1>2, <2>1, KeepsResults DEF Keeps
<1>8. CASE Beat(t)
      <2>1. mem'[t] = BeatResult(t)
            BY <1>8, ActionResults, PersistEffect
      <2> QED BY <1>2, <2>1, KeepsResults DEF Keeps
<1>9. ASSUME NEW g \in History, Keeps(g, r, n),
             mem'[t] = mergeHistoryEnvelopes(disk, g)
      PROVE  Ended(mem'[t].run[r])
      <2>1. g.cleared < n
            BY <1>9 DEF Keeps
      <2> QED BY <1>2, <1>3, <1>9, <2>1, KeepsMerge DEF Keeps
<1>10. ASSUME NEW q \in Runs, NEW refs \in {"none", "held", "stripped"},
              StartGeneration(t, q, refs)
       PROVE  Ended(mem'[t].run[r])
       <2>1. PICK g \in History : g = Started(t, q, refs)
             BY StartedOf
       <2>2. mem'[t] = mergeHistoryEnvelopes(disk, g)
             BY <1>10, <2>1, ActionResults, PersistEffect
       <2>3. q # r
             BY <1>5, <1>10 DEF StartGeneration, Ended, Follows
       <2>4. Keeps(g, r, n)
             BY <1>2, <2>1, <2>3, StartedOf DEF Keeps
       <2> QED BY <1>9, <2>2, <2>4
<1>11. ASSUME NEW q \in Runs, NEW outcome \in Outcomes, Finish(t, q, outcome)
       PROVE  Ended(mem'[t].run[r])
       <2> DEFINE st == IF Failure(outcome) THEN "error" ELSE "complete"
                  dt == IF Failure(outcome) THEN mem[t].run[q].data ELSE outcome
       <2>1. PICK g \in History : g = Answered(t, q, outcome)
                                  /\ Updated(g, mem[t], q, st, dt)
             BY AnsweredOf DEF Updated
       <2>2. mem'[t] = mergeHistoryEnvelopes(disk, g)
             BY <1>11, <2>1, ActionResults, PersistEffect
       <2>3. CASE q # r
             <3>1. Keeps(g, r, n)
                   BY <1>2, <2>1, <2>3 DEF Keeps, Updated
             <3> QED BY <1>9, <2>2, <3>1
       <2>4. CASE q = r
             <3>1. mem[t].run[r].status # "none"
                   BY DEF Ended
             <3>2. n = call[r].at
                   <4>1. call[r].state = "sent"
                         BY <1>11, <2>4 DEF Finish
                   <4> QED BY <1>1, <1>5, <4>1 DEF Ended, Follows
             <3>3. st \in {"complete", "error"}
                   OBVIOUS
             <3> HIDE DEF st, dt
             <3>4. /\ g.run[r].status = st /\ g.cleared = mem[t].cleared
                   /\ now <= g.run[r].updated
                   BY <2>1, <2>4, <3>1 DEF Updated
             <3>5. g.run[r].updated \in Nat
                   BY HistoryFields, CopyKinds
             <3>6. Keeps(g, r, n)
                   BY <1>2, <1>3, <1>5, <3>2, <3>3, <3>4, <3>5 DEF Keeps, Ended
             <3> QED BY <1>9, <2>2, <3>6
       <2> QED BY <2>3, <2>4
<1> QED BY <1>6, <1>7, <1>8, <1>10, <1>11, OwnSteps

\* A page that has seen a run end never shows it as running again, nor forgets
\* it: neither a stale event nor a stale write brings an old copy back.
THEOREM EndedRunsStay == Spec => EndedStaysEnded
<1>1. TypeOK /\ TraceInv /\ [Next]_vars =>
          [\A t \in Tabs, r \in Runs :
              /\ Ended(mem[t].run[r]) /\ Uncovered(t, r)
              /\ page'[t] = page[t] /\ clears' = clears
              => Ended(mem'[t].run[r])]_vars
      BY EndedStep
<1> QED BY <1>1, TypeCorrect, CopiesTellOneStory, PTL DEF Spec, EndedStaysEnded

\* What a step leaves in localStorage and in the events was written there.
LEMMA StoredNext == TypeOK /\ OnlyStored /\ [Next]_vars => OnlyStored'
<1> SUFFICES ASSUME TypeOK, OnlyStored, [Next]_vars PROVE OnlyStored'
    OBVIOUS
<1>1. ASSUME UNCHANGED <<disk, events>>
      PROVE  OnlyStored'
      BY <1>1 DEF OnlyStored, Stored
<1>2. ASSUME NEW t \in Tabs, Flush(t)
      PROVE  OnlyStored'
      <2>1. disk' \in History /\ Stored(disk')
            BY <1>2, FlushTyped, StoreTypes, PersistOf DEF Stored
      <2>2. ASSUME NEW u \in Tabs, NEW i \in DOMAIN events'[u]
            PROVE  Stored(events'[u][i])
            <3>1. events'[u] = events[u] \/ events'[u] = Append(events[u], disk')
                  BY <1>2, FlushTyped
            <3>2. events[u] \in Seq(History)
                  BY StoreTypes
            <3>3. \A j \in DOMAIN Append(events[u], disk') :
                      \/ Append(events[u], disk')[j] = disk'
                      \/ /\ j \in DOMAIN events[u]
                         /\ Append(events[u], disk')[j] = events[u][j]
                  BY <2>1, <3>2
            <3> QED BY <2>1, <2>2, <3>1, <3>3 DEF OnlyStored
      <2> QED BY <2>1, <2>2 DEF OnlyStored, Stored
<1>3. ASSUME NEW t \in Tabs, Deliver(t)
      PROVE  OnlyStored'
      <2>1. UNCHANGED disk /\ events[t] # <<>>
            BY <1>3 DEF Deliver
      <2>2. ASSUME NEW u \in Tabs, NEW i \in DOMAIN events'[u]
            PROVE  Stored(events'[u][i])
            <3>1. /\ events'[t] = Tail(events[t])
                  /\ u # t => events'[u] = events[u]
                  BY <1>3, DeliverTyped
            <3>2. CASE u = t
                  BY <2>1, <2>2, <3>1, <3>2, KnownTail DEF OnlyStored
            <3>3. CASE u # t
                  BY <2>2, <3>1, <3>3 DEF OnlyStored
            <3> QED BY <3>2, <3>3
      <2> QED BY <2>1, <2>2 DEF OnlyStored, Stored
<1>4. ASSUME NEW t \in Tabs, Leave(t) \/ Shut(t)
      PROVE  OnlyStored'
      <2>1. events' = [events EXCEPT ![t] = <<>>] /\ UNCHANGED disk
            BY <1>4 DEF Leave, Shut, Detach
      <2>2. \A u \in Tabs : events'[u] = events[u] \/ events'[u] = <<>>
            BY <2>1 DEF TypeOK
      <2>3. DOMAIN <<>> = {}
            OBVIOUS
      <2>4. \A u \in Tabs : \A i \in DOMAIN events'[u] : Stored(events'[u][i])
            BY <2>2, <2>3 DEF OnlyStored
      <2> QED BY <2>1, <2>4 DEF OnlyStored, Stored
<1>5. ASSUME NEW t \in Tabs, Beat(t) \/ Clear(t) \/ Mount(t)
      PROVE  UNCHANGED <<disk, events>>
      BY <1>5, ActionResults
<1>6. ASSUME NEW t \in Tabs, NEW r \in Runs,
             \/ \E refs \in RefKinds : Generate(t, r, refs)
             \/ \E source \in Runs : Retry(t, source, r)
             \/ \E outcome \in Outcomes : Finish(t, r, outcome)
      PROVE  UNCHANGED <<disk, events>>
      BY <1>6 DEF Generate, Retry, StartGeneration, Finish, SetAndPersist
<1>7. Tick \/ UNCHANGED vars => UNCHANGED <<disk, events>>
      BY DEF Tick, vars
<1> QED BY <1>1, <1>2, <1>3, <1>4, <1>5, <1>6, <1>7 DEF Next

\* There is nothing in them at first.
LEMMA StoredInit == Init => OnlyStored
<1>1. Stored(EmptyHistory)
      BY EmptyTyped, NoCopyTyped DEF Stored
<1>2. DOMAIN <<>> = {}
      OBVIOUS
<1> QED BY <1>1, <1>2 DEF Init, OnlyStored

\* Base64 results and reference images never reach localStorage.
LEMMA StorageSlim == Spec => []OnlyStored
BY TypeCorrect, StoredInit, StoredNext, PTL DEF Spec

\* h has the result of the run with its images.
Holds(h, r, n) ==
    h.run[r].data = "b64" /\ h.run[r].updated = n /\ h.cleared < n

\* A merge with a stored copy of the same run keeps the images.
LEMMA HoldsMerge ==
    ASSUME NEW a \in History, NEW b \in History, NEW r \in Runs,
           NEW cl, NEW res \in Result, cl.at \in Nat, cl.at < res.updated,
           Follows(cl, res, a.run[r]), Follows(cl, res, b.run[r]),
           \/ Holds(a, r, res.updated) /\ Stored(b) /\ b.cleared < res.updated
           \/ Holds(b, r, res.updated) /\ Stored(a) /\ a.cleared < res.updated
    PROVE  Holds(mergeHistoryEnvelopes(a, b), r, res.updated)
<1>1. PICK p \in Copy, i \in Copy : p = b.run[r] /\ i = a.run[r]
      BY HistoryFields
<1>2. PICK m : m = mergeHistoryEnvelopes(a, b)
      OBVIOUS
<1>3. PICK c \in Copy : c = mergeConcurrentRunCopies(p, i) /\ MergedFrom(c, p, i)
      BY MergeOfCopies DEF MergedFrom
<1>4. /\ m \in History /\ m.cleared < res.updated
      /\ m.run[r] = applyTombstone(c, m.cleared)
      BY <1>1, <1>2, <1>3, MergeOfHistories DEF Holds
<1>5. /\ p.updated \in Nat /\ i.updated \in Nat /\ c.updated \in Nat
      /\ m.cleared \in Nat /\ res.updated \in Nat
      /\ p.status \in {"none", "running", "complete", "error", "unknown"}
      /\ i.status \in {"none", "running", "complete", "error", "unknown"}
      BY <1>4, CopyKinds, HistoryFields DEF Result
<1>6. /\ p.status \in {"complete", "error"} => p.updated = res.updated
      /\ p.status = "unknown" => p.updated = cl.at
      /\ p.data = "b64" => p.status = "complete"
      /\ i.status \in {"complete", "error"} => i.updated = res.updated
      /\ i.status = "unknown" => i.updated = cl.at
      /\ i.data = "b64" => i.status = "complete"
      BY <1>1 DEF Follows
<1>7. c.data = "b64" /\ c.updated = res.updated
      <2>1. CASE Holds(a, r, res.updated) /\ Stored(b)
            <3>1. i.data = "b64" /\ p.data # "b64" /\ p.refs # "held"
                  BY <1>1, <2>1 DEF Holds, Stored
            <3>2. ~(Richness(p) >= Richness(i))
                  BY <3>1 DEF Richness
            <3>3. Ended(p) => Preferred(p, i) = i
                  BY <1>5, <1>6, <3>1, <3>2, PreferredOf DEF Ended
            <3>4. Like(c, i)
                  BY <1>3, <1>5, <1>6, <3>1, <3>3 DEF MergedFrom, Ended, IsActive
            <3> QED BY <1>6, <3>1, <3>4 DEF Like
      <2>2. CASE Holds(b, r, res.updated) /\ Stored(a)
            <3>1. p.data = "b64" /\ i.data # "b64" /\ i.refs # "held"
                  BY <1>1, <2>2 DEF Holds, Stored
            <3>2. Richness(p) >= Richness(i)
                  BY <3>1 DEF Richness
            <3>3. Ended(i) => Preferred(p, i) = p
                  BY <1>5, <1>6, <3>1, <3>2, PreferredOf DEF Ended
            <3>4. Like(c, p)
                  BY <1>3, <1>5, <1>6, <3>1, <3>3 DEF MergedFrom, Ended, IsActive
            <3> QED BY <1>6, <3>1, <3>4 DEF Like
      <2> QED BY <2>1, <2>2
<1>8. m.run[r] = c
      BY <1>4, <1>5, <1>7, TombstoneOf
<1> QED BY <1>2, <1>4, <1>7, <1>8 DEF Holds

\* So does looking at the leases.
LEMMA HoldsAged ==
    ASSUME NEW g \in History, NEW h, Aged(h, g), NEW r \in Runs, NEW n,
           Holds(g, r, n)
    PROVE  Holds(h, r, n)
BY DEF Aged, Holds, Like

\* A step of the tab keeps the images it has.
LEMMA HoldsStep ==
    ASSUME TypeOK, TraceInv, OnlyStored, [Next]_vars,
           NEW t \in Tabs, NEW r \in Runs,
           mem[t].run[r].data = "b64", Uncovered(t, r),
           page'[t] = page[t], clears' = clears
    PROVE  mem'[t].run[r].data = "b64"
<1>1. PICK res \in Result : Traced(r, res)
      BY DEF TraceInv
<1>2. disk \in History /\ mem[t] \in History /\ now \in Nat
      BY StoreTypes
<1>3. \A h \in History : Known(h) => Follows(call[r], res, h.run[r])
      BY <1>1 DEF Traced
<1>4. Follows(call[r], res, mem[t].run[r]) /\ Follows(call[r], res, disk.run[r])
      BY <1>2, <1>3, KnownHere
<1>5. call[r].state = "over" /\ mem[t].run[r].updated = res.updated
      BY <1>4 DEF Follows
<1>6. call[r].at \in Nat /\ call[r].at < res.updated
      BY <1>1, <1>5 DEF Traced, TypeOK, Call
<1>7. /\ Holds(mem[t], r, res.updated) /\ disk.cleared < res.updated
      /\ events[t] # <<>> => Head(events[t]).cleared < res.updated
      BY <1>5 DEF Holds, Uncovered
<1>8. ASSUME NEW g \in History, Holds(g, r, res.updated),
             Follows(call[r], res, g.run[r])
      PROVE  /\ mergeHistoryEnvelopes(disk, g) \in History
             /\ Holds(mergeHistoryEnvelopes(disk, g), r, res.updated)
      BY <1>2, <1>4, <1>6, <1>7, <1>8, HoldsMerge, MergeOfHistories
         DEF OnlyStored
<1>9. ASSUME NEW g \in History, Holds(g, r, res.updated),
             Follows(call[r], res, g.run[r])
      PROVE  /\ reclaimExpiredLeases(g) \in History
             /\ Holds(reclaimExpiredLeases(g), r, res.updated)
             /\ Follows(call[r], res, reclaimExpiredLeases(g).run[r])
      BY <1>9, ReclaimAges, HoldsAged, FollowsAged DEF Aged
<1>10. CASE Deliver(t)
       <2>1. mem'[t] = DeliverResult(t) /\ events[t] # <<>>
             BY <1>10, ActionResults, PersistEffect DEF Deliver
       <2>2. PICK e \in History :
                 e = Head(events[t]) /\ Stored(e) /\ Follows(call[r], res, e.run[r])
             BY <1>3, <2>1, KnownHere DEF OnlyStored
       <2>3. PICK m \in History : m = mergeHistoryEnvelopes(mem[t], e)
             BY <1>2, MergeOfHistories
       <2>4. Holds(m, r, res.updated) /\ Follows(call[r], res, m.run[r])
             BY <1>2, <1>4, <1>6, <1>7, <2>1, <2>2, <2>3, HoldsMerge, FollowsMerge
       <2>5. PICK g \in History : /\ g = reclaimExpiredLeases(m)
                                  /\ Holds(g, r, res.updated)
                                  /\ Follows(call[r], res, g.run[r])
             BY <1>9, <2>4
       <2>6. mem'[t] = mergeHistoryEnvelopes(disk, g)
             BY <2>1, <2>2, <2>3, <2>5 DEF DeliverResult
       <2> QED BY <1>8, <2>5, <2>6 DEF Holds
<1>11. CASE Beat(t)
       <2>1. mem'[t] = BeatResult(t)
             BY <1>11, ActionResults, PersistEffect
       <2>2. PICK g \in History : /\ g = reclaimExpiredLeases(mem[t])
                                  /\ Holds(g, r, res.updated)
                                  /\ Follows(call[r], res, g.run[r])
             BY <1>2, <1>4, <1>7, <1>9
       <2>3. PICK m \in History : m = mergeHistoryEnvelopes(disk, g)
                                  /\ Holds(m, r, res.updated)
             BY <1>8, <2>2
       <2>4. Aged(refreshHeartbeat(m, t), m)
             BY <1>2, RefreshAges
       <2>5. Holds(refreshHeartbeat(m, t), r, res.updated)
             BY <2>3, <2>4, HoldsAged
       <2> QED BY <2>1, <2>2, <2>3, <2>5 DEF BeatResult, Holds
<1>12. ASSUME NEW q \in Runs, NEW refs \in {"none", "held", "stripped"},
              StartGeneration(t, q, refs)
       PROVE  mem'[t].run[r].data = "b64"
       <2>1. PICK g \in History : g = Started(t, q, refs)
             BY StartedOf
       <2>2. mem'[t] = mergeHistoryEnvelopes(disk, g)
             BY <1>12, <2>1, ActionResults, PersistEffect
       <2>3. q # r
             BY <1>5, <1>12 DEF StartGeneration
       <2>4. g.run[r] = mem[t].run[r] /\ g.cleared = mem[t].cleared
             BY <2>1, <2>3, StartedOf
       <2>5. Holds(g, r, res.updated) /\ Follows(call[r], res, g.run[r])
             BY <1>4, <1>7, <2>4 DEF Holds
       <2> QED BY <1>8, <2>2, <2>5 DEF Holds
<1>13. ASSUME NEW q \in Runs, NEW outcome \in Outcomes, Finish(t, q, outcome)
       PROVE  mem'[t].run[r].data = "b64"
       <2>1. q # r
             BY <1>5, <1>13 DEF Finish
       <2>2. PICK g \in History : /\ g = Answered(t, q, outcome)
                                  /\ g.run[r] = mem[t].run[r]
                                  /\ g.cleared = mem[t].cleared
             BY <2>1, AnsweredOf DEF Updated
       <2>3. mem'[t] = mergeHistoryEnvelopes(disk, g)
             BY <1>13, <2>2, ActionResults, PersistEffect
       <2>4. Holds(g, r, res.updated) /\ Follows(call[r], res, g.run[r])
             BY <1>4, <1>7, <2>2 DEF Holds
       <2> QED BY <1>8, <2>3, <2>4 DEF Holds
<1>14. CASE mem'[t] = mem[t]
       BY <1>14
<1> QED BY <1>10, <1>11, <1>12, <1>13, <1>14, OwnSteps

\* Merging with copies that have lost the images never loses them here.
THEOREM MemoryResultsStay == Spec => MemoryResultStays
<1>1. TypeOK /\ TraceInv /\ OnlyStored /\ [Next]_vars =>
          [\A t \in Tabs, r \in Runs :
              /\ mem[t].run[r].data = "b64" /\ Uncovered(t, r)
              /\ page'[t] = page[t] /\ clears' = clears
              => mem'[t].run[r].data = "b64"]_vars
      BY HoldsStep
<1> QED BY <1>1, TypeCorrect, CopiesTellOneStory, StorageSlim, PTL
        DEF Spec, MemoryResultStays

(***************************************************************************)
(* The result of a paid call is kept.                                      *)
(***************************************************************************)
\* The copy says as much of the run as its call allows.
Has(cl, c) ==
    IF cl.state = "over" THEN c.status \in {"complete", "error"}
    ELSE c.status # "none"

\* No Clear and no disturbance excuses the loss of the run.
InScope(r) == call[r].state # "none" /\ swept[r] = "no" /\ ~torn

\* No history knows of a Clear as late as a run that no Clear has met.
ClearsInv ==
    \A r \in Runs : call[r].state # "none" /\ swept[r] = "no" =>
        \A h \in History : Known(h) => h.cleared < call[r].at

\* The tab that waits for an answer still has the run it is for.
Waiting(r) ==
    \A t \in Tabs : call[r].state = "sent" /\ call[r].by = t =>
                       page[t] # "shut" /\ Has(call[r], mem[t].run[r])

\* The page of u has the run, or an event will bring it, or the write that
\* causes the event is still to come.
OnItsWay(r, u) ==
    \/ Has(call[r], mem[u].run[r])
    \/ \E i \in DOMAIN events[u] : Has(call[r], events[u][i].run[r])
    \/ \E w \in Tabs : /\ w \in writing /\ w # u /\ Has(call[r], mem[w].run[r])
                       /\ persistEnvelope(mem[w]) # disk

\* While no page is mounted, localStorage has the run or the one tab that is
\* about to write has it.
Unattended(r) ==
    \/ writing = {} /\ Has(call[r], disk.run[r])
    \/ \E w \in Tabs : writing = {w} /\ Has(call[r], mem[w].run[r])

Carried(r) ==
    /\ Unheard => Unattended(r)
    /\ \A u \in Tabs : page[u] = "open" => OnItsWay(r, u)

KeptInv == \A r \in Runs : InScope(r) => Waiting(r) /\ Carried(r)

\* What those say in the next state.
LEMMA OnItsWayNext ==
    ASSUME NEW r \in Runs, NEW u \in Tabs
    PROVE  OnItsWay(r, u)' <=>
             \/ Has(call'[r], mem'[u].run[r])
             \/ \E i \in DOMAIN events'[u] : Has(call'[r], events'[u][i].run[r])
             \/ \E w \in Tabs : /\ w \in writing' /\ w # u
                                /\ Has(call'[r], mem'[w].run[r])
                                /\ persistEnvelope(mem'[w]) # disk'
BY DEF OnItsWay, Has, persistEnvelope, Persisted

\* The same of the other one.
LEMMA UnattendedNext ==
    ASSUME NEW r \in Runs
    PROVE  Unattended(r)' <=>
             \/ writing' = {} /\ Has(call'[r], disk'.run[r])
             \/ \E w \in Tabs : /\ writing' = {w}
                                /\ Has(call'[r], mem'[w].run[r])
BY DEF Unattended, Has

\* A merge keeps a run that a history has, when no Clear meets it.
LEMMA HasMerge ==
    ASSUME NEW a \in History, NEW b \in History, NEW r \in Runs,
           NEW cl \in Call, NEW res \in Result,
           cl.state = "over" => cl.at < res.updated,
           Follows(cl, res, a.run[r]), Follows(cl, res, b.run[r]),
           a.cleared < cl.at, b.cleared < cl.at,
           Has(cl, a.run[r]) \/ Has(cl, b.run[r])
    PROVE  Has(cl, mergeHistoryEnvelopes(a, b).run[r])
<1>1. PICK p \in Copy, i \in Copy : p = b.run[r] /\ i = a.run[r]
      BY HistoryFields
<1>2. PICK m : m = mergeHistoryEnvelopes(a, b)
      OBVIOUS
<1>3. PICK c \in Copy : c = mergeConcurrentRunCopies(p, i) /\ MergedFrom(c, p, i)
      BY MergeOfCopies DEF MergedFrom
<1>4. m \in History /\ m.cleared < cl.at /\ m.run[r] = applyTombstone(c, m.cleared)
      BY <1>1, <1>2, <1>3, MergeOfHistories
<1>5. /\ p.updated \in Nat /\ i.updated \in Nat /\ c.updated \in Nat
      /\ m.cleared \in Nat /\ res.updated \in Nat /\ cl.at \in Nat
      /\ p.status \in {"none", "running", "complete", "error", "unknown"}
      /\ i.status \in {"none", "running", "complete", "error", "unknown"}
      BY <1>4, CopyKinds, HistoryFields DEF Result, Call
<1>6. /\ p.status \in {"complete", "error"} =>
             p.updated = res.updated /\ cl.state = "over"
      /\ p.status \in {"running", "unknown"} => p.updated = cl.at
      /\ i.status \in {"complete", "error"} =>
             i.updated = res.updated /\ cl.state = "over"
      /\ i.status \in {"running", "unknown"} => i.updated = cl.at
      BY <1>1 DEF Follows
<1>7. Follows(cl, res, c)
      BY <1>1, <1>3, FollowsLike DEF MergedFrom
<1>8. Has(cl, c)
      <2>1. CASE cl.state # "over"
            <3>1. p.status # "none" \/ i.status # "none"
                  BY <1>1, <2>1 DEF Has
            <3> QED BY <1>3, <2>1, <3>1 DEF MergedFrom, Has, Like
      <2>2. CASE cl.state = "over" /\ p.status \in {"complete", "error"}
                 /\ i.status \notin {"complete", "error"}
            <3>1. Ended(i) => Preferred(p, i) = p
                  BY <1>5, <1>6, <2>2, PreferredOf DEF Ended
            <3>2. Like(c, p)
                  BY <1>3, <1>5, <2>2, <3>1 DEF MergedFrom, Ended, IsActive
            <3> QED BY <2>2, <3>2 DEF Has, Like
      <2>3. CASE cl.state = "over" /\ i.status \in {"complete", "error"}
                 /\ p.status \notin {"complete", "error"}
            <3>1. Ended(p) => Preferred(p, i) = i
                  BY <1>5, <1>6, <2>3, PreferredOf DEF Ended
            <3>2. Like(c, i)
                  BY <1>3, <1>5, <2>3, <3>1 DEF MergedFrom, Ended, IsActive
            <3> QED BY <2>3, <3>2 DEF Has, Like
      <2>4. CASE cl.state = "over" /\ i.status \in {"complete", "error"}
                 /\ p.status \in {"complete", "error"}
            BY <1>3, <2>4 DEF MergedFrom, Has, Like
      <2>5. CASE cl.state = "over" /\ i.status \notin {"complete", "error"}
                 /\ p.status \notin {"complete", "error"}
            BY <1>1, <2>5 DEF Has
      <2> QED BY <2>1, <2>2, <2>3, <2>4, <2>5
<1>9. m.cleared < c.updated
      <2>1. c.status \in {"running", "complete", "error", "unknown"}
            BY <1>8, CopyKinds DEF Has
      <2> QED BY <1>4, <1>5, <1>7, <2>1 DEF Follows
<1>10. m.run[r] = c
      BY <1>4, <1>5, <1>9, TombstoneOf
<1> QED BY <1>2, <1>8, <1>10

\* So does looking at the leases, and writing the history down.
LEMMA HasAged ==
    ASSUME NEW g \in History, NEW h, Aged(h, g), NEW r \in Runs, NEW cl,
           Has(cl, g.run[r])
    PROVE  Has(cl, h.run[r])
BY DEF Aged, Has, Like, IsActive

\* localStorage gets the status as it is.
LEMMA HasPersist ==
    ASSUME NEW g \in History, NEW r \in Runs, NEW cl
    PROVE  Has(cl, persistEnvelope(g).run[r]) <=> Has(cl, g.run[r])
BY PersistOf DEF Has

\* All that the merges need to know of the run.
Safe(cl, res, r) ==
    /\ res \in Result /\ cl \in Call
    /\ cl.state = "over" => cl.at < res.updated
    /\ \A h \in History : Known(h) => /\ Follows(cl, res, h.run[r])
                                      /\ h.cleared < cl.at

\* What the browser does by itself keeps the run.
LEMMA HasResults ==
    ASSUME TypeOK, NEW t \in Tabs, NEW r \in Runs, NEW cl, NEW res,
           Safe(cl, res, r)
    PROVE  /\ \A g \in History :
                 /\ Follows(cl, res, g.run[r]) /\ g.cleared < cl.at
                 /\ Has(cl, g.run[r]) \/ Has(cl, disk.run[r])
                 => Has(cl, mergeHistoryEnvelopes(disk, g).run[r])
           /\ /\ events[t] # <<>>
              /\ Has(cl, mem[t].run[r]) \/ Has(cl, Head(events[t]).run[r])
              => Has(cl, DeliverResult(t).run[r])
           /\ Has(cl, mem[t].run[r]) => Has(cl, BeatResult(t).run[r])
           /\ Has(cl, disk.run[r]) =>
                 Has(cl, reclaimExpiredLeases(disk).run[r])
<1>1. now \in Nat /\ disk \in History /\ mem[t] \in History
      /\ cl \in Call /\ res \in Result /\ (cl.state = "over" => cl.at < res.updated)
      BY StoreTypes DEF Safe
<1>2. /\ Follows(cl, res, disk.run[r]) /\ Follows(cl, res, mem[t].run[r])
      /\ disk.cleared < cl.at /\ mem[t].cleared < cl.at
      BY <1>1, KnownHere DEF Safe
<1>3. ASSUME NEW g \in History, Follows(cl, res, g.run[r]), g.cleared < cl.at,
             Has(cl, g.run[r]) \/ Has(cl, disk.run[r])
      PROVE  Has(cl, mergeHistoryEnvelopes(disk, g).run[r])
      BY <1>1, <1>2, <1>3, HasMerge
<1>4. ASSUME NEW g \in History, Follows(cl, res, g.run[r]), g.cleared < cl.at
      PROVE  /\ reclaimExpiredLeases(g) \in History
             /\ reclaimExpiredLeases(g).cleared < cl.at
             /\ Follows(cl, res, reclaimExpiredLeases(g).run[r])
             /\ Has(cl, g.run[r]) => Has(cl, reclaimExpiredLeases(g).run[r])
      <2>1. Aged(reclaimExpiredLeases(g), g)
            BY ReclaimAges
      <2> QED BY <1>4, <2>1, FollowsAged, HasAged DEF Aged
<1>5. ASSUME events[t] # <<>>,
             Has(cl, mem[t].run[r]) \/ Has(cl, Head(events[t]).run[r])
      PROVE  Has(cl, DeliverResult(t).run[r])
      <2>1. PICK e \in History : /\ e = Head(events[t])
                                 /\ Follows(cl, res, e.run[r]) /\ e.cleared < cl.at
            BY <1>5, KnownHere DEF Safe
      <2>2. PICK m \in History : m = mergeHistoryEnvelopes(mem[t], e)
            BY <1>1, MergeOfHistories
      <2>3. /\ Follows(cl, res, m.run[r]) /\ Has(cl, m.run[r])
            /\ m.cleared < cl.at
            BY <1>1, <1>2, <1>5, <2>1, <2>2, FollowsMerge, HasMerge,
               MergeOfHistories
      <2>4. PICK g \in History :
                /\ g = reclaimExpiredLeases(m) /\ g.cleared < cl.at
                /\ Follows(cl, res, g.run[r]) /\ Has(cl, g.run[r])
            BY <1>4, <2>3
      <2>5. DeliverResult(t) = mergeHistoryEnvelopes(disk, g)
            BY <2>1, <2>2, <2>4 DEF DeliverResult
      <2> QED BY <1>3, <2>4, <2>5
<1>6. ASSUME Has(cl, mem[t].run[r])
      PROVE  Has(cl, BeatResult(t).run[r])
      <2>1. PICK g \in History :
                /\ g = reclaimExpiredLeases(mem[t]) /\ g.cleared < cl.at
                /\ Follows(cl, res, g.run[r]) /\ Has(cl, g.run[r])
            BY <1>1, <1>2, <1>4, <1>6
      <2>2. PICK m \in History : m = mergeHistoryEnvelopes(disk, g)
                                 /\ Has(cl, m.run[r])
            BY <1>1, <1>3, <2>1, MergeOfHistories
      <2>3. Aged(refreshHeartbeat(m, t), m)
            BY <1>1, RefreshAges
      <2>4. BeatResult(t) = refreshHeartbeat(m, t)
            BY <2>1, <2>2 DEF BeatResult
      <2> QED BY <2>2, <2>3, <2>4, HasAged
<1>7. Has(cl, disk.run[r]) => Has(cl, reclaimExpiredLeases(disk).run[r])
      BY <1>1, <1>2, <1>4
<1> QED BY <1>3, <1>5, <1>6, <1>7

\* No history invents a Clear.
LEMMA ClearedResults ==
    ASSUME TypeOK, NEW t \in Tabs, NEW n \in Nat,
           \A h \in History : Known(h) => h.cleared < n
    PROVE  /\ \A g \in History :
                 g.cleared < n => mergeHistoryEnvelopes(disk, g).cleared < n
           /\ events[t] # <<>> => DeliverResult(t).cleared < n
           /\ BeatResult(t).cleared < n
           /\ reclaimExpiredLeases(disk).cleared < n
           /\ persistEnvelope(mem[t]).cleared < n
<1>1. now \in Nat /\ disk \in History /\ mem[t] \in History
      BY StoreTypes
<1>2. disk.cleared < n /\ mem[t].cleared < n
      BY <1>1, KnownHere
<1>3. ASSUME NEW g \in History
      PROVE  /\ mergeHistoryEnvelopes(disk, g) \in History
             /\ mergeHistoryEnvelopes(disk, g).cleared \in {disk.cleared, g.cleared}
             /\ mergeHistoryEnvelopes(mem[t], g) \in History
             /\ mergeHistoryEnvelopes(mem[t], g).cleared
                    \in {mem[t].cleared, g.cleared}
             /\ reclaimExpiredLeases(g) \in History
             /\ reclaimExpiredLeases(g).cleared = g.cleared
             /\ refreshHeartbeat(g, t).cleared = g.cleared
      BY <1>1, MergeOfHistories, ReclaimAges, RefreshAges DEF Aged
<1>4. ASSUME events[t] # <<>>
      PROVE  DeliverResult(t).cleared < n
      <2>1. Head(events[t]) \in History /\ Head(events[t]).cleared < n
            BY <1>4, KnownHere
      <2>2. PICK m \in History : m = mergeHistoryEnvelopes(mem[t], Head(events[t]))
                                 /\ m.cleared < n
            BY <1>2, <1>3, <2>1
      <2>3. PICK g \in History : g = reclaimExpiredLeases(m) /\ g.cleared < n
            BY <1>3, <2>2
      <2>4. DeliverResult(t) = mergeHistoryEnvelopes(disk, g)
            BY <2>2, <2>3 DEF DeliverResult
      <2> QED BY <1>2, <1>3, <2>3, <2>4
<1>5. BeatResult(t).cleared < n
      <2>1. PICK g \in History : g = reclaimExpiredLeases(mem[t]) /\ g.cleared < n
            BY <1>1, <1>2, <1>3
      <2>2. PICK m \in History : m = mergeHistoryEnvelopes(disk, g) /\ m.cleared < n
            BY <1>2, <1>3, <2>1
      <2>3. BeatResult(t) = refreshHeartbeat(m, t)
            BY <2>1, <2>2 DEF BeatResult
      <2> QED BY <1>3, <2>2, <2>3
<1>6. persistEnvelope(mem[t]).cleared < n
      BY <1>1, <1>2, PersistOf
<1> QED BY <1>1, <1>2, <1>3, <1>4, <1>5, <1>6

\* What ClearedBefore says of the known histories.
LEMMA ClearedBeforeKnown ==
    ASSUME NEW n, ClearedBefore(n), NEW h, Known(h)
    PROVE  h.cleared < n
BY DEF ClearedBefore, Known

\* Every step keeps the Clears before the runs they have not met.
LEMMA ClearsNext == TypeOK /\ ClearsInv /\ [Next]_vars => ClearsInv'
<1> SUFFICES ASSUME TypeOK, ClearsInv, [Next]_vars, NEW r \in Runs,
                    call'[r].state # "none", swept'[r] = "no",
                    NEW k \in History, Known(k)'
             PROVE  k.cleared < call'[r].at
    BY DEF ClearsInv, History, Copy
<1>1. ASSUME call[r].state # "none", swept[r] = "no", NEW h,
             h.cleared < call[r].at, call'[r].at = call[r].at,
             Known(k)' => Known(k) \/ k = h
      PROVE  k.cleared < call'[r].at
      BY <1>1 DEF ClearsInv
<1>2. call[r].at \in Nat
      BY DEF TypeOK, Call
<1>3. ASSUME call[r].state # "none", swept[r] = "no", NEW t \in Tabs
      PROVE  /\ \A g \in History : g.cleared < call[r].at =>
                   mergeHistoryEnvelopes(disk, g).cleared < call[r].at
             /\ events[t] # <<>> => DeliverResult(t).cleared < call[r].at
             /\ BeatResult(t).cleared < call[r].at
             /\ reclaimExpiredLeases(disk).cleared < call[r].at
             /\ persistEnvelope(mem[t]).cleared < call[r].at
             /\ mem[t].cleared < call[r].at /\ disk.cleared < call[r].at
             /\ EmptyHistory.cleared < call[r].at
      <2>1. \A h \in History : Known(h) => h.cleared < call[r].at
            BY <1>3 DEF ClearsInv
      <2>2. mem[t].cleared < call[r].at /\ disk.cleared < call[r].at
            BY <2>1, StoreTypes, KnownHere
      <2>3. disk.cleared \in Nat
            BY StoreTypes, HistoryFields
      <2> QED BY <1>2, <2>1, <2>2, <2>3, ClearedResults, EmptyTyped
<1>4. CASE Tick \/ UNCHANGED vars
      <2>1. UNCHANGED <<call, swept, disk, mem, events>>
            BY <1>4 DEF Tick, vars
      <2>2. Known(k)
            BY <2>1 DEF Known
      <2> QED BY <2>1, <2>2 DEF ClearsInv
<1>5. ASSUME NEW t \in Tabs, Flush(t)
      PROVE  k.cleared < call'[r].at
      <2>1. UNCHANGED <<call, swept>>
            BY <1>5 DEF Flush
      <2> QED BY <1>1, <1>3, <1>5, <2>1, KnownFlush, FlushTyped
<1>6. ASSUME NEW t \in Tabs, Deliver(t)
      PROVE  k.cleared < call'[r].at
      <2>1. UNCHANGED <<call, swept>> /\ events[t] # <<>>
            BY <1>6 DEF Deliver
      <2> QED BY <1>1, <1>3, <1>6, <2>1, KnownDeliver
<1>7. ASSUME NEW t \in Tabs, Beat(t)
      PROVE  k.cleared < call'[r].at
      <2>1. UNCHANGED <<call, swept>>
            BY <1>7 DEF Beat
      <2>2. Known(k) \/ k = BeatResult(t)
            BY <1>7, ActionResults, KnownPersist
      <2> QED BY <1>1, <1>3, <2>1, <2>2
<1>8. ASSUME NEW t \in Tabs, Mount(t)
      PROVE  k.cleared < call'[r].at
      <2>1. UNCHANGED <<call, swept>>
            BY <1>8 DEF Mount
      <2>2. Known(k) \/ k = reclaimExpiredLeases(disk)
            BY <1>8, ActionResults, KnownPersist
      <2> QED BY <1>1, <1>3, <1>8, <2>1, <2>2
<1>9. ASSUME NEW t \in Tabs, Clear(t)
      PROVE  FALSE
      <2>1. UNCHANGED call
            BY <1>9 DEF Clear
      <2> QED BY <1>9, <2>1, ClearTyped
<1>10. ASSUME NEW t \in Tabs, Leave(t) \/ Shut(t)
       PROVE  k.cleared < call'[r].at
       <2>1. call'[r].state = call[r].state /\ call'[r].at = call[r].at
             /\ UNCHANGED swept
             BY <1>10, OrphanedCall DEF Leave, Shut
       <2> QED BY <1>1, <1>3, <1>10, <2>1, KnownDetach
<1>11. ASSUME NEW t \in Tabs, NEW q \in Runs,
              NEW refs \in {"none", "held", "stripped"},
              StartGeneration(t, q, refs)
       PROVE  k.cleared < call'[r].at
       <2>1. PICK s \in History : s = Started(t, q, refs)
                                  /\ s.cleared = mem[t].cleared
             BY StartedOf
       <2>2. PICK h \in History : /\ h = mergeHistoryEnvelopes(disk, s)
                                  /\ Persist(t, h) /\ UNCHANGED <<disk, events>>
             BY <1>11, <2>1, ActionResults
       <2>3. Known(k) \/ k = h
             BY <2>2, KnownPersist
       <2>4. /\ call'[q].at = now /\ (r # q => call'[r] = call[r])
             /\ swept'[r] = swept[r] /\ ClearedBefore(now) /\ now \in Nat
             BY <1>11, SentCall, StoreTypes DEF StartGeneration
       <2>5. CASE r # q
             BY <1>1, <1>3, <2>1, <2>2, <2>3, <2>4, <2>5
       <2>6. CASE r = q
             <3>1. \A g \in History : Known(g) => g.cleared < now
                   BY <2>4, ClearedBeforeKnown
             <3>2. mem[t].cleared < now
                   BY <3>1, StoreTypes, KnownHere
             <3>3. h.cleared < now
                   BY <2>1, <2>2, <2>4, <3>1, <3>2, ClearedResults
             <3> QED BY <2>3, <2>4, <2>6, <3>1, <3>3
       <2> QED BY <2>5, <2>6
<1>12. ASSUME NEW t \in Tabs, NEW q \in Runs, NEW refs \in RefKinds,
              Generate(t, q, refs)
       PROVE  k.cleared < call'[r].at
       <2>1. refs \in {"none", "held", "stripped"}
             BY BoundAssumption
       <2> QED BY <1>11, <1>12, <2>1 DEF Generate
<1>13. ASSUME NEW t \in Tabs, NEW q \in Runs, NEW source \in Runs,
              Retry(t, source, q)
       PROVE  k.cleared < call'[r].at
       BY <1>11, <1>13, RetryRefs DEF Retry
<1>14. ASSUME NEW t \in Tabs, NEW q \in Runs, NEW outcome \in Outcomes,
              Finish(t, q, outcome)
       PROVE  k.cleared < call'[r].at
       <2>1. PICK s \in History : s = Answered(t, q, outcome)
                                  /\ s.cleared = mem[t].cleared
             BY AnsweredOf DEF Updated
       <2>2. PICK h \in History : /\ h = mergeHistoryEnvelopes(disk, s)
                                  /\ Persist(t, h) /\ UNCHANGED <<disk, events>>
             BY <1>14, <2>1, ActionResults
       <2>3. Known(k)' => Known(k) \/ k = h
             BY <2>2, KnownPersist
       <2>4. /\ call'[r].at = call[r].at /\ swept'[r] = swept[r]
             /\ call[r].state # "none"
             BY <1>14, AnsweredCall DEF Finish
       <2>5. h.cleared < call[r].at
             BY <1>3, <2>1, <2>2, <2>4
       <2> QED BY <1>1, <2>3, <2>4, <2>5
<1> QED BY <1>4, <1>5, <1>6, <1>7, <1>8, <1>9, <1>10, <1>12, <1>13, <1>14
        DEF Next

\* A run in scope is safe to merge.
LEMMA SafeInScope ==
    ASSUME TypeOK, TraceInv, ClearsInv, NEW r \in Runs,
           call[r].state # "none", swept[r] = "no"
    PROVE  \E res \in Result : /\ Safe(call[r], res, r)
                               /\ call[r].paid => res.status = "complete"
<1>1. PICK res \in Result : Traced(r, res)
      BY DEF TraceInv
<1>2. call[r] \in Call
      BY DEF TypeOK
<1>3. Safe(call[r], res, r) /\ (call[r].paid => res.status = "complete")
      BY <1>1, <1>2 DEF Safe, Traced, ClearsInv
<1> QED BY <1>3

\* Once everything is quiet, localStorage and every page have the run.
LEMMA SettledHas ==
    ASSUME TypeOK, QuietTabsAgree, NEW r \in Runs, Carried(r), Settled
    PROVE  /\ Has(call[r], disk.run[r])
           /\ \A u \in Tabs : page[u] = "open" => Has(call[r], mem[u].run[r])
<1>1. /\ \A u \in Tabs : u \notin writing /\ events[u] = <<>>
      /\ writing = {}
      BY DEF Settled, Quiet, TypeOK
<1>2. DOMAIN <<>> = {}
      OBVIOUS
<1>3. ASSUME NEW u \in Tabs, page[u] = "open"
      PROVE  Has(call[r], mem[u].run[r]) /\ Has(call[r], disk.run[r])
      <2>1. Has(call[r], mem[u].run[r])
            BY <1>1, <1>2, <1>3 DEF Carried, OnItsWay
      <2>2. persistEnvelope(mem[u]) = disk
            BY <1>1, <1>3 DEF QuietTabsAgree, Quiet
      <2> QED BY <2>1, <2>2, HasPersist, StoreTypes
<1>4. CASE Unheard
      BY <1>1, <1>4 DEF Carried, Unattended, Unheard
<1> QED BY <1>3, <1>4 DEF Unheard

\* What Waiting says in the next state.
LEMMA WaitingNext ==
    ASSUME NEW r \in Runs
    PROVE  Waiting(r)' <=>
             \A t \in Tabs : call'[r].state = "sent" /\ call'[r].by = t =>
                                /\ page'[t] # "shut"
                                /\ Has(call'[r], mem'[t].run[r])
BY DEF Waiting, Has

\* A tab takes a history that has what the tab had, and what the event that
\* it handles had.
LEMMA CarriedPersist ==
    ASSUME TypeOK, NEW r \in Runs, Waiting(r) /\ Carried(r),
           NEW t \in Tabs, t \notin writing, NEW h \in History, Persist(t, h),
           UNCHANGED <<disk, page>>,
           call'[r].state = call[r].state, call'[r].by = call[r].by,
           \A u \in Tabs : u # t => events'[u] = events[u],
           Has(call[r], mem[t].run[r]) => Has(call[r], h.run[r]),
           \A i \in DOMAIN events[t] : Has(call[r], events[t][i].run[r]) =>
               \/ Has(call[r], h.run[r])
               \/ \E j \in DOMAIN events'[t] : Has(call[r], events'[t][j].run[r]),
           Unheard => /\ writing = {}
                      /\ Has(call[r], disk.run[r]) => Has(call[r], h.run[r])
    PROVE  Waiting(r)' /\ Carried(r)'
<1>1. /\ mem'[t] = h /\ \A u \in Tabs : u # t => mem'[u] = mem[u]
      /\ writing \subseteq writing' /\ writing' \subseteq writing \cup {t}
      /\ writing' \subseteq Tabs
      BY PersistEffect DEF Persist
<1>2. \A c : Has(call'[r], c) <=> Has(call[r], c)
      BY DEF Has
<1>3. Waiting(r)'
      BY <1>1, <1>2, WaitingNext DEF Waiting
<1>4. ASSUME Unheard'
      PROVE  Unattended(r)'
      <2>1. writing = {} /\ Unattended(r) /\ Unheard
            BY <1>4 DEF Carried, Unheard
      <2>2. Has(call[r], disk.run[r]) /\ Has(call[r], h.run[r])
            BY <2>1 DEF Unattended
      <2>3. writing' = {} \/ writing' = {t}
            BY <1>1, <2>1
      <2> QED BY <1>1, <1>2, <2>2, <2>3, UnattendedNext
<1>5. ASSUME NEW u \in Tabs, page'[u] = "open"
      PROVE  OnItsWay(r, u)'
      <2>1. OnItsWay(r, u)
            BY <1>5 DEF Carried
      <2>2. ASSUME NEW w \in Tabs, w \in writing, w # u,
                   Has(call[r], mem[w].run[r]), persistEnvelope(mem[w]) # disk
            PROVE  OnItsWay(r, u)'
            <3>1. mem'[w] = mem[w] /\ w \in writing' /\ disk' = disk
                  BY <1>1, <2>2
            <3>2. Has(call'[r], mem'[w].run[r]) /\ persistEnvelope(mem'[w]) # disk'
                  BY <1>2, <2>2, <3>1
            <3> QED BY <2>2, <3>1, <3>2, OnItsWayNext
      <2>3. CASE Has(call[r], mem[u].run[r])
            <3>1. Has(call'[r], mem'[u].run[r])
                  BY <1>1, <1>2, <2>3
            <3> QED BY <3>1, OnItsWayNext
      <2>4. ASSUME NEW i \in DOMAIN events[u], Has(call[r], events[u][i].run[r])
            PROVE  OnItsWay(r, u)'
            <3>1. CASE u = t
                  BY <1>1, <1>2, <2>4, <3>1, OnItsWayNext
            <3>2. CASE u # t
                  <4>1. events'[u] = events[u]
                        BY <3>2
                  <4> QED BY <1>2, <2>4, <4>1, OnItsWayNext
            <3> QED BY <3>1, <3>2
      <2> QED BY <2>1, <2>2, <2>3, <2>4 DEF OnItsWay
<1> QED BY <1>3, <1>4, <1>5 DEF Carried

\* A tab learns first of a run: every mounted page will hear of it.
LEMMA CarriedFirst ==
    ASSUME TypeOK, NEW r \in Runs,
           NEW t \in Tabs, t \notin writing, NEW h \in History, Persist(t, h),
           UNCHANGED <<disk, page>>, page[t] # "shut", call'[r].by = t,
           Has(call'[r], h.run[r]), ~Has(call'[r], disk.run[r]),
           Unheard => writing = {}
    PROVE  Waiting(r)' /\ Carried(r)'
<1>1. persistEnvelope(h) # disk
      BY HasPersist
<1>2. /\ mem'[t] = h /\ t \in writing'
      /\ writing' \subseteq writing \cup {t}
      BY <1>1, PersistEffect DEF Persist
<1>3. Waiting(r)'
      BY <1>2, WaitingNext
<1>4. ASSUME Unheard'
      PROVE  Unattended(r)'
      <2>1. writing = {}
            BY <1>4 DEF Unheard
      <2>2. writing' = {t}
            BY <1>2, <2>1
      <2> QED BY <1>2, <2>2, UnattendedNext
<1>5. ASSUME NEW u \in Tabs
      PROVE  OnItsWay(r, u)'
      <2>1. Has(call'[r], mem'[t].run[r]) /\ persistEnvelope(mem'[t]) # disk'
            BY <1>1, <1>2
      <2>2. CASE u = t
            BY <2>1, <2>2, OnItsWayNext
      <2>3. CASE u # t
            BY <1>2, <2>1, <2>3, OnItsWayNext
      <2> QED BY <2>2, <2>3
<1> QED BY <1>3, <1>4, <1>5 DEF Carried

\* The write to localStorage.
LEMMA CarriedFlush ==
    ASSUME TypeOK, NEW r \in Runs, Waiting(r) /\ Carried(r),
           NEW t \in Tabs, Flush(t)
    PROVE  Waiting(r)' /\ Carried(r)'
<1>1. /\ UNCHANGED <<mem, page, call>> /\ t \in writing
      /\ writing' = writing \ {t}
      BY DEF Flush
<1>2. /\ disk' = persistEnvelope(mem[t]) /\ mem[t] \in History
      /\ disk' \in History
      /\ \A u \in Tabs : events'[u] =
             IF disk' # disk /\ u # t /\ page[u] = "open"
             THEN Append(events[u], disk') ELSE events[u]
      BY FlushTyped, StoreTypes
<1>3. Waiting(r)'
      BY <1>1, WaitingNext DEF Waiting
<1>4. \A w \in Tabs : Has(call[r], persistEnvelope(mem[w]).run[r]) <=>
                      Has(call[r], mem[w].run[r])
      BY StoreTypes, HasPersist
<1>5. ASSUME Unheard'
      PROVE  Unattended(r)'
      <2>1. Unattended(r)
            BY <1>1, <1>5 DEF Carried, Unheard
      <2>2. writing = {t} /\ Has(call[r], mem[t].run[r])
            BY <1>1, <2>1 DEF Unattended
      <2>3. writing' = {}
            BY <1>1, <2>2
      <2>4. Has(call'[r], disk'.run[r])
            BY <1>1, <1>2, <1>4, <2>2
      <2> QED BY <2>3, <2>4, UnattendedNext
<1>6. ASSUME NEW u \in Tabs, page'[u] = "open"
      PROVE  OnItsWay(r, u)'
      <2>1. OnItsWay(r, u) /\ page[u] = "open"
            BY <1>1, <1>6 DEF Carried
      <2>2. ASSUME disk' # disk, u # t, Has(call[r], disk'.run[r])
            PROVE  OnItsWay(r, u)'
            <3>1. events'[u] = Append(events[u], disk')
                  BY <1>2, <2>1, <2>2
            <3>2. events[u] \in Seq(History)
                  BY StoreTypes
            <3>3. /\ Len(events[u]) + 1 \in DOMAIN Append(events[u], disk')
                  /\ Append(events[u], disk')[Len(events[u]) + 1] = disk'
                  BY <1>2, <3>2
            <3>4. \E i \in DOMAIN events'[u] : events'[u][i] = disk'
                  BY <3>1, <3>3
            <3> QED BY <1>1, <2>2, <3>4, OnItsWayNext
      <2>3. CASE Has(call[r], mem[u].run[r])
            BY <1>1, <2>3, OnItsWayNext
      <2>4. ASSUME NEW i \in DOMAIN events[u], Has(call[r], events[u][i].run[r])
            PROVE  OnItsWay(r, u)'
            <3>1. events[u] \in Seq(History)
                  BY StoreTypes
            <3>2. /\ i \in DOMAIN Append(events[u], disk')
                  /\ Append(events[u], disk')[i] = events[u][i]
                  BY <1>2, <3>1
            <3>3. i \in DOMAIN events'[u] /\ events'[u][i] = events[u][i]
                  BY <1>2, <3>2
            <3> QED BY <1>1, <2>4, <3>3, OnItsWayNext
      <2>5. ASSUME NEW w \in Tabs, w \in writing, w # u,
                   Has(call[r], mem[w].run[r]), persistEnvelope(mem[w]) # disk
            PROVE  OnItsWay(r, u)'
            <3>1. CASE persistEnvelope(mem[w]) = disk'
                  <4>1. disk' # disk /\ Has(call[r], disk'.run[r])
                        BY <1>4, <2>5, <3>1
                  <4>2. CASE u = t
                        <5>1. Has(call[r], mem[t].run[r])
                              BY <1>2, <1>4, <4>1
                        <5> QED BY <2>3, <4>2, <5>1
                  <4> QED BY <2>2, <4>1, <4>2
            <3>2. CASE persistEnvelope(mem[w]) # disk'
                  <4>1. w # t
                        BY <1>2, <3>2
                  <4>2. w \in writing' /\ mem'[w] = mem[w]
                        BY <1>1, <2>5, <4>1
                  <4>3. /\ Has(call'[r], mem'[w].run[r])
                        /\ persistEnvelope(mem'[w]) # disk'
                        BY <1>1, <2>5, <3>2, <4>2
                  <4> QED BY <2>5, <4>2, <4>3, OnItsWayNext
            <3> QED BY <3>1, <3>2
      <2> QED BY <2>1, <2>3, <2>4, <2>5 DEF OnItsWay
<1> QED BY <1>3, <1>5, <1>6 DEF Carried

\* A page comes or goes while everything is quiet.
LEMMA CarriedMove ==
    ASSUME TypeOK, QuietTabsAgree, NEW r \in Runs, Waiting(r) /\ Carried(r),
           Settled, NEW t \in Tabs, UNCHANGED disk,
           call'[r].state = call[r].state,
           \A u \in Tabs : u # t => page'[u] = page[u] /\ mem'[u] = mem[u],
           \A u \in Tabs : call'[r].by = u => call[r].by = u,
           Unheard' => writing' = {},
           page'[t] = "open" => Has(call[r], mem'[t].run[r]),
           call'[r].by = t => /\ page'[t] # "shut"
                              /\ \/ mem'[t] = mem[t]
                                 \/ Has(call[r], mem'[t].run[r])
    PROVE  Waiting(r)' /\ Carried(r)'
<1>1. /\ Has(call[r], disk.run[r])
      /\ \A u \in Tabs : page[u] = "open" => Has(call[r], mem[u].run[r])
      BY SettledHas
<1>2. \A c : Has(call'[r], c) <=> Has(call[r], c)
      BY DEF Has
<1>3. Waiting(r)'
      <2> SUFFICES ASSUME NEW u \in Tabs, call'[r].state = "sent", call'[r].by = u
                   PROVE  page'[u] # "shut" /\ Has(call'[r], mem'[u].run[r])
          BY WaitingNext
      <2>1. page[u] # "shut" /\ Has(call[r], mem[u].run[r])
            BY DEF Waiting
      <2> QED BY <1>2, <2>1
<1>4. ASSUME Unheard'
      PROVE  Unattended(r)'
      BY <1>1, <1>2, <1>4, UnattendedNext
<1>5. ASSUME NEW u \in Tabs, page'[u] = "open"
      PROVE  OnItsWay(r, u)'
      <2>1. Has(call'[r], mem'[u].run[r])
            BY <1>1, <1>2, <1>5
      <2> QED BY <2>1, OnItsWayNext
<1> QED BY <1>3, <1>4, <1>5 DEF Carried

\* Events and timers.
LEMMA KeptScript ==
    ASSUME TypeOK, TraceInv, ClearsInv, NEW r \in Runs, InScope(r),
           Waiting(r) /\ Carried(r), NEW t \in Tabs, Deliver(t) \/ Beat(t)
    PROVE  Waiting(r)' /\ Carried(r)'
<1>1. PICK res \in Result : Safe(call[r], res, r)
      BY SafeInScope DEF InScope
<1>2. /\ UNCHANGED <<disk, page, call>> /\ t \notin writing /\ page[t] = "open"
      BY DEF Deliver, Beat, Ready
<1>3. ~Unheard
      BY <1>2 DEF Unheard
<1>4. CASE Deliver(t)
      <2>1. PICK h \in History : h = DeliverResult(t) /\ Persist(t, h)
            BY <1>4, ActionResults
      <2>2. /\ events[t] # <<>> /\ events'[t] = Tail(events[t])
            /\ \A u \in Tabs : u # t => events'[u] = events[u]
            BY <1>4, DeliverTyped DEF Deliver
      <2>3. \/ Has(call[r], mem[t].run[r])
            \/ Has(call[r], Head(events[t]).run[r])
            => Has(call[r], h.run[r])
            BY <1>1, <2>1, <2>2, HasResults
      <2>4. ASSUME NEW i \in DOMAIN events[t], Has(call[r], events[t][i].run[r])
            PROVE  \/ Has(call[r], h.run[r])
                   \/ \E j \in DOMAIN events'[t] :
                         Has(call[r], events'[t][j].run[r])
            <3>1. CASE i = 1
                  BY <2>2, <2>3, <2>4, <3>1, KnownHere
            <3>2. CASE i # 1
                  <4>1. events[t] \in Seq(History)
                        BY StoreTypes
                  <4>2. /\ i - 1 \in DOMAIN Tail(events[t])
                        /\ Tail(events[t])[i - 1] = events[t][i]
                        BY <2>2, <3>2, <4>1
                  <4> QED BY <2>2, <2>4, <4>2
            <3> QED BY <3>1, <3>2
      <2> QED BY <1>2, <1>3, <2>1, <2>2, <2>3, <2>4, CarriedPersist
<1>5. CASE Beat(t)
      <2>1. PICK h \in History : h = BeatResult(t) /\ Persist(t, h)
                                 /\ UNCHANGED events
            BY <1>5, ActionResults
      <2>2. Has(call[r], mem[t].run[r]) => Has(call[r], h.run[r])
            BY <1>1, <2>1, HasResults
      <2> QED BY <1>2, <1>3, <2>1, <2>2, CarriedPersist
<1> QED BY <1>4, <1>5

\* A run starts: this one, or another one.
LEMMA KeptStart ==
    ASSUME TypeOK, TraceInv, ClearsInv, KeptInv,
           NEW t \in Tabs, NEW q \in Runs,
           NEW refs \in {"none", "held", "stripped"},
           StartGeneration(t, q, refs), NEW r \in Runs, InScope(r)'
    PROVE  Waiting(r)' /\ Carried(r)'
<1>1. PICK s \in History : /\ s = Started(t, q, refs)
                           /\ s.cleared = mem[t].cleared
                           /\ s.run[q].status = "running"
                           /\ s.run[q].updated = now /\ s.run[q].data = "none"
                           /\ r # q => s.run[r] = mem[t].run[r]
      BY StartedOf
<1>2. PICK h \in History : /\ h = mergeHistoryEnvelopes(disk, s)
                           /\ Persist(t, h) /\ UNCHANGED <<disk, events>>
      BY <1>1, ActionResults
<1>3. /\ UNCHANGED <<page, now>> /\ t \notin writing /\ page[t] = "open"
      /\ swept'[r] = swept[r] /\ torn' = torn /\ call[q].state = "none"
      /\ ClearedBefore(now) /\ now \in Nat
      BY StoreTypes DEF StartGeneration, Ready
<1>4. ~Unheard
      BY <1>3 DEF Unheard
<1>5. /\ call'[q].state = "sent" /\ call'[q].by = t /\ call'[q].at = now
      /\ call' \in [Runs -> Call]
      /\ r # q => call'[r] = call[r]
      BY SentCall DEF StartGeneration
<1>6. disk \in History /\ mem[t] \in History
      BY StoreTypes
<1>7. PICK old \in Result : Traced(r, old)
      BY DEF TraceInv
<1>8. Follows(call[r], old, disk.run[r]) /\ Follows(call[r], old, mem[t].run[r])
      BY <1>6, <1>7, KnownHere DEF Traced
<1>9. CASE r # q
      <2>1. InScope(r)
            BY <1>3, <1>5, <1>9 DEF InScope
      <2>2. PICK res \in Result : Safe(call[r], res, r)
            BY <2>1, SafeInScope DEF InScope
      <2>3. /\ Follows(call[r], res, s.run[r]) /\ s.cleared < call[r].at
            BY <1>1, <1>6, <1>9, <2>2, KnownHere DEF Safe
      <2>4. Has(call[r], mem[t].run[r]) => Has(call[r], h.run[r])
            BY <1>1, <1>2, <1>9, <2>2, <2>3, HasResults
      <2>5. Waiting(r) /\ Carried(r)
            BY <2>1 DEF KeptInv
      <2> QED BY <1>2, <1>3, <1>4, <1>5, <1>9, <2>4, <2>5, CarriedPersist
<1>10. CASE r = q
      <2>1. disk.run[r].status = "none"
            BY <1>3, <1>8, <1>10 DEF Follows
      <2>2. PICK cl \in Call : cl = call'[r]
            BY <1>5
      <2>3. cl.state = "sent" /\ cl.at = now
            BY <1>5, <1>10, <2>2
      <2>4. /\ Follows(cl, old, s.run[r]) /\ Has(cl, s.run[r])
            /\ Follows(cl, old, disk.run[r]) /\ ~Has(cl, disk.run[r])
            BY <1>1, <1>8, <1>10, <2>1, <2>3 DEF Follows, Has
      <2>5. disk.cleared < cl.at /\ s.cleared < cl.at
            BY <1>1, <1>3, <2>3 DEF ClearedBefore
      <2>6. Has(cl, h.run[r])
            BY <1>2, <1>6, <2>3, <2>4, <2>5, HasMerge
      <2> QED BY <1>2, <1>3, <1>4, <1>5, <1>10, <2>2, <2>4, <2>6, CarriedFirst
<1> QED BY <1>9, <1>10

\* The answer of this call, or of another one.
LEMMA KeptFinish ==
    ASSUME TypeOK, TraceInv, ClearsInv, KeptInv,
           NEW t \in Tabs, NEW q \in Runs, NEW outcome \in Outcomes,
           Finish(t, q, outcome), NEW r \in Runs, InScope(r)'
    PROVE  Waiting(r)' /\ Carried(r)'
<1> DEFINE st == IF Failure(outcome) THEN "error" ELSE "complete"
           dt == IF Failure(outcome) THEN mem[t].run[q].data ELSE outcome
<1>1. PICK s \in History : s = Answered(t, q, outcome)
                           /\ Updated(s, mem[t], q, st, dt)
      BY AnsweredOf DEF Updated
<1>2. PICK h \in History : /\ h = mergeHistoryEnvelopes(disk, s)
                           /\ Persist(t, h) /\ UNCHANGED <<disk, events>>
      BY <1>1, ActionResults
<1>3. st \in {"complete", "error"}
      OBVIOUS
<1> HIDE DEF st, dt
<1>4. /\ UNCHANGED <<page, now>> /\ t \notin writing /\ page[t] # "shut"
      /\ swept'[r] = swept[r] /\ torn' = (torn \/ (Unheard /\ ~Settled))
      /\ call[q].state = "sent" /\ call[q].by = t
      BY DEF Finish, Ready
<1>5. /\ call'[q].state = "over" /\ call'[q].by = t /\ call'[q].at = call[q].at
      /\ call' \in [Runs -> Call]
      /\ r # q => call'[r] = call[r]
      BY <1>4, AnsweredCall DEF Finish
<1>6. InScope(r) /\ (Unheard => writing = {})
      BY <1>4, <1>5 DEF InScope, Settled, Quiet, TypeOK
<1>7. Waiting(r) /\ Carried(r)
      BY <1>6 DEF KeptInv
<1>8. disk \in History /\ mem[t] \in History
      BY StoreTypes
<1>9. PICK res \in Result : Safe(call[r], res, r)
      BY <1>6, SafeInScope DEF InScope
<1>10. /\ Follows(call[r], res, disk.run[r]) /\ disk.cleared < call[r].at
       /\ Follows(call[r], res, mem[t].run[r]) /\ mem[t].cleared < call[r].at
       BY <1>8, <1>9, KnownHere DEF Safe
<1>11. s.cleared < call[r].at
       BY <1>1, <1>10 DEF Updated
<1>12. CASE r # q
       <2>1. s.run[r] = mem[t].run[r]
             BY <1>1, <1>12 DEF Updated
       <2>2. Has(call[r], mem[t].run[r]) \/ Has(call[r], disk.run[r]) =>
                 Has(call[r], h.run[r])
             BY <1>2, <1>9, <1>10, <1>11, <2>1, HasResults
       <2> QED BY <1>2, <1>4, <1>5, <1>6, <1>7, <1>12, <2>2, CarriedPersist
<1>13. CASE r = q
       <2>1. mem[t].run[r].status # "none"
             BY <1>4, <1>7, <1>13 DEF Waiting, Has
       <2>2. s.run[r].status = st
             BY <1>1, <1>13, <2>1 DEF Updated
       <2>3. PICK cl \in Call : cl = call'[r]
             BY <1>5
       <2>4. cl.state = "over" /\ cl.at = call[r].at /\ cl.at \in Nat
             BY <1>5, <1>13, <2>3 DEF Call
       <2>5. disk.run[r].status \notin {"complete", "error"}
             BY <1>4, <1>10, <1>13 DEF Follows
       <2>6. ~Has(cl, disk.run[r]) /\ Has(cl, s.run[r])
             BY <1>3, <2>2, <2>4, <2>5 DEF Has
       <2>7. Has(cl, h.run[r])
             <3>1. PICK p \in Copy, i \in Copy : p = s.run[r] /\ i = disk.run[r]
                   BY <1>8, HistoryFields
             <3>2. PICK c \in Copy : c = mergeConcurrentRunCopies(p, i)
                                     /\ MergedFrom(c, p, i)
                   BY MergeOfCopies DEF MergedFrom
             <3>3. /\ h.cleared \in {disk.cleared, s.cleared} /\ h.cleared \in Nat
                   /\ h.run[r] = applyTombstone(c, h.cleared)
                   BY <1>2, <1>8, <3>1, <3>2, MergeOfHistories, HistoryFields
             <3>4. /\ p.status \in {"complete", "error"} /\ Ended(p)
                   /\ i.status \in {"none", "running", "unknown"}
                   BY <1>3, <2>2, <2>5, <3>1, CopyKinds DEF Ended
             <3>5. i.status \in {"running", "unknown"} => i.updated = call[r].at
                   BY <1>10, <3>1 DEF Follows
             <3>6. now <= p.updated /\ call[r].at < now
                   BY <1>1, <1>13, <2>1, <3>1 DEF Updated, Finish
             <3>7. /\ p.updated \in Nat /\ i.updated \in Nat /\ now \in Nat
                   /\ call[r].at \in Nat
                   BY <2>4, CopyKinds, StoreTypes
             <3>8. Ended(i) => Preferred(p, i) = p
                   BY <3>4, <3>5, <3>6, <3>7, PreferredOf DEF Ended
             <3>9. Like(c, p)
                   BY <3>2, <3>4, <3>8 DEF MergedFrom, Ended, IsActive
             <3>10. h.cleared < c.updated
                   BY <1>10, <1>11, <3>3, <3>6, <3>7, <3>9 DEF Like
             <3>11. h.run[r] = c
                   BY <3>3, <3>10, TombstoneOf
             <3> QED BY <2>4, <3>4, <3>9, <3>11 DEF Has, Like
       <2> QED BY <1>2, <1>4, <1>5, <1>6, <1>13, <2>3, <2>6, <2>7, CarriedFirst
<1> QED BY <1>12, <1>13

\* A page comes or goes.
LEMMA KeptMoves ==
    ASSUME TypeOK, TraceInv, ClearsInv, KeptInv, QuietTabsAgree,
           NEW t \in Tabs, Leave(t) \/ Shut(t) \/ Mount(t),
           NEW r \in Runs, InScope(r)'
    PROVE  Waiting(r)' /\ Carried(r)'
<1>1. /\ call'[r].state = call[r].state
      /\ \A u \in Tabs : call'[r].by = u => call[r].by = u
      /\ Shut(t) => call'[r].by # t
      <2>1. CASE Shut(t)
            BY <2>1, OrphanedCall, BoundAssumption
      <2>2. CASE ~Shut(t)
            BY <2>2 DEF Leave, Mount
      <2> QED BY <2>1, <2>2
<1>2. swept'[r] = swept[r] /\ torn' = (torn \/ ~Settled)
      BY DEF Leave, Shut, Mount, Detach
<1>3. InScope(r) /\ Settled
      BY <1>1, <1>2 DEF InScope
<1>4. Waiting(r) /\ Carried(r)
      BY <1>3 DEF KeptInv
<1>5. Has(call[r], disk.run[r]) /\ writing = {}
      BY <1>3, <1>4, SettledHas DEF Settled, Quiet, TypeOK
<1>6. CASE Leave(t)
      <2>1. /\ UNCHANGED <<disk, mem, writing>> /\ page'[t] = "left"
            /\ \A u \in Tabs : u # t => page'[u] = page[u]
            BY <1>6 DEF Leave, TypeOK
      <2> QED BY <1>1, <1>3, <1>4, <1>5, <2>1, CarriedMove
<1>7. CASE Shut(t)
      <2>1. /\ UNCHANGED disk /\ writing' = {} /\ page'[t] = "shut"
            /\ \A u \in Tabs : u # t => page'[u] = page[u] /\ mem'[u] = mem[u]
            BY <1>5, <1>7 DEF Shut, TypeOK
      <2> QED BY <1>1, <1>3, <1>4, <1>7, <2>1, CarriedMove
<1>8. CASE Mount(t)
      <2>1. PICK h \in History : h = reclaimExpiredLeases(disk) /\ Persist(t, h)
                                 /\ UNCHANGED disk
            BY <1>8, ActionResults
      <2>2. /\ page'[t] = "open" /\ mem'[t] = h
            /\ \A u \in Tabs : u # t => page'[u] = page[u] /\ mem'[u] = mem[u]
            BY <1>8, <2>1, PersistEffect DEF Mount, TypeOK
      <2>3. PICK res \in Result : Safe(call[r], res, r)
            BY <1>3, SafeInScope DEF InScope
      <2>4. Has(call[r], h.run[r])
            BY <1>5, <2>1, <2>3, HasResults
      <2>5. ~Unheard'
            BY <2>2 DEF Unheard
      <2> QED BY <1>1, <1>3, <1>4, <2>1, <2>2, <2>4, <2>5, CarriedMove
<1> QED BY <1>6, <1>7, <1>8

\* Every step keeps the runs that nothing excuses the loss of.
LEMMA KeptNext ==
    ASSUME TypeOK, TraceInv, ClearsInv, QuietTabsAgree, KeptInv, [Next]_vars
    PROVE  KeptInv'
<1> SUFFICES ASSUME NEW r \in Runs, InScope(r)'
             PROVE  Waiting(r)' /\ Carried(r)'
    BY DEF KeptInv
<1>1. CASE Tick \/ UNCHANGED vars
      <2>1. UNCHANGED <<disk, mem, writing, events, page, call, swept, torn>>
            BY <1>1 DEF Tick, vars
      <2>2. InScope(r)
            BY <2>1 DEF InScope
      <2>3. Waiting(r) /\ Carried(r)
            BY <2>2 DEF KeptInv
      <2>4. Waiting(r)'
            BY <2>1, <2>3, WaitingNext DEF Waiting
      <2>5. Unheard' => Unattended(r)'
            BY <2>1, <2>3, UnattendedNext DEF Carried, Unattended, Unheard
      <2>6. \A u \in Tabs : page'[u] = "open" => OnItsWay(r, u)'
            BY <2>1, <2>3, OnItsWayNext DEF Carried, OnItsWay
      <2> QED BY <2>4, <2>5, <2>6 DEF Carried
<1>2. ASSUME NEW t \in Tabs, Flush(t)
      PROVE  Waiting(r)' /\ Carried(r)'
      <2>1. InScope(r)
            BY <1>2 DEF InScope, Flush
      <2> QED BY <1>2, <2>1, CarriedFlush DEF KeptInv
<1>3. ASSUME NEW t \in Tabs, Deliver(t) \/ Beat(t)
      PROVE  Waiting(r)' /\ Carried(r)'
      <2>1. InScope(r)
            BY <1>3 DEF InScope, Deliver, Beat
      <2> QED BY <1>3, <2>1, KeptScript DEF KeptInv
<1>4. ASSUME NEW t \in Tabs, Clear(t)
      PROVE  FALSE
      BY <1>4, ClearTyped DEF InScope, Clear
<1>5. ASSUME NEW t \in Tabs, NEW q \in Runs, NEW refs \in RefKinds,
             Generate(t, q, refs)
      PROVE  Waiting(r)' /\ Carried(r)'
      <2>1. refs \in {"none", "held", "stripped"}
            BY BoundAssumption
      <2> QED BY <1>5, <2>1, KeptStart DEF Generate
<1>6. ASSUME NEW t \in Tabs, NEW q \in Runs, NEW source \in Runs,
             Retry(t, source, q)
      PROVE  Waiting(r)' /\ Carried(r)'
      BY <1>6, RetryRefs, KeptStart DEF Retry
<1> QED BY <1>1, <1>2, <1>3, <1>4, <1>5, <1>6, KeptFinish, KeptMoves DEF Next

\* No run has been started at first.
LEMMA KeptInit == Init => ClearsInv /\ KeptInv
<1> SUFFICES ASSUME Init PROVE \A r \in Runs : call[r].state = "none"
    BY DEF ClearsInv, KeptInv, InScope
<1> QED BY DEF Init, NoCall

\* Without a Clear and without a disturbance every run is in localStorage and
\* on every page, or on its way there.
THEOREM RunsAreCarried == Spec => [](ClearsInv /\ KeptInv)
<1>1. TypeOK /\ TraceInv /\ QuietTabsAgree /\ ClearsInv /\ KeptInv
      /\ [Next]_vars => ClearsInv' /\ KeptInv'
      BY ClearsNext, KeptNext
<1> QED BY <1>1, KeptInit, TypeCorrect, CopiesTellOneStory,
           QuietTabsShowStorage, PTL DEF Spec

\* The result of a paid call is in the history once the tabs are quiet: the
\* overwritten writes of tabs that do not lock localStorage come back as
\* events, and every merge prefers the result.
THEOREM PaidResultsAreKept == Spec => []PaidResultKept
<1>1. ASSUME TypeOK, TraceInv, QuietTabsAgree, ClearsInv, KeptInv,
             NEW r \in Runs, call[r].paid, swept[r] = "no", ~torn, Settled
      PROVE  disk.run[r].status = "complete"
      <2>1. PICK res \in Result : Traced(r, res)
            BY <1>1 DEF TraceInv
      <2>2. call[r].state = "over" /\ res.status = "complete"
            BY <1>1, <2>1 DEF Traced
      <2>3. Carried(r)
            BY <1>1, <2>2 DEF KeptInv, InScope
      <2>4. Has(call[r], disk.run[r])
            BY <1>1, <2>3, SettledHas
      <2>5. Follows(call[r], res, disk.run[r])
            BY <1>1, <2>1 DEF Traced, TypeOK, Known
      <2> QED BY <2>2, <2>4, <2>5 DEF Has, Follows
<1>2. TypeOK /\ TraceInv /\ QuietTabsAgree /\ ClearsInv /\ KeptInv
      => PaidResultKept
      BY <1>1 DEF PaidResultKept
<1> QED BY <1>2, TypeCorrect, CopiesTellOneStory, QuietTabsShowStorage,
           RunsAreCarried, PTL
=============================================================================
