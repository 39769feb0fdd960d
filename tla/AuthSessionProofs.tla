-------------------------- MODULE AuthSessionProofs --------------------------
(***************************************************************************)
(* Proofs about AuthSession for any number of tabs, sessions, generations  *)
(* and retries, and any bound on what is started or fails.  What a tab     *)
(* does to its own store needs no lock; what the profile's cookie promises *)
(* about the server's row is proved for browsers with the Web Lock.        *)
(***************************************************************************)
EXTENDS AuthSession, TLAPS

-----------------------------------------------------------------------------
(***************************************************************************)
(* The inductive invariant of a tab.                                       *)
(***************************************************************************)

\* A run that is over has left nothing behind; only a request on its way
\* has a cookie and an expected session, only an answered one a reply.
Shaped(r) ==
    /\ r.ph = "none" => r = NoRun
    /\ r.ph # "sent" => r.tok = None /\ r.exp = None
    /\ r.ph # "reply" => r.rep.kind = "none"
    /\ r.rep.kind = "ok" => r.rep.tok \in Token
    /\ r.ph = "wait" => r.att < RaceRetries

RunShape == \A t \in Tabs : Shaped(run[t])

\* The retry after a mismatch comes from an emptied store, so it names no
\* session that the server could contradict.
RetryNamesNobody ==
    \A t \in Tabs :
        run[t].cur /\ ~run[t].mm =>
            /\ store[t].sid = None
            /\ run[t].exp = None
            /\ run[t].rep.kind # "mismatch"

\* Whatever refresh a signed-out tab still has is a superseded one.
SignedOutIsSuperseded ==
    \A t \in signedOut :
        store[t].sid = None /\ (run[t].ph = "none" \/ ~run[t].cur)

\* A refresh that is current is about the session of the store.
RunOfTheStore ==
    \A t \in Tabs :
        run[t].cur =>
            /\ run[t].ph = "sent" => run[t].exp = store[t].sid
            /\ run[t].rep.kind = "ok" =>
                  store[t].sid \in {None, run[t].rep.tok.sid}

TabInv ==
    /\ TypeOK
    /\ RunShape
    /\ RetryNamesNobody
    /\ SignedOutIsSuperseded
    /\ RunOfTheStore

-----------------------------------------------------------------------------
(***************************************************************************)
(* The inductive invariant of the profile and the server.                  *)
(***************************************************************************)

\* The phases between the grant of the lock and its release.
Holding == {"ready", "sent", "reply", "wait"}

\* Whoever refreshes is in the lock's queue, and at its head once granted.
LockInv ==
    \A t \in Tabs :
        /\ run[t].ph # "none" => \E i \in DOMAIN queue : queue[i] = t
        /\ run[t].ph \in Holding => queue # <<>> /\ Head(queue) = t

\* A token that was handed out: its session exists and its sign-in reply
\* has arrived.
Issued(tok) ==
    /\ row[tok.sid].status # "unused"
    /\ \A t \in Tabs : login[t].sid # tok.sid

TokensIssued ==
    /\ jar # None => Issued(jar)
    /\ orphan # None => Issued(orphan.tok)
    /\ \A t \in Tabs :
          /\ run[t].tok # None => Issued(run[t].tok)
          /\ run[t].rep.kind = "ok" => Issued(run[t].rep.tok)

\* A session not signed in yet is at generation 0 and belongs to one tab.
NewSessions ==
    /\ \A s \in Sids : row[s].status = "unused" =>
          row[s].gen = 0 /\ \A t \in Tabs : login[t].sid # s
    /\ \A t \in Tabs : login[t].sid # None =>
          /\ row[login[t].sid].gen = 0
          /\ \A u \in Tabs : login[u].sid = login[t].sid => u = t

\* A request on its way carries the cookie of the jar, as long as the jar
\* keeps that session; an abandoned one carries none that is newer.
NoTokenAhead ==
    /\ \A t \in Tabs : run[t].tok # None =>
          /\ jar # None /\ jar.sid = run[t].tok.sid
                => jar.gen = run[t].tok.gen
          /\ orphan # None /\ orphan.tok.sid = run[t].tok.sid
                => orphan.tok.gen <= run[t].tok.gen
    /\ jar # None /\ orphan # None /\ orphan.tok.sid = jar.sid
          => orphan.tok.gen <= jar.gen

\* An accepted reply on its way is the row's current token, and no
\* abandoned request can rotate the row past it.
ReplyIsCurrent ==
    \A t \in Tabs : run[t].rep.kind = "ok" =>
        /\ row[run[t].rep.tok.sid].gen = run[t].rep.tok.gen
        /\ orphan # None /\ orphan.tok.sid = run[t].rep.tok.sid
              => orphan.tok.gen < run[t].rep.tok.gen

\* A cookie is behind its row only for a reply that is on its way, or a new
\* token that never came.
BehindForAReason ==
    /\ orphan # None => orphan.tok.sid \in undelivered
    /\ \A t \in Tabs :
          run[t].tok # None /\ row[run[t].tok.sid].status = "active" =>
              \/ row[run[t].tok.sid].gen = run[t].tok.gen
              \/ run[t].tok.sid \in undelivered
    /\ jar # None /\ row[jar.sid].status = "active" =>
          \/ row[jar.sid].gen = jar.gen
          \/ jar.sid \in undelivered
          \/ \E t \in Tabs : /\ run[t].rep.kind = "ok"
                             /\ run[t].rep.tok.sid = jar.sid

CookieInv ==
    /\ TokensIssued
    /\ NewSessions
    /\ NoTokenAhead
    /\ ReplyIsCurrent
    /\ BehindForAReason
    /\ JarAtMostOneBehind
    /\ ReuseOnlyIfUndelivered

ProfileInv == HasLocks => LockInv /\ CookieInv

IInv == TabInv /\ ProfileInv

USE SidAssumption, BoundAssumption

-----------------------------------------------------------------------------
(***************************************************************************)
(* The model's operators.                                                  *)
(***************************************************************************)

\* Leaving the queue leaves a queue of tabs.
LEMMA WithoutTyped ==
    ASSUME NEW q \in Seq(Tabs), NEW t \in Tabs
    PROVE  Without(q, t) \in Seq(Tabs)
<1>1. CASE \E i \in DOMAIN q : q[i] = t
  <2> DEFINE k == CHOOSE i \in DOMAIN q : q[i] = t
  <2>1. k \in DOMAIN q
    BY <1>1
  <2> HIDE DEF k
  <2>2. /\ Len(q) \in Nat /\ DOMAIN q = 1..Len(q)
        /\ \A i \in 1..Len(q) : q[i] \in Tabs
    OBVIOUS
  <2>3. Len(q) - 1 \in Nat
    BY <2>1, <2>2
  <2>4. [i \in 1..(Len(q) - 1) |-> IF i < k THEN q[i] ELSE q[i + 1]]
            \in [1..(Len(q) - 1) -> Tabs]
    BY <2>1, <2>2
  <2>5. Without(q, t) =
            [i \in 1..(Len(q) - 1) |-> IF i < k THEN q[i] ELSE q[i + 1]]
    BY <1>1 DEF Without, k
  <2> QED BY <2>3, <2>4, <2>5
<1>2. CASE ~\E i \in DOMAIN q : q[i] = t
    BY <1>2 DEF Without
<1> QED BY <1>1, <1>2

\* Leaving the queue moves nobody else out of it, and nobody past its head.
LEMMA WithoutKeeps ==
    ASSUME NEW q \in Seq(Tabs), NEW t \in Tabs, NEW u \in Tabs, u # t,
           NEW j \in DOMAIN q, q[j] = u
    PROVE  /\ \E i \in DOMAIN Without(q, t) : Without(q, t)[i] = u
           /\ Head(q) = u => /\ Without(q, t) # <<>>
                             /\ Head(Without(q, t)) = u
<1>1. CASE \E i \in DOMAIN q : q[i] = t
  <2> DEFINE k == CHOOSE i \in DOMAIN q : q[i] = t
             w == [i \in 1..(Len(q) - 1) |->
                      IF i < k THEN q[i] ELSE q[i + 1]]
  <2>1. k \in DOMAIN q /\ q[k] = t
    BY <1>1
  <2>2. Without(q, t) = w
    BY <1>1 DEF Without
  <2> HIDE DEF k
  <2>3. /\ Len(q) \in Nat /\ DOMAIN q = 1..Len(q)
        /\ k \in 1..Len(q) /\ j \in 1..Len(q) /\ j # k
    BY <2>1
  <2>4. DOMAIN w = 1..(Len(q) - 1)
    OBVIOUS
  <2>5. \E i \in DOMAIN w : w[i] = u
    <3>1. CASE j < k
        BY <3>1, <2>3, <2>4
    <3>2. CASE j > k
      <4>1. j - 1 \in DOMAIN w /\ ~(j - 1 < k) /\ (j - 1) + 1 = j
        BY <3>2, <2>3
      <4>2. w[j - 1] = q[j]
        BY <4>1
      <4> QED BY <4>1, <4>2
    <3> QED BY <3>1, <3>2, <2>3
  <2>6. ASSUME Head(q) = u
        PROVE  w # <<>> /\ Head(w) = u
    <3>1. q[1] = u
        BY <2>6, <2>3
    <3>2. 1 < k
        BY <3>1, <2>1, <2>3
    <3>3. 1 \in DOMAIN w /\ w[1] = u
        BY <3>1, <3>2, <2>3
    <3>4. w \in Seq(Tabs)
        BY <2>2, WithoutTyped
    <3> HIDE DEF w
    <3>5. w # <<>> /\ Head(w) = w[1]
        BY <3>3, <3>4
    <3> QED BY <3>3, <3>5
  <2> QED BY <2>2, <2>5, <2>6
<1>2. CASE ~\E i \in DOMAIN q : q[i] = t
  <2>1. Without(q, t) = q
    BY <1>2 DEF Without
  <2> QED BY <2>1
<1> QED BY <1>1, <1>2

\* What an answer of RotateUserSessionRefresh does to the rows: a session
\* changes only when it is active and its token was presented.
RotationOutcome(tok, exp, a) ==
    /\ a.rows \in [Sids -> Row]
    /\ a.rep \in Reply
    /\ a.rep.kind = "mismatch" => exp # None
    /\ a.rep.kind = "ok" =>
          /\ tok # None
          /\ exp \in {None, tok.sid}
          /\ row[tok.sid].status = "active"
          /\ a.rep.tok = [sid |-> tok.sid, gen |-> tok.gen + 1]
          /\ a.rep.tok \in Token
          /\ a.rows[tok.sid].gen = tok.gen + 1
    /\ \A s \in Sids : a.rows[s] # row[s] =>
          /\ tok # None /\ s = tok.sid /\ row[s].status = "active"
          /\ \/ /\ a.rep.kind = "ok" /\ tok.gen = row[s].gen
                /\ a.rows[s].gen = row[s].gen + 1
                /\ a.rows[s].status = "active"
             \/ /\ a.rows[s].gen = row[s].gen
                /\ a.rows[s].status = "reused"
                /\ tok.gen + 1 = row[s].gen

\* What RefreshAuth answers to a token, by the case it finds.
LEMMA RotationFacts ==
    ASSUME TypeOK, NEW tok \in Token \cup {None}, NEW exp \in Sids \cup {None},
           NEW a \in Rotation(tok, exp)
    PROVE  RotationOutcome(tok, exp, a)
<1> USE DEF RotationOutcome
<1>1. row \in [Sids -> Row]
    BY DEF TypeOK
<1>2. \A k \in {"mismatch", "denied", "transient", "race"} :
          Plain(k) \in Reply /\ Plain(k).kind = k
    BY DEF Plain, Reply
<1>3. CASE ~Live(tok, exp)
  <2> DEFINE k == IF tok # None /\ exp \notin {None, tok.sid}
                  THEN "mismatch" ELSE "denied"
  <2>1. a = [rep |-> Plain(k), rows |-> row]
    BY <1>3 DEF Rotation
  <2>2. k \in {"mismatch", "denied"} /\ (k = "mismatch" => exp # None)
    OBVIOUS
  <2> HIDE DEF k
  <2>3. a.rows = row /\ a.rep = Plain(k)
    BY <2>1
  <2> QED BY <1>1, <1>2, <2>2, <2>3
<1>4. CASE Live(tok, exp)
  <2> DEFINE s == tok.sid
             r == row[s]
  <2>1. /\ tok # None /\ tok \in Token /\ exp \in {None, s} /\ s \in Sids
        /\ r.status = "active" /\ tok.gen \in 0..MaxGen
        /\ r \in Row /\ r.gen \in 0..MaxGen
    BY <1>1, <1>4 DEF Live, Token, Row
  <2>2. Rotation(tok, exp) =
            CASE tok.gen = r.gen /\ r.gen < MaxGen ->
                    {[rep |-> Accepted(s, r.gen + 1),
                      rows |-> [row EXCEPT ![s].gen = r.gen + 1,
                                           ![s].window = TRUE]]}
               [] tok.gen = r.gen /\ r.gen = MaxGen ->
                    {[rep |-> Plain("transient"), rows |-> row]}
               [] tok.gen = r.gen - 1 /\ r.window ->
                    {[rep |-> IF d THEN Accepted(s, r.gen)
                              ELSE Plain("race"),
                      rows |-> row] : d \in Derived}
               [] tok.gen = r.gen - 1 /\ ~r.window ->
                    {[rep |-> Plain("denied"),
                      rows |-> [row EXCEPT ![s].status = "reused"]]}
               [] OTHER -> {[rep |-> Plain("denied"), rows |-> row]}
    BY <1>4 DEF Rotation
  <2>3. \A g \in 0..MaxGen :
            /\ Accepted(s, g) \in Reply /\ Accepted(s, g).kind = "ok"
            /\ Accepted(s, g).tok = [sid |-> s, gen |-> g]
            /\ [sid |-> s, gen |-> g] \in Token
    BY <2>1 DEF Accepted, Reply, Token
  <2>4. CASE tok.gen = r.gen /\ r.gen < MaxGen
    <3>1. a = [rep |-> Accepted(s, r.gen + 1),
               rows |-> [row EXCEPT ![s].gen = r.gen + 1,
                                    ![s].window = TRUE]]
      <4>1. ~(r.gen = MaxGen) /\ ~(tok.gen = r.gen - 1)
        BY <2>1, <2>4
      <4> QED BY <2>2, <2>4, <4>1
    <3>2. r.gen + 1 \in 0..MaxGen
        BY <2>1, <2>4
    <3>3. a.rep = Accepted(s, r.gen + 1)
        BY <3>1
    <3>4. /\ a.rows \in [Sids -> Row] /\ a.rows[s].gen = r.gen + 1
          /\ a.rows[s].status = "active"
          /\ \A u \in Sids : u # s => a.rows[u] = row[u]
        BY <3>1, <3>2, <1>1, <2>1 DEF Row
    <3> QED BY <3>2, <3>3, <3>4, <2>1, <2>3, <2>4
  <2>5. CASE tok.gen = r.gen /\ r.gen = MaxGen
    <3>1. a = [rep |-> Plain("transient"), rows |-> row]
        BY <2>1, <2>2, <2>5
    <3>2. a.rep = Plain("transient") /\ a.rows = row
        BY <3>1
    <3> QED BY <3>2, <1>1, <1>2
  <2>6. CASE tok.gen = r.gen - 1 /\ r.window
    <3>1. ~(tok.gen = r.gen)
        BY <2>1, <2>6
    <3>2. PICK d \in Derived :
            a = [rep |-> IF d THEN Accepted(s, r.gen) ELSE Plain("race"),
                 rows |-> row]
        BY <2>2, <2>6, <3>1
    <3>3. /\ a.rows = row
          /\ a.rep = Accepted(s, r.gen) \/ a.rep = Plain("race")
        BY <3>2
    <3>4. r.gen = tok.gen + 1
        BY <2>1, <2>6
    <3>5. CASE a.rep = Accepted(s, r.gen)
        BY <3>3, <3>4, <3>5, <1>1, <2>1, <2>3
    <3>6. CASE a.rep = Plain("race")
        BY <3>3, <3>6, <1>1, <1>2
    <3> QED BY <3>3, <3>5, <3>6
  <2>7. CASE tok.gen = r.gen - 1 /\ ~r.window
    <3>1. ~(tok.gen = r.gen)
        BY <2>1, <2>7
    <3>2. a = [rep |-> Plain("denied"),
               rows |-> [row EXCEPT ![s].status = "reused"]]
        BY <2>2, <2>7, <3>1
    <3>3. a.rep = Plain("denied")
        BY <3>2
    <3>4. /\ a.rows \in [Sids -> Row] /\ a.rows[s].gen = r.gen
          /\ a.rows[s].status = "reused"
          /\ \A u \in Sids : u # s => a.rows[u] = row[u]
        BY <3>2, <1>1, <2>1 DEF Row
    <3>5. tok.gen + 1 = r.gen
        BY <2>1, <2>7
    <3> QED BY <3>3, <3>4, <3>5, <1>2, <2>1
  <2>8. CASE /\ ~(tok.gen = r.gen /\ r.gen < MaxGen)
             /\ ~(tok.gen = r.gen /\ r.gen = MaxGen)
             /\ ~(tok.gen = r.gen - 1 /\ r.window)
             /\ ~(tok.gen = r.gen - 1 /\ ~r.window)
    <3>1. a = [rep |-> Plain("denied"), rows |-> row]
        BY <2>2, <2>8
    <3>2. a.rep = Plain("denied") /\ a.rows = row
        BY <3>1
    <3> QED BY <3>2, <1>1, <1>2
  <2> QED BY <2>4, <2>5, <2>6, <2>7, <2>8
<1> QED BY <1>3, <1>4

-----------------------------------------------------------------------------
(***************************************************************************)
(* Type correctness and the shape of a run.                                *)
(***************************************************************************)

\* A tab that does not refresh has an empty run.
LEMMA NoRunTyped ==
    /\ NoRun \in Run /\ Shaped(NoRun) /\ NoRun.ph = "none"
    /\ NoRun.tok = None /\ NoRun.exp = None /\ NoRun.rep.kind = "none"
    /\ NoRun.cur /\ NoRun.mm
<1>1. Plain("none") \in Reply /\ Plain("none").kind = "none"
    BY DEF Plain, Reply
<1>2. NoRun \in Run
    BY <1>1 DEF NoRun, Run
<1>3. /\ NoRun.ph = "none" /\ NoRun.tok = None /\ NoRun.exp = None
      /\ NoRun.rep.kind = "none" /\ NoRun.cur /\ NoRun.mm
    BY <1>1 DEF NoRun
<1> QED BY <1>2, <1>3 DEF Shaped

\* A run that begins: from nothing, or again after a mismatch.
LEMMA FreshRun ==
    ASSUME NEW p \in {"queued", "ready"}, NEW r,
           \/ r = [NoRun EXCEPT !.ph = p]
           \/ r = [NoRun EXCEPT !.ph = p, !.mm = FALSE]
    PROVE  /\ r \in Run /\ Shaped(r) /\ r.ph = p
           /\ r.tok = None /\ r.exp = None /\ r.rep.kind = "none"
<1>1. r \in Run /\ r.ph = p
    BY NoRunTyped DEF Run
<1>2. r.tok = NoRun.tok /\ r.exp = NoRun.exp /\ r.rep = NoRun.rep
    BY NoRunTyped DEF Run
<1> QED BY <1>1, <1>2, NoRunTyped DEF Shaped

\* A tab whose run is replaced by a well-shaped one.
LEMMA RunMoves ==
    ASSUME TypeOK, RunShape, NEW t \in Tabs, NEW r \in Run, Shaped(r),
           run' = [run EXCEPT ![t] = r]
    PROVE  run' \in [Tabs -> Run] /\ RunShape'
BY DEF TypeOK, RunShape, Shaped

\* A refresh that is superseded goes on as before; only its outcome is
\* ignored.
LEMMA SupersededFacts ==
    ASSUME TypeOK, RunShape, NEW t \in Tabs
    PROVE  /\ Superseded(t) \in Run
           /\ Shaped(Superseded(t))
           /\ Superseded(t).ph = run[t].ph
           /\ Superseded(t).tok = run[t].tok
           /\ Superseded(t).exp = run[t].exp
           /\ Superseded(t).rep = run[t].rep
           /\ Superseded(t).ph = "none" \/ ~Superseded(t).cur
<1>1. run[t] \in Run /\ Shaped(run[t])
    BY DEF TypeOK, RunShape
<1>2. CASE run[t].ph = "none"
    BY <1>1, <1>2 DEF Superseded
<1>3. CASE run[t].ph # "none"
  <2> DEFINE r == [run[t] EXCEPT !.cur = FALSE]
  <2>1. Superseded(t) = r
    BY <1>3 DEF Superseded
  <2>2. /\ r \in Run /\ r.ph = run[t].ph /\ r.tok = run[t].tok
        /\ r.exp = run[t].exp /\ r.rep = run[t].rep /\ r.att = run[t].att
        /\ ~r.cur
    BY <1>1 DEF Run
  <2>3. Shaped(r)
    BY <1>1, <1>3, <2>2 DEF Shaped
  <2> QED BY <2>1, <2>2, <2>3
<1> QED BY <1>2, <1>3

\* Starting or joining a refresh keeps the types.
LEMMA StartRunTyped ==
    ASSUME TypeOK, RunShape, NEW t \in Tabs, StartRun(t)
    PROVE  /\ run' \in [Tabs -> Run] /\ RunShape'
           /\ queue' \in Seq(Tabs) /\ signedOut' \subseteq Tabs
<1>1. CASE run[t].ph # "none"
    BY <1>1 DEF StartRun, TypeOK, RunShape, Shaped
<1>2. CASE run[t].ph = "none"
  <2>1. PICK r : /\ r \in Run /\ Shaped(r)
                 /\ run' = [run EXCEPT ![t] = r]
    BY <1>2, FreshRun DEF StartRun
  <2>2. queue' \in Seq(Tabs)
    <3>1. queue \in Seq(Tabs) /\ Append(queue, t) \in Seq(Tabs)
        BY DEF TypeOK
    <3>2. queue' = queue \/ queue' = Append(queue, t)
        BY <1>2 DEF StartRun
    <3> QED BY <3>1, <3>2
  <2>3. signedOut' \subseteq Tabs
    BY <1>2 DEF StartRun, TypeOK
  <2> QED BY <2>1, <2>2, <2>3, RunMoves
<1> QED BY <1>1, <1>2

\* So does the end of a refresh.
LEMMA SettleTyped ==
    ASSUME TypeOK, RunShape, NEW t \in Tabs, NEW kind, NEW st \in Store,
           Settle(t, kind, st)
    PROVE  /\ run' \in [Tabs -> Run] /\ RunShape'
           /\ queue' \in Seq(Tabs)
           /\ store' \in [Tabs -> Store]
           /\ api' \in [Tabs -> Api]
           /\ out' \in [Tabs -> Out]
<1>1. run' \in [Tabs -> Run] /\ RunShape'
    BY NoRunTyped, RunMoves DEF Settle
<1>2. queue' \in Seq(Tabs)
    BY WithoutTyped DEF Settle, TypeOK
<1>3. store' \in [Tabs -> Store]
    BY DEF Settle, TypeOK
<1>4. ASSUME NEW s \in Sids \cup {None}
      PROVE  ApiAfter(t, kind, s) \in Api
  <2>1. /\ api[t] \in Api /\ NoApi \in Api
        /\ [ph |-> "retried", tok |-> s] \in Api
        /\ [ph |-> "once", tok |-> s] \in Api
    BY DEF TypeOK, Api, NoApi
  <2> QED BY <2>1 DEF ApiAfter
<1>5. (IF st.fresh THEN st.sid ELSE None) \in Sids \cup {None}
    BY DEF Store
<1>6. api' \in [Tabs -> Api]
  <2>1. api' = [api EXCEPT ![t] =
                  ApiAfter(t, kind, IF st.fresh THEN st.sid ELSE None)]
    BY DEF Settle
  <2> QED BY <2>1, <1>4, <1>5 DEF TypeOK
<1>7. OutAfter(t, kind) \in Out
  <2>1. PICK o \in Out : o = out[t]
    BY DEF TypeOK
  <2>2. [o EXCEPT !.ph = "again"] \in Out
    BY DEF Out
  <2>3. NoOut \in Out
    BY DEF Out, NoOut
  <2> QED BY <2>1, <2>2, <2>3 DEF OutAfter
<1>8. out' \in [Tabs -> Out]
    BY <1>7 DEF Settle, TypeOK
<1> QED BY <1>1, <1>2, <1>3, <1>6, <1>8

\* So does an event for the other tabs.
LEMMA PublishTyped ==
    ASSUME TypeOK, NEW t \in Tabs, NEW s \in Sids \cup {None},
           NEW kind \in {"authenticated", "signed_out"}, Publish(t, kind, s)
    PROVE  inbox' \in [Tabs -> Seq(Event)]
<1>1. ASSUME NEW u \in Tabs
      PROVE  (IF u = t \/ s = None THEN inbox[u]
              ELSE Append(inbox[u], [kind |-> kind, sid |-> s])) \in Seq(Event)
  <2>1. inbox[u] \in Seq(Event)
    BY DEF TypeOK
  <2>2. CASE ~(u = t \/ s = None)
    <3>1. [kind |-> kind, sid |-> s] \in Event
        BY <2>2 DEF Event
    <3> QED BY <2>1, <2>2, <3>1
  <2> QED BY <2>1, <2>2
<1> QED BY <1>1 DEF Publish

\* So do the counters of what users do and of what fails.
LEMMA BudgetTyped ==
    ASSUME TypeOK, Started \/ Failed \/ UNCHANGED budget
    PROVE  work' \in 0..MaxWork /\ faults' \in 0..MaxFaults
BY DEF TypeOK, Started, Failed, budget

\* What the auth store is set to is a store.
LEMMA StoresTyped ==
    /\ \A s \in Sids : Bundle(s) \in Store
    /\ \A b \in {"idle", "checking", "complete"} : Reset(b) \in Store
BY DEF Bundle, Reset, Store

\* A reply that is filed: the request's cookie and expectation are dropped.
LEMMA AnsweredFacts ==
    ASSUME NEW r \in Run, NEW rep \in Reply, Shaped(r), r.ph # "none",
           rep.kind = "ok" => rep.tok \in Token
    PROVE  /\ Answered(r, rep) \in Run
           /\ Shaped(Answered(r, rep))
           /\ Answered(r, rep).ph = "reply"
           /\ Answered(r, rep).rep = rep
           /\ Answered(r, rep).tok = None
           /\ Answered(r, rep).exp = None
           /\ Answered(r, rep).cur = r.cur
           /\ Answered(r, rep).mm = r.mm
<1> DEFINE x == [r EXCEPT !.ph = "reply", !.rep = rep, !.tok = None,
                          !.exp = None]
<1>1. /\ x \in Run /\ x.ph = "reply" /\ x.rep = rep /\ x.tok = None
      /\ x.exp = None /\ x.cur = r.cur /\ x.mm = r.mm
    BY DEF Run
<1>2. Shaped(x)
    BY <1>1 DEF Shaped
<1> QED BY <1>1, <1>2 DEF Answered

TypeInv == TypeOK /\ RunShape

\* The steps of a refresh before its reply.
LEMMA RefreshTyped ==
    ASSUME TypeInv, NEW t \in Tabs,
           Granted(t) \/ SendRefresh(t) \/ ServerRefresh(t) \/ RaceDelay(t)
              \/ LoseRefresh(t)
    PROVE  TypeInv'
<1> USE DEF TypeInv
<1>0. /\ run[t] \in Run /\ Shaped(run[t]) /\ store[t] \in Store
      /\ store[t].sid \in Sids \cup {None}
    BY DEF TypeOK, RunShape, Store
<1>1. CASE Granted(t)
  <2> DEFINE r == [run[t] EXCEPT !.ph = "ready"]
  <2>1. r \in Run /\ Shaped(r) /\ run' = [run EXCEPT ![t] = r]
    BY <1>0, <1>1 DEF Granted, Run, Shaped
  <2>2. run' \in [Tabs -> Run] /\ RunShape'
    BY <2>1, RunMoves
  <2> QED BY <1>1, <2>2 DEF Granted, TypeOK, ghosts, budget
<1>2. CASE SendRefresh(t)
  <2>1. CASE ~run[t].cur /\ Settle(t, "transient_error", store[t])
    <3>1. /\ run' \in [Tabs -> Run] /\ RunShape' /\ queue' \in Seq(Tabs)
          /\ store' \in [Tabs -> Store] /\ api' \in [Tabs -> Api]
          /\ out' \in [Tabs -> Out]
        BY <1>0, <2>1, SettleTyped
    <3> QED BY <1>2, <3>1 DEF SendRefresh, TypeOK, ghosts, budget
  <2>2. CASE /\ run' = [run EXCEPT ![t].ph = "sent", ![t].tok = jar,
                                   ![t].exp = store[t].sid]
             /\ UNCHANGED <<store, queue, api, out>>
    <3> DEFINE r == [run[t] EXCEPT !.ph = "sent", !.tok = jar,
                                   !.exp = store[t].sid]
    <3>1. run' = [run EXCEPT ![t] = r]
        BY <2>2 DEF TypeOK
    <3>2. r \in Run /\ r.ph = "sent" /\ r.rep = run[t].rep
        BY <1>0 DEF Run, TypeOK
    <3>3. Shaped(r)
        BY <3>2, <1>0, <1>2 DEF Shaped, SendRefresh
    <3>4. run' \in [Tabs -> Run] /\ RunShape'
        BY <3>1, <3>2, <3>3, RunMoves
    <3> QED BY <1>2, <2>2, <3>4 DEF SendRefresh, TypeOK, ghosts, budget
  <2> QED BY <1>2, <2>1, <2>2 DEF SendRefresh
<1>3. CASE ServerRefresh(t)
  <2> DEFINE Answers(rep) ==
                /\ row' \in [Sids -> Row] /\ undelivered' \in SUBSET Sids
                /\ rep.kind = "ok" => rep.tok \in Token
                /\ run' = [run EXCEPT ![t] = Answered(run[t], rep)]
                /\ Failed \/ UNCHANGED budget
  <2>1. PICK rep \in Reply : Answers(rep)
    <3>0. /\ undelivered \in SUBSET Sids
          /\ \A k \in {"transient", "other", "denied"} :
                Plain(k) \in Reply /\ Plain(k).kind # "ok"
        BY DEF TypeOK, Plain, Reply
    <3>a. ASSUME NEW a \in Rotation(run[t].tok, run[t].exp)
          PROVE  /\ a.rows \in [Sids -> Row] /\ a.rep \in Reply
                 /\ a.rep.kind = "ok" =>
                       a.rep.tok \in Token /\ a.rep.tok.sid \in Sids
      <4>1. run[t].tok \in Token \cup {None} /\ run[t].exp \in Sids \cup {None}
        BY <1>0 DEF Run
      <4>2. RotationOutcome(run[t].tok, run[t].exp, a)
        BY <4>1, RotationFacts
      <4> QED BY <4>2 DEF RotationOutcome, Token
    <3>1. ASSUME NEW a \in Rotation(run[t].tok, run[t].exp),
                 row' = a.rows, UNCHANGED <<undelivered, budget>>,
                 run' = [run EXCEPT ![t] = Answered(run[t], a.rep)]
          PROVE  a.rep \in Reply /\ Answers(a.rep)
        BY <3>0, <3>a, <3>1
    <3>2. ASSUME NEW k \in {"transient", "other", "denied"}, Failed,
                 run' = [run EXCEPT ![t] = Answered(run[t], Plain(k))],
                 UNCHANGED <<row, undelivered>>
          PROVE  Plain(k) \in Reply /\ Answers(Plain(k))
        BY <3>0, <3>2 DEF TypeOK
    <3>3. ASSUME NEW a \in Rotation(run[t].tok, run[t].exp), Failed,
                 a.rep.kind = "ok", row' = a.rows,
                 undelivered' = undelivered \cup {a.rep.tok.sid},
                 run' = [run EXCEPT ![t] =
                            Answered(run[t], Plain("transient"))]
          PROVE  Plain("transient") \in Reply /\ Answers(Plain("transient"))
      <4>1. undelivered' \in SUBSET Sids
        BY <3>0, <3>a, <3>3
      <4> QED BY <3>0, <3>a, <3>3, <4>1
    <3> HIDE DEF Answers
    <3> QED BY <1>3, <3>1, <3>2, <3>3 DEF ServerRefresh
  <2>2. run[t].ph # "none"
    BY <1>3 DEF ServerRefresh
  <2>3. /\ Answered(run[t], rep) \in Run /\ Shaped(Answered(run[t], rep))
        /\ run' = [run EXCEPT ![t] = Answered(run[t], rep)]
    BY <1>0, <2>1, <2>2, AnsweredFacts
  <2>4. run' \in [Tabs -> Run] /\ RunShape'
    BY <2>3, RunMoves
  <2>5. work' \in 0..MaxWork /\ faults' \in 0..MaxFaults
    BY <2>1, BudgetTyped
  <2> QED BY <1>3, <2>1, <2>4, <2>5 DEF ServerRefresh, TypeOK
<1>4. CASE RaceDelay(t)
  <2> DEFINE r == [run[t] EXCEPT !.ph = "ready", !.att = @ + 1]
  <2>1. run' = [run EXCEPT ![t] = r]
    BY <1>4 DEF RaceDelay, TypeOK
  <2>2. run[t].att + 1 \in 0..RaceRetries
    BY <1>0, <1>4 DEF RaceDelay, Shaped, Run
  <2>3. /\ r \in Run /\ r.ph = "ready" /\ r.rep = run[t].rep
        /\ r.tok = run[t].tok /\ r.exp = run[t].exp
    BY <1>0, <2>2 DEF Run
  <2>4. Shaped(r)
    BY <2>3, <1>0, <1>4 DEF RaceDelay, Shaped
  <2>5. run' \in [Tabs -> Run] /\ RunShape'
    BY <2>1, <2>3, <2>4, RunMoves
  <2> QED BY <1>4, <2>5 DEF RaceDelay, TypeOK, ghosts, budget
<1>5. CASE LoseRefresh(t)
  <2>1. Plain("transient") \in Reply /\ Plain("transient").kind # "ok"
    BY DEF Plain, Reply
  <2>2. run[t].ph # "none" /\
        run' = [run EXCEPT ![t] = Answered(run[t], Plain("transient"))]
    BY <1>5 DEF LoseRefresh
  <2>3. /\ Answered(run[t], Plain("transient")) \in Run
        /\ Shaped(Answered(run[t], Plain("transient")))
    BY <1>0, <2>1, <2>2, AnsweredFacts
  <2>4. run' \in [Tabs -> Run] /\ RunShape'
    BY <2>2, <2>3, RunMoves
  <2>5. undelivered' \subseteq Sids
    BY <1>0, <1>5 DEF LoseRefresh, TypeOK, Shaped, Token
  <2>6. work' \in 0..MaxWork /\ faults' \in 0..MaxFaults
    BY <1>5, BudgetTyped DEF LoseRefresh
  <2> QED BY <1>5, <2>4, <2>5, <2>6 DEF LoseRefresh, TypeOK
<1> QED BY <1>1, <1>2, <1>3, <1>4, <1>5

\* The reply of a refresh, by its kind.
LEMMA RefreshReplyTyped ==
    ASSUME TypeInv, NEW t \in Tabs, RefreshReply(t)
    PROVE  TypeInv'
<1> USE DEF TypeInv
<1> DEFINE rep == run[t].rep
<1>0. /\ run[t] \in Run /\ Shaped(run[t]) /\ store[t] \in Store
      /\ store[t].sid \in Sids \cup {None} /\ run[t].ph = "reply"
      /\ rep \in Reply
      /\ [store[t] EXCEPT !.boot = "idle"] \in Store
  <2>1. run[t] \in Run /\ Shaped(run[t]) /\ store[t] \in Store
    BY DEF TypeOK, RunShape
  <2>2. run[t].ph = "reply"
    BY DEF RefreshReply
  <2> QED BY <2>1, <2>2 DEF Store, Run
<1>1. jar' \in Token \cup {None}
    BY <1>0 DEF RefreshReply, JarAfter, TypeOK, Shaped
<1>2. \A b \in {"idle", "checking", "complete"} : Reset(b) \in Store
    BY StoresTyped
<1>3. /\ row' = row /\ login' = login /\ orphan' = orphan /\ undelivered' = undelivered
      /\ signedOut' = signedOut /\ work' = work /\ faults' = faults
    BY DEF RefreshReply, ghosts, budget
<1>4. ASSUME NEW kind, NEW st \in Store, Settle(t, kind, st),
             inbox' \in [Tabs -> Seq(Event)]
      PROVE  TypeOK' /\ RunShape'
  <2>1. /\ run' \in [Tabs -> Run] /\ RunShape' /\ queue' \in Seq(Tabs)
        /\ store' \in [Tabs -> Store] /\ api' \in [Tabs -> Api]
        /\ out' \in [Tabs -> Out]
    BY <1>4, SettleTyped
  <2> QED BY <1>1, <1>3, <1>4, <2>1 DEF TypeOK
<1>5. UNCHANGED inbox => inbox' \in [Tabs -> Seq(Event)]
    BY DEF TypeOK
<1>6. CASE /\ ~run[t].cur
           /\ Settle(t, "transient_error", store[t])
           /\ UNCHANGED inbox
    BY <1>0, <1>4, <1>5, <1>6
<1>7. CASE /\ run[t].cur /\ rep.kind = "ok"
           /\ Settle(t, "authenticated", Bundle(rep.tok.sid))
           /\ UNCHANGED inbox
  <2>1. rep.tok.sid \in Sids
    BY <1>0, <1>7 DEF Shaped, Token
  <2> QED BY <1>4, <1>5, <1>7, <2>1, StoresTyped
<1>8. CASE /\ run[t].cur /\ rep.kind = "race" /\ Retriable(run[t])
           /\ run' = [run EXCEPT ![t].ph = "wait", ![t].rep = Plain("none")]
           /\ UNCHANGED <<store, queue, api, out, inbox>>
  <2> DEFINE r == [run[t] EXCEPT !.ph = "wait", !.rep = Plain("none")]
  <2>1. Plain("none") \in Reply /\ Plain("none").kind = "none"
    BY DEF Plain, Reply
  <2>2. run' = [run EXCEPT ![t] = r]
    BY <1>8 DEF TypeOK
  <2>3. /\ r \in Run /\ r.ph = "wait" /\ r.rep = Plain("none")
        /\ r.tok = run[t].tok /\ r.exp = run[t].exp /\ r.att = run[t].att
    BY <1>0, <2>1 DEF Run
  <2>4. Shaped(r)
    BY <1>0, <1>8, <2>1, <2>3 DEF Shaped, Retriable
  <2>5. run' \in [Tabs -> Run] /\ RunShape'
    BY <2>2, <2>3, <2>4, RunMoves
  <2> QED BY <1>1, <1>3, <1>8, <2>5 DEF TypeOK
<1>9. CASE /\ run[t].cur /\ rep.kind = "race" /\ ~Retriable(run[t])
           /\ Settle(t, "out_of_sync", Reset("complete"))
           /\ UNCHANGED inbox
    BY <1>2, <1>4, <1>5, <1>9
<1>10. CASE /\ run[t].cur /\ rep.kind = "mismatch" /\ run[t].mm
            /\ store' = [store EXCEPT ![t] = MismatchReset(t)]
            /\ run' = [run EXCEPT ![t] = [NoRun EXCEPT !.ph = "ready",
                                                      !.mm = FALSE]]
            /\ UNCHANGED <<queue, api, out, inbox>>
  <2>1. run' \in [Tabs -> Run] /\ RunShape'
    BY <1>10, FreshRun, RunMoves
  <2>2. store' \in [Tabs -> Store]
    BY <1>2, <1>10 DEF MismatchReset, TypeOK
  <2> QED BY <1>1, <1>3, <1>10, <2>1, <2>2 DEF TypeOK
<1>11. CASE /\ run[t].cur /\ rep.kind = "denied"
            /\ Settle(t, "anonymous", Reset("complete"))
            /\ Publish(t, "signed_out", store[t].sid)
  <2>1. inbox' \in [Tabs -> Seq(Event)]
    BY <1>0, <1>11, PublishTyped
  <2> QED BY <1>2, <1>4, <1>11, <2>1
<1>12. CASE /\ run[t].cur /\ rep.kind = "transient"
            /\ Settle(t, "transient_error", [store[t] EXCEPT !.boot = "idle"])
            /\ UNCHANGED inbox
    BY <1>0, <1>4, <1>5, <1>12
<1>13. CASE /\ run[t].cur
            /\ rep.kind = "other" \/ (rep.kind = "mismatch" /\ ~run[t].mm)
            /\ Settle(t, "out_of_sync", Reset("complete"))
            /\ UNCHANGED inbox
    BY <1>2, <1>4, <1>5, <1>13
<1> QED BY <1>6, <1>7, <1>8, <1>9, <1>10, <1>11, <1>12, <1>13 DEF RefreshReply

\* The load of a page.
LEMMA PageLoadTyped ==
    ASSUME TypeInv, NEW t \in Tabs, PageLoad(t),
           Started \/ Failed \/ UNCHANGED budget
    PROVE  TypeInv'
<1> USE DEF TypeInv
<1>0. run[t] \in Run /\ Shaped(run[t])
    BY DEF TypeOK, RunShape
<1>1. orphan' \in [tok : Token, exp : Sids \cup {None}] \cup {None}
    BY <1>0 DEF PageLoad, TypeOK, Run
<1>2. undelivered' \subseteq Sids
    BY <1>0 DEF PageLoad, TypeOK, Run, Shaped, Token
<1>3. api' \in [Tabs -> Api]
    BY DEF PageLoad, TypeOK, NoApi, Api
<1>4. out' \in [Tabs -> Out]
    BY DEF PageLoad, TypeOK, NoOut, Out
<1>5. /\ login' \in [Tabs -> Login]
      /\ inbox' \in [Tabs -> Seq(Event)]
      /\ signedOut' \subseteq Tabs
  <2>1. <<>> \in Seq(Event) /\ NoLogin \in Login
    BY DEF NoLogin, Login
  <2> QED BY <2>1 DEF PageLoad, TypeOK
<1>6. PICK hint \in BOOLEAN :
        /\ store' = [store EXCEPT ![t] = Reset(IF hint THEN "checking"
                                               ELSE "idle")]
        /\ run' = [run EXCEPT ![t] =
                       IF hint
                       THEN [NoRun EXCEPT !.ph =
                               IF HasLocks THEN "queued" ELSE "ready"]
                       ELSE NoRun]
        /\ queue' = IF hint /\ HasLocks THEN Append(Without(queue, t), t)
                    ELSE Without(queue, t)
    BY DEF PageLoad
<1>7. store' \in [Tabs -> Store]
    BY <1>6, StoresTyped DEF TypeOK
<1>8. run' \in [Tabs -> Run] /\ RunShape'
    BY <1>6, NoRunTyped, FreshRun, RunMoves
<1>9. queue' \in Seq(Tabs)
  <2>1. /\ Without(queue, t) \in Seq(Tabs)
        /\ Append(Without(queue, t), t) \in Seq(Tabs)
    BY WithoutTyped DEF TypeOK
  <2> QED BY <1>6, <2>1
<1>10. work' \in 0..MaxWork /\ faults' \in 0..MaxFaults
    BY BudgetTyped
<1> QED BY <1>1, <1>2, <1>3, <1>4, <1>5, <1>7, <1>8, <1>9, <1>10
        DEF TypeOK, PageLoad

\* Reloads, route guards, expiry and events of other tabs.
LEMMA PageTyped ==
    ASSUME TypeInv, NEW t \in Tabs,
           Reload(t) \/ Resolve(t) \/ TokenExpires(t) \/ Deliver(t)
    PROVE  TypeInv'
<1> USE DEF TypeInv
<1>0. store[t] \in Store /\ \A b \in {"idle", "checking", "complete"} :
          Reset(b) \in Store /\ [store[t] EXCEPT !.boot = b] \in Store
    BY StoresTyped DEF TypeOK, Store
<1>1. CASE Reload(t)
    BY <1>1, PageLoadTyped DEF Reload
<1>2. CASE Resolve(t)
  <2>1. /\ run' \in [Tabs -> Run] /\ RunShape' /\ queue' \in Seq(Tabs)
        /\ signedOut' \subseteq Tabs
    <3>1. CASE StartRun(t)
        BY <3>1, StartRunTyped
    <3>2. CASE UNCHANGED <<run, queue, signedOut>>
        BY <3>2 DEF TypeOK, RunShape, Shaped
    <3> QED BY <1>2, <3>1, <3>2 DEF Resolve
  <2>2. store' \in [Tabs -> Store]
    BY <1>0, <1>2 DEF Resolve, TypeOK
  <2>3. work' \in 0..MaxWork /\ faults' \in 0..MaxFaults
    BY <1>2, BudgetTyped DEF Resolve
  <2> QED BY <1>2, <2>1, <2>2, <2>3 DEF Resolve, TypeOK
<1>3. CASE TokenExpires(t)
  <2>1. store' \in [Tabs -> Store]
    BY <1>0, <1>3 DEF TokenExpires, TypeOK, Store
  <2>2. RunShape'
    BY <1>3 DEF TokenExpires, RunShape, Shaped
  <2> QED BY <1>3, <2>1, <2>2 DEF TokenExpires, TypeOK, ghosts, budget
<1>4. CASE Deliver(t)
  <2>0. inbox[t] \in Seq(Event) /\ inbox[t] # <<>>
    BY <1>4 DEF Deliver, TypeOK
  <2>1. Tail(inbox[t]) \in Seq(Event)
    BY <2>0
  <2>2. CASE PageLoad(t) /\ UNCHANGED budget
    BY <2>2, PageLoadTyped
  <2>3. CASE /\ store' = [store EXCEPT ![t] = Reset("complete")]
             /\ run' = [run EXCEPT ![t] = Superseded(t)]
             /\ inbox' = [inbox EXCEPT ![t] = Tail(@)]
             /\ UNCHANGED <<row, jar, queue, api, login, out, orphan, ghosts,
                            budget>>
    <3>1. run' \in [Tabs -> Run] /\ RunShape'
        BY <2>3, SupersededFacts, RunMoves
    <3>2. store' \in [Tabs -> Store] /\ inbox' \in [Tabs -> Seq(Event)]
        BY <1>0, <2>1, <2>3 DEF TypeOK
    <3> QED BY <2>3, <3>1, <3>2 DEF TypeOK, ghosts, budget
  <2>4. CASE /\ inbox' = [inbox EXCEPT ![t] = Tail(@)]
             /\ Failed \/ UNCHANGED budget
             /\ UNCHANGED <<row, jar, queue, store, run, api, login, out,
                            orphan, ghosts>>
    <3>1. inbox' \in [Tabs -> Seq(Event)] /\ RunShape'
        BY <2>1, <2>4 DEF TypeOK, RunShape, Shaped
    <3>2. work' \in 0..MaxWork /\ faults' \in 0..MaxFaults
        BY <2>4, BudgetTyped
    <3> QED BY <2>4, <3>1, <3>2 DEF TypeOK, ghosts
  <2> QED BY <1>4, <2>2, <2>3, <2>4 DEF Deliver
<1> QED BY <1>1, <1>2, <1>3, <1>4

\* The server answers a request whose page is gone.
LEMMA OrphanTyped ==
    ASSUME TypeInv, ServerOrphan
    PROVE  TypeInv'
<1> USE DEF TypeInv
<1>1. orphan.tok \in Token /\ orphan.exp \in Sids \cup {None}
    BY DEF ServerOrphan, TypeOK
<1>2. row' \in [Sids -> Row]
  <2>1. CASE UNCHANGED row
    BY <2>1 DEF TypeOK
  <2>2. ASSUME NEW a \in Rotation(orphan.tok, orphan.exp), row' = a.rows
        PROVE  row' \in [Sids -> Row]
    <3>1. RotationOutcome(orphan.tok, orphan.exp, a)
        BY <1>1, RotationFacts
    <3> QED BY <2>2, <3>1 DEF RotationOutcome
  <2> QED BY <2>1, <2>2 DEF ServerOrphan
<1>3. RunShape'
    BY DEF ServerOrphan, RunShape, Shaped
<1> QED BY <1>2, <1>3 DEF ServerOrphan, TypeOK, ghosts, budget

\* A row whose status changes keeps its generation.
LEMMA StatusChange ==
    ASSUME NEW r \in Row, NEW x \in {"unused", "active", "revoked", "reused"}
    PROVE  /\ [r EXCEPT !.status = x] \in Row
           /\ [r EXCEPT !.status = x].status = x
           /\ [r EXCEPT !.status = x].gen = r.gen
BY DEF Row

\* What AuthLogout does to the rows: it revokes one active session at most.
LEMMA LogoutTyped ==
    ASSUME TypeOK, NEW t \in Tabs
    PROVE  /\ LogoutAnswer(t).rows \in [Sids -> Row]
           /\ LogoutAnswer(t).rep \in {"ok", "mismatch"}
           /\ LogoutAnswer(t).clear \in BOOLEAN
           /\ \A s \in Sids :
                 /\ LogoutAnswer(t).rows[s].gen = row[s].gen
                 /\ \/ LogoutAnswer(t).rows[s] = row[s]
                    \/ /\ row[s].status = "active"
                       /\ LogoutAnswer(t).rows[s].status = "revoked"
<1> DEFINE acc == AccessToken(t)
<1>1. /\ row \in [Sids -> Row] /\ acc \in Sids \cup {None}
      /\ jar # None => jar.sid \in Sids
    BY DEF TypeOK, AccessToken, Store, Token
<1> DEFINE Kept(rows) ==
        /\ rows \in [Sids -> Row]
        /\ \A s \in Sids :
              /\ rows[s].gen = row[s].gen
              /\ \/ rows[s] = row[s]
                 \/ row[s].status = "active" /\ rows[s].status = "revoked"
<1>2. ASSUME NEW s \in Sids, row[s].status = "active"
      PROVE  Kept([row EXCEPT ![s].status = "revoked"])
  <2>1. [row EXCEPT ![s].status = "revoked"] =
            [row EXCEPT ![s] = [row[s] EXCEPT !.status = "revoked"]]
    BY <1>1
  <2>2. /\ [row[s] EXCEPT !.status = "revoked"] \in Row
        /\ [row[s] EXCEPT !.status = "revoked"].status = "revoked"
        /\ [row[s] EXCEPT !.status = "revoked"].gen = row[s].gen
    BY <1>1, StatusChange
  <2> QED BY <1>1, <1>2, <2>1, <2>2
<1>k. Kept(row)
    BY <1>1
<1>3. CASE store[t].sid # None /\ jar # None /\ jar.sid # store[t].sid
  <2>1. LogoutAnswer(t) = [rows |-> row, rep |-> "mismatch", clear |-> FALSE]
    BY <1>3 DEF LogoutAnswer
  <2> QED BY <1>1, <2>1
<1>4. CASE /\ ~(store[t].sid # None /\ jar # None /\ jar.sid # store[t].sid)
           /\ acc # None
  <2>1. /\ LogoutAnswer(t).rows =
              [row EXCEPT ![acc].status = IF @ = "active" THEN "revoked" ELSE @]
        /\ LogoutAnswer(t).rep = "ok"
        /\ LogoutAnswer(t).clear = (jar # None)
    BY <1>4 DEF LogoutAnswer
  <2>2. acc \in Sids
    BY <1>1, <1>4
  <2>3. \/ /\ row[acc].status = "active"
           /\ LogoutAnswer(t).rows = [row EXCEPT ![acc].status = "revoked"]
        \/ LogoutAnswer(t).rows = row
    <3>1. CASE row[acc].status = "active"
        BY <1>1, <2>1, <2>2, <3>1
    <3>2. CASE row[acc].status # "active"
        BY <1>1, <2>1, <2>2, <3>2 DEF Row
    <3> QED BY <3>1, <3>2
  <2>4. Kept(LogoutAnswer(t).rows)
    <3> HIDE DEF Kept
    <3> QED BY <1>2, <1>k, <2>2, <2>3
  <2>5. LogoutAnswer(t).clear \in BOOLEAN
    BY <2>1
  <2> QED BY <2>1, <2>4, <2>5
<1>5. CASE /\ ~(store[t].sid # None /\ jar # None /\ jar.sid # store[t].sid)
           /\ acc = None
  <2>1. /\ LogoutAnswer(t).rep = "ok" /\ LogoutAnswer(t).clear = TRUE
        /\ \/ LogoutAnswer(t).rows = row
           \/ /\ jar # None /\ row[jar.sid].status = "active"
              /\ LogoutAnswer(t).rows = [row EXCEPT ![jar.sid].status = "revoked"]
    BY <1>5 DEF LogoutAnswer
  <2>2. Kept(LogoutAnswer(t).rows)
    <3> HIDE DEF Kept
    <3> QED BY <1>1, <1>2, <1>k, <2>1
  <2> QED BY <2>1, <2>2
<1> QED BY <1>3, <1>4, <1>5

\* Sign-in, sign-out and rotations of the current session.
LEMMA SessionTyped ==
    ASSUME TypeInv, NEW t \in Tabs,
           \/ \E s \in Sids : SignIn(t, s)
           \/ SignInReply(t) \/ SignOut(t) \/ SignOutReply(t)
           \/ LoseSignOut(t)
    PROVE  TypeInv'
<1> USE DEF TypeInv
<1>0. /\ store[t] \in Store /\ store[t].sid \in Sids \cup {None}
      /\ Reset("complete") \in Store /\ NoOut \in Out
    BY StoresTyped DEF TypeOK, Store, NoOut, Out
<1>1. ASSUME NEW s \in Sids, SignIn(t, s)
      PROVE  TypeInv'
  <2>1. row' \in [Sids -> Row]
    <3>1. row \in [Sids -> Row]
        BY DEF TypeOK
    <3>2. [row[s] EXCEPT !.status = "active"] \in Row
        BY <3>1, StatusChange
    <3>3. row' = [row EXCEPT ![s] = [row[s] EXCEPT !.status = "active"]]
        BY <1>1, <3>1 DEF SignIn
    <3> QED BY <3>1, <3>2, <3>3
  <2>2. login' \in [Tabs -> Login] /\ RunShape'
    <3>1. PICK form \in BOOLEAN :
              login' = [login EXCEPT ![t] =
                          [sid |-> s, seen |-> store[t].sid, form |-> form]]
        BY <1>1 DEF SignIn
    <3>2. [sid |-> s, seen |-> store[t].sid, form |-> form] \in Login
        BY <1>0 DEF Login
    <3>3. login' \in [Tabs -> Login]
        BY <3>1, <3>2 DEF TypeOK
    <3> QED BY <1>1, <3>3 DEF SignIn, RunShape, Shaped
  <2>3. work' \in 0..MaxWork /\ faults' \in 0..MaxFaults
    BY <1>1, BudgetTyped DEF SignIn
  <2> QED BY <1>1, <2>1, <2>2, <2>3 DEF SignIn, TypeOK, ghosts
<1>2. CASE SignInReply(t)
  <2>1. login[t].sid \in Sids
    BY <1>2 DEF SignInReply, TypeOK, Login
  <2>2. jar' \in Token \cup {None} /\ login' \in [Tabs -> Login]
    BY <1>2, <2>1 DEF SignInReply, TypeOK, Token, NoLogin, Login
  <2>3. CASE /\ store' = [store EXCEPT ![t] = Bundle(login[t].sid)]
             /\ run' = [run EXCEPT ![t] = Superseded(t)]
             /\ Publish(t, "authenticated", login[t].sid)
             /\ signedOut' = signedOut \ {t}
    <3>1. run' \in [Tabs -> Run] /\ RunShape'
        BY <2>3, SupersededFacts, RunMoves
    <3>2. store' \in [Tabs -> Store]
        BY <2>1, <2>3, StoresTyped DEF TypeOK
    <3>3. inbox' \in [Tabs -> Seq(Event)]
        BY <2>1, <2>3, PublishTyped
    <3>4. signedOut' \subseteq Tabs
        BY <2>3 DEF TypeOK
    <3> QED BY <1>2, <2>2, <3>1, <3>2, <3>3, <3>4
            DEF SignInReply, TypeOK, budget
  <2>4. CASE UNCHANGED <<store, run, inbox, signedOut>>
    <3>1. RunShape'
        BY <2>4 DEF RunShape, Shaped
    <3> QED BY <1>2, <2>2, <2>4, <3>1 DEF SignInReply, TypeOK, budget
  <2> QED BY <1>2, <2>3, <2>4 DEF SignInReply
<1>3. CASE SignOut(t)
  <2>1. row' \in [Sids -> Row] /\ RunShape'
    BY <1>3, LogoutTyped DEF SignOut, RunShape, Shaped
  <2>2. out' \in [Tabs -> Out]
    <3> DEFINE o == [ph |-> "reply", rep |-> LogoutAnswer(t).rep,
                     clear |-> LogoutAnswer(t).clear,
                     retry |-> out[t].ph = "none"]
    <3>1. o \in Out
        BY LogoutTyped DEF Out
    <3>2. out' = [out EXCEPT ![t] = o]
        BY <1>3 DEF SignOut
    <3> HIDE DEF o
    <3> QED BY <3>1, <3>2 DEF TypeOK
  <2>3. work' \in 0..MaxWork /\ faults' \in 0..MaxFaults
    BY <1>3, BudgetTyped DEF SignOut
  <2> QED BY <1>3, <2>1, <2>2, <2>3 DEF SignOut, TypeOK, ghosts
<1>4. CASE SignOutReply(t)
  <2>1. jar' \in Token \cup {None}
    BY <1>4 DEF SignOutReply, TypeOK
  <2>2. [NoOut EXCEPT !.ph = "recover"] \in Out
    BY DEF NoOut, Out
  <2>3. out' \in [Tabs -> Out]
    BY <1>0, <1>4, <2>2 DEF SignOutReply, TypeOK
  <2>4. /\ run' \in [Tabs -> Run] /\ RunShape' /\ queue' \in Seq(Tabs)
        /\ signedOut' \subseteq Tabs
    <3>1. CASE StartRun(t)
        BY <3>1, StartRunTyped
    <3>2. CASE /\ run' = [run EXCEPT ![t] = Superseded(t)]
               /\ signedOut' = signedOut \cup {t}
               /\ UNCHANGED queue
      <4>1. run' \in [Tabs -> Run] /\ RunShape'
        BY <3>2, SupersededFacts, RunMoves
      <4> QED BY <3>2, <4>1 DEF TypeOK
    <3>3. CASE UNCHANGED <<store, run, queue, inbox, signedOut>>
        BY <3>3 DEF TypeOK, RunShape, Shaped
    <3> QED BY <1>4, <3>1, <3>2, <3>3 DEF SignOutReply
  <2>5. store' \in [Tabs -> Store]
    BY <1>0, <1>4 DEF SignOutReply, TypeOK
  <2>6. inbox' \in [Tabs -> Seq(Event)]
    <3>1. CASE Publish(t, "signed_out", store[t].sid)
        BY <1>0, <3>1, PublishTyped
    <3> QED BY <1>4, <3>1 DEF SignOutReply, TypeOK
  <2> QED BY <1>4, <2>1, <2>3, <2>4, <2>5, <2>6
          DEF SignOutReply, TypeOK, budget
<1>5. CASE LoseSignOut(t)
  <2>1. out' \in [Tabs -> Out] /\ RunShape'
    BY <1>0, <1>5 DEF LoseSignOut, TypeOK, RunShape, Shaped
  <2>2. work' \in 0..MaxWork /\ faults' \in 0..MaxFaults
    BY <1>5, BudgetTyped DEF LoseSignOut
  <2> QED BY <1>5, <2>1, <2>2 DEF LoseSignOut, TypeOK, ghosts
<1> QED BY <1>1, <1>2, <1>3, <1>4, <1>5

\* What a password change or the end of an account does to the rows: other
\* active sessions are revoked.
RowsEnd ==
    \A u \in Sids : \/ row'[u] = row[u]
                     \/ /\ row[u].status = "active"
                        /\ row'[u] = [row[u] EXCEPT !.status = "revoked"]

\* What it does to the rows, and what its reply waits for.
RequestOutcome(t) ==
    /\ row' \in [Sids -> Row] /\ RowsEnd
    /\ \E p \in {"rotating", "ending", "kept"}, s \in Sids :
          api' = [api EXCEPT ![t] = [ph |-> p, tok |-> s]]
    /\ UNCHANGED <<jar, queue, store, run, login, out, inbox, orphan,
                   undelivered, signedOut>>
    /\ Started

\* A request about the session itself has that outcome.
LEMMA RequestFacts ==
    ASSUME TypeOK, NEW t \in Tabs,
           \/ RotateCurrent(t) \/ DeleteAccount(t)
           \/ \E s \in Sids : DeleteSession(t, s)
    PROVE  RequestOutcome(t)
<1>0. /\ row \in [Sids -> Row]
      /\ \A u \in Sids : [row[u] EXCEPT !.status = "revoked"] \in Row
      /\ store[t].sid \in Sids \cup {None}
    BY StatusChange DEF TypeOK, Store
<1>1. store[t].sid \in Sids
    BY <1>0 DEF RotateCurrent, DeleteAccount, DeleteSession, Authorized,
                AccessToken
<1>2. CASE RotateCurrent(t)
    BY <1>0, <1>1, <1>2 DEF RotateCurrent, RowsEnd, RequestOutcome, ghosts
<1>3. CASE DeleteAccount(t)
    BY <1>0, <1>1, <1>3 DEF DeleteAccount, RowsEnd, RequestOutcome, ghosts
<1>4. ASSUME NEW s \in Sids, DeleteSession(t, s)
      PROVE  RequestOutcome(t)
  <2>1. row' = [row EXCEPT ![s] = [row[s] EXCEPT !.status = "revoked"]]
    BY <1>0, <1>4 DEF DeleteSession
  <2>2. row' \in [Sids -> Row] /\ RowsEnd
    BY <1>0, <1>4, <2>1 DEF DeleteSession, RowsEnd
  <2>3. \E p \in {"ending", "kept"} :
            api' = [api EXCEPT ![t] = [ph |-> p, tok |-> s]]
    BY <1>4 DEF DeleteSession
  <2> QED BY <1>4, <2>2, <2>3 DEF DeleteSession, RequestOutcome, ghosts
<1> QED BY <1>2, <1>3, <1>4

\* Those requests and their replies keep the types.
LEMMA RequestTyped ==
    ASSUME TypeInv, NEW t \in Tabs,
           \/ RotateCurrent(t) \/ RotateReply(t)
           \/ \E s \in Sids : DeleteSession(t, s)
           \/ DeleteAccount(t) \/ EndReply(t) \/ LoseReply(t)
    PROVE  TypeInv'
<1> USE DEF TypeInv
<1>0. /\ store[t] \in Store /\ store[t].sid \in Sids \cup {None}
      /\ Reset("complete") \in Store /\ NoApi \in Api
      /\ api[t] \in Api /\ api[t].tok \in Sids \cup {None}
    BY StoresTyped DEF TypeOK, Store, NoApi, Api
<1>1. CASE \/ RotateCurrent(t) \/ DeleteAccount(t)
           \/ \E s \in Sids : DeleteSession(t, s)
  <2>1. /\ row' \in [Sids -> Row] /\ Started
        /\ UNCHANGED <<jar, queue, store, run, login, out, inbox, orphan,
                       undelivered, signedOut>>
    BY <1>1, RequestFacts DEF RequestOutcome
  <2>2. PICK p \in {"rotating", "ending", "kept"}, s \in Sids :
            api' = [api EXCEPT ![t] = [ph |-> p, tok |-> s]]
    BY <1>1, RequestFacts DEF RequestOutcome
  <2>3. api' \in [Tabs -> Api]
    <3>1. [ph |-> p, tok |-> s] \in Api
        BY DEF Api
    <3> QED BY <2>2, <3>1 DEF TypeOK
  <2>4. work' \in 0..MaxWork /\ faults' \in 0..MaxFaults
    BY <2>1, BudgetTyped
  <2>5. RunShape'
    BY <2>1 DEF RunShape, Shaped
  <2> QED BY <2>1, <2>3, <2>4, <2>5 DEF TypeOK
<1>2. CASE RotateReply(t)
  <2>1. api' \in [Tabs -> Api]
    BY <1>0, <1>2 DEF RotateReply, TypeOK
  <2>2. CASE /\ store' = [store EXCEPT ![t] = Bundle(api[t].tok)]
             /\ run' = [run EXCEPT ![t] = Superseded(t)]
             /\ AcceptsRotation(t)
    <3>1. run' \in [Tabs -> Run] /\ RunShape'
        BY <2>2, SupersededFacts, RunMoves
    <3>2. Bundle(api[t].tok) \in Store
        BY <1>0 DEF Bundle, Store
    <3> QED BY <1>2, <2>1, <2>2, <3>1, <3>2
            DEF RotateReply, TypeOK, ghosts, budget
  <2>3. CASE UNCHANGED <<store, run>>
    <3>1. RunShape'
        BY <2>3 DEF RunShape, Shaped
    <3> QED BY <1>2, <2>1, <2>3, <3>1 DEF RotateReply, TypeOK, ghosts, budget
  <2> QED BY <1>2, <2>2, <2>3 DEF RotateReply
<1>3. CASE EndReply(t)
  <2>1. api' \in [Tabs -> Api] /\ jar' \in Token \cup {None}
    BY <1>0, <1>3 DEF EndReply, TypeOK
  <2>2. CASE /\ store' = [store EXCEPT ![t] = Reset("complete")]
             /\ run' = [run EXCEPT ![t] = Superseded(t)]
             /\ Publish(t, "signed_out", api[t].tok)
             /\ signedOut' = signedOut \cup {t}
    <3>1. run' \in [Tabs -> Run] /\ RunShape'
        BY <2>2, SupersededFacts, RunMoves
    <3>2. inbox' \in [Tabs -> Seq(Event)]
        BY <1>0, <2>2, PublishTyped
    <3>3. store' \in [Tabs -> Store] /\ signedOut' \subseteq Tabs
        BY <1>0, <2>2 DEF TypeOK
    <3> QED BY <1>3, <2>1, <3>1, <3>2, <3>3 DEF EndReply, TypeOK, budget
  <2>3. CASE UNCHANGED <<store, run, inbox, signedOut>>
    <3>1. RunShape'
        BY <2>3 DEF RunShape, Shaped
    <3> QED BY <1>3, <2>1, <2>3, <3>1 DEF EndReply, TypeOK, budget
  <2> QED BY <1>3, <2>2, <2>3 DEF EndReply
<1>4. CASE LoseReply(t)
  <2>1. api' \in [Tabs -> Api] /\ RunShape'
    BY <1>0, <1>4 DEF LoseReply, TypeOK, RunShape, Shaped
  <2>2. work' \in 0..MaxWork /\ faults' \in 0..MaxFaults
    BY <1>4, BudgetTyped DEF LoseReply
  <2> QED BY <1>4, <2>1, <2>2 DEF LoseReply, TypeOK, ghosts
<1> QED BY <1>1, <1>2, <1>3, <1>4

\* API calls.
LEMMA ApiTyped ==
    ASSUME TypeInv, NEW t \in Tabs,
           ApiSend(t) \/ ApiSendOnce(t) \/ ApiReply(t)
    PROVE  TypeInv'
<1> USE DEF TypeInv
<1>0. /\ AccessToken(t) \in Sids \cup {None} /\ NoApi \in Api
      /\ Reset("complete") \in Store
      /\ \A p \in {"refreshing", "freshening"} : [NoApi EXCEPT !.ph = p] \in Api
    BY StoresTyped DEF TypeOK, AccessToken, Store, NoApi, Api
<1>1. \A p \in {"sent", "once"} : [ph |-> p, tok |-> AccessToken(t)] \in Api
    BY <1>0 DEF Api
<1>2. CASE ApiSend(t)
  <2>1. api' \in [Tabs -> Api] /\ RunShape'
    BY <1>1, <1>2 DEF ApiSend, TypeOK, RunShape, Shaped
  <2>2. work' \in 0..MaxWork /\ faults' \in 0..MaxFaults
    BY <1>2, BudgetTyped DEF ApiSend
  <2> QED BY <1>2, <2>1, <2>2 DEF ApiSend, TypeOK, ghosts
<1>3. CASE ApiSendOnce(t)
  <2>1. /\ run' \in [Tabs -> Run] /\ RunShape' /\ queue' \in Seq(Tabs)
        /\ signedOut' \subseteq Tabs
    <3>1. CASE StartRun(t)
        BY <3>1, StartRunTyped
    <3>2. CASE UNCHANGED <<run, queue, signedOut>>
        BY <3>2 DEF TypeOK, RunShape, Shaped
    <3> QED BY <1>3, <3>1, <3>2 DEF ApiSendOnce
  <2>2. api' \in [Tabs -> Api]
    BY <1>0, <1>1, <1>3 DEF ApiSendOnce, TypeOK
  <2>3. work' \in 0..MaxWork /\ faults' \in 0..MaxFaults
    BY <1>3, BudgetTyped DEF ApiSendOnce
  <2> QED BY <1>3, <2>1, <2>2, <2>3 DEF ApiSendOnce, TypeOK
<1>4. CASE ApiReply(t)
  <2>1. /\ run' \in [Tabs -> Run] /\ RunShape' /\ queue' \in Seq(Tabs)
        /\ signedOut' \subseteq Tabs
    <3>1. CASE StartRun(t)
        BY <3>1, StartRunTyped
    <3>2. CASE UNCHANGED <<store, run, queue, signedOut>>
        BY <3>2 DEF TypeOK, RunShape, Shaped
    <3>3. CASE /\ run' = [run EXCEPT ![t] = Superseded(t)]
               /\ UNCHANGED <<queue, signedOut>>
      <4>1. run' \in [Tabs -> Run] /\ RunShape'
        BY <3>3, SupersededFacts, RunMoves
      <4> QED BY <3>3, <4>1 DEF TypeOK
    <3> QED BY <1>4, <3>1, <3>2, <3>3 DEF ApiReply
  <2>2. store' \in [Tabs -> Store]
    BY <1>0, <1>4 DEF ApiReply, TypeOK
  <2>3. PICK x \in Api : api' = [api EXCEPT ![t] = x]
    BY <1>0, <1>4 DEF ApiReply
  <2>4. api' \in [Tabs -> Api]
    BY <2>3 DEF TypeOK
  <2> QED BY <1>4, <2>1, <2>2, <2>4 DEF ApiReply, TypeOK, budget
<1> QED BY <1>2, <1>3, <1>4

\* What happens to a row elsewhere.
LEMMA RowTyped ==
    ASSUME TypeInv, NEW s \in Sids, WindowCloses(s) \/ RevokeElsewhere(s)
    PROVE  TypeInv'
<1> USE DEF TypeInv
<1>1. row \in [Sids -> Row] /\ RunShape'
    BY DEF TypeOK, RunShape, Shaped, WindowCloses, RevokeElsewhere
<1>2. [row[s] EXCEPT !.status = "revoked"] \in Row
    BY <1>1, StatusChange
<1>3. [row[s] EXCEPT !.window = FALSE] \in Row
    BY <1>1 DEF Row
<1>4. CASE WindowCloses(s)
  <2>1. row' \in [Sids -> Row]
    <3>1. row' = [row EXCEPT ![s] = [row[s] EXCEPT !.window = FALSE]]
        BY <1>1, <1>4 DEF WindowCloses
    <3> QED BY <1>1, <1>3, <3>1
  <2> QED BY <1>1, <1>4, <2>1 DEF WindowCloses, TypeOK, ghosts, budget
<1>5. CASE RevokeElsewhere(s)
  <2>1. row' \in [Sids -> Row]
    <3>1. row' = [row EXCEPT ![s] = [row[s] EXCEPT !.status = "revoked"]]
        BY <1>1, <1>5 DEF RevokeElsewhere
    <3> QED BY <1>1, <1>2, <3>1
  <2>2. work' \in 0..MaxWork /\ faults' \in 0..MaxFaults
    BY <1>5, BudgetTyped DEF RevokeElsewhere
  <2> QED BY <1>1, <1>5, <2>1, <2>2 DEF RevokeElsewhere, TypeOK, ghosts
<1> QED BY <1>4, <1>5

\* The types at first.
LEMMA TypeInit == Init => TypeInv
<1> SUFFICES ASSUME Init PROVE TypeOK /\ RunShape
    BY DEF TypeInv
<1> USE DEF Init
<1>1. jar \in Token \cup {None}
    BY DEF Token
<1>2. row \in [Sids -> Row]
  <2>1. \A s \in Sids :
            [status |-> IF jar # None /\ jar.sid = s THEN "active" ELSE "unused",
             gen |-> 0, window |-> FALSE] \in Row
    BY DEF Row
  <2> QED BY <2>1
<1>3. store \in [Tabs -> Store]
    BY DEF Store
<1>4. run \in [Tabs -> Run] /\ RunShape
    BY NoRunTyped DEF RunShape
<1>5. api \in [Tabs -> Api]
    BY DEF NoApi, Api
<1>6. out \in [Tabs -> Out]
    BY DEF NoOut, Out
<1>7. queue \in Seq(Tabs) /\ inbox \in [Tabs -> Seq(Event)]
    OBVIOUS
<1>8. /\ login \in [Tabs -> Login]
      /\ work \in 0..MaxWork /\ faults \in 0..MaxFaults
      /\ undelivered \subseteq Sids /\ signedOut \subseteq Tabs
      /\ orphan = None
    BY DEF NoLogin, Login
<1> HIDE DEF Init
<1> QED BY <1>1, <1>2, <1>3, <1>4, <1>5, <1>6, <1>7, <1>8 DEF TypeOK

\* Every step keeps them.
LEMMA TypeStep == TypeInv /\ [Next]_vars => TypeInv'
<1> SUFFICES ASSUME TypeInv, [Next]_vars PROVE TypeInv'
    OBVIOUS
<1>1. CASE UNCHANGED vars
    BY <1>1 DEF vars, TypeInv, TypeOK, RunShape, Shaped
<1>2. CASE Next
    BY <1>2, RefreshTyped, RefreshReplyTyped, PageTyped, OrphanTyped,
       SessionTyped, RequestTyped, ApiTyped, RowTyped DEF Next
<1> QED BY <1>1, <1>2

\* The values of every variable are of their kinds, for any number of tabs
\* and sessions; in particular a refresh race is never retried more often
\* than refreshRaceDelays has entries and no reply that was accepted lacks a
\* token.
THEOREM TypeCorrect == Spec => []TypeOK
<1>1. Init => TypeInv
    BY TypeInit
<1>2. TypeInv /\ [Next]_vars => TypeInv'
    BY TypeStep
<1>3. TypeInv => TypeOK
    BY DEF TypeInv
<1> QED BY <1>1, <1>2, <1>3, PTL DEF Spec

-----------------------------------------------------------------------------
(***************************************************************************)
(* What a tab does to its own store.                                       *)
(***************************************************************************)

TabAt(t) ==
    /\ run[t].cur /\ ~run[t].mm =>
          /\ store[t].sid = None
          /\ run[t].exp = None
          /\ run[t].rep.kind # "mismatch"
    /\ t \in signedOut =>
          store[t].sid = None /\ (run[t].ph = "none" \/ ~run[t].cur)
    /\ run[t].cur =>
          /\ run[t].ph = "sent" => run[t].exp = store[t].sid
          /\ run[t].rep.kind = "ok" =>
                store[t].sid \in {None, run[t].rep.tok.sid}

TabParts == RetryNamesNobody /\ SignedOutIsSuperseded /\ RunOfTheStore

\* The tab's part of the invariant, tab by tab.
LEMMA TabPartsAt ==
    ASSUME TypeOK
    PROVE  TabParts <=> \A t \in Tabs : TabAt(t)
BY DEF TypeOK, TabParts, TabAt, RetryNamesNobody, SignedOutIsSuperseded,
       RunOfTheStore

\* A step of tab t leaves the stores and runs of the others alone.
OnlyTab(t) ==
    \A u \in Tabs : u # t => /\ store'[u] = store[u]
                             /\ run'[u] = run[u]
                             /\ u \in signedOut' <=> u \in signedOut

\* A step of one tab need only keep its own part.
LEMMA TabMoves ==
    ASSUME TypeOK, TypeOK', TabParts, NEW t \in Tabs, OnlyTab(t), TabAt(t)'
    PROVE  TabParts'
<1>1. ASSUME NEW u \in Tabs, u # t
      PROVE  TabAt(u)'
  <2>1. TabAt(u)
    BY TabPartsAt
  <2> QED BY <1>1, <2>1 DEF OnlyTab, TabAt
<1>2. \A u \in Tabs : TabAt(u)'
    BY <1>1
<1>3. signedOut' \subseteq Tabs
    BY DEF TypeOK
<1>4. RetryNamesNobody' /\ RunOfTheStore'
    BY <1>2 DEF TabAt, RetryNamesNobody, RunOfTheStore
<1>5. SignedOutIsSuperseded'
    BY <1>2, <1>3 DEF TabAt, SignedOutIsSuperseded
<1> QED BY <1>4, <1>5 DEF TabParts

\* The three ways in which a tab's run and store change together.
LEMMA SettledTab ==
    ASSUME TypeInv, TypeOK', TabParts, NEW t \in Tabs, NEW kind,
           NEW st \in Store, Settle(t, kind, st), UNCHANGED signedOut,
           t \in signedOut => st.sid = None
    PROVE  TabParts'
<1> USE DEF TypeInv
<1>1. store' = [store EXCEPT ![t] = st] /\ run' = [run EXCEPT ![t] = NoRun]
    BY DEF Settle
<1>2. store'[t] = st /\ run'[t] = NoRun /\ OnlyTab(t)
    BY <1>1 DEF TypeOK, OnlyTab
<1>3. TabAt(t)'
    BY <1>2, NoRunTyped DEF TabAt
<1> QED BY <1>2, <1>3, TabMoves

\* A tab that changes its store supersedes its refresh.
LEMMA SupersededTab ==
    ASSUME TypeInv, TypeOK', TabParts, NEW t \in Tabs, NEW st \in Store,
           store' = [store EXCEPT ![t] = st],
           run' = [run EXCEPT ![t] = Superseded(t)],
           \A u \in Tabs : u # t => (u \in signedOut' <=> u \in signedOut),
           t \in signedOut' => st.sid = None
    PROVE  TabParts'
<1> USE DEF TypeInv
<1>1. store'[t] = st /\ run'[t] = Superseded(t) /\ OnlyTab(t)
    BY DEF TypeOK, OnlyTab
<1>2. Shaped(Superseded(t))
      /\ (Superseded(t).ph = "none" \/ ~Superseded(t).cur)
    BY SupersededFacts
<1>3. CASE ~Superseded(t).cur
    BY <1>1, <1>3, TabMoves DEF TabAt
<1>4. CASE Superseded(t).ph = "none"
  <2>1. Superseded(t) = NoRun
    BY <1>2, <1>4 DEF Shaped
  <2>2. TabAt(t)'
    BY <1>1, <2>1, NoRunTyped DEF TabAt
  <2> QED BY <1>1, <2>2, TabMoves
<1> QED BY <1>2, <1>3, <1>4

\* A refresh that starts is about the session of the store.
LEMMA StartedTab ==
    ASSUME TypeInv, TypeOK', TabParts, NEW t \in Tabs, StartRun(t),
           \A u \in Tabs : store'[u].sid = store[u].sid
    PROVE  TabParts'
<1> USE DEF TypeInv
<1>1. CASE UNCHANGED <<run, queue, signedOut>>
    BY <1>1 DEF TabParts, RetryNamesNobody, SignedOutIsSuperseded,
                RunOfTheStore, TypeOK
<1>2. CASE run[t].ph = "none"
  <2>1. PICK p \in {"queued", "ready"} :
            run' = [run EXCEPT ![t] = [NoRun EXCEPT !.ph = p]]
    BY <1>2 DEF StartRun
  <2>2. /\ run'[t].rep.kind = "none" /\ run'[t].ph = p
        /\ \A u \in Tabs : u # t => run'[u] = run[u]
    BY <2>1, FreshRun DEF TypeOK
  <2>3. run'[t].mm
    BY <2>1, NoRunTyped DEF TypeOK, Run
  <2>4. signedOut' = signedOut \ {t}
    BY <1>2 DEF StartRun
  <2> QED BY <2>2, <2>3, <2>4 DEF TabParts, RetryNamesNobody,
             SignedOutIsSuperseded, RunOfTheStore, TypeOK
<1> QED BY <1>1, <1>2 DEF StartRun

\* Steps that leave every run, every session and the ghost alone.
LEMMA SameTabs ==
    ASSUME TypeOK, TabParts, run' = run, signedOut' = signedOut,
           \A u \in Tabs : store'[u].sid = store[u].sid
    PROVE  TabParts'
BY DEF TabParts, RetryNamesNobody, SignedOutIsSuperseded, RunOfTheStore,
       TypeOK

\* The steps of a refresh.
LEMMA TabStep ==
    ASSUME TypeInv, TypeInv', TabParts, NEW t \in Tabs,
           \/ Granted(t) \/ SendRefresh(t) \/ ServerRefresh(t)
           \/ RefreshReply(t) \/ RaceDelay(t) \/ LoseRefresh(t)
    PROVE  TabParts'
<1> USE DEF TypeInv
<1>0. run[t] \in Run /\ Shaped(run[t]) /\ TabAt(t) /\ store[t] \in Store
    BY TabPartsAt DEF TypeOK, RunShape
<1>1. CASE Granted(t)
  <2>1. OnlyTab(t) /\ store'[t] = store[t] /\ (t \in signedOut' <=> t \in signedOut)
    BY <1>1 DEF Granted, OnlyTab, TypeOK, ghosts
  <2>2. run'[t] = [run[t] EXCEPT !.ph = "ready"]
    BY <1>1 DEF Granted, TypeOK
  <2>3. /\ run'[t].ph = "ready" /\ run'[t].cur = run[t].cur
        /\ run'[t].mm = run[t].mm /\ run'[t].exp = run[t].exp
        /\ run'[t].rep = run[t].rep
    BY <1>0, <2>2 DEF Run
  <2>4. run[t].ph = "queued"
    BY <1>1 DEF Granted
  <2>5. TabAt(t)'
    BY <1>0, <2>1, <2>3, <2>4 DEF TabAt
  <2> QED BY <2>1, <2>5, TabMoves
<1>2. CASE SendRefresh(t)
  <2>1. CASE ~run[t].cur /\ Settle(t, "transient_error", store[t])
    <3>1. UNCHANGED signedOut /\ (t \in signedOut => store[t].sid = None)
        BY <1>0, <1>2 DEF SendRefresh, ghosts, TabAt
    <3> QED BY <1>0, <2>1, <3>1, SettledTab
  <2>2. CASE /\ run[t].cur
             /\ run' = [run EXCEPT ![t].ph = "sent", ![t].tok = jar,
                                   ![t].exp = store[t].sid]
             /\ UNCHANGED <<store, queue, api, out>>
    <3>1. OnlyTab(t) /\ store'[t] = store[t]
          /\ (t \in signedOut' <=> t \in signedOut)
        BY <1>2, <2>2 DEF SendRefresh, OnlyTab, TypeOK, ghosts
    <3>2. run'[t] = [run[t] EXCEPT !.ph = "sent", !.tok = jar,
                                   !.exp = store[t].sid]
        BY <2>2 DEF TypeOK
    <3>3. /\ run'[t].ph = "sent" /\ run'[t].cur = run[t].cur
          /\ run'[t].mm = run[t].mm /\ run'[t].exp = store[t].sid
          /\ run'[t].rep = run[t].rep
        BY <1>0, <3>2 DEF Run
    <3>4. run[t].ph = "ready"
        BY <1>2 DEF SendRefresh
    <3>5. TabAt(t)'
        BY <1>0, <2>2, <3>1, <3>3, <3>4 DEF TabAt, Shaped
    <3> QED BY <3>1, <3>5, TabMoves
  <2> QED BY <1>2, <2>1, <2>2 DEF SendRefresh
<1>3. CASE ServerRefresh(t)
  <2>1. OnlyTab(t) /\ store'[t] = store[t] /\ (t \in signedOut' <=> t \in signedOut)
    BY <1>3 DEF ServerRefresh, OnlyTab, TypeOK
  <2>2. PICK rep \in Reply :
            /\ run' = [run EXCEPT ![t] = Answered(@, rep)]
            /\ rep.kind = "ok" =>
                  /\ rep.tok \in Token
                  /\ run[t].exp \in {None, rep.tok.sid}
            /\ rep.kind = "mismatch" => run[t].exp # None
    <3>1. ASSUME NEW a \in Rotation(run[t].tok, run[t].exp)
          PROVE  /\ a.rep \in Reply
                 /\ a.rep.kind = "ok" =>
                       /\ a.rep.tok \in Token
                       /\ run[t].exp \in {None, a.rep.tok.sid}
                 /\ a.rep.kind = "mismatch" => run[t].exp # None
      <4>1. run[t].tok \in Token \cup {None} /\ run[t].exp \in Sids \cup {None}
        BY <1>0 DEF Run
      <4>2. RotationOutcome(run[t].tok, run[t].exp, a)
        BY <4>1, RotationFacts
      <4> QED BY <4>2 DEF RotationOutcome
    <3>2. \A k \in {"transient", "other", "denied"} :
              Plain(k) \in Reply /\ Plain(k).kind = k
        BY DEF Plain, Reply
    <3> QED BY <1>3, <3>1, <3>2 DEF ServerRefresh
  <2>3. run'[t] = Answered(run[t], rep) /\ run[t].ph = "sent"
    BY <1>3, <2>2 DEF ServerRefresh, TypeOK
  <2>4. /\ run'[t].ph = "reply" /\ run'[t].cur = run[t].cur
        /\ run'[t].mm = run[t].mm /\ run'[t].exp = None
        /\ run'[t].rep = rep
    BY <1>0, <2>2, <2>3, AnsweredFacts
  <2>5. TabAt(t)'
    BY <1>0, <2>1, <2>2, <2>3, <2>4 DEF TabAt
  <2> QED BY <2>1, <2>5, TabMoves
<1>4. CASE RefreshReply(t)
  <2> DEFINE rep == run[t].rep
  <2>0. /\ run[t].ph = "reply" /\ UNCHANGED signedOut
        /\ run[t].cur => t \notin signedOut
        /\ ~run[t].cur => (t \in signedOut => store[t].sid = None)
    BY <1>0, <1>4 DEF RefreshReply, ghosts, TabAt
  <2>1. ASSUME NEW kind, NEW st \in Store, Settle(t, kind, st),
               ~run[t].cur => st = store[t]
        PROVE  TabParts'
    BY <2>0, <2>1, SettledTab
  <2>2. CASE /\ run[t].cur /\ rep.kind = "race" /\ Retriable(run[t])
             /\ run' = [run EXCEPT ![t].ph = "wait", ![t].rep = Plain("none")]
             /\ UNCHANGED <<store, queue, api, out, inbox>>
    <3>1. OnlyTab(t) /\ store'[t] = store[t]
          /\ (t \in signedOut' <=> t \in signedOut)
        BY <2>0, <2>2 DEF OnlyTab, TypeOK
    <3>2. run'[t] = [run[t] EXCEPT !.ph = "wait", !.rep = Plain("none")]
        BY <2>2 DEF TypeOK
    <3>3. /\ run'[t].ph = "wait" /\ run'[t].cur = run[t].cur
          /\ run'[t].mm = run[t].mm /\ run'[t].exp = run[t].exp
          /\ run'[t].rep = Plain("none") /\ Plain("none").kind = "none"
        BY <1>0, <3>2 DEF Run, Plain
    <3>4. TabAt(t)'
        BY <1>0, <2>0, <2>2, <3>1, <3>3 DEF TabAt
    <3> QED BY <3>1, <3>4, TabMoves
  <2>3. CASE /\ store' = [store EXCEPT ![t] = MismatchReset(t)]
             /\ run' = [run EXCEPT ![t] = [NoRun EXCEPT !.ph = "ready",
                                                       !.mm = FALSE]]
             /\ run[t].cur
    <3>1. OnlyTab(t) /\ store'[t].sid = None /\ t \notin signedOut'
        BY <2>0, <2>3 DEF OnlyTab, TypeOK, MismatchReset, Reset
    <3>2. /\ run'[t].ph = "ready" /\ run'[t].exp = None
          /\ run'[t].rep.kind = "none"
        BY <2>3, FreshRun DEF TypeOK
    <3>3. TabAt(t)'
        BY <3>1, <3>2 DEF TabAt
    <3> QED BY <3>1, <3>3, TabMoves
  <2>4. CASE /\ run[t].cur /\ rep.kind = "ok"
             /\ Settle(t, "authenticated", Bundle(rep.tok.sid))
    <3>1. Bundle(rep.tok.sid) \in Store
        BY <1>0, <2>4, StoresTyped DEF Shaped, Token
    <3> QED BY <2>1, <2>4, <3>1
  <2>5. CASE ~run[t].cur /\ Settle(t, "transient_error", store[t])
    BY <1>0, <2>1, <2>5
  <2>6. CASE run[t].cur /\ \E kind \in {"out_of_sync", "anonymous"} :
                               Settle(t, kind, Reset("complete"))
    BY <2>1, <2>6, StoresTyped
  <2>7. CASE /\ run[t].cur
             /\ Settle(t, "transient_error", [store[t] EXCEPT !.boot = "idle"])
    <3>1. [store[t] EXCEPT !.boot = "idle"] \in Store
        BY <1>0 DEF Store
    <3> QED BY <2>1, <2>7, <3>1
  <2> QED BY <1>4, <2>2, <2>3, <2>4, <2>5, <2>6, <2>7 DEF RefreshReply
<1>5. CASE RaceDelay(t)
  <2>1. OnlyTab(t) /\ store'[t] = store[t] /\ (t \in signedOut' <=> t \in signedOut)
    BY <1>5 DEF RaceDelay, OnlyTab, TypeOK, ghosts
  <2>2. run'[t] = [run[t] EXCEPT !.ph = "ready", !.att = @ + 1]
    BY <1>5 DEF RaceDelay, TypeOK
  <2>3. /\ run'[t].ph = "ready" /\ run'[t].cur = run[t].cur
        /\ run'[t].mm = run[t].mm /\ run'[t].exp = run[t].exp
        /\ run'[t].rep = run[t].rep
    BY <1>0, <2>2 DEF Run
  <2>4. run[t].ph = "wait"
    BY <1>5 DEF RaceDelay
  <2>5. TabAt(t)'
    BY <1>0, <2>1, <2>3, <2>4 DEF TabAt
  <2> QED BY <2>1, <2>5, TabMoves
<1>6. CASE LoseRefresh(t)
  <2>1. OnlyTab(t) /\ store'[t] = store[t] /\ (t \in signedOut' <=> t \in signedOut)
    BY <1>6 DEF LoseRefresh, OnlyTab, TypeOK
  <2>2. Plain("transient") \in Reply /\ Plain("transient").kind = "transient"
    BY DEF Plain, Reply
  <2>3. run'[t] = Answered(run[t], Plain("transient"))
        /\ run[t].ph \in {"sent", "reply"}
    BY <1>6 DEF LoseRefresh, TypeOK
  <2>4. /\ run'[t].ph = "reply" /\ run'[t].cur = run[t].cur
        /\ run'[t].mm = run[t].mm /\ run'[t].exp = None
        /\ run'[t].rep = Plain("transient")
    BY <1>0, <2>2, <2>3, AnsweredFacts
  <2>5. TabAt(t)'
    BY <1>0, <2>1, <2>2, <2>3, <2>4 DEF TabAt
  <2> QED BY <2>1, <2>5, TabMoves
<1> QED BY <1>1, <1>2, <1>3, <1>4, <1>5, <1>6

\* A page that loads has an empty store.
LEMMA PageLoadTab ==
    ASSUME TypeInv, TypeInv', TabParts, NEW t \in Tabs, PageLoad(t)
    PROVE  TabParts' /\ store'[t].sid = None
<1> USE DEF TypeInv
<1>1. PICK hint \in BOOLEAN :
        /\ store' = [store EXCEPT ![t] = Reset(IF hint THEN "checking"
                                               ELSE "idle")]
        /\ run' = [run EXCEPT ![t] =
                       IF hint
                       THEN [NoRun EXCEPT !.ph =
                               IF HasLocks THEN "queued" ELSE "ready"]
                       ELSE NoRun]
    BY DEF PageLoad
<1>2. signedOut' = signedOut \ {t}
    BY DEF PageLoad
<1>3. OnlyTab(t) /\ store'[t].sid = None
    BY <1>1, <1>2 DEF OnlyTab, TypeOK, Reset
<1>4. run'[t].rep.kind = "none" /\ run'[t].ph # "sent" /\ run'[t].exp = None
    BY <1>1, NoRunTyped, FreshRun DEF TypeOK
<1>5. TabAt(t)'
    BY <1>2, <1>3, <1>4 DEF TabAt
<1> QED BY <1>3, <1>5, TabMoves

\* Everything else that a tab does.
LEMMA TabOther ==
    ASSUME TypeInv, TypeInv', TabParts, NEW t \in Tabs,
           \/ Reload(t) \/ Resolve(t) \/ TokenExpires(t) \/ Deliver(t)
           \/ \E s \in Sids : SignIn(t, s)
           \/ SignInReply(t) \/ SignOut(t) \/ SignOutReply(t)
           \/ LoseSignOut(t) \/ RotateCurrent(t) \/ RotateReply(t)
           \/ \E s \in Sids : DeleteSession(t, s)
           \/ DeleteAccount(t) \/ EndReply(t) \/ LoseReply(t)
           \/ ApiSend(t) \/ ApiSendOnce(t) \/ ApiReply(t)
    PROVE  TabParts'
<1> USE DEF TypeInv
<1>0. /\ store[t] \in Store /\ store[t].sid \in Sids \cup {None}
      /\ Reset("complete") \in Store /\ Reset("complete").sid = None
      /\ TabAt(t)
    BY TabPartsAt, StoresTyped DEF TypeOK, Store, Reset
<1>1. CASE Reload(t)
    BY <1>1, PageLoadTab DEF Reload
<1>2. CASE Resolve(t)
  <2>1. \A u \in Tabs : store'[u].sid = store[u].sid
    <3>1. PICK b \in {"complete", "checking"} :
              store' = [store EXCEPT ![t].boot = b]
        BY <1>2 DEF Resolve
    <3> QED BY <3>1 DEF TypeOK, Store
  <2> QED BY <1>2, <2>1, StartedTab, SameTabs DEF Resolve
<1>3. CASE TokenExpires(t)
  <2>1. \A u \in Tabs : store'[u].sid = store[u].sid
    BY <1>3 DEF TokenExpires, TypeOK, Store
  <2> QED BY <1>3, <2>1, SameTabs DEF TokenExpires, ghosts
<1>4. CASE Deliver(t)
  <2>1. CASE PageLoad(t)
    BY <2>1, PageLoadTab
  <2>2. CASE /\ store' = [store EXCEPT ![t] = Reset("complete")]
             /\ run' = [run EXCEPT ![t] = Superseded(t)]
             /\ UNCHANGED ghosts
    <3>1. signedOut' = signedOut
        BY <2>2 DEF ghosts
    <3> QED BY <1>0, <2>2, <3>1, SupersededTab
  <2>3. CASE UNCHANGED <<store, run, ghosts>>
    BY <2>3, SameTabs DEF ghosts
  <2> QED BY <1>4, <2>1, <2>2, <2>3 DEF Deliver
<1>5. CASE \/ \E s \in Sids : SignIn(t, s)
           \/ SignOut(t) \/ LoseSignOut(t) \/ ApiSend(t)
  <2>1. UNCHANGED <<store, run, signedOut>>
    BY <1>5 DEF SignIn, SignOut, LoseSignOut, ApiSend, ghosts
  <2> QED BY <2>1, SameTabs
<1>6. CASE SignInReply(t)
  <2>1. CASE /\ store' = [store EXCEPT ![t] = Bundle(login[t].sid)]
             /\ run' = [run EXCEPT ![t] = Superseded(t)]
             /\ signedOut' = signedOut \ {t}
    <3>1. Bundle(login[t].sid) \in Store
        BY <1>6, StoresTyped DEF SignInReply, TypeOK, Login
    <3> QED BY <2>1, <3>1, SupersededTab
  <2>2. CASE UNCHANGED <<store, run, inbox, signedOut>>
    BY <2>2, SameTabs
  <2> QED BY <1>6, <2>1, <2>2 DEF SignInReply
<1>7. CASE SignOutReply(t)
  <2>1. CASE /\ store' = [store EXCEPT ![t] = Reset("complete")]
             /\ run' = [run EXCEPT ![t] = Superseded(t)]
             /\ signedOut' = signedOut \cup {t}
    BY <1>0, <2>1, SupersededTab
  <2>2. CASE StartRun(t) /\ UNCHANGED <<store, inbox>>
    BY <2>2, StartedTab
  <2>3. CASE UNCHANGED <<store, run, queue, inbox, signedOut>>
    BY <2>3, SameTabs
  <2> QED BY <1>7, <2>1, <2>2, <2>3 DEF SignOutReply
<1>8. CASE RotateReply(t)
  <2>1. CASE /\ AcceptsRotation(t)
             /\ store' = [store EXCEPT ![t] = Bundle(api[t].tok)]
             /\ run' = [run EXCEPT ![t] = Superseded(t)]
    <3>1. signedOut' = signedOut
        BY <1>8 DEF RotateReply, ghosts
    <3>2. api[t].tok = store[t].sid
        BY <2>1 DEF AcceptsRotation
    <3>3. Bundle(api[t].tok) \in Store
        BY <1>0, <3>2 DEF Bundle, Store
    <3>4. t \in signedOut => Bundle(api[t].tok).sid = None
        BY <1>0, <3>2 DEF Bundle, TabAt
    <3> QED BY <2>1, <3>1, <3>3, <3>4, SupersededTab
  <2>2. CASE UNCHANGED <<store, run>>
    BY <1>8, <2>2, SameTabs DEF RotateReply, ghosts
  <2> QED BY <1>8, <2>1, <2>2 DEF RotateReply
<1>11. CASE \/ RotateCurrent(t) \/ DeleteAccount(t)
            \/ \E s \in Sids : DeleteSession(t, s)
  <2>1. UNCHANGED <<store, run, signedOut>>
    BY <1>11, RequestFacts DEF RequestOutcome
  <2> QED BY <2>1, SameTabs
<1>12. CASE EndReply(t)
  <2>1. CASE /\ store' = [store EXCEPT ![t] = Reset("complete")]
             /\ run' = [run EXCEPT ![t] = Superseded(t)]
             /\ signedOut' = signedOut \cup {t}
    BY <1>0, <2>1, SupersededTab
  <2>2. CASE UNCHANGED <<store, run, inbox, signedOut>>
    BY <2>2, SameTabs
  <2> QED BY <1>12, <2>1, <2>2 DEF EndReply
<1>13. CASE LoseReply(t)
    BY <1>13, SameTabs DEF LoseReply, ghosts
<1>9. CASE ApiSendOnce(t)
    BY <1>9, StartedTab, SameTabs DEF ApiSendOnce
<1>10. CASE ApiReply(t)
  <2>1. CASE UNCHANGED <<store, run, queue, signedOut>>
    BY <2>1, SameTabs
  <2>2. CASE StartRun(t) /\ UNCHANGED store
    BY <2>2, StartedTab
  <2>3. CASE /\ store' = [store EXCEPT ![t] = Reset("complete")]
             /\ run' = [run EXCEPT ![t] = Superseded(t)]
             /\ UNCHANGED <<queue, signedOut>>
    BY <1>0, <2>3, SupersededTab
  <2> QED BY <1>10, <2>1, <2>2, <2>3 DEF ApiReply
<1> QED BY <1>1, <1>2, <1>3, <1>4, <1>5, <1>6, <1>7, <1>8, <1>9, <1>10, <1>11,
           <1>12, <1>13

\* The two halves of the invariant of a tab.
LEMMA TabInvSplit == TabInv <=> TypeInv /\ TabParts
BY DEF TabInv, TypeInv, TabParts

\* It holds at first.
LEMMA TabInvInit == Init => TabInv
<1> SUFFICES ASSUME Init PROVE TabParts
    BY TypeInit, TabInvSplit
<1>1. \A t \in Tabs : run[t] = NoRun
    BY DEF Init
<1>2. signedOut = {}
    BY DEF Init
<1> QED BY <1>1, <1>2, NoRunTyped
        DEF TabParts, RetryNamesNobody, SignedOutIsSuperseded, RunOfTheStore

\* Every step keeps it.
LEMMA TabInvStep == TabInv /\ [Next]_vars => TabInv'
<1> SUFFICES ASSUME TypeInv, TabParts, [Next]_vars PROVE TypeInv' /\ TabParts'
    BY DEF TabInv, TypeInv, TabParts
<1>0. TypeInv'
    BY TypeStep
<1>1. CASE UNCHANGED vars
    BY <1>0, <1>1, SameTabs DEF vars, TypeInv
<1>2. ASSUME NEW s \in Sids, WindowCloses(s) \/ RevokeElsewhere(s)
      PROVE  TabParts'
  <2>1. UNCHANGED <<store, run, signedOut>>
    BY <1>2 DEF WindowCloses, RevokeElsewhere, ghosts
  <2> QED BY <2>1, SameTabs DEF TypeInv
<1>3. CASE ServerOrphan
  <2>1. UNCHANGED <<store, run, signedOut>>
    BY <1>3 DEF ServerOrphan, ghosts
  <2> QED BY <1>0, <2>1, SameTabs DEF TypeInv
<1>4. CASE Next
    BY <1>0, <1>2, <1>3, <1>4, TabStep, TabOther DEF Next
<1> QED BY <1>0, <1>1, <1>4

\* It holds in every browser, with or without the Web Lock.
LEMMA TabInvHolds == Spec => []TabInv
<1>1. Init => TabInv
    BY TabInvInit
<1>2. TabInv /\ [Next]_vars => TabInv'
    BY TabInvStep
<1> QED BY <1>1, <1>2, PTL DEF Spec

\* A tab that has signed out stays without a session until it refreshes or
\* signs in anew: createRefreshRunner checks isCurrent after every await, so
\* no reply on its way at the sign-out restores the session.
THEOREM SignedOutStays == Spec => []SignOutSticks
<1>1. TabInv => SignOutSticks
    BY DEF TabInv, SignedOutIsSuperseded, SignOutSticks
<1> QED BY <1>1, TabInvHolds, PTL

\* The retry that createRefreshRunner makes after AUTH_SESSION_MISMATCH comes
\* from an emptied store and names no session, so it is never answered by a
\* second mismatch.
THEOREM OneMismatch == Spec => []MismatchAnsweredOnce
<1>1. TabInv => MismatchAnsweredOnce
    BY DEF TabInv, RetryNamesNobody, MismatchAnsweredOnce
<1> QED BY <1>1, TabInvHolds, PTL

SwitchStep ==
    \A t \in Tabs :
        store[t].sid # None /\ store'[t].sid \notin {None, store[t].sid} =>
            /\ login[t].sid = store'[t].sid
            /\ login'[t].sid = None

\* No step but the reply of a sign-in replaces a session by another one.
LEMMA SessionStep == TabInv /\ Next => SwitchStep
<1> SUFFICES ASSUME TypeInv, TabParts, Next PROVE SwitchStep
    BY DEF TabInv, TypeInv, TabParts
<1> USE DEF TypeInv
<1>0. /\ store \in [Tabs -> Store]
      /\ \A b \in {"idle", "checking", "complete"} : Reset(b).sid = None
      /\ \A s \in Sids : Bundle(s).sid = s
    BY DEF TypeOK, Reset, Bundle
<1>1. ASSUME NEW t \in Tabs, NEW st, store' = [store EXCEPT ![t] = st],
             st.sid # None /\ store[t].sid # None => st.sid = store[t].sid
      PROVE  SwitchStep
    BY <1>0, <1>1 DEF SwitchStep
<1>2. ASSUME UNCHANGED store
      PROVE  SwitchStep
    BY <1>2 DEF SwitchStep
<1>3. ASSUME NEW t \in Tabs,
             \/ Granted(t) \/ ServerRefresh(t) \/ RaceDelay(t)
             \/ LoseRefresh(t) \/ \E s \in Sids : SignIn(t, s)
             \/ SignOut(t) \/ LoseSignOut(t) \/ ApiSend(t) \/ ApiSendOnce(t)
             \/ LoseReply(t)
      PROVE  SwitchStep
    BY <1>2, <1>3 DEF Granted, ServerRefresh, RaceDelay, LoseRefresh, SignIn,
                      SignOut, LoseSignOut, ApiSend, ApiSendOnce, LoseReply
<1>4. ASSUME NEW s \in Sids, WindowCloses(s) \/ RevokeElsewhere(s)
      PROVE  SwitchStep
    BY <1>2, <1>4 DEF WindowCloses, RevokeElsewhere
<1>5. CASE ServerOrphan
    BY <1>2, <1>5 DEF ServerOrphan
<1>6. ASSUME NEW t \in Tabs, SendRefresh(t)
      PROVE  SwitchStep
    BY <1>1, <1>2, <1>6 DEF SendRefresh, Settle
<1>7. ASSUME NEW t \in Tabs, RefreshReply(t)
      PROVE  SwitchStep
  <2>1. TabAt(t) /\ store[t] \in Store
    BY <1>0, TabPartsAt
  <2>2. run[t].rep.kind = "ok" => run[t].rep.tok.sid \in Sids
    BY DEF RunShape, Shaped, Token
  <2>3. PICK st : /\ store' = [store EXCEPT ![t] = st]
                  /\ \/ st.sid \in {None, store[t].sid}
                     \/ /\ run[t].cur /\ run[t].rep.kind = "ok"
                        /\ st.sid = run[t].rep.tok.sid
    <3>1. [store[t] EXCEPT !.boot = "idle"].sid = store[t].sid
        BY <2>1 DEF Store
    <3>2. UNCHANGED store => store' = [store EXCEPT ![t] = store[t]]
        BY <1>0
    <3> QED BY <1>0, <1>7, <2>2, <3>1, <3>2
            DEF RefreshReply, Settle, MismatchReset
  <2>4. st.sid # None /\ store[t].sid # None => st.sid = store[t].sid
    BY <2>1, <2>3 DEF TabAt
  <2> QED BY <1>1, <2>3, <2>4
<1>8. ASSUME NEW t \in Tabs, PageLoad(t)
      PROVE  SwitchStep
  <2>1. PICK b \in {"checking", "idle"} :
            store' = [store EXCEPT ![t] = Reset(b)]
    BY <1>8 DEF PageLoad
  <2> QED BY <1>0, <1>1, <2>1
<1>9. ASSUME NEW t \in Tabs, Resolve(t) \/ TokenExpires(t)
      PROVE  SwitchStep
  <2>1. PICK st : store' = [store EXCEPT ![t] = st] /\ st.sid = store[t].sid
    <3>1. /\ store[t] \in Store
          /\ [store[t] EXCEPT !.fresh = FALSE].sid = store[t].sid
          /\ \A b : [store[t] EXCEPT !.boot = b].sid = store[t].sid
        BY <1>0 DEF Store
    <3>2. CASE TokenExpires(t)
      <4>1. store' = [store EXCEPT ![t] = [store[t] EXCEPT !.fresh = FALSE]]
        BY <1>0, <3>2 DEF TokenExpires
      <4> QED BY <3>1, <4>1
    <3>3. CASE Resolve(t)
      <4>1. PICK b : store' = [store EXCEPT ![t] = [store[t] EXCEPT !.boot = b]]
        BY <1>0, <3>3 DEF Resolve
      <4> QED BY <3>1, <4>1
    <3> QED BY <1>9, <3>2, <3>3
  <2> QED BY <1>1, <2>1
<1>10. ASSUME NEW t \in Tabs, Deliver(t)
       PROVE  SwitchStep
    BY <1>0, <1>1, <1>2, <1>8, <1>10 DEF Deliver
<1>11. ASSUME NEW t \in Tabs, SignOutReply(t) \/ ApiReply(t) \/ EndReply(t)
       PROVE  SwitchStep
    BY <1>0, <1>1, <1>2, <1>11 DEF SignOutReply, ApiReply, EndReply
<1>12. ASSUME NEW t \in Tabs, RotateReply(t)
       PROVE  SwitchStep
  <2>1. CASE /\ AcceptsRotation(t)
             /\ store' = [store EXCEPT ![t] = Bundle(api[t].tok)]
    <3>1. Bundle(api[t].tok).sid = store[t].sid
        BY <2>1 DEF Bundle, AcceptsRotation
    <3> QED BY <1>1, <2>1, <3>1
  <2> QED BY <1>2, <1>12, <2>1 DEF RotateReply
<1>13. ASSUME NEW t \in Tabs, SignInReply(t)
       PROVE  SwitchStep
  <2>1. CASE store' = [store EXCEPT ![t] = Bundle(login[t].sid)]
    <3>1. /\ store'[t].sid = login[t].sid
          /\ \A u \in Tabs : u # t => store'[u] = store[u]
        BY <1>0, <2>1 DEF Bundle
    <3>2. login'[t].sid = None
        BY <1>13 DEF SignInReply, NoLogin, TypeOK
    <3> QED BY <3>1, <3>2 DEF SwitchStep
  <2> QED BY <1>2, <1>13, <2>1 DEF SignInReply
<1>14. ASSUME NEW t \in Tabs,
              \/ RotateCurrent(t) \/ DeleteAccount(t)
              \/ \E s \in Sids : DeleteSession(t, s)
       PROVE  SwitchStep
  <2>1. UNCHANGED store
    BY <1>14, RequestFacts DEF RequestOutcome
  <2> QED BY <1>2, <2>1
<1> QED BY <1>3, <1>4, <1>5, <1>6, <1>7, <1>8, <1>9, <1>10, <1>11, <1>12,
           <1>13, <1>14 DEF Next, Reload

\* Only the reply of a sign-in of its own takes a tab straight from one
\* session to another: an accepted refresh names the session of
\* X-Auth-Session, which is the store's as long as the epoch has not moved,
\* and applyAuthRotation accepts credentials of the store's session alone.
THEOREM SwitchesBySignIn == Spec => SwitchOnlyBySignIn
<1>1. TabInv /\ [Next]_vars => [SwitchStep]_vars
    BY SessionStep
<1> QED BY <1>1, TabInvHolds, PTL DEF Spec, SwitchOnlyBySignIn, SwitchStep

-----------------------------------------------------------------------------
(***************************************************************************)
(* The Web Lock.                                                           *)
(***************************************************************************)

InQueue(q, t) == \E i \in DOMAIN q : q[i] = t

AtHead(q, t) == q # <<>> /\ Head(q) = t

\* A step of one tab that keeps the places of the others in the queue.
LEMMA LockMoves ==
    ASSUME LockInv, NEW t \in Tabs,
           \A u \in Tabs : u # t =>
              /\ run'[u].ph = run[u].ph
              /\ InQueue(queue, u) => InQueue(queue', u)
              /\ InQueue(queue, u) /\ AtHead(queue, u) => AtHead(queue', u),
           run'[t].ph # "none" => InQueue(queue', t),
           run'[t].ph \in Holding => AtHead(queue', t)
    PROVE  LockInv'
BY DEF LockInv, InQueue, AtHead, Holding

\* A tab that moves on within its place.
LEMMA LockStays ==
    ASSUME TypeOK, LockInv, NEW t \in Tabs, queue' = queue,
           \A u \in Tabs : u # t => run'[u].ph = run[u].ph,
           \/ run'[t].ph \in {run[t].ph, "none"}
           \/ run[t].ph \in Holding
           \/ run[t].ph # "none" /\ Head(queue) = t
    PROVE  LockInv'
<1>1. queue \in Seq(Tabs)
    BY DEF TypeOK
<1>2. run[t].ph # "none" => InQueue(queue, t) /\ queue # <<>>
    BY <1>1 DEF LockInv, InQueue
<1>3. run[t].ph \in Holding => AtHead(queue, t) /\ run[t].ph # "none"
    BY DEF LockInv, AtHead, Holding
<1>4. run'[t].ph # "none" => InQueue(queue', t)
    BY <1>2, <1>3
<1>5. run'[t].ph \in Holding => AtHead(queue', t)
    BY <1>2, <1>3 DEF AtHead, Holding
<1> QED BY <1>4, <1>5, LockMoves

\* A tab that leaves the queue.
LEMMA LockLeft ==
    ASSUME TypeOK, LockInv, NEW t \in Tabs, queue' = Without(queue, t),
           \A u \in Tabs : u # t => run'[u].ph = run[u].ph,
           run'[t].ph = "none"
    PROVE  LockInv'
<1>1. ASSUME NEW u \in Tabs, u # t, InQueue(queue, u)
      PROVE  /\ InQueue(queue', u)
             /\ AtHead(queue, u) => AtHead(queue', u)
  <2>1. queue \in Seq(Tabs)
    BY DEF TypeOK
  <2>2. PICK j \in DOMAIN queue : queue[j] = u
    BY <1>1 DEF InQueue
  <2> QED BY <1>1, <2>1, <2>2, WithoutKeeps DEF InQueue, AtHead
<1>2. ~(run'[t].ph \in Holding)
    BY DEF Holding
<1> QED BY <1>1, <1>2, LockMoves

\* Joining the queue changes no place in it.
LEMMA AppendKeeps ==
    ASSUME NEW q \in Seq(Tabs), NEW t \in Tabs
    PROVE  /\ InQueue(Append(q, t), t)
           /\ \A u \in Tabs :
                 /\ InQueue(q, u) => InQueue(Append(q, t), u)
                 /\ AtHead(q, u) => AtHead(Append(q, t), u)
<1>1. /\ Len(q) \in Nat /\ DOMAIN q = 1..Len(q)
      /\ Append(q, t) \in Seq(Tabs)
      /\ DOMAIN Append(q, t) = 1..(Len(q) + 1)
      /\ Append(q, t)[Len(q) + 1] = t
      /\ \A i \in 1..Len(q) : Append(q, t)[i] = q[i]
    OBVIOUS
<1>2. InQueue(Append(q, t), t)
    BY <1>1 DEF InQueue
<1>3. ASSUME NEW u \in Tabs, InQueue(q, u)
      PROVE  InQueue(Append(q, t), u)
    BY <1>1, <1>3 DEF InQueue
<1>4. ASSUME NEW u \in Tabs, AtHead(q, u)
      PROVE  AtHead(Append(q, t), u)
  <2>1. q # <<>> /\ Head(q) = u
    BY <1>4 DEF AtHead
  <2>2. 1 \in 1..Len(q) /\ q[1] = u
    BY <1>1, <2>1
  <2>3. 1 \in DOMAIN Append(q, t) /\ Append(q, t)[1] = u
    BY <1>1, <2>2
  <2>4. \A w \in Seq(Tabs) : 1 \in DOMAIN w => w # <<>> /\ Head(w) = w[1]
    OBVIOUS
  <2> QED BY <1>1, <2>3, <2>4 DEF AtHead
<1> QED BY <1>2, <1>3, <1>4

\* A tab that joins the queue.
LEMMA LockJoined ==
    ASSUME TypeOK, LockInv, NEW t \in Tabs, queue' = Append(queue, t),
           \A u \in Tabs : u # t => run'[u].ph = run[u].ph,
           run'[t].ph = "queued"
    PROVE  LockInv'
<1>1. queue \in Seq(Tabs)
    BY DEF TypeOK
<1>2. ~(run'[t].ph \in Holding)
    BY DEF Holding
<1> QED BY <1>1, <1>2, AppendKeeps, LockMoves

\* Starting or joining a refresh.
LEMMA StartRunLock ==
    ASSUME TypeOK, LockInv, HasLocks, NEW t \in Tabs, StartRun(t)
    PROVE  LockInv'
<1>1. CASE UNCHANGED <<run, queue, signedOut>>
    BY <1>1 DEF LockInv
<1>2. CASE run[t].ph = "none"
  <2>1. run' = [run EXCEPT ![t] = [NoRun EXCEPT !.ph = "queued"]]
        /\ queue' = Append(queue, t)
    BY <1>2 DEF StartRun
  <2>2. run'[t].ph = "queued" /\ \A u \in Tabs : u # t => run'[u] = run[u]
    BY <2>1, FreshRun DEF TypeOK
  <2> QED BY <2>1, <2>2, LockJoined
<1> QED BY <1>1, <1>2 DEF StartRun

\* The end of a refresh releases the lock.
LEMMA SettleLock ==
    ASSUME TypeOK, LockInv, NEW t \in Tabs, NEW kind, NEW st,
           Settle(t, kind, st)
    PROVE  LockInv'
<1>1. /\ queue' = Without(queue, t) /\ run'[t].ph = "none"
      /\ \A u \in Tabs : u # t => run'[u] = run[u]
    BY NoRunTyped DEF Settle, TypeOK
<1> QED BY <1>1, LockLeft

\* A superseded refresh keeps its place.
LEMMA SupersededLock ==
    ASSUME TypeInv, LockInv, NEW t \in Tabs, queue' = queue,
           run' = [run EXCEPT ![t] = Superseded(t)]
    PROVE  LockInv'
<1>1. TypeOK
    BY DEF TypeInv
<1>2. run'[t].ph = run[t].ph /\ \A u \in Tabs : u # t => run'[u] = run[u]
    BY SupersededFacts DEF TypeOK, TypeInv
<1> QED BY <1>1, <1>2, LockStays

\* A page that loads leaves the queue, and may join it again at its end.
LEMMA PageLoadLock ==
    ASSUME TypeOK, LockInv, HasLocks, NEW t \in Tabs, PageLoad(t)
    PROVE  LockInv'
<1>1. PICK hint \in BOOLEAN :
        /\ run' = [run EXCEPT ![t] =
                       IF hint
                       THEN [NoRun EXCEPT !.ph =
                               IF HasLocks THEN "queued" ELSE "ready"]
                       ELSE NoRun]
        /\ queue' = IF hint /\ HasLocks THEN Append(Without(queue, t), t)
                    ELSE Without(queue, t)
    BY DEF PageLoad
<1>2. \A u \in Tabs : u # t => run'[u] = run[u]
    BY <1>1 DEF TypeOK
<1>3. CASE ~hint
  <2>1. run'[t].ph = "none" /\ queue' = Without(queue, t)
    BY <1>1, <1>3, NoRunTyped DEF TypeOK
  <2> QED BY <1>2, <2>1, LockLeft
<1>4. CASE hint
  <2> DEFINE rest == Without(queue, t)
  <2>1. run'[t].ph = "queued" /\ queue' = Append(rest, t)
    BY <1>1, <1>4, FreshRun DEF TypeOK
  <2>2. queue \in Seq(Tabs) /\ rest \in Seq(Tabs)
    BY WithoutTyped DEF TypeOK
  <2>3. ASSUME NEW u \in Tabs, u # t, InQueue(queue, u)
        PROVE  /\ InQueue(rest, u)
               /\ AtHead(queue, u) => AtHead(rest, u)
    <3>1. PICK j \in DOMAIN queue : queue[j] = u
        BY <2>3 DEF InQueue
    <3> QED BY <2>2, <2>3, <3>1, WithoutKeeps DEF InQueue, AtHead
  <2> HIDE DEF rest
  <2>4. ~(run'[t].ph \in Holding)
    BY <2>1 DEF Holding
  <2>5. InQueue(queue', t)
    BY <2>1, <2>2, AppendKeeps
  <2>6. \A u \in Tabs : u # t =>
            /\ InQueue(queue, u) => InQueue(queue', u)
            /\ InQueue(queue, u) /\ AtHead(queue, u) => AtHead(queue', u)
    BY <2>1, <2>2, <2>3, AppendKeeps
  <2> QED BY <1>2, <2>4, <2>5, <2>6, LockMoves
<1> QED BY <1>3, <1>4

\* Every step keeps the queue in order.
LEMMA LockStep ==
    ASSUME TypeInv, HasLocks, LockInv, Next
    PROVE  LockInv'
<1> USE DEF TypeInv
<1>1. ASSUME NEW t \in Tabs,
             \/ Granted(t) \/ ServerRefresh(t) \/ RaceDelay(t) \/ LoseRefresh(t)
      PROVE  LockInv'
  <2>1. /\ queue' = queue /\ \A u \in Tabs : u # t => run'[u] = run[u]
        /\ \/ run[t].ph \in Holding
           \/ run[t].ph # "none" /\ Head(queue) = t
    BY <1>1 DEF Granted, ServerRefresh, RaceDelay, LoseRefresh, TypeOK, Holding
  <2> QED BY <2>1, LockStays
<1>2. ASSUME NEW t \in Tabs, SendRefresh(t)
      PROVE  LockInv'
  <2>1. CASE Settle(t, "transient_error", store[t])
    BY <2>1, SettleLock
  <2>2. CASE /\ run' = [run EXCEPT ![t].ph = "sent", ![t].tok = jar,
                                   ![t].exp = store[t].sid]
             /\ queue' = queue
    <3>1. (\A u \in Tabs : u # t => run'[u] = run[u]) /\ run[t].ph \in Holding
        BY <1>2, <2>2 DEF SendRefresh, Holding, TypeOK
    <3> QED BY <2>2, <3>1, LockStays
  <2> QED BY <1>2, <2>1, <2>2 DEF SendRefresh
<1>3. ASSUME NEW t \in Tabs, RefreshReply(t)
      PROVE  LockInv'
  <2>1. ASSUME NEW kind, NEW st, Settle(t, kind, st)
        PROVE  LockInv'
    BY <2>1, SettleLock
  <2>2. ASSUME NEW r, run' = [run EXCEPT ![t] = r], queue' = queue
        PROVE  LockInv'
    <3>1. (\A u \in Tabs : u # t => run'[u] = run[u]) /\ run[t].ph \in Holding
        BY <1>3, <2>2 DEF RefreshReply, Holding, TypeOK
    <3> QED BY <2>2, <3>1, LockStays
  <2>3. ASSUME run' = [run EXCEPT ![t].ph = "wait", ![t].rep = Plain("none")]
        PROVE  run' = [run EXCEPT ![t] = [run[t] EXCEPT !.ph = "wait",
                                              !.rep = Plain("none")]]
    BY <2>3 DEF TypeOK
  <2> QED BY <1>3, <2>1, <2>2, <2>3 DEF RefreshReply
<1>4. ASSUME NEW t \in Tabs, PageLoad(t)
      PROVE  LockInv'
    BY <1>4, PageLoadLock
<1>5. ASSUME NEW t \in Tabs, StartRun(t)
      PROVE  LockInv'
    BY <1>5, StartRunLock
<1>6. ASSUME NEW t \in Tabs, queue' = queue,
             run' = [run EXCEPT ![t] = Superseded(t)]
      PROVE  LockInv'
    BY <1>6, SupersededLock
<1>7. ASSUME UNCHANGED <<run, queue>>
      PROVE  LockInv'
    BY <1>7 DEF LockInv
<1>8. ASSUME NEW t \in Tabs, Resolve(t) \/ ApiSendOnce(t) \/ ApiReply(t)
      PROVE  LockInv'
    BY <1>5, <1>6, <1>7, <1>8 DEF Resolve, ApiSendOnce, ApiReply
<1>9. ASSUME NEW t \in Tabs,
             \/ TokenExpires(t) \/ SignOut(t) \/ LoseSignOut(t) \/ ApiSend(t)
             \/ LoseReply(t) \/ \E s \in Sids : SignIn(t, s)
      PROVE  LockInv'
    BY <1>7, <1>9 DEF TokenExpires, SignOut, LoseSignOut, ApiSend, LoseReply,
                      SignIn
<1>10. ASSUME NEW t \in Tabs, Deliver(t)
       PROVE  LockInv'
    BY <1>4, <1>6, <1>7, <1>10 DEF Deliver
<1>11. ASSUME NEW t \in Tabs,
              SignInReply(t) \/ SignOutReply(t) \/ RotateReply(t) \/ EndReply(t)
       PROVE  LockInv'
    BY <1>5, <1>6, <1>7, <1>11 DEF SignInReply, SignOutReply, RotateReply,
                                   EndReply
<1>12. ASSUME NEW s \in Sids, WindowCloses(s) \/ RevokeElsewhere(s)
       PROVE  LockInv'
    BY <1>7, <1>12 DEF WindowCloses, RevokeElsewhere
<1>13. CASE ServerOrphan
    BY <1>7, <1>13 DEF ServerOrphan
<1>14. ASSUME NEW t \in Tabs,
              \/ RotateCurrent(t) \/ DeleteAccount(t)
              \/ \E s \in Sids : DeleteSession(t, s)
       PROVE  LockInv'
  <2>1. UNCHANGED <<run, queue>>
    BY <1>14, RequestFacts DEF RequestOutcome
  <2> QED BY <1>7, <2>1
<1> QED BY <1>1, <1>2, <1>3, <1>4, <1>8, <1>9, <1>10, <1>11, <1>12, <1>13,
           <1>14 DEF Next, Reload

\* Two refreshes never hold the lock at the same time.
LEMMA OneHolder ==
    ASSUME LockInv, NEW t \in Tabs, NEW u \in Tabs,
           run[t].ph \in Holding, run[u].ph \in Holding
    PROVE  t = u
BY DEF LockInv

-----------------------------------------------------------------------------
(***************************************************************************)
(* The profile's cookie and the server's rows.                             *)
(***************************************************************************)

\* Where there is a token it is one.
LEMMA TokenTypes ==
    ASSUME TypeInv
    PROVE  /\ jar # None => jar.sid \in Sids /\ jar.gen \in Nat
           /\ orphan # None =>
                 orphan.tok.sid \in Sids /\ orphan.tok.gen \in Nat
           /\ \A t \in Tabs :
                 /\ run[t].tok # None =>
                       /\ run[t].tok.sid \in Sids /\ run[t].tok.gen \in Nat
                       /\ run[t].ph = "sent"
                 /\ run[t].rep.kind = "ok" =>
                       /\ run[t].rep.tok.sid \in Sids
                       /\ run[t].rep.tok.gen \in Nat
                       /\ run[t].ph = "reply"
                 /\ login[t].sid # None => login[t].sid \in Sids
           /\ \A s \in Sids : row[s].gen \in Nat
<1> USE DEF TypeInv
<1>1. \A k \in Token : k.sid \in Sids /\ k.gen \in Nat
    BY DEF Token
<1>2. jar # None => jar \in Token
    BY DEF TypeOK
<1>3. orphan # None => orphan.tok \in Token
    BY DEF TypeOK
<1>4. ASSUME NEW t \in Tabs
      PROVE  /\ run[t].tok # None => run[t].tok \in Token /\ run[t].ph = "sent"
             /\ run[t].rep.kind = "ok" =>
                   run[t].rep.tok \in Token /\ run[t].ph = "reply"
             /\ login[t].sid # None => login[t].sid \in Sids
  <2>1. run[t] \in Run /\ Shaped(run[t]) /\ login[t].sid \in Sids \cup {None}
    BY DEF TypeOK, RunShape, Login
  <2> QED BY <2>1 DEF Run, Shaped
<1>5. \A s \in Sids : row[s].gen \in Nat
    BY DEF TypeOK, Row
<1> QED BY <1>1, <1>2, <1>3, <1>4, <1>5

\* Steps that issue, rotate and abandon nothing: a row may be revoked, the
\* cookie cleared, an answer used up or lost.
Quiet ==
    /\ jar' \in {jar, None}
    /\ orphan' = orphan
    /\ login' = login
    /\ undelivered \subseteq undelivered'
    /\ \A s \in Sids :
          /\ row'[s].gen = row[s].gen
          /\ \/ row'[s].status = row[s].status
             \/ row[s].status = "active" /\ row'[s].status = "revoked"
    /\ \A t \in Tabs :
          /\ run'[t].tok \in {None, run[t].tok}
          /\ run'[t].rep.kind = "ok" => run'[t].rep = run[t].rep
          /\ run[t].rep.kind = "ok" =>
                run'[t].rep = run[t].rep \/ run[t].rep.tok.sid \in undelivered'

\* A step that hands out no token and takes none away.
LEMMA QuietCookie ==
    ASSUME TypeInv, TypeInv', CookieInv, Quiet
    PROVE  CookieInv'
<1> USE DEF CookieInv
<1>0. /\ jar # None => jar.sid \in Sids
      /\ orphan # None => orphan.tok.sid \in Sids
      /\ \A t \in Tabs :
            /\ run[t].tok # None => run[t].tok.sid \in Sids
            /\ run[t].rep.kind = "ok" => run[t].rep.tok.sid \in Sids
            /\ login[t].sid # None => login[t].sid \in Sids
    BY TokenTypes
<1>1. TokensIssued'
  <2>1. ASSUME NEW k, k.sid \in Sids, Issued(k)
        PROVE  Issued(k)'
    BY <2>1 DEF Issued, Quiet
  <2>2. jar' # None => Issued(jar)'
    BY <1>0, <2>1 DEF Quiet, TokensIssued
  <2>3. orphan' # None => Issued(orphan.tok)'
    BY <1>0, <2>1 DEF Quiet, TokensIssued
  <2>4. ASSUME NEW t \in Tabs
        PROVE  /\ run'[t].tok # None => Issued(run[t].tok)'
               /\ run'[t].rep.kind = "ok" => Issued(run[t].rep.tok)'
    BY <1>0, <2>1 DEF Quiet, TokensIssued
  <2> QED BY <2>2, <2>3, <2>4 DEF TokensIssued
<1>2. NewSessions'
    BY <1>0 DEF Quiet, NewSessions
<1>3. NoTokenAhead'
    BY DEF Quiet, NoTokenAhead
<1>4. ReplyIsCurrent'
    BY <1>0 DEF Quiet, ReplyIsCurrent
<1>5. BehindForAReason'
    BY <1>0 DEF Quiet, BehindForAReason
<1>6. JarAtMostOneBehind'
    BY <1>0 DEF Quiet, JarAtMostOneBehind
<1>7. ReuseOnlyIfUndelivered'
    BY DEF Quiet, ReuseOnlyIfUndelivered
<1> QED BY <1>1, <1>2, <1>3, <1>4, <1>5, <1>6, <1>7

\* The request leaves with the cookie of the jar.
LEMMA SendCookie ==
    ASSUME TypeInv, LockInv, CookieInv, NEW t \in Tabs,
           run[t].ph = "ready",
           \A u \in Tabs : u # t => run'[u] = run[u],
           run'[t].tok = jar, run'[t].rep = run[t].rep,
           UNCHANGED <<row, jar, login, orphan, undelivered>>
    PROVE  CookieInv'
<1> USE DEF CookieInv
<1>0. \A u \in Tabs :
          /\ run'[u].rep = run[u].rep
          /\ run'[u].tok = IF u = t THEN jar ELSE run[u].tok
    OBVIOUS
<1>1. \A u \in Tabs : run[u].rep.kind # "ok"
  <2> SUFFICES ASSUME NEW u \in Tabs, run[u].rep.kind = "ok" PROVE FALSE
    OBVIOUS
  <2>1. run[u].ph \in Holding /\ run[t].ph \in Holding /\ run[u].ph # run[t].ph
    BY TokenTypes DEF Holding
  <2> QED BY <2>1, OneHolder
<1>2. TokensIssued'
    BY <1>0 DEF TokensIssued, Issued
<1>3. NewSessions'
    BY DEF NewSessions
<1>4. NoTokenAhead'
    BY <1>0 DEF NoTokenAhead
<1>5. ReplyIsCurrent'
    BY <1>0 DEF ReplyIsCurrent
<1>6. BehindForAReason'
    BY <1>0, <1>1 DEF BehindForAReason
<1>7. JarAtMostOneBehind' /\ ReuseOnlyIfUndelivered'
    BY DEF JarAtMostOneBehind, ReuseOnlyIfUndelivered
<1> QED BY <1>2, <1>3, <1>4, <1>5, <1>6, <1>7

\* The server answers: the row rotates past the request's token by one.
LEMMA ServerCookie ==
    ASSUME TypeInv, TypeInv', LockInv, CookieInv, NEW t \in Tabs,
           run[t].ph = "sent", NEW tok, tok = run[t].tok,
           NEW a \in Rotation(run[t].tok, run[t].exp),
           row' = a.rows, run' = [run EXCEPT ![t] = Answered(@, a.rep)],
           UNCHANGED <<jar, login, orphan, undelivered>>
    PROVE  CookieInv'
<1> USE DEF CookieInv
<1>0. RotationOutcome(run[t].tok, run[t].exp, a)
  <2>1. run[t].tok \in Token \cup {None} /\ run[t].exp \in Sids \cup {None}
    BY DEF TypeInv, TypeOK, Run
  <2> QED BY <2>1, RotationFacts DEF TypeInv
<1>1. /\ \A u \in Tabs : u # t => run'[u] = run[u]
      /\ run'[t].tok = None /\ run'[t].rep = a.rep
  <2>1. run[t] \in Run /\ Shaped(run[t]) /\ a.rep \in Reply
        /\ (a.rep.kind = "ok" => a.rep.tok \in Token)
    BY <1>0 DEF TypeInv, TypeOK, RunShape, RotationOutcome
  <2>2. /\ Answered(run[t], a.rep).tok = None
        /\ Answered(run[t], a.rep).rep = a.rep
    BY <2>1, AnsweredFacts
  <2>3. run'[t] = Answered(run[t], a.rep)
    BY DEF TypeInv, TypeOK
  <2> QED BY <2>2, <2>3 DEF TypeInv, TypeOK
<1>2. \A u \in Tabs : u # t => run[u].tok = None /\ run[u].rep.kind # "ok"
  <2> SUFFICES ASSUME NEW u \in Tabs, u # t,
                      run[u].tok # None \/ run[u].rep.kind = "ok"
               PROVE  FALSE
    OBVIOUS
  <2>1. run[u].ph \in Holding /\ run[t].ph \in Holding
    BY TokenTypes DEF Holding
  <2> QED BY <2>1, OneHolder
<1>3. /\ \A s \in Sids : row'[s] # row[s] =>
            /\ tok # None /\ s = tok.sid /\ row[s].status = "active"
            /\ \/ /\ run'[t].rep.kind = "ok" /\ tok.gen = row[s].gen
                  /\ row'[s].gen = row[s].gen + 1 /\ row'[s].status = "active"
               \/ /\ row'[s].gen = row[s].gen /\ row'[s].status = "reused"
                  /\ tok.gen + 1 = row[s].gen
      /\ run'[t].rep.kind = "ok" =>
            /\ tok # None /\ row[tok.sid].status = "active"
            /\ run'[t].rep.tok = [sid |-> tok.sid, gen |-> tok.gen + 1]
            /\ row'[tok.sid].gen = tok.gen + 1
    BY <1>0, <1>1 DEF RotationOutcome
<1>4. /\ jar # None => jar.sid \in Sids /\ jar.gen \in Nat
      /\ orphan # None => orphan.tok.sid \in Sids /\ orphan.tok.gen \in Nat
      /\ tok # None => tok.sid \in Sids /\ tok.gen \in Nat
      /\ \A u \in Tabs : login[u].sid # None => login[u].sid \in Sids
      /\ \A s \in Sids : row[s].gen \in Nat
    BY TokenTypes
<1>5. run'[t].rep.kind = "ok" =>
          run'[t].rep.tok.sid = tok.sid /\ run'[t].rep.tok.gen = tok.gen + 1
    BY <1>3
<1>6. tok # None => Issued(tok)
    BY DEF TokensIssued
<1>7. \A s \in Sids : row'[s].status = "unused" => row'[s] = row[s]
    BY <1>3
<1>8. TokensIssued'
  <2>1. ASSUME NEW k, k.sid \in Sids, Issued(k)
        PROVE  Issued(k)'
    BY <2>1, <1>7 DEF Issued
  <2>2. run'[t].rep.kind = "ok" => Issued(run[t].rep.tok)'
    <3> SUFFICES ASSUME run'[t].rep.kind = "ok" PROVE Issued(run[t].rep.tok)'
        OBVIOUS
    <3>1. Issued(tok)'
        BY <1>3, <1>4, <1>6, <2>1
    <3> QED BY <1>5, <3>1 DEF Issued
  <2> QED BY <1>1, <1>2, <1>4, <2>1, <2>2 DEF TokensIssued
<1>9. NewSessions'
  <2>1. ASSUME NEW u \in Tabs, login[u].sid # None
        PROVE  row'[login[u].sid] = row[login[u].sid]
    BY <1>3, <1>4, <1>6, <2>1 DEF Issued
  <2> QED BY <1>4, <1>7, <2>1 DEF NewSessions
<1>10. NoTokenAhead'
    BY <1>1, <1>2 DEF NoTokenAhead
<1>11. ReplyIsCurrent'
  <2> SUFFICES ASSUME NEW u \in Tabs, run'[u].rep.kind = "ok"
               PROVE  /\ row'[run'[u].rep.tok.sid].gen = run'[u].rep.tok.gen
                      /\ orphan # None /\ orphan.tok.sid = run'[u].rep.tok.sid
                            => orphan.tok.gen < run'[u].rep.tok.gen
    BY DEF ReplyIsCurrent
  <2>1. u = t
    BY <1>1, <1>2
  <2>2. orphan # None /\ orphan.tok.sid = tok.sid => orphan.tok.gen <= tok.gen
    BY <1>3, <2>1 DEF NoTokenAhead
  <2> QED BY <1>3, <1>4, <1>5, <2>1, <2>2
<1>12. BehindForAReason'
  <2>1. orphan' # None => orphan'.tok.sid \in undelivered'
    BY DEF BehindForAReason
  <2>2. \A u \in Tabs : run'[u].tok = None
    BY <1>1, <1>2
  <2>3. ASSUME jar # None, row'[jar.sid].status = "active"
        PROVE  \/ row'[jar.sid].gen = jar.gen \/ jar.sid \in undelivered
               \/ /\ run'[t].rep.kind = "ok"
                  /\ run'[t].rep.tok.sid = jar.sid
    <3>1. CASE row'[jar.sid] # row[jar.sid]
        BY <1>3, <1>4, <1>5, <2>3, <3>1
    <3>2. CASE row'[jar.sid] = row[jar.sid]
      <4>1. \A u \in Tabs : run[u].rep.kind # "ok"
        BY <1>2, TokenTypes
      <4> QED BY <2>3, <3>2, <4>1 DEF BehindForAReason
    <3> QED BY <3>1, <3>2
  <2> QED BY <2>1, <2>2, <2>3 DEF BehindForAReason
<1>13. JarAtMostOneBehind'
  <2>1. ASSUME jar # None, row'[jar.sid].status = "active",
               row'[jar.sid] # row[jar.sid]
        PROVE  row'[jar.sid].gen <= jar.gen + 1
    <3>1. tok # None /\ jar.sid = tok.sid /\ row'[jar.sid].gen = tok.gen + 1
        BY <1>3, <1>4, <2>1
    <3>2. jar.gen = tok.gen
        BY <2>1, <3>1 DEF NoTokenAhead
    <3> QED BY <1>4, <2>1, <3>1, <3>2
  <2> QED BY <2>1 DEF JarAtMostOneBehind
<1>14. ReuseOnlyIfUndelivered'
  <2> SUFFICES ASSUME NEW s \in Sids, row'[s].status = "reused",
                      row'[s] # row[s]
               PROVE  s \in undelivered
    BY DEF ReuseOnlyIfUndelivered
  <2>1. /\ tok # None /\ s = tok.sid /\ row[s].status = "active"
        /\ tok.gen + 1 = row[s].gen
    BY <1>3
  <2>2. row[s].gen # tok.gen
    BY <1>4, <2>1
  <2> QED BY <2>1, <2>2 DEF BehindForAReason
<1> QED BY <1>8, <1>9, <1>10, <1>11, <1>12, <1>13, <1>14

\* The server rotates the row and fails before it has answered: the new token
\* is one that the profile never gets.
LEMMA FailedCookie ==
    ASSUME TypeInv, TypeInv', LockInv, CookieInv, NEW t \in Tabs,
           run[t].ph = "sent", NEW tok, tok = run[t].tok,
           NEW a \in Rotation(run[t].tok, run[t].exp), a.rep.kind = "ok",
           row' = a.rows, \A u \in Tabs : u # t => run'[u] = run[u],
           run'[t].tok = None, run'[t].rep.kind # "ok",
           undelivered' = undelivered \cup {a.rep.tok.sid},
           UNCHANGED <<jar, login, orphan>>
    PROVE  CookieInv'
<1> USE DEF CookieInv
<1>0. RotationOutcome(run[t].tok, run[t].exp, a)
  <2>1. run[t].tok \in Token \cup {None} /\ run[t].exp \in Sids \cup {None}
    BY DEF TypeInv, TypeOK, Run
  <2> QED BY <2>1, RotationFacts DEF TypeInv
<1>1. \A u \in Tabs : run'[u].tok = None /\ run'[u].rep.kind # "ok"
  <2> SUFFICES ASSUME NEW u \in Tabs, u # t,
                      run[u].tok # None \/ run[u].rep.kind = "ok"
               PROVE  FALSE
    OBVIOUS
  <2>1. run[u].ph \in Holding /\ run[t].ph \in Holding
    BY TokenTypes DEF Holding
  <2> QED BY <2>1, OneHolder
<1>2. /\ tok # None /\ a.rep.tok.sid = tok.sid /\ Issued(tok)
      /\ \A s \in Sids : row'[s] # row[s] =>
            /\ s = tok.sid /\ row[s].status = "active"
            /\ \/ /\ tok.gen = row[s].gen /\ row'[s].status = "active"
                  /\ row'[s].gen = row[s].gen + 1
               \/ /\ row'[s].gen = row[s].gen /\ row'[s].status = "reused"
  <2>1. /\ tok # None
        /\ a.rep.tok = [sid |-> tok.sid, gen |-> tok.gen + 1]
    BY <1>0 DEF RotationOutcome
  <2>2. a.rep.tok.sid = tok.sid
    BY <2>1
  <2>3. Issued(tok)
    BY <2>1 DEF TokensIssued
  <2> QED BY <1>0, <2>1, <2>2, <2>3 DEF RotationOutcome
<1>3. /\ jar # None => jar.sid \in Sids /\ jar.gen \in Nat
      /\ orphan # None => orphan.tok.sid \in Sids
      /\ tok.sid \in Sids /\ tok.gen \in Nat
      /\ \A u \in Tabs : login[u].sid # None => login[u].sid \in Sids
      /\ \A s \in Sids : row[s].gen \in Nat
    BY <1>2, TokenTypes
<1>4. /\ tok.sid \in undelivered' /\ undelivered \subseteq undelivered'
      /\ \A s \in Sids : row'[s].status = "unused" => row'[s] = row[s]
    BY <1>2
<1>5. TokensIssued'
  <2>1. ASSUME NEW k, k.sid \in Sids, Issued(k)
        PROVE  Issued(k)'
    BY <1>4, <2>1 DEF Issued
  <2> QED BY <1>1, <1>3, <2>1 DEF TokensIssued
<1>6. NewSessions'
  <2>1. ASSUME NEW u \in Tabs, login[u].sid # None
        PROVE  row'[login[u].sid] = row[login[u].sid]
    BY <1>2, <1>3, <2>1 DEF Issued
  <2> QED BY <1>3, <1>4, <2>1 DEF NewSessions
<1>7. NoTokenAhead' /\ ReplyIsCurrent'
    BY <1>1 DEF NoTokenAhead, ReplyIsCurrent
<1>8. BehindForAReason'
  <2>1. orphan' # None => orphan'.tok.sid \in undelivered'
    BY <1>4 DEF BehindForAReason
  <2>2. ASSUME jar # None, row'[jar.sid].status = "active"
        PROVE  row'[jar.sid].gen = jar.gen \/ jar.sid \in undelivered'
    <3>1. CASE row'[jar.sid] # row[jar.sid]
        BY <1>2, <1>3, <1>4, <2>2, <3>1
    <3>2. CASE row'[jar.sid] = row[jar.sid]
      <4>1. \A u \in Tabs : run[u].rep.kind # "ok"
        <5>1. run[t].rep.kind # "ok"
            BY TokenTypes
        <5> QED BY <1>1, <5>1
      <4> QED BY <1>4, <2>2, <3>2, <4>1 DEF BehindForAReason
    <3> QED BY <3>1, <3>2
  <2> QED BY <1>1, <2>1, <2>2 DEF BehindForAReason
<1>9. JarAtMostOneBehind'
  <2>1. ASSUME jar # None, row'[jar.sid].status = "active",
               row'[jar.sid] # row[jar.sid]
        PROVE  row'[jar.sid].gen <= jar.gen + 1
    <3>1. jar.sid = tok.sid /\ row'[jar.sid].gen = tok.gen + 1
        BY <1>2, <1>3, <2>1
    <3>2. jar.gen = tok.gen
        BY <1>2, <2>1, <3>1 DEF NoTokenAhead
    <3> QED BY <1>3, <2>1, <3>1, <3>2
  <2> QED BY <2>1 DEF JarAtMostOneBehind
<1>10. ReuseOnlyIfUndelivered'
    BY <1>2, <1>4 DEF ReuseOnlyIfUndelivered
<1> QED BY <1>5, <1>6, <1>7, <1>8, <1>9, <1>10

\* The browser stores the cookie of an accepted reply.
LEMMA ReplyCookie ==
    ASSUME TypeInv, LockInv, CookieInv, NEW t \in Tabs,
           run[t].rep.kind = "ok", jar' = run[t].rep.tok,
           \A u \in Tabs : u # t => run'[u] = run[u],
           run'[t].tok = None, run'[t].rep.kind # "ok",
           UNCHANGED <<row, login, orphan, undelivered>>
    PROVE  CookieInv'
<1> USE DEF CookieInv
<1>0. \A u \in Tabs : run'[u].tok = None /\ run'[u].rep.kind # "ok"
  <2> SUFFICES ASSUME NEW u \in Tabs, u # t,
                      run[u].tok # None \/ run[u].rep.kind = "ok"
               PROVE  FALSE
    OBVIOUS
  <2>1. run[u].ph \in Holding /\ run[t].ph \in Holding
    BY TokenTypes DEF Holding
  <2> QED BY <2>1, OneHolder
<1>1. /\ run[t].rep.tok.sid \in Sids /\ run[t].rep.tok.gen \in Nat
      /\ orphan # None => orphan.tok.gen \in Nat
    BY TokenTypes
<1>2. TokensIssued'
    BY <1>0 DEF TokensIssued, Issued
<1>3. NewSessions'
    BY DEF NewSessions
<1>4. NoTokenAhead'
    BY <1>0, <1>1 DEF NoTokenAhead, ReplyIsCurrent
<1>5. ReplyIsCurrent'
    BY <1>0 DEF ReplyIsCurrent
<1>6. BehindForAReason'
    BY <1>0 DEF BehindForAReason, ReplyIsCurrent
<1>7. JarAtMostOneBehind'
    BY <1>1 DEF JarAtMostOneBehind, ReplyIsCurrent
<1>8. ReuseOnlyIfUndelivered'
    BY DEF ReuseOnlyIfUndelivered
<1> QED BY <1>2, <1>3, <1>4, <1>5, <1>6, <1>7, <1>8

\* A page is abandoned with the request it had sent, or the reply that was
\* on its way to it.
LEMMA PageLoadCookie ==
    ASSUME TypeInv, LockInv, CookieInv, NEW t \in Tabs, PageLoad(t)
    PROVE  CookieInv'
<1> USE DEF CookieInv
<1>0. /\ row' = row /\ jar' = jar
      /\ login' = [login EXCEPT ![t] = NoLogin]
      /\ undelivered \subseteq undelivered'
      /\ run[t].tok # None => run[t].tok.sid \in undelivered'
      /\ run[t].rep.kind = "ok" => run[t].rep.tok.sid \in undelivered'
      /\ \/ orphan' = orphan
         \/ run[t].tok # None /\ orphan'.tok = run[t].tok
  <2>1. /\ run[t].tok # None => run[t].ph = "sent"
        /\ run[t].rep.kind = "ok" => run[t].ph = "reply"
    BY TokenTypes
  <2> QED BY <2>1 DEF PageLoad
<1>1. /\ \A u \in Tabs : u # t => run'[u] = run[u]
      /\ run'[t].tok = None /\ run'[t].rep.kind = "none"
  <2>1. PICK hint \in BOOLEAN :
            run' = [run EXCEPT ![t] =
                       IF hint
                       THEN [NoRun EXCEPT !.ph =
                               IF HasLocks THEN "queued" ELSE "ready"]
                       ELSE NoRun]
    BY DEF PageLoad
  <2> QED BY <2>1, NoRunTyped, FreshRun DEF TypeInv, TypeOK
<1>2. \A u \in Tabs :
          login'[u].sid # None => login'[u].sid = login[u].sid /\ u # t
    BY <1>0 DEF TypeInv, TypeOK, NoLogin
<1>3. /\ run[t].tok # None =>
            \A u \in Tabs : u # t =>
               run[u].tok = None /\ run[u].rep.kind # "ok"
  <2> SUFFICES ASSUME NEW u \in Tabs, u # t, run[t].tok # None,
                      run[u].tok # None \/ run[u].rep.kind = "ok"
               PROVE  FALSE
    OBVIOUS
  <2>1. run[u].ph \in Holding /\ run[t].ph \in Holding
    BY TokenTypes DEF Holding
  <2> QED BY <2>1, OneHolder
<1>4. /\ jar # None => jar.sid \in Sids /\ jar.gen \in Nat
      /\ orphan # None => orphan.tok.sid \in Sids /\ orphan.tok.gen \in Nat
      /\ \A u \in Tabs :
            /\ run[u].tok # None => run[u].tok.sid \in Sids
                                    /\ run[u].tok.gen \in Nat
            /\ run[u].rep.kind = "ok" => run[u].rep.tok.sid \in Sids
    BY TokenTypes
<1>5. TokensIssued'
  <2>1. ASSUME NEW k, k.sid \in Sids, Issued(k)
        PROVE  Issued(k)'
    BY <1>0, <1>2, <2>1 DEF Issued
  <2>2. jar' # None => Issued(jar)'
    BY <1>0, <1>4, <2>1 DEF TokensIssued
  <2>3. orphan' # None => Issued(orphan.tok)'
    BY <1>0, <1>4, <2>1 DEF TokensIssued
  <2>4. ASSUME NEW u \in Tabs
        PROVE  /\ run'[u].tok # None => Issued(run[u].tok)'
               /\ run'[u].rep.kind = "ok" => Issued(run[u].rep.tok)'
    BY <1>1, <1>4, <2>1 DEF TokensIssued
  <2> QED BY <2>2, <2>3, <2>4 DEF TokensIssued
<1>6. NewSessions'
    BY <1>0, <1>2 DEF NewSessions
<1>7. NoTokenAhead'
  <2>1. CASE orphan' = orphan
    BY <1>0, <1>1, <2>1 DEF NoTokenAhead
  <2>2. CASE run[t].tok # None /\ orphan'.tok = run[t].tok
    BY <1>0, <1>1, <1>3, <1>4, <2>2 DEF NoTokenAhead
  <2> QED BY <1>0, <2>1, <2>2
<1>8. ReplyIsCurrent'
  <2>1. CASE orphan' = orphan
    BY <1>0, <1>1, <2>1 DEF ReplyIsCurrent
  <2>2. CASE run[t].tok # None
    BY <1>1, <1>3, <2>2 DEF ReplyIsCurrent
  <2> QED BY <1>0, <2>1, <2>2
<1>9. BehindForAReason'
  <2>1. orphan' # None => orphan'.tok.sid \in undelivered'
    BY <1>0 DEF BehindForAReason
  <2>2. \A u \in Tabs :
            run'[u].tok # None /\ row'[run'[u].tok.sid].status = "active" =>
              \/ row'[run'[u].tok.sid].gen = run'[u].tok.gen
              \/ run'[u].tok.sid \in undelivered'
    BY <1>0, <1>1 DEF BehindForAReason
  <2>3. ASSUME jar # None, row[jar.sid].status = "active"
        PROVE  \/ row[jar.sid].gen = jar.gen \/ jar.sid \in undelivered'
               \/ \E u \in Tabs : /\ run'[u].rep.kind = "ok"
                                  /\ run'[u].rep.tok.sid = jar.sid
    <3>1. CASE row[jar.sid].gen = jar.gen \/ jar.sid \in undelivered
        BY <1>0, <3>1
    <3>2. ASSUME NEW u \in Tabs, run[u].rep.kind = "ok",
                 run[u].rep.tok.sid = jar.sid
          PROVE  \/ jar.sid \in undelivered'
                 \/ \E v \in Tabs : /\ run'[v].rep.kind = "ok"
                                    /\ run'[v].rep.tok.sid = jar.sid
        BY <1>0, <1>1, <3>2
    <3> QED BY <2>3, <3>1, <3>2 DEF BehindForAReason
  <2> QED BY <1>0, <2>1, <2>2, <2>3 DEF BehindForAReason
<1>10. JarAtMostOneBehind' /\ ReuseOnlyIfUndelivered'
    BY <1>0 DEF JarAtMostOneBehind, ReuseOnlyIfUndelivered
<1> QED BY <1>5, <1>6, <1>7, <1>8, <1>9, <1>10

\* The server gets round to a request whose page is gone.
LEMMA OrphanCookie ==
    ASSUME TypeInv, CookieInv, ServerOrphan
    PROVE  CookieInv'
<1> USE DEF CookieInv
<1>1. PICK tok, g : tok = orphan.tok.sid /\ g = orphan.tok.gen
    OBVIOUS
<1>0. /\ orphan # None /\ orphan' = None
      /\ UNCHANGED <<jar, run, login, undelivered>>
    BY DEF ServerOrphan, ghosts
<1>2. \A s \in Sids : row'[s] # row[s] =>
          /\ s = tok /\ row[s].status = "active"
          /\ \/ /\ g = row[s].gen /\ row'[s].gen = row[s].gen + 1
                /\ row'[s].status = "active"
             \/ /\ row'[s].gen = row[s].gen /\ row'[s].status = "reused"
                /\ g + 1 = row[s].gen
  <2>1. CASE row' = row
    BY <2>1
  <2>2. ASSUME NEW a \in Rotation(orphan.tok, orphan.exp), row' = a.rows
        PROVE  <1>2!:
    <3>1. orphan.tok \in Token /\ orphan.exp \in Sids \cup {None} /\ TypeOK
        BY <1>0 DEF TypeInv, TypeOK
    <3>2. RotationOutcome(orphan.tok, orphan.exp, a)
        BY <3>1, RotationFacts
    <3> QED BY <1>1, <2>2, <3>2 DEF RotationOutcome
  <2> QED BY <2>1, <2>2 DEF ServerOrphan
<1>3. /\ jar # None => jar.sid \in Sids /\ jar.gen \in Nat
      /\ tok \in Sids /\ g \in Nat
      /\ \A u \in Tabs :
            /\ run[u].tok # None => run[u].tok.sid \in Sids
            /\ run[u].rep.kind = "ok" => run[u].rep.tok.sid \in Sids
                                         /\ run[u].rep.tok.gen \in Nat
            /\ login[u].sid # None => login[u].sid \in Sids
      /\ \A s \in Sids : row[s].gen \in Nat
    BY <1>0, <1>1, TokenTypes
<1>4. /\ tok \in undelivered
      /\ \A u \in Tabs : login[u].sid # tok
    BY <1>0, <1>1 DEF BehindForAReason, TokensIssued, Issued
<1>5. \A s \in Sids : row'[s].status = "unused" => row'[s] = row[s]
    BY <1>2
<1>6. TokensIssued'
  <2>1. ASSUME NEW k, k.sid \in Sids, Issued(k)
        PROVE  Issued(k)'
    BY <1>0, <1>5, <2>1 DEF Issued
  <2> QED BY <1>0, <1>3, <2>1 DEF TokensIssued
<1>7. NewSessions'
    BY <1>0, <1>2, <1>3, <1>4, <1>5 DEF NewSessions
<1>8. NoTokenAhead'
    BY <1>0 DEF NoTokenAhead
<1>9. ReplyIsCurrent'
  <2> SUFFICES ASSUME NEW u \in Tabs, run[u].rep.kind = "ok"
               PROVE  row'[run[u].rep.tok.sid].gen = run[u].rep.tok.gen
    BY <1>0 DEF ReplyIsCurrent
  <2>1. /\ row[run[u].rep.tok.sid].gen = run[u].rep.tok.gen
        /\ tok = run[u].rep.tok.sid => g < run[u].rep.tok.gen
    BY <1>0, <1>1 DEF ReplyIsCurrent
  <2> QED BY <1>2, <1>3, <2>1
<1>10. BehindForAReason'
  <2>1. \A u \in Tabs :
            run[u].tok # None /\ row'[run[u].tok.sid].status = "active" =>
              \/ row'[run[u].tok.sid].gen = run[u].tok.gen
              \/ run[u].tok.sid \in undelivered
    BY <1>2, <1>3, <1>4 DEF BehindForAReason
  <2>2. jar # None /\ row'[jar.sid].status = "active" =>
            \/ row'[jar.sid].gen = jar.gen
            \/ jar.sid \in undelivered
            \/ \E u \in Tabs : /\ run[u].rep.kind = "ok"
                               /\ run[u].rep.tok.sid = jar.sid
    BY <1>2, <1>3, <1>4 DEF BehindForAReason
  <2> QED BY <1>0, <2>1, <2>2 DEF BehindForAReason
<1>11. JarAtMostOneBehind'
  <2> SUFFICES ASSUME jar # None, row'[jar.sid].status = "active"
               PROVE  row'[jar.sid].gen <= jar.gen + 1
    BY <1>0 DEF JarAtMostOneBehind
  <2>1. jar.sid = tok => g <= jar.gen
    BY <1>0, <1>1 DEF NoTokenAhead
  <2>2. row[jar.sid].status = "active" => row[jar.sid].gen <= jar.gen + 1
    BY DEF JarAtMostOneBehind
  <2> QED BY <1>2, <1>3, <2>1, <2>2
<1>12. ReuseOnlyIfUndelivered'
    BY <1>0, <1>2, <1>4 DEF ReuseOnlyIfUndelivered
<1> QED BY <1>6, <1>7, <1>8, <1>9, <1>10, <1>11, <1>12

\* The server creates a session; its reply is on its way to the tab.
LEMMA SignInCookie ==
    ASSUME TypeInv, CookieInv, NEW t \in Tabs, NEW s \in Sids, SignIn(t, s)
    PROVE  CookieInv'
<1> USE DEF CookieInv
<1>0. /\ UNCHANGED <<jar, run, orphan, undelivered>>
      /\ row[s].status = "unused" /\ login[t].sid = None
    BY DEF SignIn, ghosts
<1>1. /\ \A u \in Sids : u # s => row'[u] = row[u]
      /\ row'[s].status = "active" /\ row'[s].gen = row[s].gen
  <2>1. row \in [Sids -> Row]
    BY DEF TypeInv, TypeOK
  <2>2. row' = [row EXCEPT ![s] = [row[s] EXCEPT !.status = "active"]]
    BY <2>1 DEF SignIn
  <2>3. /\ [row[s] EXCEPT !.status = "active"].status = "active"
        /\ [row[s] EXCEPT !.status = "active"].gen = row[s].gen
    BY <2>1, StatusChange
  <2> QED BY <2>1, <2>2, <2>3
<1>2. /\ jar # None => jar.sid \in Sids
      /\ orphan # None => orphan.tok.sid \in Sids
      /\ \A u \in Tabs :
            /\ run[u].tok # None => run[u].tok.sid \in Sids
            /\ run[u].rep.kind = "ok" => run[u].rep.tok.sid \in Sids
            /\ login[u].sid # None => login[u].sid \in Sids
    BY TokenTypes
<1>3. login'[t].sid = s /\ \A u \in Tabs : u # t => login'[u].sid = login[u].sid
  <2>1. PICK form \in BOOLEAN :
            login' = [login EXCEPT ![t] = [sid |-> s, seen |-> store[t].sid,
                                           form |-> form]]
    BY DEF SignIn
  <2>2. login \in [Tabs -> Login]
    BY DEF TypeInv, TypeOK
  <2> QED BY <2>1, <2>2
<1>4. row[s].gen = 0 /\ \A u \in Tabs : login[u].sid # s
    BY <1>0 DEF NewSessions
<1>5. ASSUME NEW k, k.sid \in Sids, Issued(k)
      PROVE  k.sid # s /\ Issued(k)'
    BY <1>0, <1>1, <1>3, <1>5 DEF Issued
<1>6. /\ jar # None => jar.sid # s
      /\ orphan # None => orphan.tok.sid # s
      /\ \A u \in Tabs :
            /\ run[u].tok # None => run[u].tok.sid # s
            /\ run[u].rep.kind = "ok" => run[u].rep.tok.sid # s
    BY <1>2, <1>5 DEF TokensIssued
<1>7. TokensIssued'
    BY <1>0, <1>2, <1>5 DEF TokensIssued
<1>8. NewSessions'
  <2>1. \A u \in Sids : row'[u].status = "unused" =>
            row'[u].gen = 0 /\ \A v \in Tabs : login'[v].sid # u
    BY <1>1, <1>3 DEF NewSessions
  <2>2. \A u \in Tabs : login'[u].sid # None =>
            /\ row'[login'[u].sid].gen = 0
            /\ \A v \in Tabs : login'[v].sid = login'[u].sid => v = u
    BY <1>1, <1>2, <1>3, <1>4 DEF NewSessions
  <2> QED BY <2>1, <2>2 DEF NewSessions
<1>9. NoTokenAhead'
    BY <1>0 DEF NoTokenAhead
<1>10. ReplyIsCurrent'
    BY <1>0, <1>1, <1>2, <1>6 DEF ReplyIsCurrent
<1>11. BehindForAReason'
    BY <1>0, <1>1, <1>2, <1>6 DEF BehindForAReason
<1>12. JarAtMostOneBehind' /\ ReuseOnlyIfUndelivered'
    BY <1>0, <1>1, <1>2, <1>6 DEF JarAtMostOneBehind, ReuseOnlyIfUndelivered
<1> QED BY <1>7, <1>8, <1>9, <1>10, <1>11, <1>12

\* The sign-in reply sets the first cookie of the session.
LEMMA SignInReplyCookie ==
    ASSUME TypeInv, CookieInv, NEW t \in Tabs, SignInReply(t)
    PROVE  CookieInv'
<1> USE DEF CookieInv
<1>1. PICK s \in Sids : s = login[t].sid
    BY DEF SignInReply, TypeInv, TypeOK, Login
<1>0. /\ UNCHANGED <<row, orphan, undelivered>>
      /\ jar' = [sid |-> s, gen |-> 0] /\ jar'.sid = s /\ jar'.gen = 0
      /\ \A u \in Tabs : run'[u].tok = run[u].tok /\ run'[u].rep = run[u].rep
  <2>1. run' = run \/ run' = [run EXCEPT ![t] = Superseded(t)]
    BY DEF SignInReply
  <2>2. \A u \in Tabs : run'[u].tok = run[u].tok /\ run'[u].rep = run[u].rep
    BY <2>1, SupersededFacts DEF TypeInv, TypeOK
  <2> QED BY <1>1, <2>2 DEF SignInReply
<1>2. /\ login[t].sid = s /\ login'[t].sid = None
      /\ \A u \in Tabs : u # t => login'[u].sid = login[u].sid
    BY <1>1 DEF SignInReply, TypeInv, TypeOK, NoLogin
<1>3. /\ row[s].gen = 0 /\ row[s].status # "unused"
      /\ \A u \in Tabs : login'[u].sid # s
    BY <1>2 DEF NewSessions
<1>4. ASSUME NEW k, k.sid \in Sids, Issued(k)
      PROVE  k.sid # s /\ Issued(k)'
    BY <1>0, <1>2, <1>4 DEF Issued
<1>5. /\ orphan # None => orphan.tok.sid \in Sids
      /\ \A u \in Tabs :
            /\ run[u].tok # None => run[u].tok.sid \in Sids
            /\ run[u].rep.kind = "ok" => run[u].rep.tok.sid \in Sids
    BY TokenTypes
<1>6. /\ orphan # None => orphan.tok.sid # s
      /\ \A u \in Tabs : run[u].tok # None => run[u].tok.sid # s
    BY <1>4, <1>5 DEF TokensIssued
<1>7. TokensIssued'
  <2>1. Issued(jar)'
    BY <1>0, <1>3 DEF Issued
  <2>2. orphan' # None => Issued(orphan.tok)'
    BY <1>0, <1>4, <1>5 DEF TokensIssued
  <2>3. ASSUME NEW u \in Tabs
        PROVE  /\ run'[u].tok # None => Issued(run[u].tok)'
               /\ run'[u].rep.kind = "ok" => Issued(run[u].rep.tok)'
    BY <1>0, <1>4, <1>5 DEF TokensIssued
  <2> QED BY <2>1, <2>2, <2>3 DEF TokensIssued
<1>8. NewSessions'
    BY <1>0, <1>2 DEF NewSessions
<1>9. NoTokenAhead'
    BY <1>0, <1>6 DEF NoTokenAhead
<1>10. ReplyIsCurrent'
    BY <1>0 DEF ReplyIsCurrent
<1>11. BehindForAReason'
    BY <1>0, <1>3 DEF BehindForAReason
<1>12. JarAtMostOneBehind' /\ ReuseOnlyIfUndelivered'
    BY <1>0, <1>3 DEF JarAtMostOneBehind, ReuseOnlyIfUndelivered
<1> QED BY <1>7, <1>8, <1>9, <1>10, <1>11, <1>12

\* A refresh that starts has neither a token nor a reply.
LEMMA StartRunQuiet ==
    ASSUME TypeInv, NEW t \in Tabs, StartRun(t)
    PROVE  \A u \in Tabs : /\ run'[u].tok \in {None, run[u].tok}
                           /\ run'[u].rep.kind = "ok" => run'[u].rep = run[u].rep
                           /\ run[u].rep.kind = "ok" => run'[u].rep = run[u].rep
<1>1. CASE UNCHANGED <<run, queue, signedOut>>
    BY <1>1
<1>2. CASE run[t].ph = "none"
  <2>1. run[t].rep.kind # "ok"
    BY <1>2, TokenTypes
  <2>2. PICK p \in {"queued", "ready"} :
            run' = [run EXCEPT ![t] = [NoRun EXCEPT !.ph = p]]
    BY <1>2 DEF StartRun
  <2>3. /\ run'[t].tok = None /\ run'[t].rep.kind = "none"
        /\ \A u \in Tabs : u # t => run'[u] = run[u]
    BY <2>2, FreshRun DEF TypeInv, TypeOK
  <2> QED BY <2>1, <2>3
<1> QED BY <1>1, <1>2 DEF StartRun

\* Every step keeps what the cookie promises: the one refresh that holds the
\* lock is the only one to rotate.
LEMMA CookieStep ==
    ASSUME TypeInv, TypeInv', HasLocks, LockInv, CookieInv, Next
    PROVE  CookieInv'
<1>0. /\ row \in [Sids -> Row] /\ run \in [Tabs -> Run]
      /\ \A t \in Tabs : run[t] \in Run /\ Shaped(run[t])
    BY DEF TypeInv, TypeOK, RunShape
<1> DEFINE RunsKept ==
        \A u \in Tabs : /\ run'[u].tok \in {None, run[u].tok}
                        /\ run'[u].rep.kind = "ok" => run'[u].rep = run[u].rep
                        /\ run[u].rep.kind = "ok" => run'[u].rep = run[u].rep
           RowsKept ==
        \A s \in Sids :
          /\ row'[s].gen = row[s].gen
          /\ \/ row'[s].status = row[s].status
             \/ row[s].status = "active" /\ row'[s].status = "revoked"
<1>1. ASSUME UNCHANGED <<orphan, login, undelivered>>, jar' \in {jar, None},
             RowsKept, RunsKept
      PROVE  CookieInv'
    BY <1>1, QuietCookie DEF Quiet
<1>2. ASSUME UNCHANGED run PROVE RunsKept
    BY <1>2
<1>3. ASSUME NEW t \in Tabs, run' = [run EXCEPT ![t] = Superseded(t)]
      PROVE  RunsKept
    BY <1>0, <1>3, SupersededFacts DEF TypeInv
<1>4. ASSUME NEW t \in Tabs, StartRun(t) PROVE RunsKept
    BY <1>4, StartRunQuiet
<1>5. ASSUME UNCHANGED row PROVE RowsKept
    BY <1>5
<1>6. ASSUME NEW t \in Tabs, NEW kind, NEW st, Settle(t, kind, st),
             run[t].rep.kind # "ok"
      PROVE  RunsKept
  <2>1. run'[t] = NoRun /\ \A u \in Tabs : u # t => run'[u] = run[u]
    BY <1>0, <1>6 DEF Settle
  <2> QED BY <1>6, <2>1, NoRunTyped
<1>7. ASSUME NEW t \in Tabs, NEW r \in Run,
             run' = [run EXCEPT ![t] = r],
             r.tok \in {None, run[t].tok}, r.rep.kind # "ok",
             run[t].rep.kind # "ok"
      PROVE  RunsKept
    BY <1>0, <1>7
<1> HIDE DEF RunsKept, RowsKept
<1>8. ASSUME NEW t \in Tabs, Granted(t) \/ RaceDelay(t)
      PROVE  CookieInv'
  <2>1. /\ run'[t].tok = run[t].tok /\ run'[t].rep = run[t].rep
        /\ \A u \in Tabs : u # t => run'[u] = run[u]
    BY <1>0, <1>8 DEF Granted, RaceDelay, Run
  <2>2. RunsKept
    BY <2>1 DEF RunsKept
  <2>3. UNCHANGED <<row, jar, orphan, login, undelivered>>
    BY <1>8 DEF Granted, RaceDelay, ghosts
  <2> QED BY <1>1, <1>5, <2>2, <2>3
<1>9. ASSUME NEW t \in Tabs, SendRefresh(t)
      PROVE  CookieInv'
  <2>0. UNCHANGED <<row, jar, orphan, login, undelivered>> /\ run[t].ph = "ready"
    BY <1>9 DEF SendRefresh, ghosts
  <2>1. CASE Settle(t, "transient_error", store[t])
    <3>1. run[t].rep.kind # "ok"
        BY <1>0, <2>0 DEF Shaped
    <3> QED BY <1>1, <1>5, <1>6, <2>0, <2>1, <3>1
  <2>2. CASE run' = [run EXCEPT ![t].ph = "sent", ![t].tok = jar,
                                ![t].exp = store[t].sid]
    <3>1. /\ run'[t].tok = jar /\ run'[t].rep = run[t].rep
          /\ \A u \in Tabs : u # t => run'[u] = run[u]
        BY <1>0, <2>2 DEF Run
    <3> QED BY <2>0, <3>1, SendCookie
  <2> QED BY <1>9, <2>1, <2>2 DEF SendRefresh
<1>10. ASSUME NEW t \in Tabs, ServerRefresh(t)
       PROVE  CookieInv'
  <2>0. UNCHANGED <<jar, orphan, login>> /\ run[t].ph = "sent"
    BY <1>10 DEF ServerRefresh
  <2>1. ASSUME NEW a \in Rotation(run[t].tok, run[t].exp),
               row' = a.rows, run' = [run EXCEPT ![t] = Answered(@, a.rep)],
               UNCHANGED undelivered
        PROVE  CookieInv'
    BY <2>0, <2>1, ServerCookie
  <2>2. ASSUME NEW k \in {"transient", "other", "denied"},
               UNCHANGED <<row, undelivered>>,
               run' = [run EXCEPT ![t] = Answered(@, Plain(k))]
        PROVE  CookieInv'
    <3>1. Plain(k) \in Reply /\ Plain(k).kind = k
        BY DEF Plain, Reply
    <3>2. run[t].ph # "none" /\ run[t].rep.kind # "ok"
        BY <1>0, <2>0 DEF Shaped
    <3>3. RunsKept
      <4> DEFINE r == Answered(run[t], Plain(k))
      <4>1. /\ r \in Run /\ r.tok = None /\ r.rep = Plain(k)
        BY <1>0, <3>1, <3>2, AnsweredFacts
      <4>2. run' = [run EXCEPT ![t] = r] /\ r.rep.kind # "ok"
        BY <2>2, <3>1, <4>1
      <4> HIDE DEF r
      <4> QED BY <1>7, <3>2, <4>1, <4>2
    <3> QED BY <1>1, <1>5, <2>0, <2>2, <3>3
  <2>3. ASSUME NEW a \in Rotation(run[t].tok, run[t].exp),
               a.rep.kind = "ok", row' = a.rows,
               undelivered' = undelivered \cup {a.rep.tok.sid},
               run' = [run EXCEPT ![t] = Answered(@, Plain("transient"))]
        PROVE  CookieInv'
    <3>1. Plain("transient") \in Reply /\ Plain("transient").kind = "transient"
        BY DEF Plain, Reply
    <3>2. /\ run'[t].tok = None /\ run'[t].rep.kind # "ok"
          /\ \A u \in Tabs : u # t => run'[u] = run[u]
        BY <1>0, <2>0, <2>3, <3>1, AnsweredFacts
    <3> QED BY <2>0, <2>3, <3>2, FailedCookie
  <2> QED BY <1>10, <2>1, <2>2, <2>3 DEF ServerRefresh
<1>11. ASSUME NEW t \in Tabs, RefreshReply(t)
       PROVE  CookieInv'
  <2>0. /\ UNCHANGED <<row, orphan, login, undelivered>> /\ run[t].ph = "reply"
        /\ jar' = JarAfter(run[t].rep) /\ run[t].tok = None
    BY <1>0, <1>11 DEF RefreshReply, ghosts, Shaped
  <2>1. PICK r \in Run : /\ run' = [run EXCEPT ![t] = r]
                         /\ r.tok = None /\ r.rep.kind = "none"
    <3>1. \A kind, st : Settle(t, kind, st) => run' = [run EXCEPT ![t] = NoRun]
        BY DEF Settle
    <3>2. CASE run' = [run EXCEPT ![t] = NoRun]
        BY <3>2, NoRunTyped
    <3>3. CASE run' = [run EXCEPT ![t] = [NoRun EXCEPT !.ph = "ready",
                                                      !.mm = FALSE]]
        BY <3>3, FreshRun
    <3>4. CASE run' = [run EXCEPT ![t].ph = "wait", ![t].rep = Plain("none")]
      <4> DEFINE r == [run[t] EXCEPT !.ph = "wait", !.rep = Plain("none")]
      <4>1. Plain("none") \in Reply /\ Plain("none").kind = "none"
        BY DEF Plain, Reply
      <4>2. /\ r \in Run /\ r.tok = run[t].tok /\ r.rep = Plain("none")
            /\ run' = [run EXCEPT ![t] = r]
        BY <1>0, <3>4, <4>1 DEF Run
      <4> QED BY <2>0, <4>1, <4>2
    <3> QED BY <1>11, <3>1, <3>2, <3>3, <3>4 DEF RefreshReply
  <2>2. CASE run[t].rep.kind = "ok"
    <3>1. jar' = run[t].rep.tok
        BY <2>0, <2>2 DEF JarAfter
    <3>2. /\ run'[t].tok = None /\ run'[t].rep.kind # "ok"
          /\ \A u \in Tabs : u # t => run'[u] = run[u]
        BY <1>0, <2>1
    <3> QED BY <2>0, <2>2, <3>1, <3>2, ReplyCookie
  <2>3. CASE run[t].rep.kind # "ok"
    <3>1. jar' \in {jar, None}
        BY <2>0, <2>3 DEF JarAfter
    <3>2. RunsKept
        BY <1>7, <2>1, <2>3
    <3> QED BY <1>1, <1>5, <2>0, <3>1, <3>2
  <2> QED BY <2>2, <2>3
<1>12. ASSUME NEW t \in Tabs, LoseRefresh(t)
       PROVE  CookieInv'
  <2>0. /\ UNCHANGED <<row, jar, orphan, login>> /\ undelivered \subseteq undelivered'
        /\ run[t].rep.kind = "ok" => run[t].rep.tok.sid \in undelivered'
        /\ run[t].ph # "none"
        /\ run' = [run EXCEPT ![t] = Answered(run[t], Plain("transient"))]
    BY <1>12 DEF LoseRefresh
  <2>1. Plain("transient") \in Reply /\ Plain("transient").kind = "transient"
    BY DEF Plain, Reply
  <2>2. /\ run'[t].tok = None /\ run'[t].rep.kind = "transient"
        /\ \A u \in Tabs : u # t => run'[u] = run[u]
    BY <1>0, <2>0, <2>1, AnsweredFacts
  <2>3. Quiet
    BY <2>0, <2>2 DEF Quiet
  <2> QED BY <2>3, QuietCookie
<1>13. ASSUME NEW t \in Tabs, PageLoad(t)
       PROVE  CookieInv'
    BY <1>13, PageLoadCookie
<1>14. ASSUME NEW t \in Tabs,
              Resolve(t) \/ ApiSendOnce(t) \/ ApiReply(t) \/ ApiSend(t)
                 \/ TokenExpires(t) \/ LoseSignOut(t) \/ LoseReply(t)
                 \/ RotateReply(t)
       PROVE  CookieInv'
  <2>1. UNCHANGED <<row, jar, orphan, login, undelivered>>
    BY <1>14 DEF Resolve, ApiSendOnce, ApiReply, ApiSend, TokenExpires,
                 LoseSignOut, LoseReply, RotateReply, ghosts
  <2>2. RunsKept
    BY <1>2, <1>3, <1>4, <1>14 DEF Resolve, ApiSendOnce, ApiReply, ApiSend,
                         TokenExpires, LoseSignOut, LoseReply, RotateReply
  <2> QED BY <1>1, <1>5, <2>1, <2>2
<1>15. ASSUME NEW t \in Tabs, Deliver(t)
       PROVE  CookieInv'
  <2>1. CASE /\ UNCHANGED <<row, jar, orphan, login, ghosts>>
             /\ run' = run \/ run' = [run EXCEPT ![t] = Superseded(t)]
    <3>1. UNCHANGED <<row, jar, orphan, login, undelivered>>
        BY <2>1 DEF ghosts
    <3> QED BY <1>1, <1>2, <1>3, <1>5, <2>1, <3>1
  <2> QED BY <1>13, <1>15, <2>1 DEF Deliver
<1>16. ASSUME NEW t \in Tabs, SignOut(t)
       PROVE  CookieInv'
  <2>1. UNCHANGED <<jar, run, orphan, login, undelivered>>
        /\ row' = LogoutAnswer(t).rows
    BY <1>16 DEF SignOut, ghosts
  <2>2. TypeOK
    BY DEF TypeInv
  <2>3. RowsKept
    BY <2>1, <2>2, LogoutTyped DEF RowsKept
  <2> QED BY <1>1, <1>2, <2>1, <2>3
<1>17. ASSUME NEW t \in Tabs, SignOutReply(t) \/ EndReply(t)
       PROVE  CookieInv'
  <2>1. UNCHANGED <<row, orphan, login, undelivered>> /\ jar' \in {jar, None}
    BY <1>17 DEF SignOutReply, EndReply
  <2>2. RunsKept
    BY <1>2, <1>3, <1>4, <1>17 DEF SignOutReply, EndReply
  <2> QED BY <1>1, <1>5, <2>1, <2>2
<1>18. ASSUME NEW t \in Tabs,
              \/ RotateCurrent(t) \/ DeleteAccount(t)
              \/ \E s \in Sids : DeleteSession(t, s)
       PROVE  CookieInv'
  <2>1. UNCHANGED <<jar, run, orphan, login, undelivered>> /\ RowsEnd
    BY <1>18, RequestFacts DEF RequestOutcome, TypeInv
  <2>2. RowsKept
    <3> SUFFICES ASSUME NEW s \in Sids
                 PROVE  /\ row'[s].gen = row[s].gen
                        /\ \/ row'[s].status = row[s].status
                           \/ /\ row[s].status = "active"
                              /\ row'[s].status = "revoked"
        BY DEF RowsKept
    <3>1. row[s] \in Row
        BY DEF TypeInv, TypeOK
    <3>2. /\ [row[s] EXCEPT !.status = "revoked"].gen = row[s].gen
          /\ [row[s] EXCEPT !.status = "revoked"].status = "revoked"
        BY <3>1, StatusChange
    <3> QED BY <2>1, <3>2 DEF RowsEnd
  <2> QED BY <1>1, <1>2, <2>1, <2>2
<1>19. ASSUME NEW s \in Sids, WindowCloses(s) \/ RevokeElsewhere(s)
       PROVE  CookieInv'
  <2>1. UNCHANGED <<jar, run, orphan, login, undelivered>>
    BY <1>19 DEF WindowCloses, RevokeElsewhere, ghosts
  <2>2. RowsKept
    BY <1>0, <1>19 DEF WindowCloses, RevokeElsewhere, RowsKept, Row
  <2> QED BY <1>1, <1>2, <2>1, <2>2
<1> QED BY <1>8, <1>9, <1>10, <1>11, <1>12, <1>13, <1>14, <1>15, <1>16,
           <1>17, <1>18, <1>19, OrphanCookie, SignInCookie, SignInReplyCookie
        DEF Next, Reload

\* Nothing is handed out at first.
LEMMA ProfileInit == Init => ProfileInv
<1> SUFFICES ASSUME Init PROVE LockInv /\ CookieInv
    BY DEF ProfileInv
<1>1. /\ \A t \in Tabs : run[t] = NoRun /\ login[t].sid = None
      /\ orphan = None
      /\ \A s \in Sids : row[s].gen = 0 /\ row[s].status # "reused"
    BY DEF Init, NoLogin
<1>2. jar # None =>
          jar.sid \in Sids /\ jar.gen = 0 /\ row[jar.sid].status = "active"
    BY DEF Init
<1>3. LockInv
    BY <1>1, NoRunTyped DEF LockInv, Holding
<1>4. TokensIssued /\ NewSessions
  <2>1. jar # None => Issued(jar)
    BY <1>1, <1>2 DEF Issued
  <2>2. \A t \in Tabs : run[t].tok = None /\ run[t].rep.kind # "ok"
    BY <1>1, NoRunTyped
  <2> QED BY <1>1, <2>1, <2>2 DEF TokensIssued, NewSessions
<1>5. NoTokenAhead /\ ReplyIsCurrent /\ BehindForAReason
    BY <1>1, <1>2, NoRunTyped DEF NoTokenAhead, ReplyIsCurrent, BehindForAReason
<1>6. JarAtMostOneBehind /\ ReuseOnlyIfUndelivered
    BY <1>1, <1>2 DEF JarAtMostOneBehind, ReuseOnlyIfUndelivered
<1> QED BY <1>3, <1>4, <1>5, <1>6 DEF CookieInv

\* Every step keeps the whole invariant.
LEMMA IInvStep == IInv /\ [Next]_vars => IInv'
<1> SUFFICES ASSUME IInv, [Next]_vars PROVE IInv'
    OBVIOUS
<1>1. TabInv' /\ TypeInv /\ TypeInv'
  <2>1. TabInv /\ TabInv'
    BY TabInvStep DEF IInv
  <2> QED BY <2>1 DEF TabInv, TypeInv
<1>2. ASSUME HasLocks
      PROVE  LockInv' /\ CookieInv'
  <2>0. LockInv /\ CookieInv
    BY <1>2 DEF IInv, ProfileInv
  <2>1. CASE Next
    BY <1>1, <1>2, <2>0, <2>1, LockStep, CookieStep
  <2>2. CASE UNCHANGED vars
    <3>1. LockInv'
        BY <2>0, <2>2 DEF vars, LockInv
    <3>2. Quiet
        BY <2>2 DEF vars, Quiet
    <3> QED BY <1>1, <2>0, <3>1, <3>2, QuietCookie
  <2> QED BY <2>1, <2>2
<1> QED BY <1>1, <1>2 DEF IInv, ProfileInv

\* The whole invariant holds.
LEMMA IInvHolds == Spec => []IInv
<1>1. Init => IInv
    BY TabInvInit, ProfileInit DEF IInv
<1>2. IInv /\ [Next]_vars => IInv'
    BY IInvStep
<1> QED BY <1>1, <1>2, PTL DEF Spec

\* The whole inductive invariant: the tab's part holds in every browser, the
\* profile's part wherever navigator.locks exists.
THEOREM SessionInvariant == Spec => []IInv
BY IInvHolds

\* With the Web Lock of performRefreshWithBrowserLock, no more than one
\* refresh of the profile is between its request and its reply.
OneRefreshAtATime ==
    \A t, u \in Tabs : run[t].ph \in Holding /\ run[u].ph \in Holding => t = u

\* performRefreshWithBrowserLock: from the grant of the Web Lock to the end of
\* the refresh a tab is alone.
THEOREM RefreshesExclude == Spec => [](HasLocks => OneRefreshAtATime)
<1>1. IInv => (HasLocks => OneRefreshAtATime)
    BY OneHolder DEF IInv, ProfileInv, OneRefreshAtATime
<1> QED BY <1>1, IInvHolds, PTL

\* With the Web Lock the profile's cookie is the row's token or its
\* predecessor, whatever is lost, reloaded or abandoned: those are the two
\* that RotateUserSessionRefresh can tell from a stranger's.
THEOREM CookieRecognised == Spec => [](HasLocks => JarAtMostOneBehind)
<1>1. IInv => (HasLocks => JarAtMostOneBehind)
    BY DEF IInv, ProfileInv, CookieInv
<1> QED BY <1>1, IInvHolds, PTL

\* With the Web Lock a session is revoked for reuse of its token only after
\* the server rotated to a token that the profile never got, because the
\* reply was cut off or RefreshAuth failed after its rotation; tabs that
\* merely refresh together never look like a thief to
\* RotateUserSessionRefresh.
THEOREM NoFalseThief == Spec => [](HasLocks => ReuseOnlyIfUndelivered)
<1>1. IInv => (HasLocks => ReuseOnlyIfUndelivered)
    BY DEF IInv, ProfileInv, CookieInv
<1> QED BY <1>1, IInvHolds, PTL
=============================================================================
