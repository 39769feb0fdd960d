----------------------------- MODULE AuthSession -----------------------------
(***************************************************************************)
(* The browser side of a login session (web/src/lib/auth-session.ts,       *)
(* auth-session-sync.ts, http-client.ts, features/auth/api.ts and the      *)
(* route guards) against the server's rotation of refresh tokens           *)
(* (service/auth_session.go, model/user_session.go).                       *)
(*                                                                         *)
(* The tabs of one browser profile share the cookie jar, the Web Lock      *)
(* "new-api:auth-refresh" and a broadcast channel; each keeps its own      *)
(* store.  A refresh token is the session and its generation: a rotation   *)
(* derives generation n+1 from generation n.  A reply stores its cookie    *)
(* when it reaches the browser, whatever the page does with its body; the  *)
(* reply to a page that is gone never does.  The sessions are one user's.  *)
(***************************************************************************)
EXTENDS Naturals, Sequences

CONSTANTS
    Tabs,         \* tabs of the profile
    Sids,         \* sessions that may be created
    None,         \* no session, no cookie, no reply
    HasLocks,     \* navigator.locks is available
    Derived,      \* may the row hold the digest derived from its predecessor?
    RaceRetries,  \* length of refreshRaceDelays
    MaxGen,       \* bound on the generations of a session
    MaxWork,      \* bound on what users and other devices start
    MaxFaults     \* bound on lost and failing exchanges

ASSUME SidAssumption == None \notin Sids

ASSUME BoundAssumption ==
    /\ HasLocks \in BOOLEAN
    /\ Derived \subseteq BOOLEAN
    /\ RaceRetries \in Nat
    /\ MaxGen \in Nat
    /\ MaxWork \in Nat
    /\ MaxFaults \in Nat

VARIABLES
    row,       \* Sids -> its row of user_sessions
    jar,       \* the refresh cookie of the profile
    queue,     \* holder and waiters of the Web Lock, in order
    store,     \* Tabs -> the auth store
    run,       \* Tabs -> refreshPromise, the refresh in progress
    api,       \* Tabs -> a request of http-client.ts
    login,     \* Tabs -> a sign-in whose reply is on its way
    out,       \* Tabs -> executeLogout
    inbox,     \* Tabs -> session events not yet delivered
    orphan,    \* a refresh request whose page is gone
    work,      \* what may still be started
    faults,    \* exchanges that may still fail
    undelivered,  \* ghost: sessions with a new token the profile never got
    signedOut     \* ghost: tabs signed out with no refresh or sign-in since

vars == <<row, jar, queue, store, run, api, login, out, inbox, orphan,
          work, faults, undelivered, signedOut>>

budget == <<work, faults>>
ghosts == <<undelivered, signedOut>>

Token == [sid : Sids, gen : 0..MaxGen]

\* window: now <= previous_valid_until
Row == [status : {"unused", "active", "revoked", "reused"},
        gen : 0..MaxGen, window : BOOLEAN]

\* fresh: the access token has not expired
Store == [sid : Sids \cup {None}, fresh : BOOLEAN,
          boot : {"idle", "checking", "complete"}]

\* an answer to a refresh; tok is its cookie
Reply == [kind : {"none", "ok", "race", "mismatch", "denied", "transient",
                  "other"},
          tok : Token \cup {None}]

Plain(kind) == [kind |-> kind, tok |-> None]

Accepted(s, g) == [kind |-> "ok", tok |-> [sid |-> s, gen |-> g]]

\* cur: isCurrent, the epoch has not moved since the refresh began.
\* mm: allowMismatchRetry.  tok and exp are the request's cookie and
\* X-Auth-Session, rep its reply.
Run == [ph : {"none", "queued", "ready", "sent", "reply", "wait"},
        cur : BOOLEAN, att : 0..RaceRetries, mm : BOOLEAN,
        tok : Token \cup {None}, exp : Sids \cup {None},
        rep : Reply]

NoRun == [ph |-> "none", cur |-> TRUE, att |-> 0, mm |-> TRUE,
          tok |-> None, exp |-> None, rep |-> Plain("none")]

\* tok: the session of a live access token, None for a missing or expired
\* one.  "rotating" waits for new credentials of session tok; "ending" and
\* "kept" for the end of session tok, with and without its cookie.
Api == [ph : {"none", "sent", "refreshing", "retried", "freshening", "once",
              "rotating", "ending", "kept"},
        tok : Sids \cup {None}]

NoApi == [ph |-> "none", tok |-> None]

\* seen: the store's session when the sign-in was sent.  form: the sign-in
\* form, otherwise a callback page of a provider.
Login == [sid : Sids \cup {None}, seen : Sids \cup {None}, form : BOOLEAN]

NoLogin == [sid |-> None, seen |-> None, form |-> TRUE]

\* clear: the reply clears the cookie.  retry: allowMismatchRecovery.
Out == [ph : {"none", "reply", "recover", "again"},
        rep : {None, "ok", "mismatch"}, clear : BOOLEAN, retry : BOOLEAN]

NoOut == [ph |-> "none", rep |-> None, clear |-> FALSE, retry |-> TRUE]

Event == [kind : {"authenticated", "signed_out"}, sid : Sids]

\* The profile holds no cookie, or that of a session of an earlier visit.
Init ==
    /\ jar \in {None} \cup [sid : Sids, gen : {0}]
    /\ row = [s \in Sids |->
                 [status |-> IF jar # None /\ jar.sid = s THEN "active"
                             ELSE "unused",
                  gen |-> 0, window |-> FALSE]]
    /\ queue = <<>>
    /\ store = [t \in Tabs |-> [sid |-> None, fresh |-> FALSE,
                                boot |-> "idle"]]
    /\ run = [t \in Tabs |-> NoRun]
    /\ api = [t \in Tabs |-> NoApi]
    /\ login = [t \in Tabs |-> NoLogin]
    /\ out = [t \in Tabs |-> NoOut]
    /\ inbox = [t \in Tabs |-> <<>>]
    /\ orphan = None
    /\ work = MaxWork
    /\ faults = MaxFaults
    /\ undelivered = {}
    /\ signedOut = {}

-----------------------------------------------------------------------------
(***************************************************************************)
(* The auth store and its epoch.                                           *)
(***************************************************************************)

Bundle(s) == [sid |-> s, fresh |-> TRUE, boot |-> "complete"]

Reset(boot) == [sid |-> None, fresh |-> FALSE, boot |-> boot]

AccessToken(t) == IF store[t].fresh THEN store[t].sid ELSE None

\* What a mismatch leaves: clear(false, 'idle').  A mutant keeps the SID.
MismatchKeepsSid(t) == [store[t] EXCEPT !.boot = "idle"]
MismatchReset(t) == Reset("idle")

\* A mutant: the epoch does not move.
NotSuperseded(t) == run[t]

\* authEpoch += 1 as the refresh in progress sees it
Superseded(t) ==
    IF run[t].ph = "none" THEN run[t] ELSE [run[t] EXCEPT !.cur = FALSE]

\* publishAuthSessionEvent: every other tab, not the source
Publish(t, kind, s) ==
    inbox' = [u \in Tabs |->
                 IF u = t \/ s = None THEN inbox[u]
                 ELSE Append(inbox[u], [kind |-> kind, sid |-> s])]

-----------------------------------------------------------------------------
(***************************************************************************)
(* The bounds.                                                             *)
(***************************************************************************)

Started ==
    /\ work > 0
    /\ work' = work - 1
    /\ UNCHANGED faults

Failed ==
    /\ faults > 0
    /\ faults' = faults - 1
    /\ UNCHANGED work

-----------------------------------------------------------------------------
(***************************************************************************)
(* refreshAuthentication: one refresh per tab, one tab at a time.          *)
(***************************************************************************)

\* A mutant: no lock between the tabs.
StartRunUnlocked(t) ==
    /\ queue' = queue
    /\ signedOut' = signedOut \ {t}
    /\ run' = IF run[t].ph # "none" THEN run
              ELSE [run EXCEPT ![t] = [NoRun EXCEPT !.ph = "ready"]]

\* The refresh that a caller in tab t starts, or joins.
StartRun(t) ==
    IF run[t].ph # "none"
    THEN UNCHANGED <<run, queue, signedOut>>
    ELSE /\ signedOut' = signedOut \ {t}
         /\ run' = [run EXCEPT ![t] =
                       [NoRun EXCEPT !.ph = IF HasLocks THEN "queued"
                                            ELSE "ready"]]
         /\ queue' = IF HasLocks THEN Append(queue, t) ELSE queue

\* navigator.locks grants in order of request.
Granted(t) ==
    /\ run[t].ph = "queued"
    /\ Head(queue) = t
    /\ run' = [run EXCEPT ![t].ph = "ready"]
    /\ UNCHANGED <<row, jar, queue, store, api, login, out, inbox, orphan,
                   ghosts, budget>>

\* What the callers of the refresh do with its outcome: the interceptor's
\* retry, getFreshAuthHeaders and the recovery of executeLogout.
ApiAfter(t, kind, s) ==
    CASE api[t].ph = "refreshing" /\ kind = "authenticated" ->
            [ph |-> "retried", tok |-> s]
      [] api[t].ph = "refreshing" /\ kind # "authenticated" -> NoApi
      [] api[t].ph = "freshening" /\ kind = "authenticated" ->
            [ph |-> "once", tok |-> s]
      [] api[t].ph = "freshening" /\ kind # "authenticated" ->
            IF s # None THEN [ph |-> "once", tok |-> s] ELSE NoApi
      [] OTHER -> api[t]

OutAfter(t, kind) ==
    IF out[t].ph # "recover" THEN out[t]
    ELSE IF kind = "authenticated" THEN [out[t] EXCEPT !.ph = "again"]
    ELSE NoOut

\* The lock's queue without tab t, which is in it at most once.
Without(q, t) ==
    IF \E i \in DOMAIN q : q[i] = t
    THEN LET k == CHOOSE i \in DOMAIN q : q[i] = t
         IN  [i \in 1..(Len(q) - 1) |-> IF i < k THEN q[i] ELSE q[i + 1]]
    ELSE q

\* A mutant: a refresh that fails keeps the lock.
SettleLeaky(t, kind, st) ==
    /\ store' = [store EXCEPT ![t] = st]
    /\ run' = [run EXCEPT ![t] = NoRun]
    /\ queue' = IF kind = "transient_error" THEN queue
                ELSE Without(queue, t)
    /\ api' = [api EXCEPT ![t] =
                  ApiAfter(t, kind, IF st.fresh THEN st.sid ELSE None)]
    /\ out' = [out EXCEPT ![t] = OutAfter(t, kind)]

\* The promise settles: the lock is released and the callers continue.
Settle(t, kind, st) ==
    /\ store' = [store EXCEPT ![t] = st]
    /\ run' = [run EXCEPT ![t] = NoRun]
    /\ queue' = Without(queue, t)
    /\ api' = [api EXCEPT ![t] =
                  ApiAfter(t, kind, IF st.fresh THEN st.sid ELSE None)]
    /\ out' = [out EXCEPT ![t] = OutAfter(t, kind)]

\* run: the check before the request, then the request.
SendRefresh(t) ==
    /\ run[t].ph = "ready"
    /\ \/ /\ ~run[t].cur
          /\ Settle(t, "transient_error", store[t])
       \/ /\ run[t].cur
          /\ run' = [run EXCEPT ![t].ph = "sent", ![t].tok = jar,
                                ![t].exp = store[t].sid]
          /\ UNCHANGED <<store, queue, api, out>>
    /\ UNCHANGED <<row, jar, login, inbox, orphan, ghosts, budget>>

Answered(r, rep) ==
    [r EXCEPT !.ph = "reply", !.rep = rep, !.tok = None, !.exp = None]

\* A mutant: X-Auth-Session is not compared with the cookie.
LiveAnySession(tok, exp) ==
    /\ tok # None
    /\ row[tok.sid].status = "active"

\* What the server answers to cookie tok with X-Auth-Session exp, and the
\* row it leaves.  At the bound on generations the answer is an error.
Live(tok, exp) ==
    /\ tok # None
    /\ exp \in {None, tok.sid}
    /\ row[tok.sid].status = "active"

\* A mutant: the predecessor rotates again instead of recovering its
\* successor.
RotationAgain(tok, exp) ==
    IF ~Live(tok, exp) \/ row[tok.sid].gen = MaxGen
    THEN {[rep |-> Plain("denied"), rows |-> row]}
    ELSE LET s == tok.sid
         IN  {[rep |-> Accepted(s, row[s].gen + 1),
               rows |-> [row EXCEPT ![s].gen = @ + 1]]}

Rotation(tok, exp) ==
    IF ~Live(tok, exp)
    THEN {[rep |-> Plain(IF tok # None /\ exp \notin {None, tok.sid}
                         THEN "mismatch" ELSE "denied"),
           rows |-> row]}
    ELSE LET s == tok.sid
             r == row[s]
         IN  CASE tok.gen = r.gen /\ r.gen < MaxGen ->
                    {[rep |-> Accepted(s, r.gen + 1),
                      rows |-> [row EXCEPT ![s].gen = r.gen + 1,
                                           ![s].window = TRUE]]}
               [] tok.gen = r.gen /\ r.gen = MaxGen ->
                    {[rep |-> Plain("transient"), rows |-> row]}
               [] tok.gen = r.gen - 1 /\ r.window ->
                    {[rep |-> IF d THEN Accepted(s, r.gen)
                              ELSE Plain("race"),
                      rows |-> row] : d \in Derived}
               [] tok.gen = r.gen - 1 /\ ~r.window ->
                    {[rep |-> Plain("denied"),
                      rows |-> [row EXCEPT ![s].status = "reused"]]}
               [] OTHER -> {[rep |-> Plain("denied"), rows |-> row]}

\* RefreshAuth.  A failing dependency, a rate limit or a guard may answer
\* before anything is done; a session that cannot be read counts as an
\* invalid token.  The session cache, its confirmation or issueAuthBundle may
\* also fail after the row was rotated: an error, and the old cookie stays.
ServerRefresh(t) ==
    /\ run[t].ph = "sent"
    /\ \/ /\ \E a \in Rotation(run[t].tok, run[t].exp) :
                /\ row' = a.rows
                /\ run' = [run EXCEPT ![t] = Answered(@, a.rep)]
          /\ UNCHANGED <<undelivered, budget>>
       \/ /\ \E k \in {"transient", "other", "denied"} :
                run' = [run EXCEPT ![t] = Answered(@, Plain(k))]
          /\ UNCHANGED <<row, undelivered>>
          /\ Failed
       \/ /\ \E a \in Rotation(run[t].tok, run[t].exp) :
                /\ a.rep.kind = "ok" /\ a.rows # row
                /\ row' = a.rows
                /\ undelivered' = undelivered \cup {a.rep.tok.sid}
          /\ run' = [run EXCEPT ![t] = Answered(@, Plain("transient"))]
          /\ Failed
    /\ UNCHANGED <<jar, queue, store, api, login, out, inbox, orphan,
                   signedOut>>

\* The previous token's grace period ends.
WindowCloses(s) ==
    /\ row[s].window
    /\ row' = [row EXCEPT ![s].window = FALSE]
    /\ UNCHANGED <<jar, queue, store, run, api, login, out, inbox, orphan,
                   ghosts, budget>>

\* WriteRefreshCookie and ClearRefreshCookie, stored when the reply arrives
JarAfter(rep) ==
    CASE rep.kind = "ok" -> rep.tok
      [] rep.kind = "denied" -> None
      [] OTHER -> jar

\* A mutant: one delay too many.
RetriableOnceMore(r) == r.att <= RaceRetries

\* refreshRaceDelays has a delay for this attempt.
Retriable(r) == r.att < RaceRetries

\* The continuation of run(): every branch of the outcome.
RefreshReply(t) ==
    LET rep == run[t].rep
        old == store[t].sid
    IN  /\ run[t].ph = "reply"
        /\ jar' = JarAfter(rep)
        /\ \/ /\ ~run[t].cur
              /\ Settle(t, "transient_error", store[t])
              /\ UNCHANGED inbox
           \/ /\ run[t].cur /\ rep.kind = "ok"
              /\ Settle(t, "authenticated", Bundle(rep.tok.sid))
              /\ UNCHANGED inbox
           \/ /\ run[t].cur /\ rep.kind = "race" /\ Retriable(run[t])
              /\ run' = [run EXCEPT ![t].ph = "wait", ![t].rep = Plain("none")]
              /\ UNCHANGED <<store, queue, api, out, inbox>>
           \/ /\ run[t].cur /\ rep.kind = "race" /\ ~Retriable(run[t])
              /\ Settle(t, "out_of_sync", Reset("complete"))
              /\ UNCHANGED inbox
           \/ /\ run[t].cur /\ rep.kind = "mismatch" /\ run[t].mm
              /\ store' = [store EXCEPT ![t] = MismatchReset(t)]
              /\ run' = [run EXCEPT ![t] = [NoRun EXCEPT !.ph = "ready",
                                                         !.mm = FALSE]]
              /\ UNCHANGED <<queue, api, out, inbox>>
           \/ /\ run[t].cur /\ rep.kind = "denied"
              /\ Settle(t, "anonymous", Reset("complete"))
              /\ Publish(t, "signed_out", old)
           \/ /\ run[t].cur /\ rep.kind = "transient"
              /\ Settle(t, "transient_error",
                        [store[t] EXCEPT !.boot = "idle"])
              /\ UNCHANGED inbox
           \/ /\ run[t].cur
              /\ rep.kind = "other" \/ (rep.kind = "mismatch" /\ ~run[t].mm)
              /\ Settle(t, "out_of_sync", Reset("complete"))
              /\ UNCHANGED inbox
        /\ UNCHANGED <<row, login, orphan, ghosts, budget>>

\* The delay before a race is retried.
RaceDelay(t) ==
    /\ run[t].ph = "wait"
    /\ run' = [run EXCEPT ![t].ph = "ready", ![t].att = @ + 1]
    /\ UNCHANGED <<row, jar, queue, store, api, login, out, inbox, orphan,
                   ghosts, budget>>

\* The connection breaks before the request or after the answer: status 0.
LoseRefresh(t) ==
    /\ run[t].ph \in {"sent", "reply"}
    /\ run[t].rep.kind # "transient"
    /\ run' = [run EXCEPT ![t] = Answered(@, Plain("transient"))]
    /\ undelivered' = IF run[t].rep.kind = "ok"
                      THEN undelivered \cup {run[t].rep.tok.sid}
                      ELSE undelivered
    /\ UNCHANGED <<row, jar, queue, store, api, login, out, inbox, orphan,
                   signedOut>>
    /\ Failed

-----------------------------------------------------------------------------
(***************************************************************************)
(* Pages: loading, route guards, session events of other tabs.             *)
(***************************************************************************)

\* The tab loads a page anew: its memory, its requests and its place in the
\* lock's queue are gone, and a request already sent may still reach the
\* server.  beforeLoad of the root route then calls bootstrapAuthentication,
\* which skips the refresh when the hint cookie is missing.
PageLoad(t) ==
    /\ orphan' = IF run[t].ph = "sent" /\ run[t].tok # None /\ orphan = None
                 THEN [tok |-> run[t].tok, exp |-> run[t].exp] ELSE orphan
    /\ undelivered' = undelivered \cup
                    (IF run[t].ph = "sent" /\ run[t].tok # None
                     THEN {run[t].tok.sid}
                     ELSE IF run[t].rep.kind = "ok"
                     THEN {run[t].rep.tok.sid}
                     ELSE {})
    /\ api' = [api EXCEPT ![t] = NoApi]
    /\ out' = [out EXCEPT ![t] = NoOut]
    /\ login' = [login EXCEPT ![t] = NoLogin]
    /\ inbox' = [inbox EXCEPT ![t] = <<>>]
    /\ signedOut' = signedOut \ {t}
    /\ \E hint \in BOOLEAN :
          LET rest == Without(queue, t)
          IN  /\ store' = [store EXCEPT ![t] =
                              Reset(IF hint THEN "checking" ELSE "idle")]
              /\ run' = [run EXCEPT ![t] =
                            IF hint
                            THEN [NoRun EXCEPT !.ph =
                                    IF HasLocks THEN "queued" ELSE "ready"]
                            ELSE NoRun]
              /\ queue' = IF hint /\ HasLocks THEN Append(rest, t) ELSE rest
    /\ UNCHANGED <<row, jar>>

\* The user reloads, or http-client.ts has asked for the sign-in page, which
\* it does after a failed refresh or a failed retry unless that page is
\* already open; the page goes on until the navigation replaces it.
Reload(t) ==
    /\ PageLoad(t)
    /\ Started

\* The request of a page that is gone is processed; nobody reads the reply,
\* and its cookie is dropped with it.
ServerOrphan ==
    /\ orphan # None
    /\ \/ \E a \in Rotation(orphan.tok, orphan.exp) : row' = a.rows
       \/ UNCHANGED row
    /\ orphan' = None
    /\ UNCHANGED <<jar, queue, store, run, api, login, out, inbox, ghosts,
                   budget>>

\* resolveAuthentication, in the guards of protected routes and of sign-in:
\* a live bundle is enough, a finished anonymous check is believed, anything
\* else asks the server.
Resolve(t) ==
    /\ \/ /\ AccessToken(t) # None
          /\ store' = [store EXCEPT ![t].boot = "complete"]
          /\ UNCHANGED <<run, queue, signedOut>>
       \/ /\ AccessToken(t) = None
          /\ ~(store[t].boot = "complete" /\ store[t].sid = None)
          /\ store' = [store EXCEPT ![t].boot = "checking"]
          /\ StartRun(t)
    /\ UNCHANGED <<row, jar, api, login, out, inbox, orphan, undelivered>>
    /\ Started

\* accessExpiresAt passes.
TokenExpires(t) ==
    /\ store[t].fresh
    /\ store' = [store EXCEPT ![t].fresh = FALSE]
    /\ UNCHANGED <<row, jar, queue, run, api, login, out, inbox, orphan,
                   ghosts, budget>>

\* subscribeAuthSessionEvents in the root route.  An event older than a
\* minute is dropped.
Deliver(t) ==
    LET e == Head(inbox[t])
        acts == IF e.kind = "authenticated" THEN e.sid # store[t].sid
                ELSE e.sid = store[t].sid
    IN  /\ inbox[t] # <<>>
        /\ \/ /\ e.kind = "authenticated" /\ acts
              /\ PageLoad(t)
              /\ UNCHANGED budget
           \/ /\ e.kind = "signed_out" /\ acts
              /\ store' = [store EXCEPT ![t] = Reset("complete")]
              /\ run' = [run EXCEPT ![t] = Superseded(t)]
              /\ inbox' = [inbox EXCEPT ![t] = Tail(@)]
              /\ UNCHANGED <<row, jar, queue, api, login, out, orphan, ghosts,
                             budget>>
           \/ /\ inbox' = [inbox EXCEPT ![t] = Tail(@)]
              /\ IF acts THEN Failed ELSE UNCHANGED budget
              /\ UNCHANGED <<row, jar, queue, store, run, api, login, out,
                             orphan, ghosts>>

-----------------------------------------------------------------------------
(***************************************************************************)
(* Signing in and out, rotation of the current session, revocation.        *)
(***************************************************************************)

\* The sign-in form of a tab without a session, or the callback page of a
\* provider, which looks at no store; the server creates the row.
SignIn(t, s) ==
    /\ login[t].sid = None
    /\ row[s].status = "unused"
    /\ row' = [row EXCEPT ![s].status = "active"]
    /\ \E form \in BOOLEAN :
          /\ form => store[t].sid = None
          /\ login' = [login EXCEPT ![t] =
                          [sid |-> s, seen |-> store[t].sid, form |-> form]]
    /\ UNCHANGED <<jar, queue, store, run, api, out, inbox, orphan, ghosts>>
    /\ Started

\* The cookie is set whatever becomes of the bundle.  handleLoginSuccess
\* drops the bundle if the tab's session is not the one it was rendered
\* with.  The effect of a callback page runs again with each session of the
\* store and awaits the same exchange, and the WeChat page compares nothing:
\* their bundle is dropped only between a change of session and the next
\* rendering.  The session is new, so its event is always published.
SignInReply(t) ==
    LET l == login[t]
    IN  /\ l.sid # None
        /\ login' = [login EXCEPT ![t] = NoLogin]
        /\ jar' = [sid |-> l.sid, gen |-> 0]
        /\ \/ /\ ~l.form \/ store[t].sid = l.seen
              /\ store' = [store EXCEPT ![t] = Bundle(l.sid)]
              /\ run' = [run EXCEPT ![t] = Superseded(t)]
              /\ Publish(t, "authenticated", l.sid)
              /\ signedOut' = signedOut \ {t}
           \/ /\ store[t].sid # l.seen
              /\ UNCHANGED <<store, run, inbox, signedOut>>
        /\ UNCHANGED <<row, queue, api, out, orphan, undelivered, budget>>

\* AuthLogout with the tab's SID, its access token and the profile's cookie:
\* the row that is revoked and the reply.
LogoutAnswer(t) ==
    LET exp == store[t].sid
        acc == AccessToken(t)
        byCookie == /\ jar # None
                    /\ row[jar.sid].status = "active"
                    /\ \/ jar.gen = row[jar.sid].gen
                       \/ jar.gen + 1 = row[jar.sid].gen
                          /\ row[jar.sid].window
    IN  IF exp # None /\ jar # None /\ jar.sid # exp
        THEN [rows |-> row, rep |-> "mismatch", clear |-> FALSE]
        ELSE IF acc # None
        THEN [rows |-> [row EXCEPT ![acc].status =
                           IF @ = "active" THEN "revoked" ELSE @],
              rep |-> "ok", clear |-> jar # None]
        ELSE [rows |-> IF byCookie
                       THEN [row EXCEPT ![jar.sid].status = "revoked"]
                       ELSE row,
              rep |-> "ok", clear |-> TRUE]

SignOut(t) ==
    LET a == LogoutAnswer(t)
    IN  /\ \/ out[t].ph = "none" /\ store[t].sid # None /\ Started
           \/ out[t].ph = "again" /\ UNCHANGED budget
        /\ row' = a.rows
        /\ out' = [out EXCEPT ![t] =
                      [ph |-> "reply", rep |-> a.rep, clear |-> a.clear,
                       retry |-> out[t].ph = "none"]]
        /\ UNCHANGED <<jar, queue, store, run, api, login, inbox, orphan,
                       ghosts>>

\* executeLogout and handleSignOut: clear the tab and tell the others, or
\* recover the session of the cookie and try once more.
SignOutReply(t) ==
    /\ out[t].ph = "reply"
    /\ jar' = IF out[t].clear THEN None ELSE jar
    /\ \/ /\ out[t].rep = "ok"
          /\ out' = [out EXCEPT ![t] = NoOut]
          /\ store' = [store EXCEPT ![t] = Reset("complete")]
          /\ run' = [run EXCEPT ![t] = Superseded(t)]
          /\ Publish(t, "signed_out", store[t].sid)
          /\ signedOut' = signedOut \cup {t}
          /\ UNCHANGED queue
       \/ /\ out[t].rep = "mismatch" /\ out[t].retry
          /\ out' = [out EXCEPT ![t] = [NoOut EXCEPT !.ph = "recover"]]
          /\ StartRun(t)
          /\ UNCHANGED <<store, inbox>>
       \/ /\ out[t].rep = "mismatch" /\ ~out[t].retry
          /\ out' = [out EXCEPT ![t] = NoOut]
          /\ UNCHANGED <<store, run, queue, inbox, signedOut>>
    /\ UNCHANGED <<row, api, login, orphan, undelivered, budget>>

\* The logout reply is lost: an error toast, the tab keeps its session.
LoseSignOut(t) ==
    /\ out[t].ph = "reply"
    /\ out' = [out EXCEPT ![t] = NoOut]
    /\ UNCHANGED <<row, jar, queue, store, run, api, login, inbox, orphan,
                   ghosts>>
    /\ Failed

\* The tab holds an access token that the server accepts.
Authorized(t) == AccessToken(t) # None /\ row[store[t].sid].status = "active"

\* A password change: the other sessions of the user are revoked, and new
\* credentials for this one are on their way.
RotateCurrent(t) ==
    /\ api[t].ph = "none"
    /\ Authorized(t)
    /\ row' = [u \in Sids |->
                  IF u # store[t].sid /\ row[u].status = "active"
                  THEN [row[u] EXCEPT !.status = "revoked"] ELSE row[u]]
    /\ api' = [api EXCEPT ![t] = [ph |-> "rotating", tok |-> store[t].sid]]
    /\ UNCHANGED <<jar, queue, store, run, login, out, inbox, orphan, ghosts>>
    /\ Started

\* A mutant: any session may be in the store.
AcceptsAnyRotation(t) == TRUE

\* The checks of applyAuthRotation.
AcceptsRotation(t) == store[t].sid = api[t].tok

\* The interceptor applies the credentials to their own session, and throws
\* on any other.
RotateReply(t) ==
    /\ api[t].ph = "rotating"
    /\ api' = [api EXCEPT ![t] = NoApi]
    /\ \/ /\ AcceptsRotation(t)
          /\ store' = [store EXCEPT ![t] = Bundle(api[t].tok)]
          /\ run' = [run EXCEPT ![t] = Superseded(t)]
       \/ /\ ~AcceptsRotation(t)
          /\ UNCHANGED <<store, run>>
    /\ UNCHANGED <<row, jar, queue, login, out, inbox, orphan, ghosts, budget>>

\* DeleteLoginSession: the list of sessions ends one of them, this one or
\* another; the cookie goes if it belongs to that session.
DeleteSession(t, s) ==
    /\ api[t].ph = "none"
    /\ Authorized(t)
    /\ row[s].status = "active"
    /\ row' = [row EXCEPT ![s].status = "revoked"]
    /\ api' = [api EXCEPT ![t] =
                  [ph |-> IF jar # None /\ jar.sid = s THEN "ending"
                          ELSE "kept",
                   tok |-> s]]
    /\ UNCHANGED <<jar, queue, store, run, login, out, inbox, orphan, ghosts>>
    /\ Started

\* DeleteSelf: all sessions of the account end, and the cookie goes.
DeleteAccount(t) ==
    /\ api[t].ph = "none"
    /\ Authorized(t)
    /\ row' = [u \in Sids |->
                  IF row[u].status = "active"
                  THEN [row[u] EXCEPT !.status = "revoked"] ELSE row[u]]
    /\ api' = [api EXCEPT ![t] = [ph |-> "ending", tok |-> store[t].sid]]
    /\ UNCHANGED <<jar, queue, store, run, login, out, inbox, orphan, ghosts>>
    /\ Started

\* The tab is cleared if it was its own session that ended; the list of
\* sessions and the account dialog are dropped with a session that changes.
EndReply(t) ==
    /\ api[t].ph \in {"ending", "kept"}
    /\ api' = [api EXCEPT ![t] = NoApi]
    /\ jar' = IF api[t].ph = "ending" THEN None ELSE jar
    /\ \/ /\ store[t].sid = api[t].tok
          /\ store' = [store EXCEPT ![t] = Reset("complete")]
          /\ run' = [run EXCEPT ![t] = Superseded(t)]
          /\ Publish(t, "signed_out", api[t].tok)
          /\ signedOut' = signedOut \cup {t}
       \/ /\ store[t].sid # api[t].tok
          /\ UNCHANGED <<store, run, inbox, signedOut>>
    /\ UNCHANGED <<row, queue, login, out, orphan, undelivered, budget>>

\* The reply to one of these requests is lost.
LoseReply(t) ==
    /\ api[t].ph \in {"rotating", "ending", "kept"}
    /\ api' = [api EXCEPT ![t] = NoApi]
    /\ UNCHANGED <<row, jar, queue, store, run, login, out, inbox, orphan,
                   ghosts>>
    /\ Failed

\* Another device revokes the session.
RevokeElsewhere(s) ==
    /\ row[s].status = "active"
    /\ row' = [row EXCEPT ![s].status = "revoked"]
    /\ UNCHANGED <<jar, queue, store, run, api, login, out, inbox, orphan,
                   ghosts>>
    /\ Started

-----------------------------------------------------------------------------
(***************************************************************************)
(* http-client.ts: a request, its 401 and the single retry.                *)
(***************************************************************************)

ApiSend(t) ==
    /\ api[t].ph = "none"
    /\ api' = [api EXCEPT ![t] = [ph |-> "sent", tok |-> AccessToken(t)]]
    /\ UNCHANGED <<row, jar, queue, store, run, login, out, inbox, orphan,
                   ghosts>>
    /\ Started

\* A single-use proof refreshes a missing or expiring token first, and its
\* request is never repeated.
ApiSendOnce(t) ==
    /\ api[t].ph = "none"
    /\ \/ /\ AccessToken(t) # None
          /\ api' = [api EXCEPT ![t] = [ph |-> "once",
                                        tok |-> AccessToken(t)]]
          /\ UNCHANGED <<run, queue, signedOut>>
       \/ /\ api' = [api EXCEPT ![t] = [NoApi EXCEPT !.ph = "freshening"]]
          /\ StartRun(t)
    /\ UNCHANGED <<row, jar, store, login, out, inbox, orphan, undelivered>>
    /\ Started

ApiReply(t) ==
    LET authorized == /\ api[t].tok # None
                      /\ row[api[t].tok].status = "active"
        ended == api' = [api EXCEPT ![t] = NoApi]
    IN  /\ api[t].ph \in {"sent", "retried", "once"}
        /\ \/ /\ authorized \/ api[t].ph = "once"
              /\ ended
              /\ UNCHANGED <<store, run, queue, signedOut>>
           \/ /\ ~authorized /\ api[t].ph = "sent"
              /\ api' = [api EXCEPT ![t] =
                            [NoApi EXCEPT !.ph = "refreshing"]]
              /\ StartRun(t)
              /\ UNCHANGED store
           \/ /\ ~authorized /\ api[t].ph = "retried"
              /\ ended
              /\ store' = [store EXCEPT ![t] = Reset("complete")]
              /\ run' = [run EXCEPT ![t] = Superseded(t)]
              /\ UNCHANGED <<queue, signedOut>>
        /\ UNCHANGED <<row, jar, login, out, inbox, orphan, undelivered, budget>>

-----------------------------------------------------------------------------
Next ==
    \/ \E t \in Tabs :
          \/ Granted(t) \/ SendRefresh(t) \/ ServerRefresh(t)
          \/ RefreshReply(t) \/ RaceDelay(t) \/ LoseRefresh(t)
          \/ Reload(t) \/ Resolve(t) \/ TokenExpires(t) \/ Deliver(t)
          \/ \E s \in Sids : SignIn(t, s)
          \/ SignInReply(t) \/ SignOut(t) \/ SignOutReply(t)
          \/ LoseSignOut(t) \/ RotateCurrent(t) \/ RotateReply(t)
          \/ \E s \in Sids : DeleteSession(t, s)
          \/ DeleteAccount(t) \/ EndReply(t) \/ LoseReply(t)
          \/ ApiSend(t) \/ ApiSendOnce(t) \/ ApiReply(t)
    \/ \E s \in Sids : WindowCloses(s) \/ RevokeElsewhere(s)
    \/ ServerOrphan

Spec == Init /\ [][Next]_vars

\* A refresh that waits for the lock is granted it in turn, its request is
\* answered or its connection fails, and the event loop runs continuations
\* and timers.  Nothing is assumed of the user.
Fairness ==
    \A t \in Tabs :
        /\ WF_vars(Granted(t))
        /\ WF_vars(SendRefresh(t))
        /\ WF_vars(ServerRefresh(t))
        /\ WF_vars(RefreshReply(t))
        /\ WF_vars(RaceDelay(t))

FairSpec == Spec /\ Fairness

-----------------------------------------------------------------------------
\* The types of the rows, the cookie, the stores and what is on its way; a
\* refresh is never retried more often than refreshRaceDelays has entries.
TypeOK ==
    /\ row \in [Sids -> Row]
    /\ jar \in Token \cup {None}
    /\ queue \in Seq(Tabs)
    /\ store \in [Tabs -> Store]
    /\ run \in [Tabs -> Run]
    /\ api \in [Tabs -> Api]
    /\ login \in [Tabs -> Login]
    /\ out \in [Tabs -> Out]
    /\ inbox \in [Tabs -> Seq(Event)]
    /\ orphan \in [tok : Token, exp : Sids \cup {None}] \cup {None}
    /\ work \in 0..MaxWork
    /\ faults \in 0..MaxFaults
    /\ undelivered \subseteq Sids
    /\ signedOut \subseteq Tabs

\* A tab that has signed out stays without a session until it starts a new
\* refresh or signs in: a refresh that was on its way when the user signed
\* out never brings the session back (isCurrent in createRefreshRunner).
SignOutSticks == \A t \in signedOut : store[t].sid = None

\* The profile's cookie is the row's current token or its predecessor, the
\* only two that RotateUserSessionRefresh recognises: replies that overtake
\* each other never leave the browser with an older one.
JarAtMostOneBehind ==
    jar # None => (row[jar.sid].status = "active" =>
                      row[jar.sid].gen <= jar.gen + 1)

\* A session is revoked for reuse of its refresh token only if the server
\* had rotated to a token that the profile never got: the reply was cut off,
\* or RefreshAuth failed after the rotation.  Tabs that merely refresh at the
\* same time never make the server take them for a thief.
ReuseOnlyIfUndelivered ==
    \A s \in Sids : row[s].status = "reused" => s \in undelivered

\* The retry without X-Auth-Session is never answered by another mismatch,
\* so the second mismatch branch of createRefreshRunner clears nobody.
MismatchAnsweredOnce ==
    \A t \in Tabs : ~(/\ run[t].cur /\ ~run[t].mm
                       /\ run[t].rep.kind = "mismatch")

\* Only the reply of a sign-in that the tab itself began takes it straight
\* from one session to another.  No refresh and no rotation does, whatever
\* happened to the store, the cookie and the other tabs while it was on its
\* way (X-Auth-Session, isCurrent, the SID check of applyAuthRotation).
SwitchOnlyBySignIn ==
    [][\A t \in Tabs :
          store[t].sid # None /\ store'[t].sid \notin {None, store[t].sid} =>
              /\ login[t].sid = store'[t].sid
              /\ login'[t].sid = None]_vars

\* Every refresh settles, so nobody waits for the promise or for the Web
\* Lock for ever, whichever tabs are reloaded while they hold it.
RefreshEnds ==
    \A t \in Tabs : run[t].ph # "none" ~> run[t].ph = "none"
=============================================================================
