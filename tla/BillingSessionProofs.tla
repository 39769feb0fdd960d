------------------------ MODULE BillingSessionProofs ------------------------
(***************************************************************************)
(* Proofs about BillingSession, for any number of requests, any prices and *)
(* any number of failing store calls.                                      *)
(*                                                                         *)
(* The properties compare what was taken for a request with zero or with   *)
(* the price once the request is over.  The inductive invariant says, for  *)
(* every step of the way, how the fields of the session account for what   *)
(* was taken so far.                                                       *)
(***************************************************************************)
EXTENDS BillingSession, TLAPS

\* pre-consumption is under way and no quantity is booked yet
Opening == {"token", "fund", "undo", "undoShort"}

\* the funding source was topped up and the session does not know yet
ToppingUp == {"resToken", "resUndo"}

Over == {"post", "postToken", "end"}

TopUp(r) == IF req[r].pc \in ToppingUp THEN req[r].amt ELSE 0

\* The shape of the session at each program counter.
OpeningShape(r) ==
    /\ req[r].pc \in {"auth", "prepare", "wallet", "subscription"} =>
           sess[r].funding = "none"
    /\ req[r].pc \in Opening \cup ToppingUp \cup {"resFund"} =>
           req[r].amt > 0 /\ sess[r].funding # "none" /\ paid[r].due = -1
    /\ req[r].pc \in Opening =>
           /\ sess[r].preConsumedQuota = 0
           /\ sess[r].extraReserved = 0
           /\ sess[r].consumed = 0
           /\ paid[r].wallet = 0
           /\ sess[r].tokenConsumed = IF req[r].pc = "token" THEN 0
                                                             ELSE req[r].amt
    /\ req[r].pc \notin Opening =>
           sess[r].tokenConsumed = sess[r].preConsumedQuota
    /\ req[r].pc \in {"post", "postToken"} => req[r].amt > 0
    /\ sess[r].funding = "none" =>
           /\ sess[r].preConsumedQuota = 0
           /\ paid[r].due = -1

\* Served requests only settle, failed ones only refund.
ClosingShape(r) ==
    /\ paid[r].due >= -1
    /\ paid[r].due >= 0 => req[r].pc \in {"setFund", "setToken", "end"}
    /\ req[r].pc \in {"setFund", "setToken"} =>
           /\ paid[r].due >= 0
           /\ ~sess[r].settled
           /\ (sess[r].fundingSettled <=> req[r].pc = "setToken")
           /\ req[r].amt = paid[r].due - sess[r].preConsumedQuota
    /\ req[r].pc = "setToken" => r \notin Playground
    /\ sess[r].settled \/ sess[r].fundingSettled => paid[r].due >= 0
    /\ sess[r].settled /\ ~sess[r].fundingSettled =>
           paid[r].due = sess[r].preConsumedQuota
    /\ sess[r].settled => req[r].pc = "end"
    /\ (req[r].pc = "end" /\ paid[r].due >= 0 /\ r \notin faulted
            /\ ~sess[r].settled) =>
           /\ sess[r].funding = "subscription"
           /\ ~sess[r].fundingSettled
           /\ paid[r].due > sess[r].preConsumedQuota

RefundShape(r) ==
    /\ job[r].pc \in {"none", "funding", "record"} => job[r].attempts < 3
    /\ (sess[r].refunded <=> job[r].pc # "none")
    /\ job[r].pc # "none" =>
           /\ req[r].pc \in Over
           /\ paid[r].due = -1
           /\ sess[r].funding # "none"
    /\ job[r].pc \in {"record", "extra"} => sess[r].funding = "subscription"
    /\ (req[r].pc \in Over /\ paid[r].due = -1 /\ job[r].pc = "none") =>
           sess[r].preConsumedQuota = 0

\* What the wallet paid.  The image branch of Reserve overwrites consumed,
\* which therefore only bounds what an image took.
WalletBook(r) ==
    /\ sess[r].funding # "wallet" => paid[r].wallet = 0
    /\ sess[r].funding = "wallet" =>
         /\ ~sess[r].fundingSettled /\ job[r].pc \in {"none", "funding"} =>
              /\ paid[r].wallet >= sess[r].preConsumedQuota + TopUp(r)
              /\ paid[r].wallet >= sess[r].consumed
              /\ sess[r].consumed >= TopUp(r)
              /\ r \notin Image => paid[r].wallet = sess[r].consumed
              /\ r \notin faulted =>
                   paid[r].wallet = sess[r].preConsumedQuota + TopUp(r)
         /\ sess[r].fundingSettled =>
              /\ paid[r].wallet >= paid[r].due
              /\ r \notin faulted => paid[r].wallet = paid[r].due
         /\ job[r].pc \in {"token", "done"} =>
              /\ paid[r].wallet >= 0
              /\ r \notin Image \cup faulted => paid[r].wallet = 0

\* What the subscription paid, while no store call failed.
SubBook(r) ==
    /\ sess[r].funding # "subscription" /\ r \notin faulted =>
         paid[r].sub = 0
    /\ sess[r].funding = "subscription" =>
         /\ sess[r].preConsumedQuota = sess[r].consumed + sess[r].extraReserved
         /\ r \notin faulted =>
              /\ ~sess[r].fundingSettled /\ job[r].pc \in {"none", "funding"}
                   => paid[r].sub = sess[r].preConsumedQuota + TopUp(r)
              /\ sess[r].fundingSettled => paid[r].sub = paid[r].due
              /\ job[r].pc \in {"record", "extra"} =>
                   /\ paid[r].sub >= sess[r].extraReserved
                   /\ ~SQLite => paid[r].sub = sess[r].extraReserved
              /\ job[r].pc \in {"token", "done"} =>
                   /\ paid[r].sub >= 0
                   /\ ~SQLite => paid[r].sub = 0

\* What the token paid.
TokenBook(r) ==
    /\ r \in Playground => paid[r].token = 0
    /\ r \notin Playground =>
         /\ ~(sess[r].settled /\ sess[r].fundingSettled) /\ job[r].pc # "done"
              => /\ paid[r].token >= sess[r].tokenConsumed
                 /\ r \notin faulted => paid[r].token = sess[r].tokenConsumed
         /\ sess[r].settled /\ sess[r].fundingSettled =>
              /\ paid[r].token >= 0
              /\ r \notin faulted => paid[r].token = paid[r].due
         /\ job[r].pc = "done" =>
              /\ paid[r].token >= 0
              /\ r \notin faulted => paid[r].token = 0

Books(r) == /\ OpeningShape(r) /\ ClosingShape(r) /\ RefundShape(r)
            /\ WalletBook(r) /\ SubBook(r) /\ TokenBook(r)

IInv == TypeOK /\ NoOverdraft /\ \A r \in Request : Books(r)

-----------------------------------------------------------------------------
\* Before any request is authenticated nothing is held and nothing is owed.
LEMMA InitIInv == Init => IInv
<1> SUFFICES ASSUME Init PROVE IInv
  OBVIOUS
<1>1. TypeOK
  BY SetAssumption, NumberAssumption DEF Init, TypeOK, NoSession, NewSession,
     Session, Locals, RefundJob, Payment, RequestPC, Continuation
<1>2. NoOverdraft
  BY NumberAssumption DEF Init, NoOverdraft
<1>3. ASSUME NEW r \in Request PROVE Books(r)
  BY DEF Init, NoSession, NewSession, Books, OpeningShape, ClosingShape,
     RefundShape, WalletBook, SubBook, TokenBook, TopUp, Opening, ToppingUp,
     Over
<1> QED BY <1>1, <1>2, <1>3 DEF IInv

\* Books(x) only reads the entries of x.
LEMMA BooksFrame ==
    ASSUME NEW x \in Request, Books(x),
           req'[x] = req[x], sess'[x] = sess[x], job'[x] = job[x],
           paid'[x] = paid[x], (x \in faulted' <=> x \in faulted)
    PROVE  Books(x)'
  BY DEF Books, OpeningShape, ClosingShape, RefundShape, WalletBook, SubBook,
         TokenBook, TopUp

\* The types of what belongs to one request, and of what is shared.
Row(r) ==
    /\ req[r] \in Locals
    /\ sess[r] \in Session
    /\ job[r] \in RefundJob
    /\ paid[r] \in Payment

Balances ==
    /\ wallet \in Int
    /\ token \in Int
    /\ subUsed \in Nat
    /\ faults \in Nat
    /\ debt \in [wallet : Nat, token : Nat]

\* A step of request r changes nothing that belongs to another request.
Touches(r) ==
    /\ req' = [req EXCEPT ![r] = req'[r]]
    /\ sess' = [sess EXCEPT ![r] = sess'[r]]
    /\ job' = [job EXCEPT ![r] = job'[r]]
    /\ paid' = [paid EXCEPT ![r] = paid'[r]]
    /\ record' \in [Request -> {"none", "consumed", "refunded"}]
    /\ faulted' \in {faulted, faulted \cup {r}}

\* It is enough to look at the request that took the step.
LEMMA TouchIInv ==
    ASSUME IInv, NEW r \in Request, Touches(r), Row(r)', Balances',
           NoOverdraft', Books(r)'
    PROVE  IInv'
<1>1. TypeOK'
  BY DEF Touches, IInv, TypeOK, Row, Balances
<1>2. ASSUME NEW x \in Request, x # r PROVE Books(x)'
  <2>1. /\ req'[x] = req[x] /\ sess'[x] = sess[x] /\ job'[x] = job[x]
        /\ paid'[x] = paid[x] /\ (x \in faulted' <=> x \in faulted)
    BY <1>2 DEF Touches, IInv, TypeOK
  <2> QED BY <2>1, BooksFrame DEF IInv
<1> QED BY <1>1, <1>2 DEF IInv

\* NewBillingSession starts with one of the two funding sources.
LEMMA FirstSourceType ==
    ASSUME NEW r \in Request PROVE FirstSource(r) \in {"wallet", "subscription"}
  BY SetAssumption DEF FirstSource, Preferences

\* The types of the numbers that Books(r) relates.
Fields(r) ==
    /\ req[r].amt \in Int /\ req[r].quota \in Nat /\ req[r].retry \in Nat
    /\ req[r].next \in Continuation
    /\ sess[r].funding \in {"none", "wallet", "subscription"}
    /\ sess[r].preConsumedQuota \in Nat /\ sess[r].tokenConsumed \in Nat
    /\ sess[r].extraReserved \in Nat /\ sess[r].consumed \in Nat
    /\ paid[r].wallet \in Int /\ paid[r].sub \in Int
    /\ paid[r].token \in Int /\ paid[r].due \in Int

\* What IInv says about one request, its types spelled out.
LEMMA RowFields ==
    ASSUME IInv, NEW r \in Request PROVE Row(r) /\ Fields(r) /\ Books(r)
  BY DEF IInv, TypeOK, Row, Fields, Locals, Session, Payment

\* A request whose outcome is open is neither settled nor refunded.
Running(r) ==
    /\ paid[r].due = -1 /\ job[r].pc = "none"
    /\ ~sess[r].settled /\ ~sess[r].fundingSettled /\ ~sess[r].refunded

\* Before Settle and Refund no flag of the session is set.
LEMMA RunningRow ==
    ASSUME IInv, NEW r \in Request,
           req[r].pc \notin Over \cup {"setFund", "setToken"}
    PROVE  Running(r)
  BY RowFields DEF Running, Fields, Books, ClosingShape, RefundShape, Over

\* What a step leaves in the fields that Books(r)' reads.
ReqTo(r, pc, amt) == req'[r].pc = pc /\ req'[r].amt = amt

SessTo(r, preConsumedQuota, tokenConsumed, extraReserved, consumed) ==
    /\ sess'[r].preConsumedQuota = preConsumedQuota
    /\ sess'[r].tokenConsumed = tokenConsumed
    /\ sess'[r].extraReserved = extraReserved
    /\ sess'[r].consumed = consumed

KeepFlags(r) ==
    /\ sess'[r].funding = sess[r].funding
    /\ (sess'[r].fundingSettled <=> sess[r].fundingSettled)
    /\ (sess'[r].settled <=> sess[r].settled)
    /\ (sess'[r].refunded <=> sess[r].refunded)

Fresh(r, source) ==
    /\ sess'[r].funding = source
    /\ ~sess'[r].fundingSettled /\ ~sess'[r].settled /\ ~sess'[r].refunded
    /\ SessTo(r, 0, 0, 0, 0)

FundingDone(r) ==
    /\ sess'[r].funding = sess[r].funding
    /\ sess'[r].fundingSettled
    /\ (sess'[r].settled <=> r \in Playground)
    /\ (sess'[r].refunded <=> sess[r].refunded)

TokenDone(r) ==
    /\ sess'[r].funding = sess[r].funding
    /\ (sess'[r].fundingSettled <=> sess[r].fundingSettled)
    /\ sess'[r].settled
    /\ (sess'[r].refunded <=> sess[r].refunded)
    /\ SessTo(r, sess[r].preConsumedQuota, sess[r].tokenConsumed,
                 sess[r].extraReserved, sess[r].consumed)

\* A membership test is a truth value.
LEMMA BooleanSettled ==
    ASSUME NEW r PROVE (r \in Playground) \in BOOLEAN
  OBVIOUS

PaidTo(r, w, s, t, d) ==
    /\ paid'[r].wallet = w /\ paid'[r].sub = s
    /\ paid'[r].token = t /\ paid'[r].due = d

\* A new session is a session, trusted or not.
LEMMA NewSessionType ==
    /\ NoSession \in Session
    /\ \A t \in BOOLEAN : [NewSession("wallet") EXCEPT !.trusted = t] \in Session
  BY DEF NoSession, NewSession, Session

\* shouldTrust is a truth value.
LEMMA TrustType == ASSUME NEW r PROVE shouldTrust(r) \in BOOLEAN
  BY DEF shouldTrust

\* PreConsumeBilling keeps the amount and moves to a funding source.
LEMMA BeginSessionRow ==
    ASSUME IInv, NEW r \in Request, NEW k \in Quota, NEW h \in Continuation,
           BeginSession(r, k, h)
    PROVE  /\ req'[r] \in Locals
           /\ req'[r].pc \in {"wallet", "subscription"}
           /\ req'[r].amt = req[r].amt
<1> DEFINE f == FirstSource(r)
<1>1. f \in {"wallet", "subscription"} /\ k \in Nat /\ Row(r)
  BY FirstSourceType, SetAssumption, RowFields
<1>2. req'[r] = [req[r] EXCEPT !.pc = f, !.quota = k, !.next = h]
  BY DEF BeginSession, IInv, TypeOK
<1> HIDE DEF f
<1> QED BY <1>1, <1>2 DEF Row, Locals, RequestPC

\* Reserve does nothing or asks for a positive top-up.
LEMMA ReserveRow ==
    ASSUME IInv, NEW r \in Request, NEW t \in Quota, NEW h \in Continuation,
           Reserve(r, t, h)
    PROVE  /\ req'[r] \in Locals
           /\ \/ req'[r].pc = h /\ req'[r].amt = req[r].amt
              \/ /\ req'[r].pc = "resFund"
                 /\ req'[r].amt \in Nat /\ req'[r].amt > 0
<1> DEFINE n == t - sess[r].preConsumedQuota
<1>1. n \in Int /\ Row(r)
  BY RowFields, SetAssumption DEF Fields
<1>2. \/ req'[r] = [req[r] EXCEPT !.pc = h]
      \/ n > 0 /\ req'[r] = [req[r] EXCEPT !.pc = "resFund", !.amt = n, !.next = h]
  <2>1. \/ req' = [req EXCEPT ![r].pc = h]
        \/ n > 0 /\ req' = [req EXCEPT ![r].pc = "resFund", ![r].amt = n,
                                      ![r].next = h]
    BY <1>1 DEF Reserve, Goto
  <2> HIDE DEF n
  <2> QED BY <2>1 DEF IInv, TypeOK
<1> HIDE DEF n
<1>3. CASE req'[r] = [req[r] EXCEPT !.pc = h]
  BY <1>1, <1>3 DEF Row, Locals, RequestPC, Continuation
<1>4. CASE n > 0 /\ req'[r] = [req[r] EXCEPT !.pc = "resFund", !.amt = n, !.next = h]
  <2>1. req'[r] \in Locals
    BY <1>1, <1>4 DEF Row, Locals, RequestPC
  <2>2. req'[r].pc = "resFund" /\ req'[r].amt = n
    BY <1>1, <1>4 DEF Row, Locals
  <2> QED BY <1>1, <1>4, <2>1, <2>2
<1> QED BY <1>2, <1>3, <1>4

\* TokenAuth: only the program counter and the token quota read change.
LEMMA TokenAuthIInv ==
    ASSUME IInv, NEW r \in Request, TokenAuth(r) PROVE IInv'
<1> DEFINE q == req[r]  s == sess[r]  j == job[r]  p == paid[r]
<1>1. Row(r) /\ Fields(r) /\ Books(r)
  BY RowFields
<1>2. /\ q.pc = "auth"
      /\ Running(r)
  BY <1>1, RunningRow
    DEF TokenAuth, Fields, Books, OpeningShape, ClosingShape, RefundShape, Over
<1>3. Touches(r) /\ (r \in faulted => r \in faulted') /\ job'[r] = j
  BY DEF TokenAuth, NoMove, NoStoreCall, Goto, Touches, IInv, TypeOK
<1>4. ASSUME Goto(r, "prepare")
      PROVE  Row(r)' /\ Books(r)'
  <2>1. /\ req'[r] \in Locals
        /\ ReqTo(r, "prepare", q.amt)
    BY <1>1, <1>2, <1>4
      DEF Fields, ReqTo, Row, Locals, RequestPC, Continuation, Goto, IInv,
         TypeOK
  <2>2. sess'[r] = s
    BY <1>4 DEF TokenAuth, NoMove, NoStoreCall, Goto
  <2>3. paid'[r] = p
    BY <1>4 DEF TokenAuth, NoMove
  <2>4. Books(r)'
    BY <1>1, <1>2, <1>3, <2>1, <2>2, <2>3
      DEF Running, Fields, ReqTo, Books, OpeningShape, ClosingShape,
         RefundShape, WalletBook, SubBook, TokenBook, TopUp, Opening,
         ToppingUp, Over, Continuation
  <2> QED BY <1>1, <1>3, <2>1, <2>2, <2>3, <2>4 DEF Row
<1>5. ASSUME NEW e \in {"prepare", "end"},
               req' = [req EXCEPT ![r].tokenQuota = token, ![r].pc = e]
      PROVE  Row(r)' /\ Books(r)'
  <2>1. /\ req'[r] \in Locals
        /\ req'[r].pc \in {"prepare", "end"} /\ req'[r].amt = q.amt
    BY <1>1, <1>2, <1>5
      DEF Fields, ReqTo, Row, Locals, RequestPC, Continuation, IInv, TypeOK
  <2>2. sess'[r] = s
    BY <1>5 DEF TokenAuth, NoMove, NoStoreCall
  <2>3. paid'[r] = p
    BY <1>5 DEF TokenAuth, NoMove
  <2>4. Books(r)'
    BY <1>1, <1>2, <1>3, <2>1, <2>2, <2>3
      DEF Running, Fields, Books, OpeningShape, ClosingShape, RefundShape,
         WalletBook, SubBook, TokenBook, TopUp, Opening, ToppingUp, Over,
         Continuation
  <2> QED BY <1>1, <1>3, <2>1, <2>2, <2>3, <2>4 DEF Row
<1>6. Row(r)' /\ Books(r)'
  BY <1>1, <1>2, <1>4, <1>5 DEF TokenAuth
<1>7. Balances'
  BY <1>1, <1>2, NumberAssumption, FlagAssumption
    DEF TokenAuth, NoMove, NoStoreCall, Balances, Fields, IInv, TypeOK
<1>8. NoOverdraft'
  BY <1>1, <1>2, NumberAssumption, FlagAssumption
    DEF TokenAuth, NoMove, NoStoreCall, NoOverdraft, Fields, IInv, TypeOK
<1> QED BY <1>3, <1>6, <1>7, <1>8, TouchIInv

\* PrepareRequestBilling: no quantity moves.
LEMMA PrepareRequestBillingIInv ==
    ASSUME IInv, NEW r \in Request, PrepareRequestBilling(r) PROVE IInv'
<1> DEFINE q == req[r]  s == sess[r]  j == job[r]  p == paid[r]
<1>1. Row(r) /\ Fields(r) /\ Books(r)
  BY RowFields
<1>2. /\ q.pc = "prepare"
      /\ Running(r)
  BY <1>1, RunningRow
    DEF PrepareRequestBilling, Fields, Books, OpeningShape, ClosingShape,
       RefundShape, Over
<1>3. Touches(r) /\ (r \in faulted => r \in faulted') /\ job'[r] = j
  BY DEF PrepareRequestBilling, NoMove, NoStoreCall, Goto, BeginSession,
     Touches, IInv, TypeOK
<1>4. ASSUME Goto(r, "tiered")
      PROVE  Row(r)' /\ Books(r)'
  <2>1. /\ req'[r] \in Locals
        /\ ReqTo(r, "tiered", q.amt)
    BY <1>1, <1>2, <1>4
      DEF Fields, ReqTo, Row, Locals, RequestPC, Continuation, Goto, IInv,
         TypeOK
  <2>2. sess'[r] = s
    BY <1>4 DEF PrepareRequestBilling, NoMove, NoStoreCall, Goto
  <2>3. paid'[r] = p
    BY <1>4 DEF PrepareRequestBilling, NoMove
  <2>4. Books(r)'
    BY <1>1, <1>2, <1>3, <2>1, <2>2, <2>3
      DEF Running, Fields, ReqTo, Books, OpeningShape, ClosingShape,
         RefundShape, WalletBook, SubBook, TokenBook, TopUp, Opening,
         ToppingUp, Over, Continuation
  <2> QED BY <1>1, <1>3, <2>1, <2>2, <2>3, <2>4 DEF Row
<1>5. ASSUME \E k \in Quota : BeginSession(r, k, "tiered")
      PROVE  Row(r)' /\ Books(r)'
  <2>1. /\ req'[r] \in Locals
        /\ req'[r].pc \in {"wallet", "subscription"} /\ req'[r].amt = q.amt
    BY <1>5, BeginSessionRow DEF Continuation, ReqTo
  <2>2. sess'[r] = s
    BY <1>5 DEF PrepareRequestBilling, NoMove, NoStoreCall, BeginSession
  <2>3. paid'[r] = p
    BY <1>5 DEF PrepareRequestBilling, NoMove
  <2>4. Books(r)'
    BY <1>1, <1>2, <1>3, <2>1, <2>2, <2>3
      DEF Running, Fields, Books, OpeningShape, ClosingShape, RefundShape,
         WalletBook, SubBook, TokenBook, TopUp, Opening, ToppingUp, Over,
         Continuation
  <2> QED BY <1>1, <1>3, <2>1, <2>2, <2>3, <2>4 DEF Row
<1>6. Row(r)' /\ Books(r)'
  BY <1>1, <1>2, <1>4, <1>5 DEF PrepareRequestBilling
<1>7. Balances'
  BY <1>1, <1>2, NumberAssumption, FlagAssumption
    DEF PrepareRequestBilling, NoMove, NoStoreCall, Balances, Fields, IInv,
       TypeOK
<1>8. NoOverdraft'
  BY <1>1, <1>2, NumberAssumption, FlagAssumption
    DEF PrepareRequestBilling, NoMove, NoStoreCall, NoOverdraft, Fields, IInv,
       TypeOK
<1> QED BY <1>3, <1>6, <1>7, <1>8, TouchIInv

\* tryWallet: a fresh wallet session, or none.
LEMMA tryWalletIInv ==
    ASSUME IInv, NEW r \in Request, tryWallet(r) PROVE IInv'
<1> DEFINE q == req[r]  s == sess[r]  j == job[r]  p == paid[r]
<1>1. Row(r) /\ Fields(r) /\ Books(r)
  BY RowFields
<1>2. /\ q.pc = "wallet"
      /\ Running(r)
  BY <1>1, RunningRow
    DEF tryWallet, Fields, Books, OpeningShape, ClosingShape, RefundShape, Over
<1>3. Touches(r) /\ (r \in faulted => r \in faulted') /\ job'[r] = j
  BY DEF tryWallet, NoMove, StoreCall, Reject, Goto, Fallback, Touches, IInv,
     TypeOK
<1>4. ASSUME Reject(r)
      PROVE  Row(r)' /\ Books(r)'
  <2>1. /\ req'[r] \in Locals
        /\ req'[r].pc \in {"subscription", "wallet", "end"} /\ req'[r].amt = q.amt
    BY <1>1, <1>2, <1>4
      DEF Fields, ReqTo, Row, Locals, RequestPC, Continuation, Reject, Goto,
         IInv, TypeOK
  <2>2. sess'[r] \in Session /\ Fresh(r, "none")
    BY <1>2, <1>4, NewSessionType
      DEF SessTo, Fresh, IInv, TypeOK, NoSession, NewSession, Session, Reject
  <2>3. paid'[r] = p
    BY <1>4 DEF tryWallet, NoMove
  <2>4. Books(r)'
    BY <1>1, <1>2, <1>3, <2>1, <2>2, <2>3
      DEF Running, Fields, SessTo, Fresh, Books, OpeningShape, ClosingShape,
         RefundShape, WalletBook, SubBook, TokenBook, TopUp, Opening,
         ToppingUp, Over, Continuation
  <2> QED BY <1>1, <1>3, <2>1, <2>2, <2>3, <2>4 DEF Row
<1>5. ASSUME Fallback(r, "wallet")
      PROVE  Row(r)' /\ Books(r)'
  <2>1. /\ req'[r] \in Locals
        /\ req'[r].pc \in {"subscription", "wallet", "end"} /\ req'[r].amt = q.amt
    BY <1>1, <1>2, <1>5
      DEF Fields, ReqTo, Row, Locals, RequestPC, Continuation, Fallback, Goto,
         IInv, TypeOK
  <2>2. sess'[r] \in Session /\ Fresh(r, "none")
    BY <1>2, <1>5, NewSessionType
      DEF SessTo, Fresh, IInv, TypeOK, NoSession, NewSession, Session, Fallback
  <2>3. paid'[r] = p
    BY <1>5 DEF tryWallet, NoMove
  <2>4. Books(r)'
    BY <1>1, <1>2, <1>3, <2>1, <2>2, <2>3
      DEF Running, Fields, SessTo, Fresh, Books, OpeningShape, ClosingShape,
         RefundShape, WalletBook, SubBook, TokenBook, TopUp, Opening,
         ToppingUp, Over, Continuation
  <2> QED BY <1>1, <1>3, <2>1, <2>2, <2>3, <2>4 DEF Row
<1>6. ASSUME /\ sess' = [sess EXCEPT ![r] = [NewSession("wallet")
                                EXCEPT !.trusted = shouldTrust(r)]]
             /\ req' = [req EXCEPT ![r].amt = q.quota,
                             ![r].pc = IF shouldTrust(r) \/ q.quota = 0
                                       THEN q.next ELSE "token"]
      PROVE  Row(r)' /\ Books(r)'
  <2>1. /\ req'[r] \in Locals
        /\ req'[r].amt = q.quota
        /\ req'[r].pc = q.next \/ (req'[r].pc = "token" /\ q.quota > 0)
    BY <1>1, <1>2, <1>6
      DEF Fields, ReqTo, Row, Locals, RequestPC, Continuation, IInv, TypeOK
  <2>2. sess'[r] \in Session /\ Fresh(r, "wallet")
    BY <1>2, <1>6, NewSessionType, TrustType
      DEF SessTo, Fresh, IInv, TypeOK, NoSession, NewSession, Session
  <2>3. paid'[r] = p
    BY <1>6 DEF tryWallet, NoMove
  <2>4. Books(r)'
    <3> USE <1>1, <1>2, <1>3, <2>1, <2>2, <2>3
        DEF Running, Fields, SessTo, Fresh
    <3>1. OpeningShape(r)'
      BY DEF Books, OpeningShape, Opening, ToppingUp, Continuation,
         WalletBook
    <3>2. ClosingShape(r)'
      BY DEF Books, OpeningShape, ClosingShape, Continuation, Opening,
         ToppingUp
    <3>3. RefundShape(r)'
      BY DEF Books, OpeningShape, RefundShape, Over, Continuation, Opening,
         ToppingUp
    <3>4. WalletBook(r)'
      BY DEF Books, OpeningShape, WalletBook, TopUp, ToppingUp, Continuation,
         Opening
    <3>5. SubBook(r)'
      BY DEF Books, OpeningShape, SubBook, TopUp, ToppingUp, Continuation,
         Opening
    <3>6. TokenBook(r)'
      BY DEF Books, OpeningShape, TokenBook, Continuation, Opening, ToppingUp
    <3> QED BY <3>1, <3>2, <3>3, <3>4, <3>5, <3>6 DEF Books
  <2> QED BY <1>1, <1>3, <2>1, <2>2, <2>3, <2>4 DEF Row
<1>7. Row(r)' /\ Books(r)'
  BY <1>1, <1>2, <1>4, <1>5, <1>6 DEF tryWallet, StoreCall
<1>8. Balances'
  BY <1>1, <1>2, NumberAssumption, FlagAssumption
    DEF tryWallet, NoMove, StoreCall, Balances, Fields, IInv, TypeOK
<1>9. NoOverdraft'
  BY <1>1, <1>2, NumberAssumption, FlagAssumption
    DEF tryWallet, NoMove, StoreCall, NoOverdraft, Fields, IInv, TypeOK
<1> QED BY <1>3, <1>7, <1>8, <1>9, TouchIInv

\* trySubscription: a fresh subscription session with a positive amount.
LEMMA trySubscriptionIInv ==
    ASSUME IInv, NEW r \in Request, trySubscription(r) PROVE IInv'
<1> DEFINE q == req[r]  s == sess[r]  j == job[r]  p == paid[r]
<1>1. Row(r) /\ Fields(r) /\ Books(r)
  BY RowFields
<1>2. /\ q.pc = "subscription"
      /\ Running(r)
  BY <1>1, RunningRow
    DEF trySubscription, Fields, Books, OpeningShape, ClosingShape,
       RefundShape, Over
<1>3. Touches(r) /\ (r \in faulted => r \in faulted') /\ job'[r] = j
  BY DEF trySubscription, NoMove, StoreCall, NoStoreCall, Reject, Goto,
     Touches, IInv, TypeOK
<1>4. ASSUME Reject(r)
      PROVE  Row(r)' /\ Books(r)'
  <2>1. /\ req'[r] \in Locals
        /\ req'[r].pc \in {"subscription", "wallet", "end"} /\ req'[r].amt = q.amt
    BY <1>1, <1>2, <1>4
      DEF Fields, ReqTo, Row, Locals, RequestPC, Continuation, Reject, Goto,
         IInv, TypeOK
  <2>2. sess'[r] \in Session /\ Fresh(r, "none")
    BY <1>2, <1>4, NewSessionType
      DEF SessTo, Fresh, IInv, TypeOK, NoSession, NewSession, Session, Reject
  <2>3. paid'[r] = p
    BY <1>4 DEF trySubscription, NoMove
  <2>4. Books(r)'
    BY <1>1, <1>2, <1>3, <2>1, <2>2, <2>3
      DEF Running, Fields, SessTo, Fresh, Books, OpeningShape, ClosingShape,
         RefundShape, WalletBook, SubBook, TokenBook, TopUp, Opening,
         ToppingUp, Over, Continuation
  <2> QED BY <1>1, <1>3, <2>1, <2>2, <2>3, <2>4 DEF Row
<1>5. ASSUME NEW n \in Nat, n > 0,
               sess' = [sess EXCEPT ![r] = NewSession("subscription")],
               req' = [req EXCEPT ![r].pc = "token", ![r].amt = n]
      PROVE  Row(r)' /\ Books(r)'
  <2>1. /\ req'[r] \in Locals
        /\ req'[r].pc = "token" /\ req'[r].amt > 0 /\ req'[r].amt \in Nat
    <3>1. req'[r] = [q EXCEPT !.pc = "token", !.amt = n]
      BY <1>5 DEF IInv, TypeOK
    <3>2. n \in Int
      OBVIOUS
    <3>3. req'[r] \in Locals
      BY <1>1, <3>1, <3>2 DEF Row, Locals, RequestPC
    <3> QED BY <1>1, <1>5, <3>1, <3>3 DEF Row, Locals
  <2>2. sess'[r] \in Session /\ Fresh(r, "subscription")
    BY <1>2, <1>5, NewSessionType
      DEF SessTo, Fresh, IInv, TypeOK, NoSession, NewSession, Session
  <2>3. paid'[r] = p
    BY <1>5 DEF trySubscription, NoMove
  <2>4. Books(r)'
    BY <1>1, <1>2, <1>3, <2>1, <2>2, <2>3
      DEF Running, Fields, SessTo, Fresh, Books, OpeningShape, ClosingShape,
         RefundShape, WalletBook, SubBook, TokenBook, TopUp, Opening,
         ToppingUp, Over, Continuation
  <2> QED BY <1>1, <1>3, <2>1, <2>2, <2>3, <2>4 DEF Row
<1>6. Row(r)' /\ Books(r)'
  <2> DEFINE n == IF q.quota > 0 THEN q.quota ELSE 1
  <2>1. n \in Nat /\ n > 0
    BY <1>1 DEF Fields
  <2>2. \/ Reject(r)
        \/ /\ sess' = [sess EXCEPT ![r] = NewSession("subscription")]
           /\ req' = [req EXCEPT ![r].pc = "token", ![r].amt = n]
    BY DEF trySubscription
  <2> HIDE DEF n
  <2> QED BY <2>1, <2>2, <1>4, <1>5
<1>7. Balances'
  BY <1>1, <1>2, NumberAssumption, FlagAssumption
    DEF trySubscription, NoMove, StoreCall, NoStoreCall, Balances, Fields,
       IInv, TypeOK
<1>8. NoOverdraft'
  BY <1>1, <1>2, NumberAssumption, FlagAssumption
    DEF trySubscription, NoMove, StoreCall, NoStoreCall, NoOverdraft, Fields,
       IInv, TypeOK
<1> QED BY <1>3, <1>6, <1>7, <1>8, TouchIInv

\* preConsume, first half: what the token paid is in tokenConsumed.
LEMMA PreConsumeTokenIInv ==
    ASSUME IInv, NEW r \in Request, PreConsumeToken(r) PROVE IInv'
<1> DEFINE q == req[r]  s == sess[r]  j == job[r]  p == paid[r]
<1>1. Row(r) /\ Fields(r) /\ Books(r)
  BY RowFields
<1>2. /\ q.pc = "token"
      /\ Running(r)
      /\ q.amt \in Nat /\ q.amt > 0 /\ s.funding # "none"
      /\ s.preConsumedQuota = 0 /\ s.extraReserved = 0 /\ s.consumed = 0
      /\ s.tokenConsumed = 0
  BY <1>1, RunningRow
    DEF PreConsumeToken, Fields, Books, OpeningShape, ClosingShape,
       RefundShape, Opening, ToppingUp, Over
<1>3. Touches(r) /\ (r \in faulted => r \in faulted') /\ job'[r] = j
  BY DEF PreConsumeToken, StoreCall, NoStoreCall, NoMove, MoveToken, Goto,
     Reject, Touches, IInv, TypeOK
<1>4. ASSUME /\ sess' = [sess EXCEPT ![r].tokenConsumed = q.amt]
             /\ Goto(r, "fund")
             /\ r \in Playground /\ NoMove
      PROVE  Row(r)' /\ Books(r)'
  <2>1. /\ req'[r] \in Locals
        /\ ReqTo(r, "fund", q.amt)
    BY <1>1, <1>2, <1>4
      DEF Fields, ReqTo, Row, Locals, RequestPC, Continuation, Goto, IInv,
         TypeOK
  <2>2. /\ sess'[r] \in Session
        /\ KeepFlags(r) /\ SessTo(r, 0, q.amt, 0, 0)
    BY <1>1, <1>2, <1>4
      DEF SessTo, KeepFlags, Fields, Row, Session, IInv, TypeOK
  <2>3. paid'[r] = p /\ r \in Playground
    BY <1>4 DEF NoMove
  <2>4. Books(r)'
    BY <1>1, <1>2, <1>3, <2>1, <2>2, <2>3
      DEF Running, Fields, ReqTo, SessTo, KeepFlags, Books, OpeningShape,
         ClosingShape, RefundShape, WalletBook, SubBook, TokenBook, TopUp,
         Opening, ToppingUp, Over, Continuation
  <2> QED BY <1>1, <1>3, <2>1, <2>2, <2>3, <2>4 DEF Row
<1>5. ASSUME /\ sess' = [sess EXCEPT ![r].tokenConsumed = q.amt]
             /\ Goto(r, "fund")
             /\ r \notin Playground /\ MoveToken(r, q.amt)
      PROVE  Row(r)' /\ Books(r)'
  <2>1. /\ req'[r] \in Locals
        /\ ReqTo(r, "fund", q.amt)
    BY <1>1, <1>2, <1>5
      DEF Fields, ReqTo, Row, Locals, RequestPC, Continuation, Goto, IInv,
         TypeOK
  <2>2. /\ sess'[r] \in Session
        /\ KeepFlags(r) /\ SessTo(r, 0, q.amt, 0, 0)
    BY <1>1, <1>2, <1>5
      DEF SessTo, KeepFlags, Fields, Row, Session, IInv, TypeOK
  <2>3. /\ paid'[r] \in Payment
        /\ PaidTo(r, p.wallet, p.sub, p.token + q.amt, p.due)
        /\ r \notin Playground
    BY <1>1, <1>2, <1>5
      DEF PaidTo, Fields, Row, Payment, IInv, TypeOK, MoveToken
  <2>4. Books(r)'
    BY <1>1, <1>2, <1>3, <2>1, <2>2, <2>3
      DEF Running, Fields, ReqTo, SessTo, KeepFlags, PaidTo, Books,
         OpeningShape, ClosingShape, RefundShape, WalletBook, SubBook,
         TokenBook, TopUp, Opening, ToppingUp, Over, Continuation
  <2> QED BY <1>1, <1>3, <2>1, <2>2, <2>3, <2>4 DEF Row
<1>6. ASSUME Reject(r) /\ NoMove
      PROVE  Row(r)' /\ Books(r)'
  <2>1. /\ req'[r] \in Locals
        /\ req'[r].pc \in {"subscription", "wallet", "end"} /\ req'[r].amt = q.amt
    BY <1>1, <1>2, <1>6
      DEF Fields, ReqTo, Row, Locals, RequestPC, Continuation, Reject, Goto,
         IInv, TypeOK
  <2>2. sess'[r] \in Session /\ Fresh(r, "none")
    BY <1>2, <1>6, NewSessionType
      DEF SessTo, Fresh, IInv, TypeOK, NoSession, NewSession, Session, Reject
  <2>3. paid'[r] = p
    BY <1>6 DEF NoMove
  <2>4. Books(r)'
    BY <1>1, <1>2, <1>3, <2>1, <2>2, <2>3
      DEF Running, Fields, SessTo, Fresh, Books, OpeningShape, ClosingShape,
         RefundShape, WalletBook, SubBook, TokenBook, TopUp, Opening,
         ToppingUp, Over, Continuation
  <2> QED BY <1>1, <1>3, <2>1, <2>2, <2>3, <2>4 DEF Row
<1>7. Row(r)' /\ Books(r)'
  BY <1>1, <1>2, <1>4, <1>5, <1>6 DEF PreConsumeToken, StoreCall
<1>8. Balances'
  BY <1>1, <1>2, NumberAssumption, FlagAssumption
    DEF PreConsumeToken, StoreCall, NoStoreCall, NoMove, MoveToken, TokenHas,
       Owe, Balances, Fields, IInv, TypeOK
<1>9. NoOverdraft'
  BY <1>1, <1>2, NumberAssumption, FlagAssumption
    DEF PreConsumeToken, StoreCall, NoStoreCall, NoMove, MoveToken, TokenHas,
       Owe, NoOverdraft, Fields, IInv, TypeOK
<1> QED BY <1>3, <1>7, <1>8, <1>9, TouchIInv

\* preConsume, second half: the funding source paid the same amount.
LEMMA PreConsumeFundingIInv ==
    ASSUME IInv, NEW r \in Request, PreConsumeFunding(r) PROVE IInv'
<1> DEFINE q == req[r]  s == sess[r]  j == job[r]  p == paid[r]
<1>1. Row(r) /\ Fields(r) /\ Books(r)
  BY RowFields
<1>2. /\ q.pc = "fund"
      /\ Running(r)
      /\ q.amt \in Nat /\ q.amt > 0 /\ s.funding # "none"
      /\ s.preConsumedQuota = 0 /\ s.extraReserved = 0 /\ s.consumed = 0
      /\ s.tokenConsumed = q.amt
  BY <1>1, RunningRow
    DEF PreConsumeFunding, Fields, Books, OpeningShape, ClosingShape,
       RefundShape, Opening, ToppingUp, Over
<1>3. Touches(r) /\ (r \in faulted => r \in faulted') /\ job'[r] = j
  BY DEF PreConsumeFunding, StoreCall, NoMove, MoveFunding, MoveWallet,
     MoveSub, Goto, Touches, IInv, TypeOK
<1>4. ASSUME /\ sess' = [sess EXCEPT ![r].consumed = q.amt,
                                     ![r].preConsumedQuota = q.amt]
             /\ Goto(r, q.next)
             /\ s.funding = "wallet" /\ MoveWallet(r, q.amt)
      PROVE  Row(r)' /\ Books(r)'
  <2>1. /\ req'[r] \in Locals
        /\ ReqTo(r, q.next, q.amt)
    BY <1>1, <1>2, <1>4
      DEF Fields, ReqTo, Row, Locals, RequestPC, Continuation, Goto, IInv,
         TypeOK
  <2>2. /\ sess'[r] \in Session
        /\ KeepFlags(r) /\ SessTo(r, q.amt, q.amt, 0, q.amt)
    BY <1>1, <1>2, <1>4
      DEF SessTo, KeepFlags, Fields, Row, Session, IInv, TypeOK
  <2>3. /\ paid'[r] \in Payment
        /\ PaidTo(r, p.wallet + q.amt, p.sub, p.token, p.due)
        /\ s.funding = "wallet"
    BY <1>1, <1>2, <1>4
      DEF PaidTo, Fields, Row, Payment, IInv, TypeOK, MoveWallet
  <2>4. Books(r)'
    BY <1>1, <1>2, <1>3, <2>1, <2>2, <2>3
      DEF Running, Fields, ReqTo, SessTo, KeepFlags, PaidTo, Books,
         OpeningShape, ClosingShape, RefundShape, WalletBook, SubBook,
         TokenBook, TopUp, Opening, ToppingUp, Over, Continuation
  <2> QED BY <1>1, <1>3, <2>1, <2>2, <2>3, <2>4 DEF Row
<1>5. ASSUME /\ sess' = [sess EXCEPT ![r].consumed = q.amt,
                                     ![r].preConsumedQuota = q.amt]
             /\ Goto(r, q.next)
             /\ s.funding = "subscription" /\ MoveSub(r, q.amt)
      PROVE  Row(r)' /\ Books(r)'
  <2>1. /\ req'[r] \in Locals
        /\ ReqTo(r, q.next, q.amt)
    BY <1>1, <1>2, <1>5
      DEF Fields, ReqTo, Row, Locals, RequestPC, Continuation, Goto, IInv,
         TypeOK
  <2>2. /\ sess'[r] \in Session
        /\ KeepFlags(r) /\ SessTo(r, q.amt, q.amt, 0, q.amt)
    BY <1>1, <1>2, <1>5
      DEF SessTo, KeepFlags, Fields, Row, Session, IInv, TypeOK
  <2>3. /\ paid'[r] \in Payment
        /\ PaidTo(r, p.wallet, p.sub + q.amt, p.token, p.due)
        /\ s.funding = "subscription"
    BY <1>1, <1>2, <1>5
      DEF PaidTo, Fields, Row, Payment, IInv, TypeOK, MoveSub
  <2>4. Books(r)'
    BY <1>1, <1>2, <1>3, <2>1, <2>2, <2>3
      DEF Running, Fields, ReqTo, SessTo, KeepFlags, PaidTo, Books,
         OpeningShape, ClosingShape, RefundShape, WalletBook, SubBook,
         TokenBook, TopUp, Opening, ToppingUp, Over, Continuation
  <2> QED BY <1>1, <1>3, <2>1, <2>2, <2>3, <2>4 DEF Row
<1>6. ASSUME (Goto(r, "undoShort") \/ Goto(r, "undo")) /\ NoMove /\ UNCHANGED sess
      PROVE  Row(r)' /\ Books(r)'
  <2>1. /\ req'[r] \in Locals
        /\ req'[r].pc \in {"undo", "undoShort"} /\ req'[r].amt = q.amt
    BY <1>1, <1>2, <1>6
      DEF Fields, ReqTo, Row, Locals, RequestPC, Continuation, Goto, IInv,
         TypeOK
  <2>2. sess'[r] = s
    BY <1>6
      DEF PreConsumeFunding, StoreCall, NoMove, MoveFunding, MoveWallet,
         MoveSub, Goto
  <2>3. paid'[r] = p
    BY <1>6 DEF NoMove
  <2>4. Books(r)'
    BY <1>1, <1>2, <1>3, <2>1, <2>2, <2>3
      DEF Running, Fields, Books, OpeningShape, ClosingShape, RefundShape,
         WalletBook, SubBook, TokenBook, TopUp, Opening, ToppingUp, Over,
         Continuation
  <2> QED BY <1>1, <1>3, <2>1, <2>2, <2>3, <2>4 DEF Row
<1>7. Row(r)' /\ Books(r)'
  BY <1>1, <1>2, <1>4, <1>5, <1>6
    DEF PreConsumeFunding, StoreCall, MoveFunding, Fields
<1>8. Balances'
  BY <1>1, <1>2, NumberAssumption, FlagAssumption
    DEF PreConsumeFunding, StoreCall, NoMove, MoveFunding, MoveWallet, MoveSub,
       FundingHas, WalletHas, SubHas, SubAfter, Balances, Fields, IInv, TypeOK
<1>9. NoOverdraft'
  BY <1>1, <1>2, NumberAssumption, FlagAssumption
    DEF PreConsumeFunding, StoreCall, NoMove, MoveFunding, MoveWallet, MoveSub,
       FundingHas, WalletHas, SubHas, SubAfter, NoOverdraft, Fields, IInv,
       TypeOK
<1> QED BY <1>3, <1>7, <1>8, <1>9, TouchIInv

\* A refused funding source leaves nothing held by the token.
LEMMA UndoTokenIInv ==
    ASSUME IInv, NEW r \in Request, UndoToken(r) PROVE IInv'
<1> DEFINE q == req[r]  s == sess[r]  j == job[r]  p == paid[r]
<1>1. Row(r) /\ Fields(r) /\ Books(r)
  BY RowFields
<1>2. /\ q.pc \in {"undo", "undoShort"}
      /\ Running(r)
      /\ q.amt \in Nat /\ q.amt > 0 /\ s.funding # "none"
      /\ s.preConsumedQuota = 0 /\ s.extraReserved = 0 /\ s.consumed = 0
      /\ s.tokenConsumed = q.amt
      /\ (Reject(r) \/ Fallback(r, s.funding))
      /\ sess' = [sess EXCEPT ![r] = NoSession]
  BY <1>1, RunningRow
    DEF UndoToken, Fields, Books, OpeningShape, ClosingShape, RefundShape,
       Opening, ToppingUp, Reject, Fallback, Over
<1>3. Touches(r) /\ (r \in faulted => r \in faulted') /\ job'[r] = j
  BY DEF UndoToken, StoreCall, NoStoreCall, NoMove, MoveToken, Reject,
     Fallback, Goto, Touches, IInv, TypeOK
<1>4. ASSUME r \in Playground /\ NoMove
      PROVE  Row(r)' /\ Books(r)'
  <2>1. /\ req'[r] \in Locals
        /\ req'[r].pc \in {"subscription", "wallet", "end"} /\ req'[r].amt = q.amt
    BY <1>1, <1>2, <1>4
      DEF Fields, ReqTo, Row, Locals, RequestPC, Continuation, Reject,
         Fallback, Goto, IInv, TypeOK
  <2>2. sess'[r] \in Session /\ Fresh(r, "none")
    BY <1>2, <1>4, NewSessionType
      DEF SessTo, Fresh, IInv, TypeOK, NoSession, NewSession, Session, Reject,
         Fallback
  <2>3. paid'[r] = p /\ r \in Playground
    BY <1>4 DEF NoMove
  <2>4. Books(r)'
    BY <1>1, <1>2, <1>3, <2>1, <2>2, <2>3
      DEF Running, Fields, SessTo, Fresh, Books, OpeningShape, ClosingShape,
         RefundShape, WalletBook, SubBook, TokenBook, TopUp, Opening,
         ToppingUp, Over, Continuation
  <2> QED BY <1>1, <1>3, <2>1, <2>2, <2>3, <2>4 DEF Row
<1>5. ASSUME r \notin Playground /\ MoveToken(r, -s.tokenConsumed) /\ faulted' = faulted
      PROVE  Row(r)' /\ Books(r)'
  <2>1. /\ req'[r] \in Locals
        /\ req'[r].pc \in {"subscription", "wallet", "end"} /\ req'[r].amt = q.amt
    BY <1>1, <1>2, <1>5
      DEF Fields, ReqTo, Row, Locals, RequestPC, Continuation, Reject,
         Fallback, Goto, IInv, TypeOK
  <2>2. sess'[r] \in Session /\ Fresh(r, "none")
    BY <1>2, <1>5, NewSessionType
      DEF SessTo, Fresh, IInv, TypeOK, NoSession, NewSession, Session, Reject,
         Fallback
  <2>3. /\ paid'[r] \in Payment
        /\ PaidTo(r, p.wallet, p.sub, p.token - q.amt, p.due)
        /\ faulted' = faulted /\ r \notin Playground
    BY <1>1, <1>2, <1>5
      DEF PaidTo, Fields, Row, Payment, IInv, TypeOK, MoveToken
  <2>4. Books(r)'
    <3> USE <1>1, <1>2, <1>3, <2>1, <2>2, <2>3
        DEF Running, Fields, SessTo, Fresh, PaidTo
    <3>1. OpeningShape(r)'
      BY DEF Books, OpeningShape, Opening, ToppingUp, Continuation
    <3>2. ClosingShape(r)'
      BY DEF Books, OpeningShape, ClosingShape, Continuation, Opening,
         ToppingUp
    <3>3. RefundShape(r)'
      BY DEF Books, OpeningShape, RefundShape, Over, Continuation, Opening,
         ToppingUp
    <3>4. WalletBook(r)'
      BY DEF Books, OpeningShape, WalletBook, TopUp, ToppingUp, Continuation,
         Opening
    <3>5. SubBook(r)'
      BY DEF Books, OpeningShape, SubBook, TopUp, ToppingUp, Continuation,
         Opening
    <3>6. TokenBook(r)'
      BY DEF Books, OpeningShape, TokenBook, Continuation, Opening, ToppingUp
    <3> QED BY <3>1, <3>2, <3>3, <3>4, <3>5, <3>6 DEF Books
  <2> QED BY <1>1, <1>3, <2>1, <2>2, <2>3, <2>4 DEF Row
<1>6. ASSUME NoMove /\ r \in faulted'
      PROVE  Row(r)' /\ Books(r)'
  <2>1. /\ req'[r] \in Locals
        /\ req'[r].pc \in {"subscription", "wallet", "end"} /\ req'[r].amt = q.amt
    BY <1>1, <1>2, <1>6
      DEF Fields, ReqTo, Row, Locals, RequestPC, Continuation, Reject,
         Fallback, Goto, IInv, TypeOK
  <2>2. sess'[r] \in Session /\ Fresh(r, "none")
    BY <1>2, <1>6, NewSessionType
      DEF SessTo, Fresh, IInv, TypeOK, NoSession, NewSession, Session, Reject,
         Fallback
  <2>3. paid'[r] = p /\ r \in faulted'
    BY <1>6 DEF NoMove
  <2>4. Books(r)'
    BY <1>1, <1>2, <1>3, <2>1, <2>2, <2>3
      DEF Running, Fields, SessTo, Fresh, Books, OpeningShape, ClosingShape,
         RefundShape, WalletBook, SubBook, TokenBook, TopUp, Opening,
         ToppingUp, Over, Continuation
  <2> QED BY <1>1, <1>3, <2>1, <2>2, <2>3, <2>4 DEF Row
<1>7. Row(r)' /\ Books(r)'
  BY <1>1, <1>2, <1>4, <1>5, <1>6 DEF UndoToken, StoreCall
<1>8. Balances'
  BY <1>1, <1>2, NumberAssumption, FlagAssumption
    DEF UndoToken, StoreCall, NoStoreCall, NoMove, MoveToken, Balances, Fields,
       IInv, TypeOK
<1>9. NoOverdraft'
  BY <1>1, <1>2, NumberAssumption, FlagAssumption
    DEF UndoToken, StoreCall, NoStoreCall, NoMove, MoveToken, NoOverdraft,
       Fields, IInv, TypeOK
<1> QED BY <1>3, <1>7, <1>8, <1>9, TouchIInv

\* PrepareTieredBillingForSelectedGroup: no quantity moves.
LEMMA PrepareTieredIInv ==
    ASSUME IInv, NEW r \in Request, PrepareTiered(r) PROVE IInv'
<1> DEFINE q == req[r]  s == sess[r]  j == job[r]  p == paid[r]
<1>1. Row(r) /\ Fields(r) /\ Books(r)
  BY RowFields
<1>2. /\ q.pc = "tiered"
      /\ Running(r)
  BY <1>1, RunningRow
    DEF PrepareTiered, Fields, Books, OpeningShape, ClosingShape, RefundShape,
       Over
<1>3. Touches(r) /\ (r \in faulted => r \in faulted') /\ job'[r] = j
  BY DEF PrepareTiered, NoMove, NoStoreCall, Goto, BeginSession, Reserve,
     Prepare, Touches, IInv, TypeOK
<1>4. ASSUME \E e \in {"fail", "image", "sent"} : Goto(r, e)
      PROVE  Row(r)' /\ Books(r)'
  <2>1. /\ req'[r] \in Locals
        /\ req'[r].pc \in {"fail", "image", "sent"} /\ req'[r].amt = q.amt
    BY <1>1, <1>2, <1>4
      DEF Fields, ReqTo, Row, Locals, RequestPC, Continuation, Goto, IInv,
         TypeOK
  <2>2. sess'[r] = s
    BY <1>4 DEF PrepareTiered, NoMove, NoStoreCall, Goto
  <2>3. paid'[r] = p
    BY <1>4 DEF PrepareTiered, NoMove
  <2>4. Books(r)'
    BY <1>1, <1>2, <1>3, <2>1, <2>2, <2>3
      DEF Running, Fields, Books, OpeningShape, ClosingShape, RefundShape,
         WalletBook, SubBook, TokenBook, TopUp, Opening, ToppingUp, Over,
         Continuation
  <2> QED BY <1>1, <1>3, <2>1, <2>2, <2>3, <2>4 DEF Row
<1>5. ASSUME /\ s.funding = "none"
             /\ \E t \in Quota : \E h \in {"image", "sent"} : BeginSession(r, t, h)
      PROVE  Row(r)' /\ Books(r)'
  <2>1. /\ req'[r] \in Locals
        /\ req'[r].pc \in {"wallet", "subscription"} /\ req'[r].amt = q.amt
    BY <1>5, BeginSessionRow DEF Continuation, ReqTo
  <2>2. sess'[r] = s
    BY <1>5 DEF PrepareTiered, NoMove, NoStoreCall, BeginSession
  <2>3. paid'[r] = p /\ s.funding = "none"
    BY <1>5 DEF PrepareTiered, NoMove
  <2>4. Books(r)'
    BY <1>1, <1>2, <1>3, <2>1, <2>2, <2>3
      DEF Running, Fields, Books, OpeningShape, ClosingShape, RefundShape,
         WalletBook, SubBook, TokenBook, TopUp, Opening, ToppingUp, Over,
         Continuation
  <2> QED BY <1>1, <1>3, <2>1, <2>2, <2>3, <2>4 DEF Row
<1>6. ASSUME /\ s.funding # "none"
             /\ \E t \in Quota : \E h \in {"image", "sent"} : Reserve(r, t, h)
      PROVE  Row(r)' /\ Books(r)'
  <2>1. /\ req'[r] \in Locals
        /\ \/ req'[r].pc \in {"image", "sent"} /\ req'[r].amt = q.amt
           \/ req'[r].pc = "resFund" /\ req'[r].amt \in Nat /\ req'[r].amt > 0
    BY <1>6, ReserveRow DEF Continuation, ReqTo
  <2>2. sess'[r] = s
    BY <1>6 DEF PrepareTiered, NoMove, NoStoreCall, Reserve, Goto
  <2>3. paid'[r] = p /\ s.funding # "none"
    BY <1>6 DEF PrepareTiered, NoMove
  <2>4. Books(r)'
    BY <1>1, <1>2, <1>3, <2>1, <2>2, <2>3
      DEF Running, Fields, Books, OpeningShape, ClosingShape, RefundShape,
         WalletBook, SubBook, TokenBook, TopUp, Opening, ToppingUp, Over,
         Continuation
  <2> QED BY <1>1, <1>3, <2>1, <2>2, <2>3, <2>4 DEF Row
<1>7. Row(r)' /\ Books(r)'
  BY <1>1, <1>2, <1>4, <1>5, <1>6 DEF PrepareTiered, Prepare
<1>8. Balances'
  BY <1>1, <1>2, NumberAssumption, FlagAssumption
    DEF PrepareTiered, NoMove, NoStoreCall, Balances, Fields, IInv, TypeOK
<1>9. NoOverdraft'
  BY <1>1, <1>2, NumberAssumption, FlagAssumption
    DEF PrepareTiered, NoMove, NoStoreCall, NoOverdraft, Fields, IInv, TypeOK
<1> QED BY <1>3, <1>7, <1>8, <1>9, TouchIInv

\* PrepareImageBillingForRequest: no quantity moves.
LEMMA PrepareImageIInv ==
    ASSUME IInv, NEW r \in Request, PrepareImage(r) PROVE IInv'
<1> DEFINE q == req[r]  s == sess[r]  j == job[r]  p == paid[r]
<1>1. Row(r) /\ Fields(r) /\ Books(r)
  BY RowFields
<1>2. /\ q.pc = "image"
      /\ Running(r)
  BY <1>1, RunningRow
    DEF PrepareImage, Fields, Books, OpeningShape, ClosingShape, RefundShape,
       Over
<1>3. Touches(r) /\ (r \in faulted => r \in faulted') /\ job'[r] = j
  BY DEF PrepareImage, NoMove, NoStoreCall, Goto, BeginSession, Reserve,
     Prepare, Touches, IInv, TypeOK
<1>4. ASSUME \E e \in {"fail", "sent"} : Goto(r, e)
      PROVE  Row(r)' /\ Books(r)'
  <2>1. /\ req'[r] \in Locals
        /\ req'[r].pc \in {"fail", "sent"} /\ req'[r].amt = q.amt
    BY <1>1, <1>2, <1>4
      DEF Fields, ReqTo, Row, Locals, RequestPC, Continuation, Goto, IInv,
         TypeOK
  <2>2. sess'[r] = s
    BY <1>4 DEF PrepareImage, NoMove, NoStoreCall, Goto
  <2>3. paid'[r] = p
    BY <1>4 DEF PrepareImage, NoMove
  <2>4. Books(r)'
    BY <1>1, <1>2, <1>3, <2>1, <2>2, <2>3
      DEF Running, Fields, Books, OpeningShape, ClosingShape, RefundShape,
         WalletBook, SubBook, TokenBook, TopUp, Opening, ToppingUp, Over,
         Continuation
  <2> QED BY <1>1, <1>3, <2>1, <2>2, <2>3, <2>4 DEF Row
<1>5. ASSUME s.funding = "none" /\ \E t \in Quota : BeginSession(r, t, "sent")
      PROVE  Row(r)' /\ Books(r)'
  <2>1. /\ req'[r] \in Locals
        /\ req'[r].pc \in {"wallet", "subscription"} /\ req'[r].amt = q.amt
    BY <1>5, BeginSessionRow DEF Continuation, ReqTo
  <2>2. sess'[r] = s
    BY <1>5 DEF PrepareImage, NoMove, NoStoreCall, BeginSession
  <2>3. paid'[r] = p /\ s.funding = "none"
    BY <1>5 DEF PrepareImage, NoMove
  <2>4. Books(r)'
    BY <1>1, <1>2, <1>3, <2>1, <2>2, <2>3
      DEF Running, Fields, Books, OpeningShape, ClosingShape, RefundShape,
         WalletBook, SubBook, TokenBook, TopUp, Opening, ToppingUp, Over,
         Continuation
  <2> QED BY <1>1, <1>3, <2>1, <2>2, <2>3, <2>4 DEF Row
<1>6. ASSUME s.funding # "none" /\ \E t \in Quota : Reserve(r, t, "sent")
      PROVE  Row(r)' /\ Books(r)'
  <2>1. /\ req'[r] \in Locals
        /\ \/ ReqTo(r, "sent", q.amt)
           \/ (req'[r].pc = "resFund" /\ req'[r].amt \in Nat /\ req'[r].amt > 0)
    BY <1>6, ReserveRow DEF Continuation, ReqTo
  <2>2. sess'[r] = s
    BY <1>6 DEF PrepareImage, NoMove, NoStoreCall, Reserve, Goto
  <2>3. paid'[r] = p /\ s.funding # "none"
    BY <1>6 DEF PrepareImage, NoMove
  <2>4. Books(r)'
    BY <1>1, <1>2, <1>3, <2>1, <2>2, <2>3
      DEF Running, Fields, ReqTo, Books, OpeningShape, ClosingShape,
         RefundShape, WalletBook, SubBook, TokenBook, TopUp, Opening,
         ToppingUp, Over, Continuation
  <2> QED BY <1>1, <1>3, <2>1, <2>2, <2>3, <2>4 DEF Row
<1>7. Row(r)' /\ Books(r)'
  BY <1>1, <1>2, <1>4, <1>5, <1>6 DEF PrepareImage, Prepare
<1>8. Balances'
  BY <1>1, <1>2, NumberAssumption, FlagAssumption
    DEF PrepareImage, NoMove, NoStoreCall, Balances, Fields, IInv, TypeOK
<1>9. NoOverdraft'
  BY <1>1, <1>2, NumberAssumption, FlagAssumption
    DEF PrepareImage, NoMove, NoStoreCall, NoOverdraft, Fields, IInv, TypeOK
<1> QED BY <1>3, <1>7, <1>8, <1>9, TouchIInv

\* reserveFunding: the top-up is taken before the session knows.
LEMMA ReserveFundingIInv ==
    ASSUME IInv, NEW r \in Request, ReserveFunding(r) PROVE IInv'
<1> DEFINE q == req[r]  s == sess[r]  j == job[r]  p == paid[r]
<1>1. Row(r) /\ Fields(r) /\ Books(r)
  BY RowFields
<1>2. /\ q.pc = "resFund"
      /\ Running(r)
      /\ q.amt \in Nat /\ q.amt > 0 /\ s.funding # "none"
  BY <1>1, RunningRow
    DEF ReserveFunding, Fields, Books, OpeningShape, ClosingShape, RefundShape,
       Opening, ToppingUp, Over
<1>3. Touches(r) /\ (r \in faulted => r \in faulted') /\ job'[r] = j
  BY DEF ReserveFunding, StoreCall, NoMove, MoveFunding, MoveWallet, MoveSub,
     Goto, Touches, IInv, TypeOK
<1>4. ASSUME /\ s.funding = "wallet" /\ MoveWallet(r, q.amt)
             /\ sess' = [sess EXCEPT ![r].consumed = ReservedWallet(r, q.amt)]
             /\ Goto(r, "resToken")
      PROVE  Row(r)' /\ Books(r)'
  <2>1. /\ req'[r] \in Locals
        /\ ReqTo(r, "resToken", q.amt)
    BY <1>1, <1>2, <1>4
      DEF Fields, ReqTo, Row, Locals, RequestPC, Continuation, Goto, IInv,
         TypeOK
  <2>2. /\ sess'[r] \in Session
        /\ KeepFlags(r)
        /\ SessTo(r, s.preConsumedQuota, s.tokenConsumed, s.extraReserved,
                  ReservedWallet(r, q.amt))
    BY <1>1, <1>2, <1>4
      DEF SessTo, KeepFlags, Fields, Row, Session, IInv, TypeOK, ReservedWallet
  <2>3. /\ paid'[r] \in Payment
        /\ PaidTo(r, p.wallet + q.amt, p.sub, p.token, p.due)
        /\ s.funding = "wallet"
    BY <1>1, <1>2, <1>4
      DEF PaidTo, Fields, Row, Payment, IInv, TypeOK, MoveWallet
  <2>4. Books(r)'
    BY <1>1, <1>2, <1>3, <2>1, <2>2, <2>3
      DEF Running, Fields, ReqTo, SessTo, KeepFlags, PaidTo, Books,
         OpeningShape, ClosingShape, RefundShape, WalletBook, SubBook,
         TokenBook, TopUp, Opening, ToppingUp, Over, Continuation,
         ReservedWallet
  <2> QED BY <1>1, <1>3, <2>1, <2>2, <2>3, <2>4 DEF Row
<1>5. ASSUME /\ s.funding = "subscription" /\ MoveSub(r, q.amt)
             /\ sess' = [sess EXCEPT ![r].consumed = @]
             /\ Goto(r, "resToken")
      PROVE  Row(r)' /\ Books(r)'
  <2>1. /\ req'[r] \in Locals
        /\ ReqTo(r, "resToken", q.amt)
    BY <1>1, <1>2, <1>5
      DEF Fields, ReqTo, Row, Locals, RequestPC, Continuation, Goto, IInv,
         TypeOK
  <2>2. /\ sess'[r] \in Session
        /\ KeepFlags(r)
        /\ SessTo(r, s.preConsumedQuota, s.tokenConsumed, s.extraReserved,
                  s.consumed)
    BY <1>1, <1>2, <1>5
      DEF SessTo, KeepFlags, Fields, Row, Session, IInv, TypeOK
  <2>3. /\ paid'[r] \in Payment
        /\ PaidTo(r, p.wallet, p.sub + q.amt, p.token, p.due)
        /\ s.funding = "subscription"
    BY <1>1, <1>2, <1>5
      DEF PaidTo, Fields, Row, Payment, IInv, TypeOK, MoveSub
  <2>4. Books(r)'
    BY <1>1, <1>2, <1>3, <2>1, <2>2, <2>3
      DEF Running, Fields, ReqTo, SessTo, KeepFlags, PaidTo, Books,
         OpeningShape, ClosingShape, RefundShape, WalletBook, SubBook,
         TokenBook, TopUp, Opening, ToppingUp, Over, Continuation
  <2> QED BY <1>1, <1>3, <2>1, <2>2, <2>3, <2>4 DEF Row
<1>6. ASSUME Goto(r, "fail") /\ NoMove /\ UNCHANGED sess
      PROVE  Row(r)' /\ Books(r)'
  <2>1. /\ req'[r] \in Locals
        /\ ReqTo(r, "fail", q.amt)
    BY <1>1, <1>2, <1>6
      DEF Fields, ReqTo, Row, Locals, RequestPC, Continuation, Goto, IInv,
         TypeOK
  <2>2. sess'[r] = s
    BY <1>6
      DEF ReserveFunding, StoreCall, NoMove, MoveFunding, MoveWallet, MoveSub,
         Goto
  <2>3. paid'[r] = p
    BY <1>6 DEF NoMove
  <2>4. Books(r)'
    BY <1>1, <1>2, <1>3, <2>1, <2>2, <2>3
      DEF Running, Fields, ReqTo, Books, OpeningShape, ClosingShape,
         RefundShape, WalletBook, SubBook, TokenBook, TopUp, Opening,
         ToppingUp, Over, Continuation
  <2> QED BY <1>1, <1>3, <2>1, <2>2, <2>3, <2>4 DEF Row
<1>7. Row(r)' /\ Books(r)'
  BY <1>1, <1>2, <1>4, <1>5, <1>6
    DEF ReserveFunding, StoreCall, MoveFunding, Fields
<1>8. Balances'
  BY <1>1, <1>2, NumberAssumption, FlagAssumption
    DEF ReserveFunding, StoreCall, NoMove, MoveFunding, MoveWallet, MoveSub,
       WalletHas, SubHas, SubAfter, Owe, Balances, Fields, IInv, TypeOK
<1>9. NoOverdraft'
  BY <1>1, <1>2, NumberAssumption, FlagAssumption
    DEF ReserveFunding, StoreCall, NoMove, MoveFunding, MoveWallet, MoveSub,
       WalletHas, SubHas, SubAfter, Owe, NoOverdraft, Fields, IInv, TypeOK
<1> QED BY <1>3, <1>7, <1>8, <1>9, TouchIInv

\* reserveToken: the session books the top-up, or it is undone next.
LEMMA ReserveTokenIInv ==
    ASSUME IInv, NEW r \in Request, ReserveToken(r) PROVE IInv'
<1> DEFINE q == req[r]  s == sess[r]  j == job[r]  p == paid[r]
<1>1. Row(r) /\ Fields(r) /\ Books(r)
  BY RowFields
<1>2. /\ q.pc = "resToken"
      /\ Running(r)
      /\ q.amt \in Nat /\ q.amt > 0 /\ s.funding # "none"
  BY <1>1, RunningRow
    DEF ReserveToken, Fields, Books, OpeningShape, ClosingShape, RefundShape,
       Opening, ToppingUp, Over
<1>3. Touches(r) /\ (r \in faulted => r \in faulted') /\ job'[r] = j
  BY DEF ReserveToken, StoreCall, NoStoreCall, NoMove, MoveToken, Goto,
     Touches, IInv, TypeOK
<1>4. ASSUME /\ sess' = [sess EXCEPT ![r].preConsumedQuota = @ + q.amt,
                       ![r].tokenConsumed = @ + q.amt,
                       ![r].extraReserved = @ + q.amt,
                       ![r].trusted = IF r \in Image THEN FALSE ELSE @]
             /\ Goto(r, q.next)
             /\ r \in Playground /\ NoMove
      PROVE  Row(r)' /\ Books(r)'
  <2>1. /\ req'[r] \in Locals
        /\ ReqTo(r, q.next, q.amt)
    BY <1>1, <1>2, <1>4
      DEF Fields, ReqTo, Row, Locals, RequestPC, Continuation, Goto, IInv,
         TypeOK
  <2>2. /\ sess'[r] \in Session
        /\ KeepFlags(r)
        /\ SessTo(r, s.preConsumedQuota + q.amt, s.tokenConsumed + q.amt,
                     s.extraReserved + q.amt, s.consumed)
    BY <1>1, <1>2, <1>4
      DEF SessTo, KeepFlags, Fields, Row, Session, IInv, TypeOK
  <2>3. paid'[r] = p /\ r \in Playground
    BY <1>4 DEF NoMove
  <2>4. Books(r)'
    <3> USE <1>1, <1>2, <1>3, <2>1, <2>2, <2>3
        DEF Running, Fields, ReqTo, SessTo, KeepFlags
    <3>1. OpeningShape(r)'
      BY DEF Books, OpeningShape, Opening, ToppingUp, Continuation
    <3>2. ClosingShape(r)'
      BY DEF Books, OpeningShape, ClosingShape, Continuation, Opening,
         ToppingUp
    <3>3. RefundShape(r)'
      BY DEF Books, OpeningShape, RefundShape, Over, Continuation, Opening,
         ToppingUp
    <3>4. WalletBook(r)'
      BY DEF Books, OpeningShape, WalletBook, TopUp, ToppingUp, Continuation,
         Opening
    <3>5. SubBook(r)'
      BY DEF Books, OpeningShape, SubBook, TopUp, ToppingUp, Continuation,
         Opening
    <3>6. TokenBook(r)'
      BY DEF Books, OpeningShape, TokenBook, Continuation, Opening, ToppingUp
    <3> QED BY <3>1, <3>2, <3>3, <3>4, <3>5, <3>6 DEF Books
  <2> QED BY <1>1, <1>3, <2>1, <2>2, <2>3, <2>4 DEF Row
<1>5. ASSUME /\ sess' = [sess EXCEPT ![r].preConsumedQuota = @ + q.amt,
                       ![r].tokenConsumed = @ + q.amt,
                       ![r].extraReserved = @ + q.amt,
                       ![r].trusted = IF r \in Image THEN FALSE ELSE @]
             /\ Goto(r, q.next)
             /\ r \notin Playground /\ MoveToken(r, q.amt)
      PROVE  Row(r)' /\ Books(r)'
  <2>1. /\ req'[r] \in Locals
        /\ ReqTo(r, q.next, q.amt)
    BY <1>1, <1>2, <1>5
      DEF Fields, ReqTo, Row, Locals, RequestPC, Continuation, Goto, IInv,
         TypeOK
  <2>2. /\ sess'[r] \in Session
        /\ KeepFlags(r)
        /\ SessTo(r, s.preConsumedQuota + q.amt, s.tokenConsumed + q.amt,
                     s.extraReserved + q.amt, s.consumed)
    BY <1>1, <1>2, <1>5
      DEF SessTo, KeepFlags, Fields, Row, Session, IInv, TypeOK
  <2>3. /\ paid'[r] \in Payment
        /\ PaidTo(r, p.wallet, p.sub, p.token + q.amt, p.due)
        /\ r \notin Playground
    BY <1>1, <1>2, <1>5
      DEF PaidTo, Fields, Row, Payment, IInv, TypeOK, MoveToken
  <2>4. Books(r)'
    <3> USE <1>1, <1>2, <1>3, <2>1, <2>2, <2>3
        DEF Running, Fields, ReqTo, SessTo, KeepFlags, PaidTo
    <3>1. OpeningShape(r)'
      BY DEF Books, OpeningShape, Opening, ToppingUp, Continuation
    <3>2. ClosingShape(r)'
      BY DEF Books, OpeningShape, ClosingShape, Continuation, Opening,
         ToppingUp
    <3>3. RefundShape(r)'
      BY DEF Books, OpeningShape, RefundShape, Over, Continuation, Opening,
         ToppingUp
    <3>4. WalletBook(r)'
      BY DEF Books, OpeningShape, WalletBook, TopUp, ToppingUp, Continuation,
         Opening
    <3>5. SubBook(r)'
      BY DEF Books, OpeningShape, SubBook, TopUp, ToppingUp, Continuation,
         Opening
    <3>6. TokenBook(r)'
      BY DEF Books, OpeningShape, TokenBook, Continuation, Opening, ToppingUp
    <3> QED BY <3>1, <3>2, <3>3, <3>4, <3>5, <3>6 DEF Books
  <2> QED BY <1>1, <1>3, <2>1, <2>2, <2>3, <2>4 DEF Row
<1>6. ASSUME Goto(r, "resUndo") /\ NoMove /\ UNCHANGED sess
      PROVE  Row(r)' /\ Books(r)'
  <2>1. /\ req'[r] \in Locals
        /\ ReqTo(r, "resUndo", q.amt)
    BY <1>1, <1>2, <1>6
      DEF Fields, ReqTo, Row, Locals, RequestPC, Continuation, Goto, IInv,
         TypeOK
  <2>2. sess'[r] = s
    BY <1>6 DEF ReserveToken, StoreCall, NoStoreCall, NoMove, MoveToken, Goto
  <2>3. paid'[r] = p
    BY <1>6 DEF NoMove
  <2>4. Books(r)'
    BY <1>1, <1>2, <1>3, <2>1, <2>2, <2>3
      DEF Running, Fields, ReqTo, Books, OpeningShape, ClosingShape,
         RefundShape, WalletBook, SubBook, TokenBook, TopUp, Opening,
         ToppingUp, Over, Continuation
  <2> QED BY <1>1, <1>3, <2>1, <2>2, <2>3, <2>4 DEF Row
<1>7. Row(r)' /\ Books(r)'
  BY <1>1, <1>2, <1>4, <1>5, <1>6 DEF ReserveToken, StoreCall
<1>8. /\ \/ NoMove /\ Owe(0, 0)
         \/ /\ MoveToken(r, q.amt) /\ TokenHas(q.amt)
            /\ Owe(0, IF TokenUnlimited THEN q.amt ELSE 0)
      /\ faults' \in {faults, faults + 1}
  BY DEF ReserveToken, StoreCall, NoStoreCall
<1>9. Balances'
  BY <1>1, <1>2, <1>8, NumberAssumption, FlagAssumption
     DEF NoMove, MoveToken, Owe, Balances, Fields, IInv, TypeOK
<1>10. NoOverdraft'
  BY <1>1, <1>2, <1>8, NumberAssumption, FlagAssumption
     DEF NoMove, MoveToken, TokenHas, Owe, NoOverdraft, Fields, IInv, TypeOK
<1> QED BY <1>3, <1>7, <1>9, <1>10, TouchIInv

\* rollbackFundingReserve: the top-up is given back, or the call failed.
LEMMA rollbackFundingReserveIInv ==
    ASSUME IInv, NEW r \in Request, rollbackFundingReserve(r) PROVE IInv'
<1> DEFINE q == req[r]  s == sess[r]  j == job[r]  p == paid[r]
<1>1. Row(r) /\ Fields(r) /\ Books(r)
  BY RowFields
<1>2. /\ q.pc = "resUndo"
      /\ Running(r)
      /\ q.amt \in Nat /\ q.amt > 0 /\ s.funding # "none"
      /\ Goto(r, "fail")
      /\ s.funding = "wallet" => s.consumed >= q.amt
  BY <1>1, RunningRow
    DEF rollbackFundingReserve, Fields, Books, OpeningShape, ClosingShape,
       RefundShape, Opening, ToppingUp, WalletBook, TopUp, Over
<1>3. Touches(r) /\ (r \in faulted => r \in faulted') /\ job'[r] = j
  BY DEF rollbackFundingReserve, StoreCall, NoMove, MoveFunding, MoveWallet,
     MoveSub, Goto, Touches, IInv, TypeOK
<1>4. ASSUME /\ s.funding = "wallet" /\ MoveWallet(r, -q.amt) /\ faulted' = faulted
             /\ sess' = [sess EXCEPT ![r].consumed = @ - q.amt]
      PROVE  Row(r)' /\ Books(r)'
  <2>1. /\ req'[r] \in Locals
        /\ ReqTo(r, "fail", q.amt)
    BY <1>1, <1>2, <1>4
      DEF Fields, ReqTo, Row, Locals, RequestPC, Continuation, Goto, IInv,
         TypeOK
  <2>2. /\ sess'[r] \in Session
        /\ KeepFlags(r)
        /\ SessTo(r, s.preConsumedQuota, s.tokenConsumed, s.extraReserved,
                  s.consumed - q.amt)
    BY <1>1, <1>2, <1>4
      DEF SessTo, KeepFlags, Fields, Row, Session, IInv, TypeOK
  <2>3. /\ paid'[r] \in Payment
        /\ PaidTo(r, p.wallet - q.amt, p.sub, p.token, p.due)
        /\ faulted' = faulted /\ s.funding = "wallet"
    BY <1>1, <1>2, <1>4
      DEF PaidTo, Fields, Row, Payment, IInv, TypeOK, MoveWallet
  <2>4. Books(r)'
    BY <1>1, <1>2, <1>3, <2>1, <2>2, <2>3
      DEF Running, Fields, ReqTo, SessTo, KeepFlags, PaidTo, Books,
         OpeningShape, ClosingShape, RefundShape, WalletBook, SubBook,
         TokenBook, TopUp, Opening, ToppingUp, Over, Continuation
  <2> QED BY <1>1, <1>3, <2>1, <2>2, <2>3, <2>4 DEF Row
<1>5. ASSUME /\ s.funding = "subscription" /\ MoveSub(r, -q.amt) /\ faulted' = faulted
             /\ sess' = [sess EXCEPT ![r].consumed = @]
      PROVE  Row(r)' /\ Books(r)'
  <2>1. /\ req'[r] \in Locals
        /\ ReqTo(r, "fail", q.amt)
    BY <1>1, <1>2, <1>5
      DEF Fields, ReqTo, Row, Locals, RequestPC, Continuation, Goto, IInv,
         TypeOK
  <2>2. /\ sess'[r] \in Session
        /\ KeepFlags(r)
        /\ SessTo(r, s.preConsumedQuota, s.tokenConsumed, s.extraReserved,
                  s.consumed)
    BY <1>1, <1>2, <1>5
      DEF SessTo, KeepFlags, Fields, Row, Session, IInv, TypeOK
  <2>3. /\ paid'[r] \in Payment
        /\ PaidTo(r, p.wallet, p.sub - q.amt, p.token, p.due)
        /\ faulted' = faulted /\ s.funding = "subscription"
    BY <1>1, <1>2, <1>5
      DEF PaidTo, Fields, Row, Payment, IInv, TypeOK, MoveSub
  <2>4. Books(r)'
    BY <1>1, <1>2, <1>3, <2>1, <2>2, <2>3
      DEF Running, Fields, ReqTo, SessTo, KeepFlags, PaidTo, Books,
         OpeningShape, ClosingShape, RefundShape, WalletBook, SubBook,
         TokenBook, TopUp, Opening, ToppingUp, Over, Continuation
  <2> QED BY <1>1, <1>3, <2>1, <2>2, <2>3, <2>4 DEF Row
<1>6. ASSUME r \in faulted' /\ NoMove /\ UNCHANGED sess
      PROVE  Row(r)' /\ Books(r)'
  <2>1. /\ req'[r] \in Locals
        /\ ReqTo(r, "fail", q.amt)
    BY <1>1, <1>2, <1>6
      DEF Fields, ReqTo, Row, Locals, RequestPC, Continuation, Goto, IInv,
         TypeOK
  <2>2. sess'[r] = s
    BY <1>6
      DEF rollbackFundingReserve, StoreCall, NoMove, MoveFunding, MoveWallet,
         MoveSub, Goto
  <2>3. paid'[r] = p /\ r \in faulted'
    BY <1>6 DEF NoMove
  <2>4. Books(r)'
    BY <1>1, <1>2, <1>3, <2>1, <2>2, <2>3
      DEF Running, Fields, ReqTo, Books, OpeningShape, ClosingShape,
         RefundShape, WalletBook, SubBook, TokenBook, TopUp, Opening,
         ToppingUp, Over, Continuation
  <2> QED BY <1>1, <1>3, <2>1, <2>2, <2>3, <2>4 DEF Row
<1>7. Row(r)' /\ Books(r)'
  BY <1>1, <1>2, <1>4, <1>5, <1>6
    DEF rollbackFundingReserve, StoreCall, MoveFunding, Fields
<1>8. Balances'
  BY <1>1, <1>2, NumberAssumption, FlagAssumption
    DEF rollbackFundingReserve, StoreCall, NoMove, MoveFunding, MoveWallet,
       MoveSub, SubAfter, Balances, Fields, IInv, TypeOK
<1>9. NoOverdraft'
  BY <1>1, <1>2, NumberAssumption, FlagAssumption
    DEF rollbackFundingReserve, StoreCall, NoMove, MoveFunding, MoveWallet,
       MoveSub, SubAfter, NoOverdraft, Fields, IInv, TypeOK
<1> QED BY <1>3, <1>7, <1>8, <1>9, TouchIInv

\* A failed attempt keeps the session for the next one.
LEMMA AttemptFailsIInv ==
    ASSUME IInv, NEW r \in Request, AttemptFails(r) PROVE IInv'
<1> DEFINE q == req[r]  s == sess[r]  j == job[r]  p == paid[r]
<1>1. Row(r) /\ Fields(r) /\ Books(r)
  BY RowFields
<1>2. /\ q.pc = "sent"
      /\ Running(r)
  BY <1>1, RunningRow
    DEF AttemptFails, Fields, Books, OpeningShape, ClosingShape, RefundShape,
       Over
<1>3. Touches(r) /\ (r \in faulted => r \in faulted') /\ job'[r] = j
  BY DEF AttemptFails, NoMove, NoStoreCall, Goto, Touches, IInv, TypeOK
<1>4. ASSUME req' = [req EXCEPT ![r].pc = "tiered", ![r].retry = @ + 1]
      PROVE  Row(r)' /\ Books(r)'
  <2>1. /\ req'[r] \in Locals
        /\ ReqTo(r, "tiered", q.amt)
    BY <1>1, <1>2, <1>4
      DEF Fields, ReqTo, Row, Locals, RequestPC, Continuation, IInv, TypeOK
  <2>2. sess'[r] = s
    BY <1>4 DEF AttemptFails, NoMove, NoStoreCall
  <2>3. paid'[r] = p
    BY <1>4 DEF AttemptFails, NoMove
  <2>4. Books(r)'
    BY <1>1, <1>2, <1>3, <2>1, <2>2, <2>3
      DEF Running, Fields, ReqTo, Books, OpeningShape, ClosingShape,
         RefundShape, WalletBook, SubBook, TokenBook, TopUp, Opening,
         ToppingUp, Over, Continuation
  <2> QED BY <1>1, <1>3, <2>1, <2>2, <2>3, <2>4 DEF Row
<1>5. ASSUME Goto(r, "fail")
      PROVE  Row(r)' /\ Books(r)'
  <2>1. /\ req'[r] \in Locals
        /\ ReqTo(r, "fail", q.amt)
    BY <1>1, <1>2, <1>5
      DEF Fields, ReqTo, Row, Locals, RequestPC, Continuation, Goto, IInv,
         TypeOK
  <2>2. sess'[r] = s
    BY <1>5 DEF AttemptFails, NoMove, NoStoreCall, Goto
  <2>3. paid'[r] = p
    BY <1>5 DEF AttemptFails, NoMove
  <2>4. Books(r)'
    BY <1>1, <1>2, <1>3, <2>1, <2>2, <2>3
      DEF Running, Fields, ReqTo, Books, OpeningShape, ClosingShape,
         RefundShape, WalletBook, SubBook, TokenBook, TopUp, Opening,
         ToppingUp, Over, Continuation
  <2> QED BY <1>1, <1>3, <2>1, <2>2, <2>3, <2>4 DEF Row
<1>6. Row(r)' /\ Books(r)'
  BY <1>1, <1>2, <1>4, <1>5 DEF AttemptFails
<1>7. Balances'
  BY <1>1, <1>2, NumberAssumption, FlagAssumption
    DEF AttemptFails, NoMove, NoStoreCall, Balances, Fields, IInv, TypeOK
<1>8. NoOverdraft'
  BY <1>1, <1>2, NumberAssumption, FlagAssumption
    DEF AttemptFails, NoMove, NoStoreCall, NoOverdraft, Fields, IInv, TypeOK
<1> QED BY <1>3, <1>6, <1>7, <1>8, TouchIInv

\* funding.Settle: the funding source has paid the actual quota.
LEMMA SettleFundingIInv ==
    ASSUME IInv, NEW r \in Request, SettleFunding(r) PROVE IInv'
<1> DEFINE q == req[r]  s == sess[r]  j == job[r]  p == paid[r]
<1>1. Row(r) /\ Fields(r) /\ Books(r)
  BY RowFields
<1>2. /\ q.pc = "setFund"
      /\ q.amt = p.due - s.preConsumedQuota /\ p.due >= 0 /\ s.funding # "none"
      /\ ~s.settled /\ ~s.fundingSettled /\ ~s.refunded /\ j.pc = "none"
  BY <1>1
    DEF SettleFunding, Fields, Books, OpeningShape, ClosingShape, RefundShape,
       Over
<1>3. Touches(r) /\ (r \in faulted => r \in faulted') /\ job'[r] = j
  BY DEF SettleFunding, StoreCall, NoMove, MoveFunding, MoveWallet, MoveSub,
     Goto, Touches, IInv, TypeOK
<1>4. ASSUME /\ faulted' = faulted
             /\ sess' = [sess EXCEPT ![r].fundingSettled = TRUE,
                                     ![r].settled = (r \in Playground)]
             /\ Goto(r, IF r \in Playground THEN "end" ELSE "setToken")
             /\ s.funding = "wallet" /\ MoveWallet(r, q.amt)
      PROVE  Row(r)' /\ Books(r)'
  <2>1. /\ req'[r] \in Locals
        /\ ReqTo(r, IF r \in Playground THEN "end" ELSE "setToken", q.amt)
    BY <1>1, <1>2, <1>4
      DEF Fields, ReqTo, Row, Locals, RequestPC, Continuation, Goto, IInv,
         TypeOK
  <2>2. /\ sess'[r] \in Session
        /\ FundingDone(r)
        /\ SessTo(r, s.preConsumedQuota, s.tokenConsumed, s.extraReserved,
                     s.consumed)
    BY <1>1, <1>2, <1>4, BooleanSettled
      DEF SessTo, FundingDone, Fields, Row, Session, IInv, TypeOK
  <2>3. /\ paid'[r] \in Payment
        /\ PaidTo(r, p.wallet + q.amt, p.sub, p.token, p.due)
        /\ faulted' = faulted /\ s.funding = "wallet"
    BY <1>1, <1>2, <1>4
      DEF PaidTo, Fields, Row, Payment, IInv, TypeOK, MoveWallet
  <2>4. Books(r)'
    BY <1>1, <1>2, <1>3, <2>1, <2>2, <2>3
      DEF Fields, ReqTo, SessTo, FundingDone, PaidTo, Books, OpeningShape,
         ClosingShape, RefundShape, WalletBook, SubBook, TokenBook, TopUp,
         Opening, ToppingUp, Over, Continuation
  <2> QED BY <1>1, <1>3, <2>1, <2>2, <2>3, <2>4 DEF Row
<1>5. ASSUME /\ faulted' = faulted
             /\ sess' = [sess EXCEPT ![r].fundingSettled = TRUE,
                                     ![r].settled = (r \in Playground)]
             /\ Goto(r, IF r \in Playground THEN "end" ELSE "setToken")
             /\ s.funding = "subscription" /\ MoveSub(r, q.amt)
      PROVE  Row(r)' /\ Books(r)'
  <2>1. /\ req'[r] \in Locals
        /\ ReqTo(r, IF r \in Playground THEN "end" ELSE "setToken", q.amt)
    BY <1>1, <1>2, <1>5
      DEF Fields, ReqTo, Row, Locals, RequestPC, Continuation, Goto, IInv,
         TypeOK
  <2>2. /\ sess'[r] \in Session
        /\ FundingDone(r)
        /\ SessTo(r, s.preConsumedQuota, s.tokenConsumed, s.extraReserved,
                     s.consumed)
    BY <1>1, <1>2, <1>5, BooleanSettled
      DEF SessTo, FundingDone, Fields, Row, Session, IInv, TypeOK
  <2>3. /\ paid'[r] \in Payment
        /\ PaidTo(r, p.wallet, p.sub + q.amt, p.token, p.due)
        /\ faulted' = faulted /\ s.funding = "subscription"
    BY <1>1, <1>2, <1>5
      DEF PaidTo, Fields, Row, Payment, IInv, TypeOK, MoveSub
  <2>4. Books(r)'
    BY <1>1, <1>2, <1>3, <2>1, <2>2, <2>3
      DEF Fields, ReqTo, SessTo, FundingDone, PaidTo, Books, OpeningShape,
         ClosingShape, RefundShape, WalletBook, SubBook, TokenBook, TopUp,
         Opening, ToppingUp, Over, Continuation
  <2> QED BY <1>1, <1>3, <2>1, <2>2, <2>3, <2>4 DEF Row
<1>6. ASSUME /\ Goto(r, "end") /\ NoMove /\ UNCHANGED sess
             /\ r \in faulted' \/ (s.funding = "subscription" /\ q.amt > 0)
      PROVE  Row(r)' /\ Books(r)'
  <2>1. /\ req'[r] \in Locals
        /\ ReqTo(r, "end", q.amt)
    BY <1>1, <1>2, <1>6
      DEF Fields, ReqTo, Row, Locals, RequestPC, Continuation, Goto, IInv,
         TypeOK
  <2>2. sess'[r] = s
    BY <1>6
      DEF SettleFunding, StoreCall, NoMove, MoveFunding, MoveWallet, MoveSub,
         Goto
  <2>3. paid'[r] = p /\ (r \in faulted' \/ (s.funding = "subscription" /\ q.amt > 0))
    BY <1>6 DEF NoMove
  <2>4. Books(r)'
    BY <1>1, <1>2, <1>3, <2>1, <2>2, <2>3
      DEF Fields, ReqTo, Books, OpeningShape, ClosingShape, RefundShape,
         WalletBook, SubBook, TokenBook, TopUp, Opening, ToppingUp, Over,
         Continuation
  <2> QED BY <1>1, <1>3, <2>1, <2>2, <2>3, <2>4 DEF Row
<1>7. Row(r)' /\ Books(r)'
  <2>1. s.funding = "wallet" \/ SubHas(q.amt)
          \/ (s.funding = "subscription" /\ q.amt > 0)
    BY <1>1, <1>2, NumberAssumption DEF SubHas, IInv, NoOverdraft, TypeOK, Fields
  <2>2. s.funding # "wallet" => s.funding = "subscription"
    BY <1>1, <1>2 DEF Fields
  <2> QED BY <2>1, <2>2, <1>4, <1>5, <1>6 DEF SettleFunding, StoreCall, MoveFunding
<1>8. Balances'
  BY <1>1, <1>2, NumberAssumption, FlagAssumption
    DEF SettleFunding, StoreCall, NoMove, MoveFunding, MoveWallet, MoveSub,
       SubHas, SubAfter, Owe, Positive, Balances, Fields, IInv, TypeOK
<1>9. NoOverdraft'
  BY <1>1, <1>2, NumberAssumption, FlagAssumption
    DEF SettleFunding, StoreCall, NoMove, MoveFunding, MoveWallet, MoveSub,
       SubHas, SubAfter, Owe, Positive, NoOverdraft, Fields, IInv, TypeOK
<1> QED BY <1>3, <1>7, <1>8, <1>9, TouchIInv

\* The token follows the funding source.
LEMMA SettleTokenIInv ==
    ASSUME IInv, NEW r \in Request, SettleToken(r) PROVE IInv'
<1> DEFINE q == req[r]  s == sess[r]  j == job[r]  p == paid[r]
<1>1. Row(r) /\ Fields(r) /\ Books(r)
  BY RowFields
<1>2. /\ q.pc = "setToken"
      /\ q.amt = p.due - s.preConsumedQuota /\ p.due >= 0 /\ s.funding # "none"
      /\ ~s.settled /\ s.fundingSettled /\ ~s.refunded /\ j.pc = "none"
      /\ r \notin Playground /\ Goto(r, "end")
      /\ s.tokenConsumed = s.preConsumedQuota
      /\ sess' = [sess EXCEPT ![r].settled = TRUE]
  BY <1>1
    DEF SettleToken, Fields, Books, OpeningShape, ClosingShape, RefundShape,
       Over
<1>3. Touches(r) /\ (r \in faulted => r \in faulted') /\ job'[r] = j
  BY DEF SettleToken, StoreCall, NoMove, MoveToken, Goto, Touches, IInv,
     TypeOK
<1>4. ASSUME MoveToken(r, q.amt) /\ faulted' = faulted
      PROVE  Row(r)' /\ Books(r)'
  <2>1. /\ req'[r] \in Locals
        /\ ReqTo(r, "end", q.amt)
    BY <1>1, <1>2, <1>4
      DEF Fields, ReqTo, Row, Locals, RequestPC, Continuation, Goto, IInv,
         TypeOK
  <2>2. sess'[r] \in Session /\ TokenDone(r)
    BY <1>1, <1>2, <1>4
      DEF SessTo, TokenDone, Fields, Row, Session, IInv, TypeOK
  <2>3. /\ paid'[r] \in Payment
        /\ PaidTo(r, p.wallet, p.sub, p.token + q.amt, p.due)
        /\ faulted' = faulted
    BY <1>1, <1>2, <1>4
      DEF PaidTo, Fields, Row, Payment, IInv, TypeOK, MoveToken
  <2>4. Books(r)'
    BY <1>1, <1>2, <1>3, <2>1, <2>2, <2>3
      DEF Fields, ReqTo, SessTo, TokenDone, PaidTo, Books, OpeningShape,
         ClosingShape, RefundShape, WalletBook, SubBook, TokenBook, TopUp,
         Opening, ToppingUp, Over, Continuation
  <2> QED BY <1>1, <1>3, <2>1, <2>2, <2>3, <2>4 DEF Row
<1>5. ASSUME NoMove /\ r \in faulted'
      PROVE  Row(r)' /\ Books(r)'
  <2>1. /\ req'[r] \in Locals
        /\ ReqTo(r, "end", q.amt)
    BY <1>1, <1>2, <1>5
      DEF Fields, ReqTo, Row, Locals, RequestPC, Continuation, Goto, IInv,
         TypeOK
  <2>2. sess'[r] \in Session /\ TokenDone(r)
    BY <1>1, <1>2, <1>5
      DEF SessTo, TokenDone, Fields, Row, Session, IInv, TypeOK
  <2>3. paid'[r] = p /\ r \in faulted'
    BY <1>5 DEF NoMove
  <2>4. Books(r)'
    BY <1>1, <1>2, <1>3, <2>1, <2>2, <2>3
      DEF Fields, ReqTo, SessTo, TokenDone, Books, OpeningShape, ClosingShape,
         RefundShape, WalletBook, SubBook, TokenBook, TopUp, Opening,
         ToppingUp, Over, Continuation
  <2> QED BY <1>1, <1>3, <2>1, <2>2, <2>3, <2>4 DEF Row
<1>6. Row(r)' /\ Books(r)'
  BY <1>1, <1>2, <1>4, <1>5 DEF SettleToken, StoreCall
<1>7. Balances'
  BY <1>1, <1>2, NumberAssumption, FlagAssumption
    DEF SettleToken, StoreCall, NoMove, MoveToken, Owe, Positive, Balances,
       Fields, IInv, TypeOK
<1>8. NoOverdraft'
  BY <1>1, <1>2, NumberAssumption, FlagAssumption
    DEF SettleToken, StoreCall, NoMove, MoveToken, Owe, Positive, NoOverdraft,
       Fields, IInv, TypeOK
<1> QED BY <1>3, <1>6, <1>7, <1>8, TouchIInv

\* PostConsume books the amount to be charged.
LEMMA PostConsumeRow ==
    ASSUME IInv, NEW r \in Request, NEW n \in Nat, PostConsume(r, n)
    PROVE  req'[r] \in Locals /\ ReqTo(r, "post", n)
<1>1. req'[r] = [req[r] EXCEPT !.pc = "post", !.amt = n]
  BY DEF PostConsume, IInv, TypeOK
<1>2. n \in Int /\ Row(r)
  BY RowFields
<1> QED BY <1>1, <1>2 DEF ReqTo, Row, Locals, RequestPC

\* A served request fixes the actual quota and the delta to settle.
LEMMA AttemptSucceedsIInv ==
    ASSUME IInv, NEW r \in Request, AttemptSucceeds(r) PROVE IInv'
<1> DEFINE q == req[r]  s == sess[r]  j == job[r]  p == paid[r]
<1>1. Row(r) /\ Fields(r) /\ Books(r)
  BY RowFields
<1>2. q.pc = "sent" /\ Running(r)
  BY RunningRow DEF AttemptSucceeds, Over
<1>3. Touches(r) /\ faulted' = faulted /\ job'[r] = j
  BY DEF AttemptSucceeds, NoStoreCall, Goto, PostConsume, Touches, IInv, TypeOK
<1>4. ASSUME s.funding = "none", Goto(r, "end"), UNCHANGED <<paid, sess>>
      PROVE  Row(r)' /\ Books(r)'
  <2>1. req'[r] \in Locals /\ ReqTo(r, "end", q.amt)
    BY <1>1, <1>4 DEF Goto, ReqTo, Row, Locals, RequestPC, IInv, TypeOK
  <2>2. sess'[r] = s /\ paid'[r] = p /\ s.funding = "none"
    BY <1>4
  <2>3. Books(r)'
    BY <1>1, <1>2, <1>3, <2>1, <2>2
      DEF Running, Fields, ReqTo, Books, OpeningShape, ClosingShape,
          RefundShape, WalletBook, SubBook, TokenBook, TopUp, Opening,
          ToppingUp, Over
  <2> QED BY <1>1, <1>3, <2>1, <2>2, <2>3 DEF Row
<1>5. ASSUME NEW actual \in Quota, NEW delta \in Int, NEW end \in BOOLEAN,
             s.funding # "none", delta = actual - s.preConsumedQuota,
             end <=> delta = 0,
             paid' = [paid EXCEPT ![r].due = actual],
             sess' = [sess EXCEPT ![r].settled = end],
             req' = [req EXCEPT ![r].amt = delta,
                                ![r].pc = IF end THEN "end" ELSE "setFund"]
      PROVE  Row(r)' /\ Books(r)'
  <2>1. actual \in Nat
    BY SetAssumption
  <2>2. /\ req'[r] \in Locals
        /\ ReqTo(r, IF end THEN "end" ELSE "setFund", delta)
    <3> DEFINE pc == IF end THEN "end" ELSE "setFund"
    <3>1. req'[r] = [q EXCEPT !.amt = delta, !.pc = pc]
      BY <1>5 DEF IInv, TypeOK
    <3>2. pc \in RequestPC
      BY DEF RequestPC
    <3> HIDE DEF pc
    <3> QED BY <1>1, <3>1, <3>2 DEF ReqTo, Row, Locals, pc
  <2>3. /\ sess'[r] \in Session
        /\ sess'[r].funding = s.funding
        /\ (sess'[r].fundingSettled <=> s.fundingSettled)
        /\ (sess'[r].settled <=> end)
        /\ (sess'[r].refunded <=> s.refunded)
        /\ SessTo(r, s.preConsumedQuota, s.tokenConsumed, s.extraReserved,
                     s.consumed)
    BY <1>1, <1>5 DEF SessTo, Row, Session, IInv, TypeOK
  <2>4. paid'[r] \in Payment /\ PaidTo(r, p.wallet, p.sub, p.token, actual)
    BY <1>1, <1>5, <2>1 DEF PaidTo, Row, Payment, IInv, TypeOK
  <2>5. Books(r)'
    <3>1. s.funding # "none" /\ delta = actual - s.preConsumedQuota
          /\ (end <=> delta = 0)
      BY <1>5
    <3> USE <1>1, <1>2, <1>3, <2>1, <2>2, <2>3, <2>4, <3>1
        DEF Running, Fields, ReqTo, SessTo, PaidTo, Books
    <3>2. OpeningShape(r)'
      BY DEF OpeningShape, Opening, ToppingUp
    <3>3. ClosingShape(r)'
      BY DEF ClosingShape
    <3>4. RefundShape(r)'
      BY DEF RefundShape, Over
    <3>5. WalletBook(r)'
      BY DEF WalletBook, TopUp, ToppingUp
    <3>6. SubBook(r)'
      BY DEF SubBook, TopUp, ToppingUp
    <3>7. TokenBook(r)'
      BY DEF TokenBook
    <3> QED BY <3>2, <3>3, <3>4, <3>5, <3>6, <3>7
  <2> QED BY <1>1, <1>3, <2>2, <2>3, <2>4, <2>5 DEF Row
<1>6. ASSUME NEW n \in Quota, n > 0, s.funding = "none", PostConsume(r, n),
             UNCHANGED <<paid, sess>>
      PROVE  Row(r)' /\ Books(r)'
  <2>1. req'[r] \in Locals /\ ReqTo(r, "post", n) /\ n \in Nat /\ n > 0
    BY <1>6, PostConsumeRow, SetAssumption
  <2>2. sess'[r] = s /\ paid'[r] = p /\ s.funding = "none"
    BY <1>6
  <2>3. Books(r)'
    BY <1>1, <1>2, <1>3, <2>1, <2>2
      DEF Running, Fields, ReqTo, Books, OpeningShape, ClosingShape,
          RefundShape, WalletBook, SubBook, TokenBook, TopUp, Opening,
          ToppingUp, Over
  <2> QED BY <1>1, <1>3, <2>1, <2>2, <2>3 DEF Row
<1>7. Row(r)' /\ Books(r)'
  <2>1. CASE s.funding = "none"
    BY <2>1, <1>4, <1>6 DEF AttemptSucceeds
  <2>2. CASE s.funding # "none"
    <3>1. PICK actual \in Quota :
            LET delta == actual - s.preConsumedQuota
            IN  /\ paid' = [paid EXCEPT ![r].due = actual]
                /\ sess' = [sess EXCEPT ![r].settled = (delta = 0)]
                /\ req' = [req EXCEPT ![r].amt = delta,
                             ![r].pc = IF delta = 0 THEN "end" ELSE "setFund"]
      BY <2>2 DEF AttemptSucceeds
    <3> DEFINE delta == actual - s.preConsumedQuota
               end == (delta = 0)
    <3>2. delta \in Int /\ end \in BOOLEAN
      BY <1>1, SetAssumption DEF Fields
    <3>3. /\ sess' = [sess EXCEPT ![r].settled = end]
          /\ req' = [req EXCEPT ![r].amt = delta,
                                ![r].pc = IF end THEN "end" ELSE "setFund"]
      BY <3>1
    <3>4. (end <=> delta = 0) /\ delta = actual - s.preConsumedQuota
      OBVIOUS
    <3>5. paid' = [paid EXCEPT ![r].due = actual]
      BY <3>1
    <3> HIDE DEF delta, end
    <3> QED BY <2>2, <3>2, <3>3, <3>4, <3>5, <1>5
  <2> QED BY <2>1, <2>2
<1>8. Balances' /\ NoOverdraft'
  BY DEF AttemptSucceeds, NoStoreCall, Balances, NoOverdraft, IInv, TypeOK
<1> QED BY <1>3, <1>7, <1>8, TouchIInv

\* Refund starts the goroutine exactly when something is held.
LEMMA RefundFailedRequestIInv ==
    ASSUME IInv, NEW r \in Request, RefundFailedRequest(r) PROVE IInv'
<1> DEFINE q == req[r]  s == sess[r]  j == job[r]  p == paid[r]
<1>1. Row(r) /\ Fields(r) /\ Books(r)
  BY RowFields
<1>2. q.pc = "fail" /\ Running(r)
  BY RunningRow DEF RefundFailedRequest, Over
<1>3. Touches(r) /\ faulted' = faulted /\ paid'[r] = p
  BY DEF RefundFailedRequest, NoMove, NoStoreCall, Goto, PostConsume,
         Touches, IInv, TypeOK
<1>4. /\ req'[r] \in Locals
      /\ \/ ReqTo(r, "end", q.amt)
         \/ req'[r].pc = "post" /\ req'[r].amt \in Nat /\ req'[r].amt > 0
  <2>1. CASE Goto(r, "end")
    BY <1>1, <2>1 DEF Goto, ReqTo, Row, Locals, RequestPC, IInv, TypeOK
  <2>2. CASE ViolationFee > 0 /\ PostConsume(r, ViolationFee)
    BY <2>2, PostConsumeRow, NumberAssumption DEF ReqTo
  <2> QED BY <2>1, <2>2 DEF RefundFailedRequest
<1>5. ASSUME needsRefund(s), sess' = [sess EXCEPT ![r].refunded = TRUE],
             job' = [job EXCEPT ![r].pc = "funding"]
      PROVE  Row(r)' /\ Books(r)'
  <2>1. /\ sess'[r] \in Session
        /\ sess'[r].funding = s.funding /\ sess'[r].refunded
        /\ (sess'[r].fundingSettled <=> s.fundingSettled)
        /\ (sess'[r].settled <=> s.settled)
        /\ SessTo(r, s.preConsumedQuota, s.tokenConsumed, s.extraReserved,
                     s.consumed)
    BY <1>1, <1>5 DEF SessTo, Row, Session, IInv, TypeOK
  <2>2. /\ job'[r] \in RefundJob /\ job'[r].pc = "funding"
        /\ job'[r].attempts = j.attempts
    BY <1>1, <1>5 DEF Row, RefundJob, IInv, TypeOK
  <2>3. s.funding # "none"
    BY <1>1, <1>2, <1>5
      DEF needsRefund, Fields, Books, OpeningShape, Opening, ToppingUp
  <2>4. Books(r)'
    BY <1>1, <1>2, <1>3, <1>4, <2>1, <2>2, <2>3
      DEF Running, Fields, ReqTo, SessTo, Books, OpeningShape, ClosingShape,
          RefundShape, WalletBook, SubBook, TokenBook, TopUp, Opening,
          ToppingUp, Over
  <2> QED BY <1>1, <1>3, <1>4, <2>1, <2>2, <2>4 DEF Row
<1>6. ASSUME ~needsRefund(s), UNCHANGED <<sess, job>>
      PROVE  Row(r)' /\ Books(r)'
  <2>1. sess'[r] = s /\ job'[r] = j
    BY <1>6
  <2>2. s.preConsumedQuota = 0
    BY <1>1, <1>2, <1>6
      DEF needsRefund, Running, Fields, Books, OpeningShape, Opening
  <2>3. Books(r)'
    BY <1>1, <1>2, <1>3, <1>4, <2>1, <2>2
      DEF Running, Fields, ReqTo, Books, OpeningShape, ClosingShape, RefundShape,
          WalletBook, SubBook, TokenBook, TopUp, Opening, ToppingUp, Over
  <2> QED BY <1>1, <1>3, <1>4, <2>1, <2>3 DEF Row
<1>7. Row(r)' /\ Books(r)'
  BY <1>5, <1>6 DEF RefundFailedRequest
<1>8. Balances' /\ NoOverdraft'
  BY DEF RefundFailedRequest, NoMove, NoStoreCall, Balances, NoOverdraft, IInv,
         TypeOK
<1> QED BY <1>3, <1>7, <1>8, TouchIInv

\* PostConsumeQuota overdraws by no more than it adds to the debt.
LEMMA PostConsumeSolvent ==
    ASSUME IInv, NEW r \in Request,
           PostConsumeFunding(r) \/ PostConsumeToken(r)
    PROVE  NoOverdraft'
<1> DEFINE n == req[r].amt
<1>1. n \in Nat
  <2>1. Fields(r) /\ Books(r) /\ req[r].pc \in {"post", "postToken"}
    BY RowFields DEF PostConsumeFunding, PostConsumeToken
  <2> QED BY <2>1 DEF Fields, Books, OpeningShape
<1>2. CASE PostConsumeFunding(r)
  <2>1. \/ UNCHANGED <<wallet, subUsed, token, debt>>
        \/ /\ UNCHANGED <<subUsed, token>> /\ Owe(n, 0)
           /\ wallet' = wallet - n
        \/ /\ UNCHANGED <<wallet, token>> /\ Owe(0, 0)
           /\ SubHas(n) /\ subUsed' = SubAfter(n)
    BY <1>2 DEF PostConsumeFunding
  <2> HIDE DEF n
  <2> QED BY <1>1, <2>1, NumberAssumption
             DEF SubHas, SubAfter, Owe, NoOverdraft, IInv, TypeOK
<1>3. CASE PostConsumeToken(r)
  <2>1. /\ UNCHANGED <<wallet, subUsed>>
        /\ \/ UNCHANGED <<token, debt>>
           \/ token' = token - n /\ Owe(0, n)
    BY <1>3 DEF PostConsumeToken
  <2> HIDE DEF n
  <2> QED BY <1>1, <2>1 DEF Owe, NoOverdraft, IInv, TypeOK
<1> QED BY <1>2, <1>3

\* PostConsumeQuota leaves the session and its holds alone.
LEMMA PostConsumeIInv ==
    ASSUME IInv, NEW r \in Request,
           PostConsumeFunding(r) \/ PostConsumeToken(r)
    PROVE  IInv'
<1> DEFINE q == req[r]
<1> USE DEF PostConsumeFunding, PostConsumeToken
<1>1. Row(r) /\ Fields(r) /\ Books(r)
  BY RowFields
<1>2. Touches(r) /\ (r \in faulted => r \in faulted')
  BY DEF StoreCall, Goto, Touches, IInv, TypeOK
<1>3. /\ sess'[r] = sess[r] /\ job'[r] = job[r] /\ paid'[r] = paid[r]
      /\ q.pc \in {"post", "postToken"}
  OBVIOUS
<1>4. /\ req'[r] \in Locals
      /\ req'[r].pc \in {"postToken", "end"} /\ req'[r].amt = q.amt
  <2>1. \E e \in {"postToken", "end"} : req' = [req EXCEPT ![r].pc = e]
    BY DEF Goto
  <2> QED BY <1>1, <2>1 DEF Row, Locals, RequestPC, IInv, TypeOK
<1>5. Books(r)'
  BY <1>1, <1>2, <1>3, <1>4
    DEF Fields, Books, OpeningShape, ClosingShape, RefundShape, WalletBook,
        SubBook, TokenBook, TopUp, Opening, ToppingUp, Over
<1>6. Row(r)'
  BY <1>1, <1>3, <1>4 DEF Row
<1>7. q.amt \in Nat
  BY <1>1, <1>3 DEF Fields, Books, OpeningShape
<1>8. Balances'
  BY <1>7 DEF StoreCall, SubAfter, Owe, Balances, IInv, TypeOK
<1>9. NoOverdraft'
  BY PostConsumeSolvent
<1> QED BY <1>2, <1>5, <1>6, <1>8, <1>9, TouchIInv

\* WalletFunding.Refund gives back no more than the wallet paid.
LEMMA RefundWalletIInv ==
    ASSUME IInv, NEW r \in Request, RefundWallet(r) PROVE IInv'
<1> DEFINE q == req[r]  s == sess[r]  j == job[r]  p == paid[r]
<1>1. Row(r) /\ Fields(r) /\ Books(r)
  BY RowFields
<1>2. Touches(r) /\ (r \in faulted => r \in faulted')
  BY DEF RefundWallet, NoMove, MoveWallet, StoreCall, NoStoreCall, JobGoto,
         Touches, IInv, TypeOK
<1>3. /\ req'[r] = q /\ sess'[r] = s
      /\ j.pc = "funding" /\ s.funding = "wallet"
  BY DEF RefundWallet
<1>4. job'[r] \in RefundJob /\ job'[r].pc = "token"
  BY <1>1 DEF RefundWallet, JobGoto, Row, RefundJob, IInv, TypeOK
<1>5. /\ paid'[r] \in Payment
      /\ \/ PaidTo(r, p.wallet - s.consumed, p.sub, p.token, p.due)
         \/ PaidTo(r, p.wallet, p.sub, p.token, p.due) /\ r \in faulted'
  BY <1>1 DEF RefundWallet, NoMove, MoveWallet, StoreCall, PaidTo, Fields,
              Row, Payment, IInv, TypeOK
<1>6. Books(r)'
  BY <1>1, <1>2, <1>3, <1>4, <1>5
    DEF Fields, PaidTo, Books, OpeningShape, ClosingShape, RefundShape,
        WalletBook, SubBook, TokenBook, TopUp, Opening, ToppingUp, Over
<1>7. Row(r)'
  BY <1>1, <1>3, <1>4, <1>5 DEF Row
<1>8. Balances' /\ NoOverdraft'
  BY <1>1 DEF RefundWallet, NoMove, MoveWallet, StoreCall, NoStoreCall,
              Fields, Balances, NoOverdraft, IInv, TypeOK
<1> QED BY <1>2, <1>6, <1>7, <1>8, TouchIInv

\* refundWithRetry's counter stays within its bound.
LEMMA RefundAgainType ==
    ASSUME IInv, NEW r \in Request, RefundAgain(r),
           job[r].pc \in {"funding", "record"}
    PROVE  /\ job'[r] \in RefundJob
           /\ job'[r].pc \in {"funding", "extra"}
           /\ job'[r].pc = "funding" => job'[r].attempts < 3
<1> DEFINE n == job[r].attempts + 1
           pc == IF n < 3 THEN "funding" ELSE "extra"
<1>1. job'[r] = [job[r] EXCEPT !.attempts = n, !.pc = pc]
  BY DEF RefundAgain, MaxAttempts, IInv, TypeOK
<1>2. n \in 0..3
  BY DEF IInv, TypeOK, RefundJob, Books, RefundShape
<1>3. /\ pc \in {"funding", "extra"} /\ (pc = "funding" => n < 3)
      /\ job[r] \in RefundJob
  BY DEF IInv, TypeOK
<1> HIDE DEF n, pc
<1> QED BY <1>1, <1>2, <1>3 DEF RefundJob

\* The pre-consumed part of a subscription is credited before the record.
LEMMA RefundSubscriptionIInv ==
    ASSUME IInv, NEW r \in Request, RefundSubscription(r) PROVE IInv'
<1> DEFINE q == req[r]  s == sess[r]  j == job[r]  p == paid[r]
<1>1. Row(r) /\ Fields(r) /\ Books(r)
  BY RowFields
<1>2. Touches(r) /\ (r \in faulted => r \in faulted')
  BY DEF RefundSubscription, NoMove, MoveSub, StoreCall, NoStoreCall, JobGoto,
         RefundAgain, Touches, IInv, TypeOK
<1>3. /\ req'[r] = q /\ sess'[r] = s
      /\ j.pc = "funding" /\ s.funding = "subscription"
  BY DEF RefundSubscription
<1>4. ASSUME ~SQLite, MoveSub(r, -s.consumed), JobGoto(r, "record")
      PROVE  Row(r)' /\ Books(r)'
  <2>1. /\ job'[r] \in RefundJob /\ job'[r].pc = "record"
        /\ job'[r].attempts = j.attempts
    BY <1>1, <1>4 DEF JobGoto, Row, RefundJob, IInv, TypeOK
  <2>2. /\ paid'[r] \in Payment
        /\ PaidTo(r, p.wallet, p.sub - s.consumed, p.token, p.due)
    BY <1>1, <1>4 DEF MoveSub, PaidTo, Fields, Row, Payment, IInv, TypeOK
  <2>3. Books(r)'
    BY <1>1, <1>2, <1>3, <2>1, <2>2
      DEF Fields, PaidTo, Books, OpeningShape, ClosingShape, RefundShape,
          WalletBook, SubBook, TokenBook, TopUp, Opening, ToppingUp, Over
  <2> QED BY <1>1, <1>3, <2>1, <2>2, <2>3 DEF Row
<1>5. ASSUME NoMove, RefundAgain(r), SQLite \/ r \in faulted'
      PROVE  Row(r)' /\ Books(r)'
  <2>1. /\ job'[r] \in RefundJob /\ job'[r].pc \in {"funding", "extra"}
        /\ job'[r].pc = "funding" => job'[r].attempts < 3
    BY <1>3, <1>5, RefundAgainType
  <2>2. paid'[r] = p /\ (SQLite \/ r \in faulted')
    BY <1>5 DEF NoMove
  <2>3. Books(r)'
    BY <1>1, <1>2, <1>3, <2>1, <2>2
      DEF Fields, Books, OpeningShape, ClosingShape, RefundShape, WalletBook,
          SubBook, TokenBook, TopUp, Opening, ToppingUp, Over
  <2> QED BY <1>1, <1>3, <2>1, <2>2, <2>3 DEF Row
<1>6. Row(r)' /\ Books(r)'
  BY <1>4, <1>5 DEF RefundSubscription, StoreCall
<1>7. Balances' /\ NoOverdraft'
  BY <1>1, NumberAssumption
     DEF RefundSubscription, NoMove, MoveSub, SubAfter, StoreCall,
              NoStoreCall, Fields, Balances, NoOverdraft, IInv, TypeOK
<1> QED BY <1>2, <1>6, <1>7, TouchIInv

\* Saving the record moves no quantity.
LEMMA RefundRecordIInv ==
    ASSUME IInv, NEW r \in Request, RefundRecord(r) PROVE IInv'
<1> DEFINE q == req[r]  s == sess[r]  j == job[r]  p == paid[r]
<1>1. Row(r) /\ Fields(r) /\ Books(r)
  BY RowFields
<1>2. Touches(r) /\ (r \in faulted => r \in faulted')
  BY DEF RefundRecord, NoMove, StoreCall, JobGoto, RefundAgain, Touches, IInv,
         TypeOK
<1>3. req'[r] = q /\ sess'[r] = s /\ paid'[r] = p /\ j.pc = "record"
  BY DEF RefundRecord, NoMove
<1>4. /\ job'[r] \in RefundJob
      /\ \/ job'[r].pc = "extra"
         \/ /\ job'[r].pc = "funding" /\ r \in faulted'
            /\ job'[r].attempts < 3
  <2>1. CASE JobGoto(r, "extra")
    BY <1>1, <2>1 DEF JobGoto, Row, RefundJob, IInv, TypeOK
  <2>2. CASE RefundAgain(r) /\ r \in faulted'
    BY <1>3, <2>2, RefundAgainType
  <2> QED BY <2>1, <2>2 DEF RefundRecord, StoreCall
<1>5. Books(r)'
  BY <1>1, <1>2, <1>3, <1>4
    DEF Fields, Books, OpeningShape, ClosingShape, RefundShape, WalletBook,
        SubBook, TokenBook, TopUp, Opening, ToppingUp, Over
<1>6. Row(r)'
  BY <1>1, <1>3, <1>4 DEF Row
<1>7. Balances' /\ NoOverdraft'
  BY DEF RefundRecord, NoMove, StoreCall, Balances, NoOverdraft, IInv, TypeOK
<1> QED BY <1>2, <1>5, <1>6, <1>7, TouchIInv

\* The extra reservation of a subscription is credited after the record.
LEMMA RefundExtraIInv ==
    ASSUME IInv, NEW r \in Request, RefundExtra(r) PROVE IInv'
<1> DEFINE q == req[r]  s == sess[r]  j == job[r]  p == paid[r]
<1>1. Row(r) /\ Fields(r) /\ Books(r)
  BY RowFields
<1>2. Touches(r) /\ (r \in faulted => r \in faulted')
  BY DEF RefundExtra, NoMove, MoveSub, StoreCall, NoStoreCall, JobGoto,
         Touches, IInv, TypeOK
<1>3. req'[r] = q /\ sess'[r] = s /\ j.pc = "extra"
  BY DEF RefundExtra
<1>4. job'[r] \in RefundJob /\ job'[r].pc = "token"
  BY <1>1 DEF RefundExtra, JobGoto, Row, RefundJob, IInv, TypeOK
<1>5. /\ paid'[r] \in Payment
      /\ \/ PaidTo(r, p.wallet, p.sub - s.extraReserved, p.token, p.due)
         \/ PaidTo(r, p.wallet, p.sub, p.token, p.due) /\ r \in faulted'
  BY <1>1 DEF RefundExtra, NoMove, MoveSub, StoreCall, PaidTo, Fields, Row,
              Payment, IInv, TypeOK
<1>6. Books(r)'
  BY <1>1, <1>2, <1>3, <1>4, <1>5
    DEF Fields, PaidTo, Books, OpeningShape, ClosingShape, RefundShape,
        WalletBook, SubBook, TokenBook, TopUp, Opening, ToppingUp, Over
<1>7. Row(r)'
  BY <1>1, <1>3, <1>4, <1>5 DEF Row
<1>8. Balances' /\ NoOverdraft'
  BY <1>1, NumberAssumption
     DEF RefundExtra, NoMove, MoveSub, SubAfter, StoreCall, NoStoreCall,
              Fields, Balances, NoOverdraft, IInv, TypeOK
<1> QED BY <1>2, <1>6, <1>7, <1>8, TouchIInv

\* The token gets back what the session took from it.
LEMMA RefundTokenIInv ==
    ASSUME IInv, NEW r \in Request, RefundToken(r) PROVE IInv'
<1> DEFINE q == req[r]  s == sess[r]  j == job[r]  p == paid[r]
<1>1. Row(r) /\ Fields(r) /\ Books(r)
  BY RowFields
<1>2. Touches(r) /\ (r \in faulted => r \in faulted')
  BY DEF RefundToken, NoMove, MoveToken, StoreCall, NoStoreCall, JobGoto,
         Touches, IInv, TypeOK
<1>3. req'[r] = q /\ sess'[r] = s /\ j.pc = "token"
  BY DEF RefundToken
<1>4. job'[r] \in RefundJob /\ job'[r].pc = "done"
  BY <1>1 DEF RefundToken, JobGoto, Row, RefundJob, IInv, TypeOK
<1>5. /\ paid'[r] \in Payment
      /\ \/ r \in Playground /\ PaidTo(r, p.wallet, p.sub, p.token, p.due)
         \/ /\ r \notin Playground
            /\ PaidTo(r, p.wallet, p.sub, p.token - s.tokenConsumed, p.due)
         \/ PaidTo(r, p.wallet, p.sub, p.token, p.due) /\ r \in faulted'
  BY <1>1 DEF RefundToken, NoMove, MoveToken, StoreCall, PaidTo, Fields, Row,
              Payment, IInv, TypeOK
<1>6. Books(r)'
  BY <1>1, <1>2, <1>3, <1>4, <1>5
    DEF Fields, PaidTo, Books, OpeningShape, ClosingShape, RefundShape,
        WalletBook, SubBook, TokenBook, TopUp, Opening, ToppingUp, Over
<1>7. Row(r)'
  BY <1>1, <1>3, <1>4, <1>5 DEF Row
<1>8. Balances' /\ NoOverdraft'
  BY <1>1 DEF RefundToken, NoMove, MoveToken, StoreCall, NoStoreCall, Fields,
              Balances, NoOverdraft, IInv, TypeOK
<1> QED BY <1>2, <1>6, <1>7, <1>8, TouchIInv

-----------------------------------------------------------------------------
\* Every step of every request preserves the invariant.
LEMMA NextIInv == ASSUME IInv, [Next]_vars PROVE IInv'
<1>1. ASSUME NEW r \in Request, RelayStep(r) PROVE IInv'
  BY <1>1, TokenAuthIInv, PrepareRequestBillingIInv, tryWalletIInv,
     trySubscriptionIInv, PreConsumeTokenIInv, PreConsumeFundingIInv,
     UndoTokenIInv, PrepareTieredIInv, PrepareImageIInv, ReserveFundingIInv,
     ReserveTokenIInv, rollbackFundingReserveIInv, AttemptFailsIInv,
     AttemptSucceedsIInv, SettleFundingIInv, SettleTokenIInv,
     RefundFailedRequestIInv, PostConsumeIInv
     DEF RelayStep
<1>2. ASSUME NEW r \in Request, RefundStep(r) PROVE IInv'
  BY <1>2, RefundWalletIInv, RefundSubscriptionIInv, RefundRecordIInv,
     RefundExtraIInv, RefundTokenIInv
     DEF RefundStep
<1>3. CASE UNCHANGED vars
  <2>1. ASSUME NEW x \in Request PROVE Books(x)'
    BY <1>3, <2>1, BooksFrame DEF vars, IInv
  <2>2. TypeOK' /\ NoOverdraft'
    BY <1>3 DEF vars, IInv, TypeOK, NoOverdraft
  <2> QED BY <2>1, <2>2 DEF IInv
<1> QED BY <1>1, <1>2, <1>3 DEF Next, Terminating

\* The books balance in every reachable state, for any number of requests.
THEOREM Invariance == Spec => []IInv
<1>1. IInv /\ [Next]_vars => IInv'
  BY NextIInv
<1> QED BY <1>1, InitIInv, PTL DEF Spec

\* Everything keeps its type: no quantity of a session, no counter of
\* refundWithRetry leaves its range whatever the prices and the failures.
THEOREM TypeCorrect == Spec => []TypeOK
<1>1. IInv => TypeOK
  BY DEF IInv
<1> QED BY <1>1, Invariance, PTL

\* Concurrent reservations never overdraw the wallet, the token or the
\* subscription beyond what was taken without a check.
THEOREM Solvent == Spec => []NoOverdraft
<1>1. IInv => NoOverdraft
  BY DEF IInv
<1> QED BY <1>1, Invariance, PTL

\* A request that was served is never refunded.
THEOREM ServedNotRefunded == Spec => []NeverRefundServed
<1>1. IInv => NeverRefundServed
  <2> SUFFICES ASSUME IInv, NEW r \in Request, job[r].pc # "none"
               PROVE  paid[r].due = -1 /\ ~sess[r].fundingSettled
                                       /\ ~sess[r].settled
    BY DEF NeverRefundServed
  <2> QED BY RowFields DEF Fields, Books, ClosingShape, RefundShape
<1> QED BY <1>1, Invariance, PTL

\* No request gets back more than was taken for it.
THEOREM NotOverRefunded == Spec => []NeverOverRefunded
<1>1. IInv => NeverOverRefunded
  <2> SUFFICES ASSUME IInv, NEW r \in Request
               PROVE  /\ paid[r].wallet >= 0
                      /\ paid[r].token >= 0
                      /\ r \notin faulted => paid[r].sub >= 0
    BY DEF NeverOverRefunded
  <2>1. Row(r) /\ Fields(r) /\ Books(r)
    BY RowFields
  <2>2. TopUp(r) \in Nat
    BY <2>1 DEF Fields, TopUp, Books, OpeningShape, ToppingUp
  <2>3. job[r].pc \in {"none", "funding", "record", "extra", "token", "done"}
    BY <2>1 DEF Row, RefundJob
  <2>4. paid[r].wallet >= 0
    BY <2>1, <2>2, <2>3 DEF Fields, Books, WalletBook, ClosingShape, RefundShape
  <2>5. paid[r].token >= 0
    BY <2>1 DEF Fields, Books, TokenBook
  <2>6. r \notin faulted => paid[r].sub >= 0
    BY <2>1, <2>2, <2>3 DEF Fields, Books, SubBook, ClosingShape, RefundShape
  <2> QED BY <2>4, <2>5, <2>6
<1> QED BY <1>1, Invariance, PTL

\* A failed request leaves nothing held, whatever was reserved on the way.
THEOREM FailedIsRefunded == Spec => []RefundReturnsAll
<1>1. IInv => RefundReturnsAll
  <2> SUFFICES ASSUME IInv, NEW r \in Request \ Image, Failed(r),
                      r \notin faulted,
                      ~(SQLite /\ sess[r].funding = "subscription")
               PROVE  Returned(r)
    BY DEF RefundReturnsAll
  <2>1. Row(r) /\ Fields(r) /\ Books(r)
    BY RowFields
  <2>2. /\ req[r].pc = "end" /\ job[r].pc \in {"none", "done"}
        /\ paid[r].due = -1
    BY DEF Failed, Finished
  <2>3. TopUp(r) = 0 /\ sess[r].tokenConsumed = sess[r].preConsumedQuota
    BY <2>1, <2>2 DEF TopUp, ToppingUp, Books, OpeningShape, Opening
  <2>4. ~sess[r].settled /\ ~sess[r].fundingSettled
    BY <2>1, <2>2 DEF Books, ClosingShape
  <2>5. job[r].pc = "none" => sess[r].preConsumedQuota = 0
    BY <2>1, <2>2 DEF Books, RefundShape, Over
  <2>6. paid[r].wallet = 0
    BY <2>1, <2>2, <2>3, <2>4, <2>5 DEF Fields, Books, WalletBook
  <2>7. paid[r].sub = 0
    BY <2>1, <2>2, <2>3, <2>4, <2>5 DEF Fields, Books, SubBook
  <2>8. paid[r].token = 0
    BY <2>1, <2>2, <2>3, <2>4, <2>5 DEF Fields, Books, TokenBook
  <2> QED BY <2>6, <2>7, <2>8 DEF Returned
<1> QED BY <1>1, Invariance, PTL

\* A served request pays its actual quota, once.
THEOREM ServedPays == Spec => []ServedPaysActual
<1>1. IInv => ServedPaysActual
  <2> SUFFICES ASSUME IInv, NEW r \in Request, Finished(r), paid[r].due >= 0,
                      r \notin faulted
               PROVE  IF sess[r].settled
                      THEN /\ paid[r].token = IF r \in Playground
                                              THEN 0 ELSE paid[r].due
                           /\ paid[r].wallet + paid[r].sub = paid[r].due
                           /\ paid[r].wallet = 0 \/ paid[r].sub = 0
                      ELSE /\ sess[r].funding = "subscription"
                           /\ paid[r].wallet = 0
                           /\ paid[r].sub = sess[r].preConsumedQuota
                           /\ paid[r].due > paid[r].sub
    BY DEF ServedPaysActual
  <2>1. Row(r) /\ Fields(r) /\ Books(r)
    BY RowFields
  <2>2. req[r].pc = "end" /\ job[r].pc = "none" /\ sess[r].funding # "none"
    BY <2>1 DEF Finished, Fields, Books, RefundShape, OpeningShape
  <2>3. TopUp(r) = 0 /\ sess[r].tokenConsumed = sess[r].preConsumedQuota
    BY <2>1, <2>2 DEF TopUp, ToppingUp, Books, OpeningShape, Opening
  <2>4. CASE sess[r].settled
    <3>1. ~sess[r].fundingSettled => paid[r].due = sess[r].preConsumedQuota
      BY <2>1, <2>4 DEF Books, ClosingShape
    <3>2. paid[r].token = IF r \in Playground THEN 0 ELSE paid[r].due
      BY <2>1, <2>2, <2>3, <2>4, <3>1 DEF Fields, Books, TokenBook
    <3>3. /\ paid[r].wallet = IF sess[r].funding = "wallet"
                              THEN paid[r].due ELSE 0
      BY <2>1, <2>2, <2>3, <2>4, <3>1 DEF Fields, Books, WalletBook
    <3>4. paid[r].sub = IF sess[r].funding = "wallet" THEN 0 ELSE paid[r].due
      BY <2>1, <2>2, <2>3, <2>4, <3>1 DEF Fields, Books, SubBook
    <3> QED BY <2>1, <2>4, <3>2, <3>3, <3>4 DEF Fields
  <2>5. CASE ~sess[r].settled
    <3>1. /\ sess[r].funding = "subscription" /\ ~sess[r].fundingSettled
          /\ paid[r].due > sess[r].preConsumedQuota
      BY <2>1, <2>2, <2>5 DEF Books, ClosingShape
    <3>2. paid[r].wallet = 0 /\ paid[r].sub = sess[r].preConsumedQuota
      BY <2>1, <2>2, <2>3, <2>5, <3>1 DEF Fields, Books, WalletBook, SubBook
    <3> QED BY <2>5, <3>1, <3>2
  <2> QED BY <2>4, <2>5
<1> QED BY <1>1, Invariance, PTL

\* While the refund goroutine exists nobody writes the session it reads.
THEOREM SessionFrozen == Spec => RefundSeesFrozenSession
<1>1. ASSUME IInv, [Next]_vars
      PROVE  [\A r \in Request : sess[r].refunded => sess'[r] = sess[r]]_sess
  <2> SUFFICES ASSUME NEW r \in Request, sess[r].refunded
               PROVE  sess'[r] = sess[r]
    OBVIOUS
  <2>1. req[r].pc \in Over
    BY <1>1, RowFields DEF Books, RefundShape
  <2>2. ASSUME NEW x \in Request, RelayStep(x), x = r PROVE sess'[r] = sess[r]
    BY <2>1, <2>2
      DEF Over, RelayStep, TokenAuth, PrepareRequestBilling, tryWallet,
          trySubscription, PreConsumeToken, PreConsumeFunding, UndoToken,
          PrepareTiered, PrepareImage, ReserveFunding, ReserveToken,
          rollbackFundingReserve, AttemptFails, AttemptSucceeds,
          SettleFunding, SettleToken, RefundFailedRequest,
          PostConsumeFunding, PostConsumeToken
  <2>3. ASSUME NEW x \in Request, RelayStep(x), x # r PROVE sess'[r] = sess[r]
    <3>1. sess \in [Request -> Session]
      BY <1>1 DEF IInv, TypeOK
    <3> QED
      BY <2>3, <3>1
        DEF RelayStep, TokenAuth, PrepareRequestBilling, tryWallet,
          trySubscription, PreConsumeToken, PreConsumeFunding, UndoToken,
          PrepareTiered, PrepareImage, ReserveFunding, ReserveToken,
          rollbackFundingReserve, AttemptFails, AttemptSucceeds,
          SettleFunding, SettleToken, RefundFailedRequest,
          PostConsumeFunding, PostConsumeToken, Reject, Fallback
  <2>4. ASSUME NEW x \in Request, RefundStep(x) PROVE sess'[r] = sess[r]
    BY <2>4 DEF RefundStep, RefundWallet, RefundSubscription, RefundRecord,
                RefundExtra, RefundToken
  <2>5. CASE UNCHANGED vars
    BY <2>5 DEF vars
  <2> QED BY <1>1, <2>2, <2>3, <2>4, <2>5 DEF Next, Terminating
<1> QED BY <1>1, Invariance, PTL DEF Spec, RefundSeesFrozenSession
=============================================================================
