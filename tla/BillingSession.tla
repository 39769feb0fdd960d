--------------------------- MODULE BillingSession ---------------------------
(***************************************************************************)
(* The billing of relayed requests: service/billing_session.go and         *)
(* service/funding_source.go, driven by the retry loop of                  *)
(* controller/relay.go.  Several requests of one user and one API token    *)
(* run at once; each owns a BillingSession, which reserves quota before    *)
(* the upstream call, reserves more when a retry is dearer, and ends in a  *)
(* settlement or in an asynchronous refund.                                *)
(*                                                                         *)
(* Every call into the quota store (package model) is a step of its own,   *)
(* so other requests run between any two of them, and every such call may  *)
(* fail.  The store's calls are atomic here.                               *)
(***************************************************************************)
EXTENDS Integers

CONSTANTS
    Request,          \* the requests, each one goroutine
    Image,            \* requests whose body is a *dto.ImageRequest
    Playground,       \* requests from the playground: no token is charged
    Preference,       \* Request -> billing preference of the user
    Quota,            \* prices a request may be estimated or settled at
    TrustQuota,       \* common.GetTrustQuota()
    TokenUnlimited,   \* the token has no limit of its own
    InitWallet,       \* user quota at the start
    InitToken,        \* remaining token quota at the start
    SubTotal,         \* AmountTotal of the subscription, 0 for unlimited
    SubActive,        \* the user has an active subscription
    AllowOverflow,    \* the subscription may overflow to the wallet
    SQLite,           \* the main database is SQLite with its default DSN
    RetryTimes,       \* common.RetryTimes
    ViolationFee,     \* calcViolationFeeQuota, 0 when disabled
    MaxFaults         \* bound on failing store calls

Preferences ==
    {"subscription_only", "wallet_only", "wallet_first", "subscription_first"}

ASSUME SetAssumption ==
    /\ Image \subseteq Request
    /\ Playground \subseteq Request
    /\ Preference \in [Request -> Preferences]
    /\ Quota \subseteq Nat

ASSUME NumberAssumption ==
    /\ TrustQuota \in Nat
    /\ InitWallet \in Nat
    /\ InitToken \in Nat
    /\ SubTotal \in Nat
    /\ RetryTimes \in Nat
    /\ ViolationFee \in Nat
    /\ MaxFaults \in Nat

ASSUME FlagAssumption ==
    /\ TokenUnlimited \in BOOLEAN
    /\ SubActive \in BOOLEAN
    /\ AllowOverflow \in BOOLEAN
    /\ SQLite \in BOOLEAN

VARIABLES
    wallet,   \* users.quota, negative when the user is in debt
    token,    \* tokens.remain_quota
    subUsed,  \* user_subscriptions.amount_used
    record,   \* Request -> status of its SubscriptionPreConsumeRecord
    req,      \* Request -> locals of the request's goroutine
    sess,     \* Request -> its BillingSession and FundingSource
    job,      \* Request -> the refund goroutine
    faults,   \* store calls that failed so far
    faulted,  \* requests one of whose store calls failed
    paid,     \* ghost: what was taken and not given back for each request
    debt      \* ghost: what was taken without looking at the balance

vars == <<wallet, token, subUsed, record, req, sess, job, faults, faulted,
          paid, debt>>

(***************************************************************************)
(* Types.                                                                  *)
(***************************************************************************)
RequestPC ==
    {"auth", "prepare", "wallet", "subscription", "token", "fund", "undo",
     "undoShort", "tiered", "image", "resFund", "resToken", "resUndo", "sent",
     "setFund", "setToken", "fail", "post", "postToken", "end"}

Continuation == {"tiered", "image", "sent"}

Locals == [pc : RequestPC, quota : Nat, amt : Int, next : Continuation,
           retry : Nat, tokenQuota : Int]

\* consumed is WalletFunding.consumed or SubscriptionFunding.preConsumed
Session == [funding : {"none", "wallet", "subscription"},
            preConsumedQuota : Nat, tokenConsumed : Nat, extraReserved : Nat,
            consumed : Nat, trusted : BOOLEAN, fundingSettled : BOOLEAN,
            settled : BOOLEAN, refunded : BOOLEAN]

\* pc of the goroutine started by Refund, and refundWithRetry's counter
RefundJob == [pc : {"none", "funding", "record", "extra", "token", "done"},
              attempts : 0..3]

\* due is the actual quota a session was settled with, -1 before that
Payment == [wallet : Int, sub : Int, token : Int, due : Int]

\* Everything has its type: quantities that the code keeps non-negative are
\* natural numbers in every reachable state, balances may be negative.
TypeOK ==
    /\ wallet \in Int
    /\ token \in Int
    /\ subUsed \in Nat
    /\ record \in [Request -> {"none", "consumed", "refunded"}]
    /\ req \in [Request -> Locals]
    /\ sess \in [Request -> Session]
    /\ job \in [Request -> RefundJob]
    /\ faults \in Nat
    /\ faulted \subseteq Request
    /\ paid \in [Request -> Payment]
    /\ debt \in [wallet : Nat, token : Nat]

NewSession(source) ==
    [funding |-> source, preConsumedQuota |-> 0, tokenConsumed |-> 0,
     extraReserved |-> 0, consumed |-> 0, trusted |-> FALSE,
     fundingSettled |-> FALSE, settled |-> FALSE, refunded |-> FALSE]

NoSession == NewSession("none")

Init ==
    /\ wallet = InitWallet
    /\ token = InitToken
    /\ subUsed = 0
    /\ record = [r \in Request |-> "none"]
    /\ req = [r \in Request |-> [pc |-> "auth", quota |-> 0, amt |-> 0,
                                 next |-> "tiered", retry |-> 0,
                                 tokenQuota |-> 0]]
    /\ sess = [r \in Request |-> NoSession]
    /\ job = [r \in Request |-> [pc |-> "none", attempts |-> 0]]
    /\ faults = 0
    /\ faulted = {}
    /\ paid = [r \in Request |-> [wallet |-> 0, sub |-> 0, token |-> 0,
                                  due |-> -1]]
    /\ debt = [wallet |-> 0, token |-> 0]

(***************************************************************************)
(* Calls into package model.                                               *)
(***************************************************************************)
\* Whether a call into the store returns an error of the database.
StoreCall(r, ok) ==
    /\ ok \/ faults < MaxFaults
    /\ faults' = IF ok THEN faults ELSE faults + 1
    /\ faulted' = IF ok THEN faulted ELSE faulted \cup {r}

NoStoreCall == UNCHANGED <<faults, faulted>>

\* Mutant: the decrement only asks for a positive balance.
WalletHasAny(n) == wallet > 0

\* TryReserveUserQuota's and TryReserveTokenQuota's conditional decrement.
WalletHas(n) == wallet >= n

TokenHas(n) == TokenUnlimited \/ token >= n

\* PreConsumeUserSubscription and PostConsumeUserSubscriptionDelta compare
\* with AmountTotal only when it is set.
SubHas(n) == SubTotal = 0 \/ subUsed + n <= SubTotal

\* Mutant: a credit is not clamped.
SubAfterUnclamped(n) == subUsed + n

\* PostConsumeUserSubscriptionDelta never takes amount_used below zero.
SubAfter(n) == IF subUsed + n > 0 THEN subUsed + n ELSE 0

MoveWallet(r, n) ==
    /\ wallet' = wallet - n
    /\ paid' = [paid EXCEPT ![r].wallet = @ + n]
    /\ UNCHANGED <<token, subUsed>>

MoveToken(r, n) ==
    /\ token' = token - n
    /\ paid' = [paid EXCEPT ![r].token = @ + n]
    /\ UNCHANGED <<wallet, subUsed>>

MoveSub(r, n) ==
    /\ subUsed' = SubAfter(n)
    /\ paid' = [paid EXCEPT ![r].sub = @ + n]
    /\ UNCHANGED <<wallet, token>>

\* The funding source of r is debited (n > 0) or credited (n < 0).
MoveFunding(r, n) ==
    IF sess[r].funding = "wallet" THEN MoveWallet(r, n) ELSE MoveSub(r, n)

NoMove == UNCHANGED <<wallet, token, subUsed, paid>>

Owe(w, t) == debt' = [wallet |-> debt.wallet + w, token |-> debt.token + t]

Positive(n) == IF n > 0 THEN n ELSE 0

(***************************************************************************)
(* Authentication and NewBillingSession.                                   *)
(***************************************************************************)
Goto(r, pc) == req' = [req EXCEPT ![r].pc = pc]

\* TokenAuth refuses an exhausted token and remembers what it read: the
\* trust bypass later compares with this value.  The playground uses a
\* temporary token without quota.
TokenAuth(r) ==
    /\ req[r].pc = "auth"
    /\ \/ /\ r \in Playground
          /\ Goto(r, "prepare")
       \/ /\ r \notin Playground
          /\ req' = [req EXCEPT ![r].tokenQuota = token,
                                ![r].pc = IF TokenUnlimited \/ token > 0
                                          THEN "prepare" ELSE "end"]
    /\ NoMove /\ NoStoreCall
    /\ UNCHANGED <<record, sess, job, debt>>

\* The source NewBillingSession tries first.
FirstSource(r) ==
    CASE Preference[r] = "subscription_only" -> "subscription"
      [] Preference[r] \in {"wallet_only", "wallet_first"} -> "wallet"
      [] OTHER -> IF SubActive THEN "subscription" ELSE "wallet"

\* PreConsumeBilling(q), continuing at next once the session exists.
BeginSession(r, q, next) ==
    req' = [req EXCEPT ![r].pc = FirstSource(r), ![r].quota = q,
                       ![r].next = next]

\* A free model skips pre-consumption and has no session.
PrepareRequestBilling(r) ==
    /\ req[r].pc = "prepare"
    /\ \/ Goto(r, "tiered")
       \/ \E q \in Quota : BeginSession(r, q, "tiered")
    /\ NoMove /\ NoStoreCall
    /\ UNCHANGED <<record, sess, job, debt>>

\* The error returned by NewBillingSession: the request ends without session.
Reject(r) ==
    /\ Goto(r, "end")
    /\ sess' = [sess EXCEPT ![r] = NoSession]

\* ErrorCodeInsufficientUserQuota: try the other source if the preference
\* says so.
Fallback(r, source) ==
    LET other ==
            CASE source = "wallet" /\ Preference[r] = "wallet_first"
                     -> "subscription"
              [] source = "subscription" /\ AllowOverflow
                     /\ Preference[r] = "subscription_first" -> "wallet"
              [] OTHER -> "end"
    IN  /\ Goto(r, other)
        /\ sess' = [sess EXCEPT ![r] = NoSession]

\* shouldTrust, for the wallet: the subscription never uses the bypass, nor
\* does an asynchronous task (ForcePreConsume), which is not relayed this way.
shouldTrust(r) ==
    /\ TrustQuota > 0
    /\ \/ TokenUnlimited /\ r \notin Playground
       \/ req[r].tokenQuota > TrustQuota
    /\ wallet > TrustQuota

tryWallet(r) ==
    LET q == req[r].quota
        admits == wallet > 0 /\ wallet >= q
        trust == shouldTrust(r)
    IN  /\ req[r].pc = "wallet"
        /\ \/ StoreCall(r, FALSE) /\ Reject(r)
           \/ ~admits /\ StoreCall(r, TRUE) /\ Fallback(r, "wallet")
           \/ /\ admits
              /\ StoreCall(r, TRUE)
              /\ sess' = [sess EXCEPT ![r] =
                            [NewSession("wallet") EXCEPT !.trusted = trust]]
              /\ req' = [req EXCEPT ![r].amt = q,
                                    ![r].pc = IF trust \/ q = 0
                                              THEN req[r].next ELSE "token"]
        /\ NoMove
        /\ UNCHANGED <<record, job, debt>>

\* At least 1 is consumed, so that a pre-consume record exists.  Looking for
\* an active subscription first, as subscription_first does, may fail.
trySubscription(r) ==
    /\ req[r].pc = "subscription"
    /\ \/ /\ Preference[r] = "subscription_first"
          /\ StoreCall(r, FALSE) /\ Reject(r)
       \/ /\ NoStoreCall
          /\ sess' = [sess EXCEPT ![r] = NewSession("subscription")]
          /\ req' = [req EXCEPT ![r].pc = "token",
                                ![r].amt = IF req[r].quota > 0
                                           THEN req[r].quota ELSE 1]
    /\ NoMove
    /\ UNCHANGED <<record, job, debt>>

\* preConsume, first half: the token.
PreConsumeToken(r) ==
    LET n == req[r].amt
        took == /\ sess' = [sess EXCEPT ![r].tokenConsumed = n]
                /\ Goto(r, "fund")
    IN  /\ req[r].pc = "token"
        /\ \/ /\ r \in Playground
              /\ took /\ NoMove /\ NoStoreCall /\ Owe(0, 0)
           \/ /\ r \notin Playground /\ TokenHas(n)
              /\ took /\ MoveToken(r, n) /\ StoreCall(r, TRUE)
              /\ Owe(0, IF TokenUnlimited THEN n ELSE 0)
           \/ /\ r \notin Playground
              /\ \/ ~TokenHas(n) /\ StoreCall(r, TRUE)
                 \/ StoreCall(r, FALSE)
              /\ Reject(r) /\ NoMove /\ Owe(0, 0)
        /\ UNCHANGED <<record, job>>

\* What funding.PreConsume needs in order to succeed.
FundingHas(r, n) ==
    IF sess[r].funding = "wallet" THEN WalletHas(n)
                                  ELSE SubActive /\ SubHas(n)

\* preConsume, second half: the funding source.  A subscription that cannot be
\* read is reported as missing, which allows the fallback.
PreConsumeFunding(r) ==
    LET n == req[r].amt
        sub == sess[r].funding = "subscription"
    IN  /\ req[r].pc = "fund"
        /\ \/ /\ FundingHas(r, n) /\ StoreCall(r, TRUE)
              /\ MoveFunding(r, n)
              /\ record' = [record EXCEPT ![r] = IF sub THEN "consumed" ELSE @]
              /\ sess' = [sess EXCEPT ![r].consumed = n,
                                      ![r].preConsumedQuota = n]
              /\ Goto(r, req[r].next)
           \/ /\ ~FundingHas(r, n) /\ StoreCall(r, TRUE)
              /\ Goto(r, "undoShort")
              /\ NoMove /\ UNCHANGED <<record, sess>>
           \/ /\ StoreCall(r, FALSE)
              /\ Goto(r, "undo") \/ (sub /\ Goto(r, "undoShort"))
              /\ NoMove /\ UNCHANGED <<record, sess>>
        /\ UNCHANGED <<job, debt>>

\* Mutant: the token's quota is not rolled back.
UndoTokenForgets(r) ==
    /\ req[r].pc \in {"undo", "undoShort"}
    /\ IF req[r].pc = "undo" THEN Reject(r)
                             ELSE Fallback(r, sess[r].funding)
    /\ NoMove /\ NoStoreCall
    /\ UNCHANGED <<record, job, debt>>

\* The funding source refused: give the token its quota back.
UndoToken(r) ==
    /\ req[r].pc \in {"undo", "undoShort"}
    /\ \/ r \in Playground /\ NoMove /\ NoStoreCall
       \/ /\ r \notin Playground /\ StoreCall(r, TRUE)
          /\ MoveToken(r, -sess[r].tokenConsumed)
       \/ r \notin Playground /\ StoreCall(r, FALSE) /\ NoMove
    /\ IF req[r].pc = "undo" THEN Reject(r)
                             ELSE Fallback(r, sess[r].funding)
    /\ UNCHANGED <<record, job, debt>>

(***************************************************************************)
(* The retry loop: reserving more before an attempt, and its outcome.      *)
(***************************************************************************)
\* Reserve(target), continuing at next.  Nothing is done for a trusted
\* session, except of an image, nor for a target that is already covered.
Reserve(r, target, next) ==
    LET n == target - sess[r].preConsumedQuota
    IN  IF (sess[r].trusted /\ r \notin Image) \/ n <= 0
        THEN Goto(r, next)
        ELSE req' = [req EXCEPT ![r].pc = "resFund", ![r].amt = n,
                                ![r].next = next]

\* A session is created late when the first group, or the first estimate,
\* was free.
Prepare(r, target, next) ==
    IF sess[r].funding = "none" THEN BeginSession(r, target, next)
                                ELSE Reserve(r, target, next)

\* getChannel and PrepareTieredBillingForSelectedGroup: no channel or no
\* estimate, a price that does not depend on the group, or the group's estimate.
PrepareTiered(r) ==
    LET handler == IF r \in Image THEN "image" ELSE "sent"
    IN  /\ req[r].pc = "tiered"
        /\ \/ Goto(r, "fail")
           \/ Goto(r, handler)
           \/ \E t \in Quota : Prepare(r, t, handler)
        /\ NoMove /\ NoStoreCall
        /\ UNCHANGED <<record, sess, job, debt>>

\* PrepareImageBillingForRequest, called by the image handler: an invalid
\* count or price, an expression without a count or a free image, or the price
\* of the outbound image count.
PrepareImage(r) ==
    /\ req[r].pc = "image"
    /\ \/ Goto(r, "fail")
       \/ Goto(r, "sent")
       \/ \E t \in Quota : /\ t > 0 \/ sess[r].funding # "none"
                           /\ Prepare(r, t, "sent")
    /\ NoMove /\ NoStoreCall
    /\ UNCHANGED <<record, sess, job, debt>>

\* WalletFunding.PreConsume stores the amount, the top-up of other requests
\* adds to it.
ReservedWallet(r, n) == IF r \in Image THEN n ELSE sess[r].consumed + n

\* reserveFunding: an image needs the balance, any other request may go into
\* debt, a subscription must stay within its total.
ReserveFunding(r) ==
    LET n == req[r].amt
        isWallet == sess[r].funding = "wallet"
        has == IF isWallet THEN r \notin Image \/ WalletHas(n) ELSE SubHas(n)
    IN  /\ req[r].pc = "resFund"
        /\ \/ /\ has /\ StoreCall(r, TRUE)
              /\ MoveFunding(r, n)
              /\ sess' = [sess EXCEPT ![r].consumed =
                              IF isWallet THEN ReservedWallet(r, n) ELSE @]
              /\ Owe(IF isWallet /\ r \notin Image THEN n ELSE 0, 0)
              /\ Goto(r, "resToken")
           \/ /\ ~has /\ StoreCall(r, TRUE)
              /\ Goto(r, "fail") /\ NoMove /\ UNCHANGED <<sess, debt>>
           \/ /\ StoreCall(r, FALSE)
              /\ Goto(r, "fail") /\ NoMove /\ UNCHANGED <<sess, debt>>
        /\ UNCHANGED <<record, job>>

\* reserveToken and the bookkeeping that ends Reserve.
ReserveToken(r) ==
    LET n == req[r].amt
        booked == /\ sess' = [sess EXCEPT ![r].preConsumedQuota = @ + n,
                                          ![r].tokenConsumed = @ + n,
                                          ![r].extraReserved = @ + n,
                                          ![r].trusted =
                                              IF r \in Image THEN FALSE ELSE @]
                  /\ Goto(r, req[r].next)
    IN  /\ req[r].pc = "resToken"
        /\ \/ r \in Playground /\ booked /\ NoMove /\ NoStoreCall /\ Owe(0, 0)
           \/ /\ r \notin Playground /\ TokenHas(n)
              /\ booked /\ MoveToken(r, n) /\ StoreCall(r, TRUE)
              /\ Owe(0, IF TokenUnlimited THEN n ELSE 0)
           \/ /\ r \notin Playground
              /\ \/ ~TokenHas(n) /\ StoreCall(r, TRUE)
                 \/ StoreCall(r, FALSE)
              /\ Goto(r, "resUndo") /\ NoMove /\ Owe(0, 0) /\ UNCHANGED sess
        /\ UNCHANGED <<record, job>>

\* Mutant: the credited top-up stays in consumed.
RollbackKeepsConsumed(r) ==
    /\ req[r].pc = "resUndo"
    /\ \/ StoreCall(r, TRUE) /\ MoveFunding(r, -req[r].amt)
       \/ StoreCall(r, FALSE) /\ NoMove
    /\ Goto(r, "fail")
    /\ UNCHANGED <<record, sess, job, debt>>

\* rollbackFundingReserve: when it fails the hold is only logged.
rollbackFundingReserve(r) ==
    LET n == req[r].amt
    IN  /\ req[r].pc = "resUndo"
        /\ \/ /\ StoreCall(r, TRUE)
              /\ MoveFunding(r, -n)
              /\ sess' = [sess EXCEPT ![r].consumed =
                              IF sess[r].funding = "wallet" THEN @ - n ELSE @]
           \/ StoreCall(r, FALSE) /\ NoMove /\ UNCHANGED sess
        /\ Goto(r, "fail")
        /\ UNCHANGED <<record, job, debt>>

\* The attempt failed: retry on another channel, or give up.
AttemptFails(r) ==
    /\ req[r].pc = "sent"
    /\ \/ /\ req[r].retry < RetryTimes
          /\ req' = [req EXCEPT ![r].pc = "tiered", ![r].retry = @ + 1]
       \/ Goto(r, "fail")
    /\ NoMove /\ NoStoreCall
    /\ UNCHANGED <<record, sess, job, debt>>

(***************************************************************************)
(* Settle.                                                                 *)
(***************************************************************************)
\* PostConsumeQuota(n): charge without a session.
PostConsume(r, n) == req' = [req EXCEPT ![r].pc = "post", ![r].amt = n]

\* The attempt succeeded and SettleBilling(actual) is called.  Without a
\* session the first group was free; the group that served may not be.
AttemptSucceeds(r) ==
    /\ req[r].pc = "sent"
    /\ IF sess[r].funding = "none"
       THEN /\ \/ Goto(r, "end")
               \/ \E actual \in Quota : actual > 0 /\ PostConsume(r, actual)
            /\ UNCHANGED <<paid, sess>>
       ELSE \E actual \in Quota :
              LET delta == actual - sess[r].preConsumedQuota
              IN  /\ paid' = [paid EXCEPT ![r].due = actual]
                  /\ sess' = [sess EXCEPT ![r].settled = (delta = 0)]
                  /\ req' = [req EXCEPT ![r].amt = delta,
                               ![r].pc = IF delta = 0 THEN "end"
                                                      ELSE "setFund"]
    /\ NoStoreCall
    /\ UNCHANGED <<wallet, token, subUsed, record, job, debt>>

\* Mutant: a settlement error fails the request, which is then refunded.
SettleFundingOrFail(r) ==
    LET n == req[r].amt
        has == sess[r].funding = "wallet" \/ SubHas(n)
    IN  /\ req[r].pc = "setFund"
        /\ \/ /\ has /\ StoreCall(r, TRUE)
              /\ MoveFunding(r, n)
              /\ Owe(IF sess[r].funding = "wallet" THEN Positive(n) ELSE 0, 0)
              /\ sess' = [sess EXCEPT ![r].fundingSettled = TRUE,
                                      ![r].settled = (r \in Playground)]
              /\ Goto(r, IF r \in Playground THEN "end" ELSE "setToken")
           \/ /\ \/ ~has /\ StoreCall(r, TRUE)
                 \/ StoreCall(r, FALSE)
              /\ Goto(r, "fail") /\ NoMove /\ UNCHANGED <<sess, debt>>
        /\ UNCHANGED <<record, job>>

\* funding.Settle(delta): on error nothing is marked and the request ends
\* with what was pre-consumed.
SettleFunding(r) ==
    LET n == req[r].amt
        has == sess[r].funding = "wallet" \/ SubHas(n)
    IN  /\ req[r].pc = "setFund"
        /\ \/ /\ has /\ StoreCall(r, TRUE)
              /\ MoveFunding(r, n)
              /\ Owe(IF sess[r].funding = "wallet" THEN Positive(n) ELSE 0, 0)
              /\ sess' = [sess EXCEPT ![r].fundingSettled = TRUE,
                                      ![r].settled = (r \in Playground)]
              /\ Goto(r, IF r \in Playground THEN "end" ELSE "setToken")
           \/ /\ ~has /\ StoreCall(r, TRUE)
              /\ Goto(r, "end") /\ NoMove /\ UNCHANGED <<sess, debt>>
           \/ /\ StoreCall(r, FALSE)
              /\ Goto(r, "end") /\ NoMove /\ UNCHANGED <<sess, debt>>
        /\ UNCHANGED <<record, job>>

\* Mutant: the token is not credited when less was used than reserved.
SettleTokenDebitOnly(r) ==
    /\ req[r].pc = "setToken"
    /\ \/ /\ StoreCall(r, TRUE)
          /\ MoveToken(r, Positive(req[r].amt)) /\ Owe(0, Positive(req[r].amt))
       \/ StoreCall(r, FALSE) /\ NoMove /\ UNCHANGED debt
    /\ sess' = [sess EXCEPT ![r].settled = TRUE]
    /\ Goto(r, "end")
    /\ UNCHANGED <<record, job>>

\* The token follows; its failure is only logged.
SettleToken(r) ==
    /\ req[r].pc = "setToken"
    /\ \/ /\ StoreCall(r, TRUE)
          /\ MoveToken(r, req[r].amt) /\ Owe(0, Positive(req[r].amt))
       \/ StoreCall(r, FALSE) /\ NoMove /\ UNCHANGED debt
    /\ sess' = [sess EXCEPT ![r].settled = TRUE]
    /\ Goto(r, "end")
    /\ UNCHANGED <<record, job>>

(***************************************************************************)
(* Refund.                                                                 *)
(***************************************************************************)
needsRefund(s) ==
    /\ ~s.settled /\ ~s.refunded /\ ~s.fundingSettled
    /\ s.tokenConsumed > 0 \/ (s.funding = "subscription" /\ s.consumed > 0)

\* RefundFailedRequestBilling: start the refund goroutine if there is
\* anything to refund, then charge the violation fee if the error asks for it.
RefundFailedRequest(r) ==
    /\ req[r].pc = "fail"
    /\ IF needsRefund(sess[r])
       THEN /\ sess' = [sess EXCEPT ![r].refunded = TRUE]
            /\ job' = [job EXCEPT ![r].pc = "funding"]
       ELSE UNCHANGED <<sess, job>>
    /\ \/ Goto(r, "end")
       \/ ViolationFee > 0 /\ PostConsume(r, ViolationFee)
    /\ NoMove /\ NoStoreCall
    /\ UNCHANGED <<record, debt>>

\* PostConsumeQuota, of a violation fee or of a request without session: the
\* funding half.  paid does not count it, nothing gives it back.
PostConsumeFunding(r) ==
    LET n == req[r].amt
        sub == sess[r].funding = "subscription"
    IN  /\ req[r].pc = "post"
        /\ \/ /\ ~sub \/ SubHas(n)
              /\ StoreCall(r, TRUE)
              /\ wallet' = IF sub THEN wallet ELSE wallet - n
              /\ subUsed' = IF sub THEN SubAfter(n) ELSE subUsed
              /\ Owe(IF sub THEN 0 ELSE n, 0)
              /\ Goto(r, IF r \in Playground THEN "end" ELSE "postToken")
           \/ /\ \/ sub /\ ~SubHas(n) /\ StoreCall(r, TRUE)
                 \/ StoreCall(r, FALSE)
              /\ Goto(r, "end") /\ UNCHANGED <<wallet, subUsed, debt>>
        /\ UNCHANGED <<token, paid, record, sess, job>>

PostConsumeToken(r) ==
    LET n == req[r].amt
    IN  /\ req[r].pc = "postToken"
        /\ \/ /\ StoreCall(r, TRUE)
              /\ token' = token - n /\ Owe(0, n)
           \/ StoreCall(r, FALSE) /\ UNCHANGED <<token, debt>>
        /\ Goto(r, "end")
        /\ UNCHANGED <<wallet, subUsed, paid, record, sess, job>>

MaxAttempts == 3

JobGoto(r, pc) == job' = [job EXCEPT ![r].pc = pc]

\* Mutant: the attempts are not counted.
RefundForever(r) == JobGoto(r, "funding")

\* refundWithRetry after a failed attempt.
RefundAgain(r) ==
    job' = [job EXCEPT ![r].attempts = @ + 1,
                       ![r].pc = IF job[r].attempts + 1 < MaxAttempts
                                 THEN "funding" ELSE "extra"]

\* WalletFunding.Refund is tried once.
RefundWallet(r) ==
    /\ job[r].pc = "funding" /\ sess[r].funding = "wallet"
    /\ \/ sess[r].consumed = 0 /\ NoStoreCall /\ NoMove
       \/ /\ sess[r].consumed > 0 /\ StoreCall(r, TRUE)
          /\ MoveWallet(r, -sess[r].consumed)
       \/ sess[r].consumed > 0 /\ StoreCall(r, FALSE) /\ NoMove
    /\ JobGoto(r, "token")
    /\ UNCHANGED <<record, req, sess, debt>>

\* RefundSubscriptionPreConsume, up to the nested transaction that credits
\* the subscription.  On SQLite the outer transaction holds the database's
\* only write lock, so the nested one waits for its busy timeout and fails.
RefundSubscription(r) ==
    /\ job[r].pc = "funding" /\ sess[r].funding = "subscription"
    /\ \/ /\ ~SQLite /\ StoreCall(r, TRUE)
          /\ MoveSub(r, -sess[r].consumed)
          /\ JobGoto(r, "record")
       \/ SQLite /\ NoStoreCall /\ NoMove /\ RefundAgain(r)
       \/ StoreCall(r, FALSE) /\ NoMove /\ RefundAgain(r)
    /\ UNCHANGED <<record, req, sess, debt>>

\* Its end: the record is saved as refunded and the outer transaction
\* commits.  The credit is not undone when this fails.
RefundRecord(r) ==
    /\ job[r].pc = "record"
    /\ \/ /\ StoreCall(r, TRUE)
          /\ record' = [record EXCEPT ![r] = "refunded"]
          /\ JobGoto(r, "extra")
       \/ StoreCall(r, FALSE) /\ RefundAgain(r) /\ UNCHANGED record
    /\ NoMove
    /\ UNCHANGED <<req, sess, debt>>

\* What Reserve added to a subscription is not in the record.
RefundExtra(r) ==
    /\ job[r].pc = "extra"
    /\ \/ sess[r].extraReserved = 0 /\ NoStoreCall /\ NoMove
       \/ /\ sess[r].extraReserved > 0 /\ StoreCall(r, TRUE)
          /\ MoveSub(r, -sess[r].extraReserved)
       \/ sess[r].extraReserved > 0 /\ StoreCall(r, FALSE) /\ NoMove
    /\ JobGoto(r, "token")
    /\ UNCHANGED <<record, req, sess, debt>>

\* Mutant: the hold is cleared from the session once it is given back.
RefundTokenResets(r) ==
    /\ job[r].pc = "token" /\ r \notin Playground
    /\ StoreCall(r, TRUE) /\ MoveToken(r, -sess[r].tokenConsumed)
    /\ sess' = [sess EXCEPT ![r].tokenConsumed = 0]
    /\ JobGoto(r, "done")
    /\ UNCHANGED <<record, req, debt>>

\* Then the token's hold.
RefundToken(r) ==
    /\ job[r].pc = "token"
    /\ \/ /\ r \in Playground \/ sess[r].tokenConsumed = 0
          /\ NoStoreCall /\ NoMove
       \/ /\ r \notin Playground /\ sess[r].tokenConsumed > 0
          /\ StoreCall(r, TRUE)
          /\ MoveToken(r, -sess[r].tokenConsumed)
       \/ /\ r \notin Playground /\ sess[r].tokenConsumed > 0
          /\ StoreCall(r, FALSE) /\ NoMove
    /\ JobGoto(r, "done")
    /\ UNCHANGED <<record, req, sess, debt>>

(***************************************************************************)
(* The specification.                                                      *)
(***************************************************************************)
RelayStep(r) ==
    \/ TokenAuth(r) \/ PrepareRequestBilling(r)
    \/ tryWallet(r) \/ trySubscription(r)
    \/ PreConsumeToken(r) \/ PreConsumeFunding(r) \/ UndoToken(r)
    \/ PrepareTiered(r) \/ PrepareImage(r)
    \/ ReserveFunding(r) \/ ReserveToken(r) \/ rollbackFundingReserve(r)
    \/ AttemptFails(r) \/ AttemptSucceeds(r)
    \/ SettleFunding(r) \/ SettleToken(r)
    \/ RefundFailedRequest(r)
    \/ PostConsumeFunding(r) \/ PostConsumeToken(r)

RefundStep(r) ==
    \/ RefundWallet(r) \/ RefundSubscription(r) \/ RefundRecord(r)
    \/ RefundExtra(r) \/ RefundToken(r)

Finished(r) == req[r].pc = "end" /\ job[r].pc \in {"none", "done"}

\* All requests are served: the model, not the server, stops here.
Terminating == (\A r \in Request : Finished(r)) /\ UNCHANGED vars

Next == (\E r \in Request : RelayStep(r) \/ RefundStep(r)) \/ Terminating

Spec == Init /\ [][Next]_vars

\* The Go scheduler runs every goroutine that is able to run, the handler's
\* as well as the one gopool starts for the refund.
FairSpec ==
    Spec /\ \A r \in Request : WF_vars(RelayStep(r)) /\ WF_vars(RefundStep(r))

(***************************************************************************)
(* Properties.                                                             *)
(***************************************************************************)
Returned(r) == paid[r].wallet = 0 /\ paid[r].sub = 0 /\ paid[r].token = 0

Failed(r) == Finished(r) /\ paid[r].due = -1

\* "Refund returns all pre-consumed quota" (billing_session.go:83): once a
\* request that was not served is over, its refund goroutine included, nothing
\* is held for it any more, whatever the retries reserved on the way, as long
\* as no store call failed.
RefundReturnsEveryHold ==
    \A r \in Request : Failed(r) /\ r \notin faulted => Returned(r)

\* The same for what the code gets right: requests that are not images, and
\* subscriptions on a database whose nested transaction can run.
RefundReturnsAll ==
    \A r \in Request \ Image :
        /\ Failed(r) /\ r \notin faulted
        /\ ~(SQLite /\ sess[r].funding = "subscription")
        => Returned(r)

\* A request that was served pays its actual quota, from one source and from
\* the token, however much was reserved for it before (Settle's delta).  Only
\* a subscription that cannot take the difference keeps what was reserved.
ServedPaysActual ==
    \A r \in Request :
        LET due == paid[r].due
            token_ == IF r \in Playground THEN 0 ELSE due
        IN  (Finished(r) /\ due >= 0 /\ r \notin faulted) =>
              IF sess[r].settled
              THEN /\ paid[r].token = token_
                   /\ paid[r].wallet + paid[r].sub = due
                   /\ paid[r].wallet = 0 \/ paid[r].sub = 0
              ELSE /\ sess[r].funding = "subscription"
                   /\ paid[r].wallet = 0
                   /\ paid[r].sub = sess[r].preConsumedQuota
                   /\ due > paid[r].sub

\* "RefundSubscriptionPreConsume is idempotent" (model/subscription.go:1401),
\* which is why refundWithRetry may repeat it: however often it is retried,
\* the subscription is credited no more than it was charged for the request.
SubscriptionRefundedOnce == \A r \in Request : paid[r].sub >= 0

\* No interleaving of rollbacks, settlements, refunds and failing store calls
\* gives a request back more than was taken for it: the wallet refund is not
\* idempotent and must run once, the subscription's is retried and is exact
\* only while its record can be saved.
NeverOverRefunded ==
    \A r \in Request :
        /\ paid[r].wallet >= 0
        /\ paid[r].token >= 0
        /\ r \notin faulted => paid[r].sub >= 0

\* Concurrent reservations never overdraw: a balance is negative by no more
\* than what was taken without looking at it (settlements, the top-up of a
\* running request, PostConsumeQuota), and a subscription stays within its total.
NoOverdraft ==
    /\ wallet + debt.wallet >= 0
    /\ token + debt.token >= 0
    /\ SubTotal > 0 => subUsed <= SubTotal

\* The refund goroutine never runs for a request that was served, nor next to
\* a funding source that was settled (fundingSettled's purpose in Settle).
NeverRefundServed ==
    \A r \in Request :
        job[r].pc # "none" =>
            /\ paid[r].due = -1
            /\ ~sess[r].fundingSettled
            /\ ~sess[r].settled

\* A refund in progress works on a frozen session: while the goroutine runs,
\* the handler, which goes on to charge the violation fee, changes nothing the
\* goroutine reads (Refund copies its values after unlocking the session).
RefundSeesFrozenSession ==
    [][\A r \in Request : sess[r].refunded => sess'[r] = sess[r]]_sess

\* Every request ends, and so does its refund goroutine: retries, fallbacks
\* and refund attempts are all bounded.
EveryRequestFinishes == \A r \in Request : <>Finished(r)
=============================================================================
