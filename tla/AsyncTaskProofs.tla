-------------------------- MODULE AsyncTaskProofs --------------------------
(***************************************************************************)
(* Proofs about AsyncTask for any number of passes, any prices and any     *)
(* number of failures: only one pass ever bills a task, the row tells what *)
(* the user pays, and the passes implement Escrow.                         *)
(***************************************************************************)
EXTENDS AsyncTask, TLAPS

-----------------------------------------------------------------------------
(***************************************************************************)
(* The inductive invariant.                                                *)
(***************************************************************************)

Charging == {"adjust", "mark"}
Copying == {"fetch", "write"}

\* The count of failed polls stays below the limit until the task ends.
Within(r) == r.status \in Final \/ MaxFailures = 0 \/ r.failures < MaxFailures

\* The row exists once the submission has recorded it; before, nobody works.
Recorded ==
    /\ row.status = "none" <=> sub.stage \in {"reserved", "dropped"}
    /\ row.status = "none" => \A w \in Poller : worker[w].pc = "idle"

\* A pass works on a copy it read while the task was unfinished, at the price
\* the submission recorded.
CopyOK(x) ==
    /\ row.status # "none"
    /\ x.from \in Status \ Final
    /\ x.new.status \in Status
    /\ Within(x.new)
    /\ x.pc = "fetch" =>
          /\ x.by = "poll"
          /\ x.new.status \notin Final
          /\ x.new.quota = sub.quota
    /\ x.pc = "write" =>
          /\ x.by # "fetch"
          /\ x.by \in {"sweep", "fail"} => x.new.status = "FAILURE"
          /\ IF x.by = "sweep" /\ kind.age = "legacy"
             THEN x.new.quota = 0
             ELSE x.new.quota = sub.quota

Copies == \A w \in Poller : worker[w].pc \in Copying => CopyOK(worker[w])

\* Only the pass that ended the task bills it.
OneBiller ==
    /\ \A w \in Poller : worker[w].pc \in Charging => row.status \in Final
    /\ \A v, w \in Poller :
          worker[v].pc \in Charging /\ worker[w].pc \in Charging => v = w

\* The price is the recorded one until the money has moved, then the target.
BillOK(x) ==
    /\ x.target \in Amounts \cup {0}
    /\ x.pc = "adjust" =>
          /\ x.new.quota = sub.quota
          /\ row.quota = sub.quota
          /\ Price = sub.quota
    /\ x.pc = "mark" => Price = x.target
    /\ \/ row.status # "FAILURE"
       \/ kind.billing = "usage"
       \/ spoiled # {}
       \/ x.target = 0

Billed == \A w \in Poller : worker[w].pc \in Charging => BillOK(worker[w])

Open ==
    row.status \in Status \ Final => row.quota = sub.quota /\ Price = sub.quota

Priced ==
    /\ Price \in Nat
    /\ sub.quota \in Amounts \cup {0}
    /\ sub.stage \in {"reserved", "dropped"} => Price = 0 /\ sub.quota = 0
    /\ sub.stage = "reserved" => paid = Hold

IInv ==
    /\ TypeOK
    /\ Within(row)
    /\ Recorded
    /\ Copies
    /\ OneBiller
    /\ Billed
    /\ Open
    /\ Priced
    /\ RowTellsThePrice
    /\ FailedIsRefunded

USE AsyncTaskAssumption

-----------------------------------------------------------------------------
(***************************************************************************)
(* Prices.                                                                 *)
(***************************************************************************)

\* What the task costs, by the stage of its submission.
LEMMA PriceByStage ==
    /\ sub.stage = "reserved" => Price = paid - Hold
    /\ sub.stage \in {"settling", "unsettled"} =>
          Price = paid - (Hold - sub.quota)
    /\ sub.stage \in {"dropped", "settled"} => Price = paid - 0
<1>1. ASSUME sub.stage = "reserved" PROVE Excess = Hold
    BY <1>1 DEF Excess
<1>2. ASSUME sub.stage \in {"settling", "unsettled"}
      PROVE  Excess = Hold - sub.quota
    BY <1>2 DEF Excess
<1>3. ASSUME sub.stage \in {"dropped", "settled"} PROVE Excess = 0
    BY <1>3 DEF Excess
<1> QED BY <1>1, <1>2, <1>3 DEF Price

\* The price moves only with the money.
LEMMA PriceStays ==
    ASSUME sub' = sub, paid' = paid
    PROVE  Price' = Price
BY DEF Price, Excess

\* And as far as the money does.
LEMMA PriceMoves ==
    ASSUME TypeOK, sub' = sub, NEW d \in Int, paid' = paid + d
    PROVE  Price' = Price + d
<1>1. sub.stage \in {"reserved", "dropped", "settling", "settled",
                     "unsettled"}
      /\ sub.quota \in Nat /\ paid \in Int
    BY DEF TypeOK
<1>2. Excess' = Excess
    BY DEF Excess
<1>3. Excess \in Int
    BY <1>1 DEF Excess
<1> QED BY <1>1, <1>2, <1>3 DEF Price

-----------------------------------------------------------------------------
(***************************************************************************)
(* Replacing the record of one pass.                                       *)
(***************************************************************************)

\* A pass whose position is replaced; the other passes stay.
LEMMA Replaced ==
    ASSUME TypeOK, NEW w \in Poller, NEW x \in Worker,
           worker' = [worker EXCEPT ![w] = x]
    PROVE  /\ worker' \in [Poller \cup Fetcher -> Worker]
           /\ worker'[w] = x
           /\ \A v \in Poller : v # w => worker'[v] = worker[v]
BY DEF TypeOK

\* An idle pass is one.
LEMMA IdleTyped == Idle \in Worker /\ Idle.pc = "idle"
<1>1. 0 \in 0 .. MaxFailures
    OBVIOUS
<1> QED BY <1>1 DEF Idle, Worker, Row, Status, Final

\* A step of one pass that leaves the row and the money alone, and does not
\* leave the pass billing.
LEMMA QuietStep ==
    ASSUME IInv, NEW w \in Poller, NEW x \in Worker,
           worker' = [worker EXCEPT ![w] = x],
           x.pc \notin Charging,
           x.pc \in Copying => CopyOK(x),
           row.status # "none",
           worker[w].pc = "adjust" => spoiled' # {},
           worker[w].pc = "mark" => spoiled' \cap {"mark", "crash"} # {},
           spoiled \subseteq spoiled',
           spoiled' \subseteq {"bulk", "legacy", "funding", "mark", "crash"},
           faults' \in 0 .. MaxFaults, crashes' \in 0 .. MaxCrashes,
           UNCHANGED <<kind, row, sub, paid, up, late>>
    PROVE  IInv'
<1>1. /\ worker' \in [Poller \cup Fetcher -> Worker]
      /\ worker'[w] = x
      /\ \A v \in Poller : v # w => worker'[v] = worker[v]
    BY Replaced DEF IInv
<1>2. Price' = Price
    BY PriceStays
<1>3. TypeOK'
    BY <1>1 DEF IInv, TypeOK
<1>4. Within(row)' /\ Recorded'
    BY <1>1 DEF IInv, Within, Recorded
<1>5. Copies'
  <2> SUFFICES ASSUME NEW v \in Poller, worker'[v].pc \in Copying
               PROVE  CopyOK(worker[v])'
    BY DEF Copies
  <2>1. CopyOK(worker'[v])
    BY <1>1 DEF IInv, Copies
  <2> QED BY <2>1 DEF CopyOK, Within
<1>6. OneBiller'
    BY <1>1 DEF IInv, OneBiller
<1>7. Billed'
  <2> SUFFICES ASSUME NEW v \in Poller, worker'[v].pc \in Charging
               PROVE  BillOK(worker[v])'
    BY DEF Billed
  <2>1. v # w /\ worker'[v] = worker[v]
    BY <1>1
  <2>2. BillOK(worker[v])
    BY <2>1 DEF IInv, Billed
  <2> QED BY <1>2, <2>1, <2>2 DEF BillOK
<1>8. Open' /\ Priced'
    BY <1>2 DEF IInv, Open, Priced
<1>9. RowTellsThePrice'
  <2>1. CASE sub.stage \in {"reserved", "dropped"}
    BY <2>1 DEF RowTellsThePrice
  <2>2. CASE \E v \in Poller : worker[v].pc = "mark"
    BY <1>1, <2>2 DEF RowTellsThePrice
  <2>3. CASE spoiled \cap {"legacy", "mark", "crash"} # {}
    BY <2>3 DEF RowTellsThePrice
  <2>4. CASE Price = row.quota
    BY <1>2, <2>4 DEF RowTellsThePrice
  <2> QED BY <2>1, <2>2, <2>3, <2>4 DEF IInv, RowTellsThePrice
<1>10. FailedIsRefunded'
  <2>1. CASE row.status # "FAILURE" \/ kind.billing = "usage"
    BY <2>1 DEF FailedIsRefunded
  <2>2. CASE \E v \in Poller : worker[v].pc \in {"adjust", "mark"}
    BY <1>1, <2>2 DEF FailedIsRefunded
  <2>3. CASE spoiled # {}
    BY <2>3 DEF FailedIsRefunded
  <2>4. CASE Price = 0
    BY <1>2, <2>4 DEF FailedIsRefunded
  <2> QED BY <2>1, <2>2, <2>3, <2>4 DEF IInv, FailedIsRefunded
<1> QED BY <1>3, <1>4, <1>5, <1>6, <1>7, <1>8, <1>9, <1>10 DEF IInv

\* After(w) is idle or about to list.
LEMMA AfterQuiet ==
    ASSUME IInv, NEW w \in Poller
    PROVE  \E x \in Worker : /\ After(w) = [worker EXCEPT ![w] = x]
                             /\ x.pc \in {"idle", "list"}
<1>1. worker[w] \in Worker
    BY DEF IInv, TypeOK
<1>2. CASE worker[w].by = "sweep"
  <2> DEFINE x == [worker[w] EXCEPT !.pc = "list"]
  <2>1. x \in Worker /\ x.pc = "list"
    BY <1>1 DEF Worker
  <2>2. After(w) = [worker EXCEPT ![w] = x]
    BY <1>2 DEF After, Goto
  <2> QED BY <2>1, <2>2
<1>3. CASE worker[w].by # "sweep"
    BY <1>3, IdleTyped DEF After
<1> QED BY <1>2, <1>3

\* A pass that is done with the task, or has lost it.
LEMMA AfterKeepsInvariant ==
    ASSUME IInv, NEW w \in Poller, worker' = After(w),
           row.status # "none",
           worker[w].pc = "adjust" => spoiled' # {},
           worker[w].pc = "mark" => spoiled' \cap {"mark", "crash"} # {},
           spoiled \subseteq spoiled',
           spoiled' \subseteq {"bulk", "legacy", "funding", "mark", "crash"},
           faults' \in 0 .. MaxFaults, crashes' \in 0 .. MaxCrashes,
           UNCHANGED <<kind, row, sub, paid, up, late>>
    PROVE  IInv'
<1>1. PICK x \in Worker : /\ worker' = [worker EXCEPT ![w] = x]
                          /\ x.pc \in {"idle", "list"}
    BY AfterQuiet
<1>2. x.pc \notin Charging /\ x.pc \notin Copying
    BY <1>1 DEF Charging, Copying
<1> QED BY <1>1, <1>2, QuietStep

\* A pass works on a task that is recorded.
LEMMA Busy ==
    ASSUME IInv, NEW w \in Poller, worker[w].pc # "idle"
    PROVE  row.status # "none"
BY DEF IInv, Recorded

\* Failing statements are counted.
LEMMA FaultTyped ==
    ASSUME TypeOK, Fault PROVE faults' \in 0 .. MaxFaults
BY DEF TypeOK, Fault

-----------------------------------------------------------------------------
(***************************************************************************)
(* The invariant holds initially and is preserved by the submission and    *)
(* the environment.                                                        *)
(***************************************************************************)

\* The invariant holds at first.
LEMMA InvariantInitially == Init => IInv
<1> SUFFICES ASSUME Init PROVE IInv
    OBVIOUS
<1> USE DEF Init
<1>1. \A w \in Poller : worker[w] = Idle /\ worker[w].pc = "idle"
    BY IdleTyped
<1>2. 0 \in 0 .. MaxFailures /\ 0 \in 0 .. MaxFaults /\ 0 \in 0 .. MaxCrashes
    OBVIOUS
<1>3. TypeOK
  <2>1. row \in Row
    BY <1>2 DEF Row
  <2>2. worker \in [Poller \cup Fetcher -> Worker]
    BY IdleTyped
  <2> QED BY <1>2, <2>1, <2>2 DEF TypeOK, Status, Final
<1>4. Price = 0
    BY PriceByStage
<1>5. Within(row) /\ Recorded
    BY <1>1 DEF Within, Recorded, Final
<1>6. Copies /\ OneBiller /\ Billed
    BY <1>1 DEF Copies, OneBiller, Billed, Copying, Charging
<1>7. Open /\ Priced
    BY <1>4 DEF Open, Priced, Status, Final
<1>8. RowTellsThePrice /\ FailedIsRefunded
    BY DEF RowTellsThePrice, FailedIsRefunded
<1> QED BY <1>3, <1>5, <1>6, <1>7, <1>8 DEF IInv

\* A step at which every pass is idle, before and after.
LEMMA NobodyWorks ==
    ASSUME TypeOK, worker' = worker, \A w \in Poller : worker[w].pc = "idle"
    PROVE  Copies' /\ OneBiller' /\ Billed'
BY DEF Copies, OneBiller, Billed, Copying, Charging

\* The task is recorded.
LEMMA InsertKeepsInvariant == IInv /\ Insert => IInv'
<1> SUFFICES ASSUME IInv, Insert PROVE IInv'
    OBVIOUS
<1>1. PICK q \in Amounts \cup {0}, s \in Status,
           p \in Progress \cup {"part"} :
        /\ q <= Hold
        /\ s = "FAILURE" => q = 0
        /\ row' = [status |-> s, progress |-> p, quota |-> q, failures |-> 0]
        /\ sub' = [stage |-> "settling", quota |-> q]
        /\ up' = IF s \in Final THEN s ELSE up
    BY DEF Insert
<1>2. /\ sub.stage = "reserved" /\ row.status = "none"
      /\ \A w \in Poller : worker[w].pc = "idle"
    BY DEF Insert, IInv, Recorded
<1>3. UNCHANGED <<kind, paid, late, worker, faults, crashes, spoiled>>
    BY DEF Insert
<1>4. q \in Nat
    OBVIOUS
<1>5. TypeOK'
  <2>1. row' \in Row
    BY <1>1, <1>4 DEF Row
  <2>2. up' \in Status \ {"NOT_START"}
    BY <1>1 DEF IInv, TypeOK, Status, Final
  <2> QED BY <1>1, <1>3, <1>4, <2>1, <2>2 DEF IInv, TypeOK
<1>6. Price' = q
  <2>1. paid = Hold
    BY <1>2 DEF IInv, Priced
  <2>2. Price' = paid' - (Hold - sub.quota')
    BY <1>1 DEF Price, Excess
  <2> QED BY <1>1, <1>3, <1>4, <2>1, <2>2
<1>7. Within(row)' /\ Recorded'
    BY <1>1, <1>2 DEF Within, Recorded, Status, Final
<1>8. Copies' /\ OneBiller' /\ Billed'
    BY <1>2, <1>3, NobodyWorks DEF IInv
<1>9. Open' /\ Priced'
    BY <1>1, <1>4, <1>6 DEF Open, Priced
<1>10. RowTellsThePrice' /\ FailedIsRefunded'
    BY <1>1, <1>6 DEF RowTellsThePrice, FailedIsRefunded
<1> QED BY <1>5, <1>7, <1>8, <1>9, <1>10 DEF IInv

\* It is not, and its hold is given back.
LEMMA InsertFailsKeepsInvariant == IInv /\ InsertFails => IInv'
<1> SUFFICES ASSUME IInv, InsertFails PROVE IInv'
    OBVIOUS
<1>1. /\ sub.stage = "reserved" /\ row.status = "none"
      /\ \A w \in Poller : worker[w].pc = "idle"
      /\ sub.quota = 0
    BY DEF InsertFails, IInv, Recorded, Priced
<1>2. /\ sub' = [sub EXCEPT !.stage = "dropped"] /\ paid' = 0
      /\ UNCHANGED <<kind, row, up, late, worker, faults, crashes, spoiled>>
    BY DEF InsertFails
<1>3. sub'.stage = "dropped" /\ sub'.quota = 0
    BY <1>1, <1>2 DEF IInv, TypeOK
<1>4. TypeOK'
    BY <1>2 DEF IInv, TypeOK
<1>5. Price' = 0
  <2>1. Price' = paid' - 0
    BY <1>3 DEF Price, Excess
  <2> QED BY <1>2, <2>1
<1>6. Within(row)' /\ Recorded'
    BY <1>1, <1>2, <1>3 DEF IInv, Within, Recorded
<1>7. Copies' /\ OneBiller' /\ Billed'
    BY <1>1, <1>2, NobodyWorks DEF IInv
<1>8. Open' /\ Priced'
    BY <1>1, <1>2, <1>3, <1>5 DEF IInv, Open, Priced, Status, Final
<1>9. RowTellsThePrice' /\ FailedIsRefunded'
    BY <1>1, <1>2, <1>3 DEF RowTellsThePrice, FailedIsRefunded
<1> QED BY <1>4, <1>6, <1>7, <1>8, <1>9 DEF IInv

\* The submission is settled.
LEMMA SettleKeepsInvariant == IInv /\ SettleSubmission => IInv'
<1> SUFFICES ASSUME IInv, SettleSubmission PROVE IInv'
    OBVIOUS
<1>1. /\ sub.stage = "settling"
      /\ sub' \in {[sub EXCEPT !.stage = "settled"],
                   [sub EXCEPT !.stage = "unsettled"]}
      /\ UNCHANGED <<kind, row, up, late, worker, crashes, spoiled>>
    BY DEF SettleSubmission
<1>2. /\ sub'.stage \in {"settled", "unsettled"} /\ sub'.quota = sub.quota
      /\ row.status # "none"
      /\ sub.quota \in Nat /\ paid \in Int
    BY <1>1 DEF IInv, TypeOK, Recorded
<1>3. /\ faults' \in 0 .. MaxFaults /\ paid' \in Int
      /\ Price' = Price
  <2>1. Price = paid - (Hold - sub.quota)
    BY <1>1, PriceByStage
  <2>2. CASE sub' = [sub EXCEPT !.stage = "settled"]
             /\ paid' = paid - (Hold - sub.quota) /\ UNCHANGED faults
    <3>1. sub'.stage = "settled"
        BY <2>2 DEF IInv, TypeOK
    <3>2. Price' = paid' - 0
        BY <3>1 DEF Price, Excess
    <3> QED BY <1>2, <2>1, <2>2, <3>2 DEF IInv, TypeOK
  <2>3. CASE Fault /\ sub' = [sub EXCEPT !.stage = "unsettled"]
             /\ UNCHANGED paid
    <3>1. sub'.stage = "unsettled"
        BY <2>3 DEF IInv, TypeOK
    <3>2. Price' = paid' - (Hold - sub'.quota)
        BY <3>1 DEF Price, Excess
    <3> QED BY <1>2, <2>1, <2>3, <3>2, FaultTyped DEF IInv
  <2> QED BY <2>2, <2>3 DEF SettleSubmission
<1>4. TypeOK'
    BY <1>1, <1>3 DEF IInv, TypeOK
<1>5. Within(row)' /\ Recorded'
    BY <1>1, <1>2 DEF IInv, Within, Recorded
<1>6. Copies' /\ OneBiller'
    BY <1>1, <1>2 DEF IInv, Copies, CopyOK, Within, OneBiller
<1>7. Billed'
    BY <1>1, <1>2, <1>3 DEF IInv, Billed, BillOK
<1>8. Open' /\ Priced'
    BY <1>1, <1>2, <1>3 DEF IInv, Open, Priced
<1>9. RowTellsThePrice' /\ FailedIsRefunded'
    BY <1>1, <1>3 DEF IInv, RowTellsThePrice, FailedIsRefunded
<1> QED BY <1>4, <1>5, <1>6, <1>7, <1>8, <1>9 DEF IInv

\* The upstream service and the clock: nothing the invariant is about.
LEMMA EnvironmentKeepsInvariant ==
    ASSUME IInv,
           up' \in Status \ {"NOT_START"}, late' \in {"no", "yes"},
           UNCHANGED <<kind, row, sub, paid, worker, faults, crashes, spoiled>>
    PROVE  IInv'
<1>1. Price' = Price
    BY PriceStays
<1>2. TypeOK'
    BY DEF IInv, TypeOK
<1>3. Within(row)' /\ Recorded' /\ Copies' /\ OneBiller'
    BY DEF IInv, Within, Recorded, Copies, CopyOK, OneBiller
<1>4. Billed' /\ Open' /\ Priced'
    BY <1>1 DEF IInv, Billed, BillOK, Open, Priced
<1>5. RowTellsThePrice' /\ FailedIsRefunded'
    BY <1>1 DEF IInv, RowTellsThePrice, FailedIsRefunded
<1> QED BY <1>2, <1>3, <1>4, <1>5 DEF IInv

-----------------------------------------------------------------------------
(***************************************************************************)
(* A pass reads, asks and loses.                                           *)
(***************************************************************************)

\* The copy a pass lists.
LEMMA ListedIsCopy ==
    ASSUME IInv, Unfinished(row)
    PROVE  \A w \in Poller : \E x \in Worker :
              /\ Listed(w) = [worker EXCEPT ![w] = x]
              /\ x.pc = "fetch" /\ CopyOK(x)
<1> SUFFICES ASSUME NEW w \in Poller
             PROVE  \E x \in Worker :
                      /\ Listed(w) = [worker EXCEPT ![w] = x]
                      /\ x.pc = "fetch" /\ CopyOK(x)
    OBVIOUS
<1> DEFINE x == [Idle EXCEPT !.pc = "fetch", !.from = row.status,
                             !.new = row]
<1>1. row \in Row /\ row.status \in Status \ Final
    BY DEF Unfinished, IInv, TypeOK, Row, Status, Final
<1>2. /\ x \in Worker
      /\ x.pc = "fetch" /\ x.by = "poll" /\ x.from = row.status /\ x.new = row
    BY <1>1, IdleTyped DEF Idle, Worker
<1>3. CopyOK(x)
    BY <1>1, <1>2 DEF CopyOK, IInv, Open, Status, Final
<1> QED BY <1>2, <1>3 DEF Listed

\* A failed row keeps its quota.
LEMMA FailedTyped ==
    ASSUME NEW r \in Row
    PROVE  /\ Failed(r) \in Row /\ Failed(r).status = "FAILURE"
           /\ Failed(r).quota = r.quota
BY DEF Failed, Row, Status, Final

\* What the timeout sweep is to write is a copy of an unfinished row.
LEMMA SweptIsCopy ==
    ASSUME IInv, Unfinished(row),
           NEW x, x = [Idle EXCEPT !.pc = "write", !.by = "sweep",
                                   !.from = row.status, !.new = Swept(row)]
    PROVE  x \in Worker /\ x.pc = "write" /\ CopyOK(x)
<1>1. row \in Row /\ row.status \in Status \ Final /\ row.quota = sub.quota
    BY DEF Unfinished, IInv, TypeOK, Row, Status, Final, Open
<1>2. /\ Swept(row) \in Row /\ Swept(row).status = "FAILURE"
      /\ Swept(row).quota = IF kind.age = "legacy" THEN 0 ELSE row.quota
    BY <1>1, FailedTyped DEF Swept, Row
<1>3. /\ x \in Worker
      /\ x.pc = "write" /\ x.by = "sweep" /\ x.from = row.status
      /\ x.new = Swept(row)
    BY <1>1, <1>2, IdleTyped DEF Idle, Worker
<1>4. CopyOK(x)
    BY <1>1, <1>2, <1>3 DEF CopyOK, Within, Status, Final
<1> QED BY <1>3, <1>4

\* The timeout sweep.
LEMMA PassKeepsInvariant ==
    ASSUME IInv, NEW w \in Poller, Pass(w) PROVE IInv'
<1>1. /\ Unfinished(row) /\ worker[w].pc = "idle" /\ row.status # "none"
      /\ UNCHANGED <<kind, row, sub, paid, up, late, faults, crashes, spoiled>>
    BY DEF Pass, Unfinished
<1>2. \E x \in Worker : /\ worker' = [worker EXCEPT ![w] = x]
                        /\ x.pc \in Copying /\ CopyOK(x)
  <2>1. CASE late = "yes"
    BY <1>1, <2>1, SweptIsCopy DEF Pass, Copying
  <2>2. CASE late # "yes"
    BY <1>1, <2>2, ListedIsCopy DEF Pass, Copying
  <2> QED BY <2>1, <2>2
<1>3. PICK x \in Worker : /\ worker' = [worker EXCEPT ![w] = x]
                          /\ x.pc \in Copying /\ CopyOK(x)
    BY <1>2
<1>4. x.pc \notin Charging
    BY <1>3 DEF Copying, Charging
<1>5. spoiled' \subseteq {"bulk", "legacy", "funding", "mark", "crash"}
      /\ faults' \in 0 .. MaxFaults /\ crashes' \in 0 .. MaxCrashes
    BY <1>1 DEF IInv, TypeOK
<1> QED BY <1>1, <1>3, <1>4, <1>5, QuietStep

\* Listing the unfinished tasks.
LEMMA ListKeepsInvariant ==
    ASSUME IInv, NEW w \in Poller, List(w) PROVE IInv'
<1>1. /\ worker[w].pc = "list" /\ row.status # "none"
      /\ UNCHANGED <<kind, row, sub, paid, up, late, faults, crashes, spoiled>>
    BY Busy DEF List
<1>2. \E x \in Worker : /\ worker' = [worker EXCEPT ![w] = x]
                        /\ x.pc \in Copying \cup {"idle"}
                        /\ x.pc \in Copying => CopyOK(x)
  <2>1. CASE Unfinished(row)
    BY <2>1, ListedIsCopy DEF List, Copying
  <2>2. CASE ~Unfinished(row)
    BY <2>2, IdleTyped DEF List, Copying
  <2> QED BY <2>1, <2>2
<1>3. PICK x \in Worker : /\ worker' = [worker EXCEPT ![w] = x]
                          /\ x.pc \in Copying \cup {"idle"}
                          /\ x.pc \in Copying => CopyOK(x)
    BY <1>2
<1>4. x.pc \notin Charging
    BY <1>3 DEF Copying, Charging
<1>5. spoiled' \subseteq {"bulk", "legacy", "funding", "mark", "crash"}
      /\ faults' \in 0 .. MaxFaults /\ crashes' \in 0 .. MaxCrashes
    BY <1>1 DEF IInv, TypeOK
<1> QED BY <1>1, <1>3, <1>4, <1>5, QuietStep

\* What an answer makes of a copy.
LEMMA AnswerIsCopy ==
    ASSUME IInv, NEW r \in Row, Within(r), r.status \in Status \ Final,
           NEW a \in Answers(r)
    PROVE  /\ a.new \in Row /\ a.new.status \in Status
           /\ a.new.quota = r.quota
           /\ a.by \in {"poll", "fail"}
           /\ a.by = "fail" => a.new.status = "FAILURE"
           /\ Within(a.new)
<1>1. up \in Status
    BY DEF IInv, TypeOK
<1>2. ASSUME NEW p \in Progress,
             a = [by |-> "poll",
                  new |-> IF up \in Final
                          THEN [r EXCEPT !.status = up, !.progress = "100%"]
                          ELSE [r EXCEPT !.status = up, !.progress = p,
                                         !.failures = 0]]
      PROVE  /\ a.new \in Row /\ a.new.status = up /\ a.new.quota = r.quota
             /\ a.by = "poll" /\ Within(a.new)
  <2>1. CASE up \in Final
    <3>1. a.new = [r EXCEPT !.status = up, !.progress = "100%"]
        BY <1>2, <2>1
    <3> QED BY <1>1, <1>2, <2>1, <3>1 DEF Row, Within
  <2>2. CASE up \notin Final
    <3>1. a.new = [r EXCEPT !.status = up, !.progress = p, !.failures = 0]
        BY <1>2, <2>2
    <3>2. p \in {"part", "100%"} /\ 0 \in 0 .. MaxFailures
        OBVIOUS
    <3>3. a.new \in Row /\ a.new.status = up /\ a.new.quota = r.quota
          /\ a.new.failures = 0
        BY <1>1, <3>1, <3>2 DEF Row
    <3> QED BY <1>2, <3>3 DEF Within
  <2> QED BY <2>1, <2>2
<1>3. ASSUME a = recordPollFailure(r)
      PROVE  /\ a.new \in Row /\ a.new.status \in Status
             /\ a.new.quota = r.quota
             /\ a.by \in {"poll", "fail"}
             /\ a.by = "fail" => a.new.status = "FAILURE"
             /\ Within(a.new)
  <2> DEFINE counted == [r EXCEPT !.failures = @ + 1]
  <2>1. CASE MaxFailures = 0
    <3>1. a = [by |-> "poll", new |-> r]
        BY <1>3, <2>1 DEF recordPollFailure
    <3> QED BY <3>1
  <2>2. CASE MaxFailures # 0
    <3>1. r.failures < MaxFailures /\ r.failures + 1 \in 0 .. MaxFailures
        BY <2>2 DEF Within, Row
    <3>2. /\ counted \in Row /\ counted.status = r.status
          /\ counted.quota = r.quota /\ counted.failures = r.failures + 1
        BY <3>1 DEF Row
    <3>3. CASE r.failures + 1 >= MaxFailures
      <4>1. a = [by |-> "fail", new |-> Failed(counted)]
          BY <1>3, <2>2, <3>3 DEF recordPollFailure
      <4> QED BY <3>2, <4>1, FailedTyped DEF Within, Status, Final
    <3>4. CASE ~(r.failures + 1 >= MaxFailures)
      <4>1. a = [by |-> "poll", new |-> counted]
          BY <1>3, <2>2, <3>4 DEF recordPollFailure
      <4>2. counted.failures < MaxFailures
          BY <3>1, <3>2, <3>4
      <4> QED BY <3>2, <4>1, <4>2 DEF Within
    <3> QED BY <3>3, <3>4
  <2> QED BY <2>1, <2>2
<1>4. ASSUME a = [by |-> "fail", new |-> Failed(r)]
      PROVE  /\ a.new \in Row /\ a.new.status = "FAILURE"
             /\ a.new.quota = r.quota /\ a.by = "fail" /\ Within(a.new)
    BY <1>4, FailedTyped DEF Within, Final
<1> QED BY <1>1, <1>2, <1>3, <1>4 DEF Answers, Status, Final

\* The answer of the upstream.
LEMMA AnswerKeepsInvariant ==
    ASSUME IInv, NEW w \in Poller, Answer(w) PROVE IInv'
<1>1. /\ worker[w].pc = "fetch" /\ row.status # "none"
      /\ UNCHANGED <<kind, row, sub, paid, up, late, faults, crashes, spoiled>>
    BY Busy DEF Answer
<1>2. worker[w] \in Worker /\ worker[w].new \in Row /\ CopyOK(worker[w])
    BY <1>1 DEF IInv, TypeOK, Worker, Copies, Copying
<1>3. spoiled' \subseteq {"bulk", "legacy", "funding", "mark", "crash"}
      /\ faults' \in 0 .. MaxFaults /\ crashes' \in 0 .. MaxCrashes
    BY <1>1 DEF IInv, TypeOK
<1>4. CASE \E a \in Answers(worker[w].new) :
              worker' = [worker EXCEPT ![w].pc = "write", ![w].by = a.by,
                                       ![w].new = a.new]
  <2>1. PICK a \in Answers(worker[w].new) :
              worker' = [worker EXCEPT ![w].pc = "write", ![w].by = a.by,
                                       ![w].new = a.new]
    BY <1>4
  <2>2. Within(worker[w].new) /\ worker[w].new.status \in Status \ Final
        /\ worker[w].new.quota = sub.quota
    BY <1>1, <1>2 DEF CopyOK
  <2>3. /\ a.new \in Row /\ a.new.status \in Status
        /\ a.new.quota = sub.quota
        /\ a.by \in {"poll", "fail"}
        /\ a.by = "fail" => a.new.status = "FAILURE"
        /\ Within(a.new)
    BY <1>2, <2>2, AnswerIsCopy
  <2> DEFINE x == [worker[w] EXCEPT !.pc = "write", !.by = a.by,
                                    !.new = a.new]
  <2>4. worker' = [worker EXCEPT ![w] = x]
    BY <2>1 DEF IInv, TypeOK
  <2>5. /\ x \in Worker
        /\ x.pc = "write" /\ x.by = a.by /\ x.new = a.new
        /\ x.from = worker[w].from
    BY <1>2, <2>3 DEF Worker
  <2>6. CopyOK(x)
    BY <1>2, <2>3, <2>5 DEF CopyOK
  <2> HIDE DEF x
  <2>7. x.pc \notin Charging
    BY <2>5 DEF Charging
  <2> QED BY <1>1, <1>3, <2>4, <2>5, <2>6, <2>7, QuietStep
<1>5. CASE worker' = [worker EXCEPT ![w] = Idle]
  <2>1. Idle.pc \notin Charging /\ Idle.pc \notin Copying
    BY IdleTyped DEF Charging, Copying
  <2> QED BY <1>1, <1>3, <1>5, <2>1, IdleTyped, QuietStep
<1> QED BY <1>4, <1>5 DEF Answer

\* A pass that dies.
LEMMA CrashKeepsInvariant ==
    ASSUME IInv, NEW w \in Poller, Crash(w) PROVE IInv'
<1>1. /\ row.status # "none" /\ worker' = [worker EXCEPT ![w] = Idle]
      /\ UNCHANGED <<kind, row, sub, paid, up, late, faults>>
    BY Busy DEF Crash
<1>2. Idle.pc \notin Charging /\ Idle.pc \notin Copying
    BY IdleTyped DEF Charging, Copying
<1>3. /\ faults' \in 0 .. MaxFaults /\ crashes' \in 0 .. MaxCrashes
      /\ spoiled' \subseteq {"bulk", "legacy", "funding", "mark", "crash"}
      /\ spoiled \subseteq spoiled'
      /\ worker[w].pc \in {"adjust", "mark"} => "crash" \in spoiled'
    BY DEF IInv, TypeOK, Crash
<1> QED BY <1>1, <1>2, <1>3, IdleTyped, QuietStep

-----------------------------------------------------------------------------
(***************************************************************************)
(* The steps that write the row or move money.                             *)
(***************************************************************************)

\* The bulk failure of a lost channel.
LEMMA BulkFailKeepsInvariant ==
    ASSUME IInv, NEW w \in Poller, BulkFail(w) PROVE IInv'
<1>1. /\ worker[w].pc = "fetch" /\ row.status # "none"
      /\ worker' = [worker EXCEPT ![w] = Idle]
      /\ UNCHANGED <<kind, sub, paid, up, late, crashes>>
    BY Busy DEF BulkFail
<1>2. Idle.pc \notin Charging /\ Idle.pc \notin Copying
    BY IdleTyped DEF Charging, Copying
<1>3. CASE Fault /\ UNCHANGED <<row, spoiled>>
  <2>1. /\ faults' \in 0 .. MaxFaults /\ crashes' \in 0 .. MaxCrashes
        /\ spoiled' \subseteq {"bulk", "legacy", "funding", "mark", "crash"}
    BY <1>1, <1>3, FaultTyped DEF IInv, TypeOK
  <2> QED BY <1>1, <1>2, <1>3, <2>1, IdleTyped, QuietStep
<1>4. CASE /\ row' = Failed(row)
           /\ spoiled' = spoiled \cup {"bulk"}
           /\ UNCHANGED faults
  <2>1. /\ worker' \in [Poller \cup Fetcher -> Worker]
        /\ worker'[w].pc = "idle"
        /\ \A v \in Poller : v # w => worker'[v] = worker[v]
    BY <1>1, IdleTyped, Replaced DEF IInv
  <2>2. Price' = Price
    BY <1>1, PriceStays
  <2>3. row \in Row
    BY DEF IInv, TypeOK
  <2>4. row' \in Row /\ row'.status = "FAILURE" /\ row'.quota = row.quota
    BY <1>4, <2>3, FailedTyped
  <2>5. TypeOK'
    BY <1>1, <1>4, <2>1, <2>4 DEF IInv, TypeOK
  <2>6. Within(row)' /\ Recorded'
    BY <1>1, <2>4 DEF IInv, Within, Recorded, Final
  <2>7. Copies'
    BY <1>1, <2>1, <2>4 DEF IInv, Copies, CopyOK, Within, Copying
  <2>8. OneBiller'
    BY <2>1, <2>4 DEF IInv, OneBiller, Charging, Final
  <2>9. Billed'
    <3> SUFFICES ASSUME NEW v \in Poller, worker'[v].pc \in Charging
                 PROVE  BillOK(worker[v])'
        BY DEF Billed
    <3>1. v # w /\ worker'[v] = worker[v]
        BY <2>1 DEF Charging
    <3>2. BillOK(worker[v])
        BY <3>1 DEF IInv, Billed
    <3>3. spoiled' # {}
        BY <1>4
    <3> QED BY <1>1, <2>2, <2>4, <3>1, <3>2, <3>3 DEF BillOK
  <2>10. Open' /\ Priced'
    BY <1>1, <2>2, <2>4 DEF IInv, Open, Priced, Final
  <2>11. FailedIsRefunded'
    BY <1>4 DEF FailedIsRefunded
  <2>12. RowTellsThePrice'
    <3>1. CASE sub.stage \in {"reserved", "dropped"}
        BY <1>1, <3>1 DEF RowTellsThePrice
    <3>2. CASE \E v \in Poller : worker[v].pc = "mark"
        BY <1>1, <2>1, <3>2 DEF RowTellsThePrice
    <3>3. CASE spoiled \cap {"legacy", "mark", "crash"} # {}
        BY <1>4, <3>3 DEF RowTellsThePrice
    <3>4. CASE Price = row.quota
        BY <2>2, <2>4, <3>4 DEF RowTellsThePrice
    <3> QED BY <3>1, <3>2, <3>3, <3>4 DEF IInv, RowTellsThePrice
  <2> QED BY <2>5, <2>6, <2>7, <2>8, <2>9, <2>10, <2>11, <2>12 DEF IInv
<1> QED BY <1>3, <1>4 DEF BulkFail

\* The price a winner chooses.
LEMMA BillsAre ==
    ASSUME IInv, NEW w \in Poller, worker[w].pc = "write",
           NEW t \in Bills(worker[w].by, worker[w].new)
    PROVE  LET new == worker[w].new
               legacy == worker[w].by = "sweep" /\ kind.age = "legacy"
           IN  /\ t = new.quota \/ t \in Amounts \cup {0}
               /\ new.status \notin Final \/ legacy => t = new.quota
               /\ \/ new.status # "FAILURE"
                  \/ kind.billing = "usage"
                  \/ legacy
                  \/ t = 0
<1>1. CopyOK(worker[w])
    BY DEF IInv, Copies, Copying
<1>2. /\ worker[w].by \in {"sweep", "poll", "fail"}
      /\ worker[w].by \in {"sweep", "fail"} =>
            worker[w].new.status = "FAILURE"
      /\ kind.billing \in {"perCall", "tiered", "usage"}
    BY <1>1 DEF CopyOK, IInv, TypeOK, Worker
<1>3. CASE worker[w].new.status \notin Final
    BY <1>3 DEF Bills, Final
<1>4. CASE worker[w].new.status \in Final /\ worker[w].by = "sweep"
    BY <1>4 DEF Bills
<1>5. CASE worker[w].new.status \in Final /\ worker[w].by \in {"poll", "fail"}
  <2>1. CASE kind.billing = "perCall"
    BY <1>5, <2>1 DEF Bills
  <2>2. CASE kind.billing = "tiered"
    <3>1. Bills(worker[w].by, worker[w].new) =
            IF worker[w].new.status = "FAILURE" THEN {0}
            ELSE Amounts \cup {worker[w].new.quota}
        BY <1>5, <2>2 DEF Bills
    <3> QED BY <1>5, <2>2, <3>1
  <2>3. CASE kind.billing = "usage"
    <3>1. Bills(worker[w].by, worker[w].new) =
            Amounts \cup {IF worker[w].new.status = "FAILURE" THEN 0
                          ELSE worker[w].new.quota}
        BY <1>5, <2>3 DEF Bills
    <3> QED BY <1>5, <2>3, <3>1
  <2> QED BY <1>2, <2>1, <2>2, <2>3
<1> QED BY <1>2, <1>3, <1>4, <1>5

\* The winner of the compare-and-swap: the task was unfinished, so nobody was
\* billing it.
LEMMA WinKeepsInvariant ==
    ASSUME IInv, NEW w \in Poller, worker[w].pc = "write", Won(w),
           row' = worker[w].new,
           NEW t \in Bills(worker[w].by, worker[w].new),
           worker' = IF t = worker[w].new.quota THEN After(w)
                     ELSE [worker EXCEPT ![w].pc = "adjust", ![w].target = t],
           spoiled' = IF worker[w].by = "sweep" /\ kind.age = "legacy"
                      THEN spoiled \cup {"legacy"} ELSE spoiled,
           UNCHANGED <<kind, sub, paid, up, late, crashes, faults>>
    PROVE  IInv'
<1> DEFINE new == worker[w].new
           legacy == worker[w].by = "sweep" /\ kind.age = "legacy"
<1>1. worker[w] \in Worker /\ new \in Row /\ CopyOK(worker[w])
    BY DEF IInv, TypeOK, Worker, Copies, Copying
<1>2. /\ row.status \in Status \ Final /\ row.status # "none"
      /\ new.status \in Status /\ Within(new)
      /\ legacy => new.quota = 0 /\ new.status = "FAILURE"
      /\ ~legacy => new.quota = sub.quota
    BY <1>1 DEF Won, CopyOK
<1>3. /\ Price = sub.quota /\ Price' = sub.quota
    BY <1>2, PriceStays DEF IInv, Open
<1>4. /\ t = new.quota \/ t \in Amounts \cup {0}
      /\ new.status \notin Final \/ legacy => t = new.quota
      /\ \/ new.status # "FAILURE"
         \/ kind.billing = "usage"
         \/ legacy
         \/ t = 0
    BY BillsAre
<1>5. \E x \in Worker :
        /\ worker' = [worker EXCEPT ![w] = x]
        /\ \/ t = new.quota /\ x.pc \in {"idle", "list"}
           \/ /\ t # new.quota /\ x.pc = "adjust" /\ x.target = t
              /\ x.new = new
  <2>1. CASE t = new.quota
    BY <2>1, AfterQuiet
  <2>2. CASE t # new.quota
    <3> DEFINE x == [worker[w] EXCEPT !.pc = "adjust", !.target = t]
    <3>1. t \in Nat
        BY <1>4, <2>2
    <3>2. x \in Worker /\ x.pc = "adjust" /\ x.target = t /\ x.new = new
        BY <1>1, <3>1 DEF Worker
    <3>3. worker' = [worker EXCEPT ![w] = x]
        BY <2>2 DEF IInv, TypeOK
    <3> QED BY <2>2, <3>2, <3>3
  <2> QED BY <2>1, <2>2
<1>6. PICK x \in Worker :
        /\ worker' = [worker EXCEPT ![w] = x]
        /\ \/ t = new.quota /\ x.pc \in {"idle", "list"}
           \/ /\ t # new.quota /\ x.pc = "adjust" /\ x.target = t
              /\ x.new = new
    BY <1>5
<1>7. /\ worker' \in [Poller \cup Fetcher -> Worker]
      /\ worker'[w] = x
      /\ \A v \in Poller : v # w => worker'[v] = worker[v]
    BY <1>6, Replaced DEF IInv
<1>8. \A v \in Poller : worker[v].pc \notin Charging
    BY <1>2 DEF IInv, OneBiller
<1>9. TypeOK'
    BY <1>1, <1>7 DEF IInv, TypeOK
<1>10. Within(row)' /\ Recorded'
    BY <1>2 DEF IInv, Within, Recorded, Status, Final
<1>11. Copies'
  <2> SUFFICES ASSUME NEW v \in Poller, worker'[v].pc \in Copying
               PROVE  CopyOK(worker[v])'
    BY DEF Copies
  <2>1. v # w /\ worker'[v] = worker[v]
    BY <1>6, <1>7 DEF Copying
  <2>2. CopyOK(worker[v])
    BY <2>1 DEF IInv, Copies
  <2> QED BY <1>2, <2>1, <2>2 DEF CopyOK, Within, Status, Final
<1>12. OneBiller' /\ Billed'
  <2>1. CASE t = new.quota
    <3>1. \A v \in Poller : worker'[v].pc \notin Charging
        BY <1>6, <1>7, <1>8, <2>1 DEF Charging
    <3> QED BY <3>1 DEF OneBiller, Billed
  <2>2. CASE t # new.quota
    <3>1. ~legacy /\ new.status \in Final /\ new.quota = sub.quota
          /\ t \in Amounts \cup {0}
        BY <1>2, <1>4, <2>2
    <3>2. \A v \in Poller : worker'[v].pc \in Charging => v = w
        BY <1>7, <1>8
    <3>3. OneBiller'
        BY <3>1, <3>2 DEF OneBiller
    <3>4. BillOK(worker[w])'
        BY <1>3, <1>4, <1>6, <1>7, <2>2, <3>1 DEF BillOK
    <3> QED BY <3>2, <3>3, <3>4 DEF Billed
  <2> QED BY <2>1, <2>2
<1>13. Open' /\ Priced'
    BY <1>2, <1>3 DEF IInv, Open, Priced, Final
<1>14. RowTellsThePrice'
    BY <1>2, <1>3 DEF RowTellsThePrice
<1>15. FailedIsRefunded'
  <2>1. CASE t = new.quota
    BY <1>2, <1>3, <1>4, <2>1 DEF FailedIsRefunded
  <2>2. CASE t # new.quota
    BY <1>6, <1>7, <2>2 DEF FailedIsRefunded
  <2> QED BY <2>1, <2>2
<1> QED BY <1>9, <1>10, <1>11, <1>12, <1>13, <1>14, <1>15 DEF IInv

\* The compare-and-swap: one pass wins and is to bill.
LEMMA WriteKeepsInvariant ==
    ASSUME IInv, NEW w \in Poller, Write(w) PROVE IInv'
<1>1. /\ worker[w].pc = "write" /\ row.status # "none"
      /\ UNCHANGED <<kind, sub, paid, up, late, crashes>>
    BY Busy DEF Write
<1>2. CASE /\ worker' = After(w)
           /\ UNCHANGED <<row, spoiled>>
           /\ Fault \/ UNCHANGED faults
  <2>1. /\ faults' \in 0 .. MaxFaults /\ crashes' \in 0 .. MaxCrashes
        /\ spoiled' \subseteq {"bulk", "legacy", "funding", "mark", "crash"}
    BY <1>1, <1>2, FaultTyped DEF IInv, TypeOK
  <2> QED BY <1>1, <1>2, <2>1, AfterKeepsInvariant
<1>3. CASE /\ Won(w)
           /\ row' = worker[w].new
           /\ \E t \in Bills(worker[w].by, worker[w].new) :
                worker' = IF t = worker[w].new.quota THEN After(w)
                          ELSE [worker EXCEPT ![w].pc = "adjust",
                                              ![w].target = t]
           /\ spoiled' = IF worker[w].by = "sweep" /\ kind.age = "legacy"
                         THEN spoiled \cup {"legacy"} ELSE spoiled
           /\ UNCHANGED faults
    BY <1>1, <1>3, WinKeepsInvariant
<1> QED BY <1>2, <1>3 DEF Write

\* A pass that bills: what it knows.
LEMMA BillerKnows ==
    ASSUME IInv, NEW w \in Poller, worker[w].pc \in Charging
    PROVE  /\ row.status \in Final /\ row.status # "none"
           /\ worker[w] \in Worker /\ worker[w].target \in Nat
           /\ worker[w].new.quota \in Nat
           /\ BillOK(worker[w])
           /\ \A v \in Poller : worker[v].pc \in Charging => v = w
BY DEF IInv, TypeOK, OneBiller, Billed, Worker, Row, Final

\* The money moves.
LEMMA AdjustKeepsInvariant ==
    ASSUME IInv, NEW w \in Poller, Adjust(w) PROVE IInv'
<1>1. /\ worker[w].pc = "adjust" /\ worker[w].pc \in Charging
      /\ UNCHANGED <<kind, row, sub, up, late, crashes>>
    BY DEF Adjust, Charging
<1>2. /\ row.status \in Final /\ row.status # "none"
      /\ worker[w] \in Worker /\ worker[w].target \in Nat
      /\ worker[w].new.quota \in Nat
      /\ BillOK(worker[w])
      /\ \A v \in Poller : worker[v].pc \in Charging => v = w
    BY <1>1, BillerKnows
<1>3. CASE Fault /\ spoiled' = spoiled \cup {"funding"}
           /\ worker' = After(w) /\ UNCHANGED paid
  <2>1. /\ faults' \in 0 .. MaxFaults /\ crashes' \in 0 .. MaxCrashes
        /\ spoiled' \subseteq {"bulk", "legacy", "funding", "mark", "crash"}
    BY <1>1, <1>3, FaultTyped DEF IInv, TypeOK
  <2> QED BY <1>1, <1>2, <1>3, <2>1, AfterKeepsInvariant
<1>4. CASE /\ paid' = paid + (worker[w].target - worker[w].new.quota)
           /\ worker' = Goto(w, "mark")
           /\ UNCHANGED <<faults, spoiled>>
  <2> DEFINE x == [worker[w] EXCEPT !.pc = "mark"]
  <2>1. x \in Worker /\ x.pc = "mark" /\ x.target = worker[w].target
    BY <1>2 DEF Worker
  <2>2. worker' = [worker EXCEPT ![w] = x]
    BY <1>4 DEF Goto
  <2>3. /\ worker' \in [Poller \cup Fetcher -> Worker]
        /\ worker'[w] = x
        /\ \A v \in Poller : v # w => worker'[v] = worker[v]
    BY <2>1, <2>2, Replaced DEF IInv
  <2> HIDE DEF x
  <2>4. Price' = worker[w].target
    <3>1. Price = worker[w].new.quota
        BY <1>1, <1>2 DEF BillOK
    <3>2. Price' = Price + (worker[w].target - worker[w].new.quota)
        BY <1>1, <1>2, <1>4, PriceMoves DEF IInv
    <3> QED BY <1>2, <3>1, <3>2
  <2>5. paid' \in Int
    BY <1>2, <1>4 DEF IInv, TypeOK
  <2>6. TypeOK'
    BY <1>1, <1>4, <2>3, <2>5 DEF IInv, TypeOK
  <2>7. Within(row)' /\ Recorded'
    BY <1>1, <1>2 DEF IInv, Within, Recorded
  <2>8. Copies'
    BY <1>1, <2>1, <2>3 DEF IInv, Copies, CopyOK, Within, Copying
  <2>9. OneBiller'
    BY <1>1, <1>2, <2>3 DEF OneBiller
  <2>10. Billed'
    <3>1. BillOK(worker[w])'
        BY <1>1, <1>2, <1>4, <2>1, <2>3, <2>4 DEF BillOK
    <3> QED BY <1>2, <2>3, <3>1 DEF Billed
  <2>11. Open' /\ Priced'
    BY <1>1, <1>2, <2>4 DEF IInv, Open, Priced, Recorded
  <2>12. RowTellsThePrice' /\ FailedIsRefunded'
    BY <2>1, <2>3 DEF RowTellsThePrice, FailedIsRefunded
  <2> QED BY <2>6, <2>7, <2>8, <2>9, <2>10, <2>11, <2>12 DEF IInv
<1> QED BY <1>3, <1>4 DEF Adjust

\* The row is told of it.
LEMMA MarkKeepsInvariant ==
    ASSUME IInv, NEW w \in Poller, Mark(w) PROVE IInv'
<1>1. /\ worker[w].pc = "mark" /\ worker[w].pc \in Charging
      /\ worker' = After(w)
      /\ UNCHANGED <<kind, sub, paid, up, late, crashes>>
    BY DEF Mark, Charging
<1>2. /\ row.status \in Final /\ row.status # "none"
      /\ worker[w] \in Worker /\ worker[w].target \in Nat
      /\ worker[w].new.quota \in Nat
      /\ BillOK(worker[w])
      /\ \A v \in Poller : worker[v].pc \in Charging => v = w
    BY <1>1, BillerKnows
<1>3. CASE Fault /\ spoiled' = spoiled \cup {"mark"} /\ UNCHANGED row
  <2>1. /\ faults' \in 0 .. MaxFaults /\ crashes' \in 0 .. MaxCrashes
        /\ spoiled' \subseteq {"bulk", "legacy", "funding", "mark", "crash"}
    BY <1>1, <1>3, FaultTyped DEF IInv, TypeOK
  <2> QED BY <1>1, <1>2, <1>3, <2>1, AfterKeepsInvariant
<1>4. CASE /\ row' = [row EXCEPT !.quota = worker[w].target]
           /\ UNCHANGED <<faults, spoiled>>
  <2>1. PICK x \in Worker : /\ worker' = [worker EXCEPT ![w] = x]
                            /\ x.pc \in {"idle", "list"}
    BY <1>1, AfterQuiet
  <2>2. /\ worker' \in [Poller \cup Fetcher -> Worker]
        /\ worker'[w] = x
        /\ \A v \in Poller : v # w => worker'[v] = worker[v]
    BY <2>1, Replaced DEF IInv
  <2>3. Price' = Price /\ Price = worker[w].target
    BY <1>1, <1>2, PriceStays DEF BillOK
  <2>4. /\ row' \in Row /\ row'.status = row.status
        /\ row'.quota = worker[w].target /\ row'.failures = row.failures
    BY <1>2, <1>4 DEF IInv, TypeOK, Row
  <2>5. \A v \in Poller : worker'[v].pc \notin Charging
    BY <1>2, <2>1, <2>2 DEF Charging
  <2>6. TypeOK'
    BY <1>1, <1>4, <2>2, <2>4 DEF IInv, TypeOK
  <2>7. Within(row)' /\ Recorded'
    BY <1>1, <1>2, <2>4 DEF IInv, Within, Recorded
  <2>8. Copies'
    BY <1>1, <2>1, <2>2, <2>4 DEF IInv, Copies, CopyOK, Within, Copying
  <2>9. OneBiller' /\ Billed'
    BY <2>5 DEF OneBiller, Billed
  <2>10. Open' /\ Priced'
    BY <1>1, <1>2, <2>3, <2>4 DEF IInv, Open, Priced
  <2>11. RowTellsThePrice'
    BY <2>3, <2>4 DEF RowTellsThePrice
  <2>12. FailedIsRefunded'
    BY <1>1, <1>2, <1>4, <2>3, <2>4 DEF BillOK, FailedIsRefunded
  <2> QED BY <2>6, <2>7, <2>8, <2>9, <2>10, <2>11, <2>12 DEF IInv
<1> QED BY <1>3, <1>4 DEF Mark

-----------------------------------------------------------------------------
(***************************************************************************)
(* The theorems.                                                           *)
(***************************************************************************)

\* Nothing happens.
LEMMA StutterKeepsInvariant == IInv /\ UNCHANGED vars => IInv'
<1> SUFFICES ASSUME IInv, UNCHANGED vars PROVE IInv'
    OBVIOUS
<1>1. UNCHANGED <<kind, row, sub, paid, up, late, worker, faults, crashes,
                  spoiled>>
    BY DEF vars
<1>2. up' \in Status \ {"NOT_START"} /\ late' \in {"no", "yes"}
    BY <1>1 DEF IInv, TypeOK
<1> QED BY <1>1, <1>2, EnvironmentKeepsInvariant

\* Every step keeps the invariant.
LEMMA NextKeepsInvariant == IInv /\ [Next]_vars => IInv'
<1> SUFFICES ASSUME IInv, [Next]_vars PROVE IInv'
    OBVIOUS
<1>1. CASE Insert \/ InsertFails \/ SettleSubmission
    BY <1>1, InsertKeepsInvariant, InsertFailsKeepsInvariant,
       SettleKeepsInvariant
<1>2. CASE UpstreamEnds \/ Expire
  <2>1. up' \in Status \ {"NOT_START"} /\ late' \in {"no", "yes"}
    BY <1>2 DEF UpstreamEnds, Expire, IInv, TypeOK, Status, Final
  <2> QED BY <1>2, <2>1, EnvironmentKeepsInvariant DEF UpstreamEnds, Expire
<1>3. ASSUME NEW w \in Poller, Step(w) \/ BulkFail(w) \/ Crash(w)
      PROVE  IInv'
    BY <1>3, PassKeepsInvariant, ListKeepsInvariant, AnswerKeepsInvariant,
       WriteKeepsInvariant, AdjustKeepsInvariant, MarkKeepsInvariant,
       BulkFailKeepsInvariant, CrashKeepsInvariant DEF Step
<1>4. CASE UNCHANGED vars
    BY <1>4, StutterKeepsInvariant
<1> QED BY <1>1, <1>2, <1>3, <1>4 DEF Next

\* The copies of the passes, who may bill, and what the price is at each
\* point of the billing (service/task_polling.go, service/task_billing.go).
THEOREM Invariance == Spec => []IInv
<1>1. Init => IInv
    BY InvariantInitially
<1>2. IInv /\ [Next]_vars => IInv'
    BY NextKeepsInvariant
<1> QED BY <1>1, <1>2, PTL DEF Spec

\* The variables keep their types; in particular polls that fail are counted
\* up to TaskPollMaxFailures and no further (recordPollFailure).
THEOREM TypeCorrect == Spec => []TypeOK
<1>1. IInv => TypeOK
    BY DEF IInv
<1> QED BY <1>1, Invariance, PTL

\* RefundTaskQuota and RecalculateTaskQuota never return more than was paid.
THEOREM NotOverRefunded == Spec => []NeverOverRefunded
<1>1. IInv => NeverOverRefunded
    BY DEF IInv, Priced, NeverOverRefunded
<1> QED BY <1>1, Invariance, PTL

\* The quota column is what the user pays.
THEOREM RowIsTrue == Spec => []RowTellsThePrice
<1>1. IInv => RowTellsThePrice
    BY DEF IInv
<1> QED BY <1>1, Invariance, PTL

\* A failed task is refunded, with the exceptions FailedIsRefunded lists.
THEOREM FailureIsRefunded == Spec => []FailedIsRefunded
<1>1. IInv => FailedIsRefunded
    BY DEF IInv
<1> QED BY <1>1, Invariance, PTL

\* What a step of a pass does to the row.
LEMMA RowSteps ==
    ASSUME IInv, NEW w \in Poller, Step(w) \/ BulkFail(w) \/ Crash(w),
           row.status \in Final
    PROVE  /\ row'.status \in Final
           /\ row'.status # row.status =>
                 row'.status = "FAILURE" /\ "bulk" \in spoiled'
<1>0. row \in Row
    BY DEF IInv, TypeOK
<1>1. CASE UNCHANGED row
    BY <1>1
<1>2. CASE Write(w)
  <2>1. ~Won(w)
    BY <1>2 DEF Write, Won, IInv, Copies, CopyOK, Copying
  <2> QED BY <1>2, <2>1 DEF Write
<1>3. CASE Mark(w)
  <2>1. UNCHANGED row \/ row' = [row EXCEPT !.quota = worker[w].target]
    BY <1>3 DEF Mark
  <2>2. row'.status = row.status
    BY <1>0, <2>1 DEF Row
  <2> QED BY <2>2
<1>4. CASE BulkFail(w)
  <2>1. \/ UNCHANGED row
        \/ row' = Failed(row) /\ spoiled' = spoiled \cup {"bulk"}
    BY <1>4 DEF BulkFail
  <2>2. row' = Failed(row) => row'.status = "FAILURE"
    BY <1>0, FailedTyped
  <2> QED BY <2>1, <2>2 DEF Final
<1> QED BY <1>1, <1>2, <1>3, <1>4
        DEF Step, Pass, List, Answer, Adjust, Crash

\* No slow pass revives a task that has ended.
THEOREM EndIsFinal == Spec => EndedForGood
<1> DEFINE Kept ==
        row.status \in Final =>
          /\ row'.status \in Final
          /\ row'.status # row.status =>
                row'.status = "FAILURE" /\ "bulk" \in spoiled'
<1>1. IInv /\ [Next]_vars => [Kept]_vars
  <2> SUFFICES ASSUME IInv, Next, row.status \in Final
               PROVE  /\ row'.status \in Final
                      /\ row'.status # row.status =>
                            row'.status = "FAILURE" /\ "bulk" \in spoiled'
    OBVIOUS
  <2>1. CASE Insert
    BY <2>1 DEF Insert, IInv, Recorded, Final
  <2>2. CASE InsertFails \/ SettleSubmission \/ UpstreamEnds \/ Expire
    BY <2>2 DEF InsertFails, SettleSubmission, UpstreamEnds, Expire
  <2>3. CASE \E w \in Poller : Step(w) \/ BulkFail(w) \/ Crash(w)
    BY <2>3, RowSteps
  <2> QED BY <2>1, <2>2, <2>3 DEF Next
<1> QED BY <1>1, Invariance, PTL DEF Spec, EndedForGood

-----------------------------------------------------------------------------
(***************************************************************************)
(* The passes implement Escrow.                                            *)
(***************************************************************************)

\* The account starts as Escrow says.
LEMMA EscrowInitially == Init => E!Init
<1> SUFFICES ASSUME Init PROVE Phase = "new" /\ Price = 0
    BY DEF E!Init
<1>1. Price = 0
    BY PriceByStage DEF Init
<1> QED BY <1>1 DEF Init, Phase

\* A step that leaves the account as it is.
LEMMA AccountStays ==
    ASSUME Price' = Price, sub'.stage = "reserved" <=> sub.stage = "reserved",
           row'.status = row.status,
           (\E w \in Poller : worker'[w].pc = "adjust")
               <=> (\E w \in Poller : worker[w].pc = "adjust")
    PROVE  UNCHANGED <<Phase, Price>>
BY DEF Phase

\* Every step of a pass is one of Escrow or none.
LEMMA PassesImplementEscrow ==
    ASSUME IInv, IInv', NEW w \in Poller, Step(w) \/ BulkFail(w) \/ Crash(w)
    PROVE  E!Next \/ UNCHANGED <<Phase, Price>>
<1>0. /\ row \in Row /\ worker[w] \in Worker
      /\ worker \in [Poller \cup Fetcher -> Worker]
    BY DEF IInv, TypeOK
<1>1. CASE Pass(w) \/ List(w) \/ Answer(w)
  <2>1. /\ UNCHANGED <<row, sub, paid>> /\ worker[w].pc # "adjust"
    BY <1>1 DEF Pass, List, Answer
  <2>2. \A v \in Poller : v # w => worker'[v] = worker[v]
    BY <1>0, <1>1 DEF Pass, List, Answer, Listed
  <2>3. worker'[w].pc # "adjust"
    <3>1. CASE Unfinished(row) /\ (Pass(w) \/ List(w))
      <4>1. row'.status \notin Final
          BY <2>1, <3>1 DEF Unfinished
      <4> QED BY <4>1 DEF IInv, OneBiller, Charging
    <3>2. CASE ~Unfinished(row) /\ List(w)
      <4>1. worker' = [worker EXCEPT ![w] = Idle]
          BY <3>2 DEF List
      <4> QED BY <1>0, <4>1, IdleTyped
    <3>3. CASE Answer(w)
      <4>1. CASE worker' = [worker EXCEPT ![w] = Idle]
          BY <1>0, <4>1, IdleTyped
      <4>2. CASE \E a \in Answers(worker[w].new) :
                    worker' = [worker EXCEPT ![w].pc = "write",
                                             ![w].by = a.by,
                                             ![w].new = a.new]
        <5>1. PICK a \in Answers(worker[w].new) :
                  worker' = [worker EXCEPT ![w].pc = "write", ![w].by = a.by,
                                           ![w].new = a.new]
            BY <4>2
        <5>2. worker'[w] = [worker[w] EXCEPT !.pc = "write", !.by = a.by,
                                             !.new = a.new]
            BY <1>0, <5>1
        <5>3. [worker[w] EXCEPT !.pc = "write", !.by = a.by,
                                !.new = a.new].pc = "write"
            BY <1>0 DEF Worker
        <5> QED BY <5>2, <5>3
      <4> QED BY <3>3, <4>1, <4>2 DEF Answer
    <3> QED BY <1>1, <3>1, <3>2, <3>3 DEF Pass
  <2> QED BY <2>1, <2>2, <2>3, PriceStays, AccountStays
<1>2. CASE Write(w)
  <2>1. worker[w].pc = "write" /\ UNCHANGED <<sub, paid>>
    BY <1>2 DEF Write
  <2>2. Price' = Price /\ sub.stage # "reserved" /\ sub'.stage = sub.stage
    BY <2>1, PriceStays, Busy DEF IInv, Recorded
  <2>3. \A v \in Poller : v # w => worker'[v] = worker[v]
    BY <1>0, <1>2 DEF Write, After, Goto
  <2>4. CASE UNCHANGED row /\ worker' = After(w)
    <3>1. worker'[w].pc # "adjust"
        BY <1>0, <2>4, IdleTyped DEF After, Goto
    <3> QED BY <2>1, <2>2, <2>3, <2>4, <3>1, AccountStays
  <2>5. CASE Won(w) /\ row' = worker[w].new
    <3>1. Phase = "open"
        BY <1>0, <2>1, <2>2, <2>5
        DEF Phase, Won, IInv, Copies, CopyOK, Copying
    <3>2. Phase' \in {"open", "due", "closed"}
        BY <2>2 DEF Phase
    <3> QED BY <2>2, <3>1, <3>2 DEF E!Next, E!Decide, E!Keep
  <2> QED BY <1>2, <2>4, <2>5 DEF Write
<1>3. CASE Adjust(w)
  <2>1. worker[w].pc = "adjust" /\ worker[w].pc \in Charging
    BY <1>3 DEF Adjust, Charging
  <2>2. /\ row.status \in Final /\ row.status # "none"
        /\ worker[w].target \in Nat /\ worker[w].new.quota \in Nat
        /\ BillOK(worker[w])
        /\ \A v \in Poller : worker[v].pc \in Charging => v = w
    BY <2>1, BillerKnows
  <2>3. sub.stage # "reserved" /\ UNCHANGED <<sub, row>>
    BY <1>3, <2>2 DEF Adjust, IInv, Recorded
  <2>4. Phase = "due"
    BY <2>1, <2>2, <2>3 DEF Phase
  <2>5. \A v \in Poller : worker'[v].pc # "adjust"
    <3>1. worker'[w].pc \in {"mark", "list", "idle"}
        BY <1>0, <1>3, IdleTyped DEF Adjust, After, Goto, Worker
    <3>2. \A v \in Poller : v # w => worker'[v] = worker[v]
        BY <1>0, <1>3 DEF Adjust, After, Goto
    <3> QED BY <2>2, <3>1, <3>2 DEF Charging
  <2>6. Phase' = "closed"
    BY <2>2, <2>3, <2>5 DEF Phase
  <2>7. CASE UNCHANGED paid
    BY <2>3, <2>4, <2>6, <2>7, PriceStays DEF E!Next, E!Keep
  <2>8. CASE paid' = paid + (worker[w].target - worker[w].new.quota)
    <3>1. Price' = worker[w].target
      <4>1. Price = worker[w].new.quota
          BY <2>1, <2>2 DEF BillOK
      <4>2. Price' = Price + (worker[w].target - worker[w].new.quota)
          BY <2>2, <2>3, <2>8, PriceMoves DEF IInv
      <4> QED BY <2>2, <4>1, <4>2
    <3>2. worker[w].target \in Amounts \cup {0}
        BY <2>2 DEF BillOK
    <3> QED BY <2>4, <2>6, <3>1, <3>2 DEF E!Next, E!Bill
  <2> QED BY <1>3, <2>7, <2>8 DEF Adjust
<1>4. CASE Mark(w)
  <2>1. worker[w].pc = "mark" /\ UNCHANGED <<sub, paid>>
    BY <1>4 DEF Mark
  <2>2. row'.status = row.status
    BY <1>0, <1>4 DEF Mark, Row
  <2>3. /\ \A v \in Poller : v # w => worker'[v] = worker[v]
        /\ worker'[w].pc # "adjust"
    BY <1>0, <1>4, IdleTyped DEF Mark, After, Goto
  <2> QED BY <2>1, <2>2, <2>3, PriceStays, AccountStays
<1>5. CASE BulkFail(w) \/ Crash(w)
  <2>1. /\ worker' = [worker EXCEPT ![w] = Idle] /\ UNCHANGED <<sub, paid>>
        /\ worker[w].pc # "idle" /\ row.status # "none"
        /\ \/ UNCHANGED row
           \/ row' = Failed(row) /\ worker[w].pc = "fetch"
    BY <1>5, Busy DEF BulkFail, Crash
  <2>2. Price' = Price /\ sub.stage # "reserved" /\ sub'.stage = sub.stage
    BY <2>1, PriceStays DEF IInv, Recorded
  <2>3. /\ \A v \in Poller : v # w => worker'[v] = worker[v]
        /\ worker'[w].pc # "adjust"
    BY <1>0, <2>1, IdleTyped
  <2>4. CASE UNCHANGED row /\ worker[w].pc # "adjust"
    BY <2>2, <2>3, <2>4, AccountStays
  <2>5. CASE UNCHANGED row /\ worker[w].pc = "adjust"
    <3>1. row.status \in Final
          /\ \A v \in Poller : worker[v].pc \in Charging => v = w
        BY <2>5, BillerKnows DEF Charging
    <3>2. Phase = "due"
        BY <2>2, <2>5, <3>1 DEF Phase
    <3>3. \A v \in Poller : worker'[v].pc # "adjust"
        BY <2>3, <3>1 DEF Charging
    <3>4. Phase' = "closed"
        BY <2>2, <2>5, <3>1, <3>3 DEF Phase
    <3> QED BY <2>2, <3>2, <3>4 DEF E!Next, E!Keep
  <2>6. CASE row' = Failed(row) /\ worker[w].pc = "fetch"
    <3>1. row'.status = "FAILURE" /\ row'.status \in Final
        BY <1>0, <2>6, FailedTyped DEF Final
    <3>2. CASE row.status \in Final
      <4>1. row.status \notin Status \ Final /\ row'.status \notin Status \ Final
          BY <3>1, <3>2
      <4>2. (\E v \in Poller : worker'[v].pc = "adjust")
                <=> (\E v \in Poller : worker[v].pc = "adjust")
          BY <2>3, <2>6
      <4> QED BY <2>2, <4>1, <4>2 DEF Phase
    <3>3. CASE row.status \notin Final
      <4>1. Phase = "open"
          BY <1>0, <2>1, <2>2, <3>3 DEF Phase, Row
      <4>2. \A v \in Poller : worker[v].pc # "adjust"
          BY <3>3 DEF IInv, OneBiller, Charging
      <4>3. Phase' = "closed"
          BY <2>2, <2>3, <3>1, <4>2 DEF Phase
      <4> QED BY <2>2, <4>1, <4>3 DEF E!Next, E!Keep
    <3> QED BY <3>2, <3>3
  <2> QED BY <2>1, <2>4, <2>5, <2>6
<1> QED BY <1>1, <1>2, <1>3, <1>4, <1>5 DEF Step

\* So is every other step.
LEMMA StepsImplementEscrow ==
    IInv /\ IInv' /\ [Next]_vars => [E!Next]_<<Phase, Price>>
<1> SUFFICES ASSUME IInv, IInv', [Next]_vars
             PROVE  E!Next \/ UNCHANGED <<Phase, Price>>
    OBVIOUS
<1>1. CASE Insert
  <2>1. PICK q \in Amounts \cup {0}, s \in Status :
            row'.status = s /\ sub' = [stage |-> "settling", quota |-> q]
            /\ q <= Hold
    BY <1>1 DEF Insert
  <2>2. /\ sub.stage = "reserved" /\ paid = Hold /\ UNCHANGED <<paid, worker>>
        /\ \A w \in Poller : worker[w].pc = "idle"
    BY <1>1 DEF Insert, IInv, Recorded, Priced
  <2>3. Price' = q
    <3>1. Price' = paid' - (Hold - sub'.quota)
        BY <2>1 DEF Price, Excess
    <3>2. q \in Nat
        OBVIOUS
    <3> QED BY <2>1, <2>2, <3>1, <3>2
  <2>4. Phase = "new" /\ Phase' \in {"open", "closed"}
    BY <2>1, <2>2 DEF Phase
  <2> QED BY <2>3, <2>4 DEF E!Next, E!Record
<1>2. CASE InsertFails
  <2>1. /\ sub.stage = "reserved" /\ sub'.stage = "dropped"
        /\ row.status = "none" /\ UNCHANGED <<row, worker>>
        /\ \A w \in Poller : worker[w].pc = "idle"
    BY <1>2 DEF InsertFails, IInv, Recorded, TypeOK
  <2>2. Phase = "new" /\ Phase' = "closed"
    BY <2>1 DEF Phase, Status, Final
  <2>3. Price' = 0
    BY <2>1 DEF IInv, Priced
  <2> QED BY <2>2, <2>3 DEF E!Next, E!Void
<1>3. CASE SettleSubmission
  <2>1. /\ sub.stage = "settling" /\ sub'.stage \in {"settled", "unsettled"}
        /\ sub'.quota = sub.quota /\ UNCHANGED <<row, worker>>
        /\ paid \in Int /\ sub.quota \in Nat
    BY <1>3 DEF SettleSubmission, IInv, TypeOK
  <2>2. Price = paid - (Hold - sub.quota)
    BY <2>1, PriceByStage
  <2>3. Price' = Price
    <3>1. CASE sub'.stage = "settled"
      <4>1. paid' = paid - (Hold - sub.quota)
          BY <1>3, <3>1 DEF SettleSubmission, IInv, TypeOK
      <4>2. Price' = paid' - 0
          BY <3>1 DEF Price, Excess
      <4> QED BY <2>1, <2>2, <4>1, <4>2
    <3>2. CASE sub'.stage = "unsettled"
      <4>1. paid' = paid
          BY <1>3, <3>2 DEF SettleSubmission, IInv, TypeOK
      <4>2. Price' = paid' - (Hold - sub'.quota)
          BY <3>2 DEF Price, Excess
      <4> QED BY <2>1, <2>2, <4>1, <4>2
    <3> QED BY <2>1, <3>1, <3>2
  <2> QED BY <2>1, <2>3, AccountStays
<1>4. CASE UpstreamEnds \/ Expire \/ UNCHANGED vars
  <2>1. UNCHANGED <<row, sub, paid, worker>>
    BY <1>4 DEF UpstreamEnds, Expire, vars
  <2> QED BY <2>1, PriceStays, AccountStays
<1>5. CASE \E w \in Poller : Step(w) \/ BulkFail(w) \/ Crash(w)
    BY <1>5, PassesImplementEscrow
<1> QED BY <1>1, <1>2, <1>3, <1>4, <1>5 DEF Next

\* Whatever passes, sweeps, failures and crashes meet on a task, its user sees
\* the account of Escrow: one decision after the end of the task.
THEOREM Refinement == Spec => Escrowed
<1>1. Init => E!Init
    BY EscrowInitially
<1>2. IInv /\ IInv' /\ [Next]_vars => [E!Next]_<<Phase, Price>>
    BY StepsImplementEscrow
<1>3. UNCHANGED <<Phase, Price>> <=> UNCHANGED E!vars
    BY DEF E!vars
<1> QED BY <1>1, <1>2, Invariance, PTL DEF Spec, Escrowed, E!Spec, E!vars
=============================================================================
