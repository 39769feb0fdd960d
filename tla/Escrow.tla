------------------------------- MODULE Escrow -------------------------------
(***************************************************************************)
(* What the billing of an asynchronous task promises its user, whatever    *)
(* the pollers, sweeps and crashes behind it do: the price is agreed when  *)
(* the task is recorded, it may be changed by at most one decision after   *)
(* the task has ended, and once the account of the task is closed nobody   *)
(* touches it again.                                                       *)
(***************************************************************************)
EXTENDS Integers

CONSTANT Amounts      \* the prices a task may have

VARIABLES phase,      \* how far the account of the task has come
          price       \* what the user pays for the task

vars == <<phase, price>>

Phases == {"new", "open", "due", "closed"}

Init == phase = "new" /\ price = 0

\* The task is recorded at a price. A task that is answered at once is
\* recorded as ended; one that cannot be recorded costs nothing.
Record(q) ==
    /\ phase = "new"
    /\ phase' \in {"open", "closed"}
    /\ price' = q

Void ==
    /\ phase = "new"
    /\ phase' = "closed"
    /\ price' = 0

\* The task has ended and exactly one party is to bill it.
Decide == phase = "open" /\ phase' = "due" /\ UNCHANGED price

\* That party bills it: a settlement or a refund (the price 0).
Bill(q) == phase = "due" /\ phase' = "closed" /\ price' = q

\* The account closes at the price it has: nothing was to be adjusted, or the
\* party that was to bill it failed.
Keep == phase \in {"open", "due"} /\ phase' = "closed" /\ UNCHANGED price

Next ==
    \/ \E q \in Amounts \cup {0} : Record(q)
    \/ Void
    \/ Decide
    \/ \E q \in Amounts \cup {0} : Bill(q)
    \/ Keep

Spec == Init /\ [][Next]_vars
=============================================================================
