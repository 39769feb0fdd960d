-------------------------- MODULE MCBillingSession --------------------------
(***************************************************************************)
(* Instances of BillingSession for TLC.                                    *)
(***************************************************************************)
EXTENDS BillingSession

CONSTANTS r1, r2

\* The overflow of a subscription to the wallet meets an image request that
\* prefers the wallet.
MixedPreference ==
    [r \in Request |->
        IF r = r1 THEN "subscription_first" ELSE "wallet_first"]

\* A playground request on the subscription next to a wallet request.
PurePreference ==
    [r \in Request |-> IF r = r1 THEN "subscription_only" ELSE "wallet_only"]

WalletPreference == [r \in Request |-> "wallet_only"]
=============================================================================
