----------------------------- MODULE QuotaLedger -----------------------------
(***************************************************************************)
(* What the daily quota promises a user, whatever fails underneath: each   *)
(* job takes a slot at most once, gives it back at most once and only      *)
(* after it took it, and no more than Limit slots are ever taken.          *)
(* ConversionQueue implements this.                                        *)
(***************************************************************************)
EXTENDS Naturals

CONSTANTS Jobs, Limit

VARIABLES
  account,   \* per job: free, charged or refunded
  used       \* slots taken

Charge(j) ==
  /\ account[j] = "free" /\ used < Limit
  /\ account' = [account EXCEPT ![j] = "charged"]
  /\ used' = used + 1

Refund(j) ==
  /\ account[j] = "charged"
  /\ account' = [account EXCEPT ![j] = "refunded"]
  /\ used' = used - 1

Init == account = [j \in Jobs |-> "free"] /\ used = 0

Next == \E j \in Jobs : Charge(j) \/ Refund(j)

Spec == Init /\ [][Next]_<<account, used>>

=============================================================================
