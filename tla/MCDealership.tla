---------------------------- MODULE MCDealership ----------------------------
(* A dealership with one client and two concurrent requests.               *)
EXTENDS Dealership, TLC

\* A recharge and its reversal: the amount's sign is not tested.
SignedAmounts == {-2, 2}

DealershipSymmetry == Permutations(Requests) \union Permutations(Keys)
=============================================================================
