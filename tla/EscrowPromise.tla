---------------------------- MODULE EscrowPromise ----------------------------
(***************************************************************************)
(* What the payment endpoints together promise about one signed contract,  *)
(* with no requests, rows or races in it: the contract is activated, then  *)
(* funded, then its escrow is released to the technician; each of the      *)
(* three happens at most once, and none before the one it depends on.      *)
(***************************************************************************)
VARIABLES charged,  \* the activation has been charged and the escrow held
          funded,   \* a funding payment has been received
          released  \* the escrow has been settled to the technician

vars == <<charged, funded, released>>

Init == ~charged /\ ~funded /\ ~released

Charge == /\ ~charged
          /\ charged' = TRUE
          /\ UNCHANGED <<funded, released>>

Fund == /\ charged /\ ~funded
        /\ funded' = TRUE
        /\ UNCHANGED <<charged, released>>

Release == /\ funded /\ ~released
           /\ released' = TRUE
           /\ UNCHANGED <<charged, funded>>

Next == Charge \/ Fund \/ Release

Spec == Init /\ [][Next]_vars
=============================================================================
