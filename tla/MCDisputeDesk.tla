---------------------------- MODULE MCDisputeDesk ----------------------------
(***************************************************************************)
(* The desk for the disputes of a contract (DisputeDesk) beside the        *)
(* contract itself (ContractDisputes).  Both have the same disputes; what  *)
(* the desk is told of the contract is whether it is settled and what it   *)
(* holds.  Here the desk is exercised, and the contract stands still.      *)
(***************************************************************************)
EXTENDS ContractDisputes

CONSTANTS
    Chargebacks, Principal, TechnicianNet, Savings, Entered, MaxUpholds
                                        \* of DisputeDesk

\* Entered amounts, the escrow of a contract in dispute and a wallet are not
\* negative; the technician's net amount is, when a commission is over 100%.
ASSUME DeskAssumption == /\ Entered \subseteq Nat
                         /\ Principal \in Nat
                         /\ TechnicianNet \in Int
                         /\ Savings \in Nat
                         /\ MaxUpholds \in Nat

VARIABLES
    settled, held, technician, client, case, resolutions, refund, liability,
    chargeback, desk

D == INSTANCE DisputeDesk WITH escrow <- held, dispute <- case

deskVars ==
    <<settled, held, technician, client, case, resolutions, refund, liability,
      chargeback, desk>>

DeskInit == D!Init /\ DisputeInit

DeskNext == D!Next /\ UNCHANGED allVars

DeskSpec ==
    DeskInit /\ [][DeskNext]_<<deskVars, allVars>> /\ D!Fairness

-----------------------------------------------------------------------------
\* The desk's records are well formed.  Before the settlement every dinar is in
\* escrow or has come back to the client; the settlement pays the technician's
\* net amount, although refunds may have taken part of it, so that together the
\* two get at most those refunds more than the net (_execute_refund,
\* settle_completed_contract).
DeskMoneyAddsUp == D!TypeOK /\ D!MoneyAddsUp
\* Resolutions agree with the status of their disputes, of which one at most is
\* under review (resolve_dispute, sandbox_uphold_chargeback).
ResolutionsAgree == D!ResolutionsAgree
\* Money comes back to the client only with the record of a resolution of at
\* least that amount (_execute_refund, AdminRefundRetryView).
RefundsAreResolved == D!RefundsAreResolved
\* A refund that is being retried comes to an end (AdminRefundRetryView).
RetriedRefundsEnd == D!RetriedRefundsEnd
=============================================================================
