-------------------------- MODULE MCContractEscrow --------------------------
(***************************************************************************)
(* ContractEscrow on small instances, with a statement that the repository *)
(* makes of the contract's money and the code does not keep.               *)
(***************************************************************************)
EXTENDS ContractEscrow, FiniteSetsExt, TLC

\* Requests are interchangeable: no action or property names one of them.
WorkerSymmetry == Permutations(Workers)

\* wallet/reconciliation_services.py:151, no duplicate release transactions: a
\* one-stage contract is paid out by its stage or by its settlement, not both
\* (approve_stage, settle_completed_contract).
NoDuplicateRelease ==
    MapThenSumSet(LAMBDA s : releases[s], Stages) + settlements <= 1
=============================================================================
