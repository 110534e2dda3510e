-------------------------- MODULE MCContractSigning --------------------------
(***************************************************************************)
(* ContractSigning on small instances.                                     *)
(***************************************************************************)
EXTENDS ContractSigning, TLC

\* Requests, and complete terms, are interchangeable.
SigningSymmetry == Permutations(Workers) \cup Permutations(Terms)
==============================================================================
