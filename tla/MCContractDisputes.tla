------------------------- MODULE MCContractDisputes -------------------------
(***************************************************************************)
(* ContractDisputes on small instances.                                    *)
(***************************************************************************)
EXTENDS ContractDisputes, TLC

\* Requests, and disputes, are interchangeable.
DisputeSymmetry == Permutations(Workers) \cup Permutations(Disputes)

\* No endpoint tests the sign of a proposed amount.
SomeAmounts == {-1, 2}
=============================================================================
