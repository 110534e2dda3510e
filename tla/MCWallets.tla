------------------------------ MODULE MCWallets ------------------------------
(***************************************************************************)
(* Wallets on small instances.  A behaviour exercises one of                *)
(*   - a wallet with its withdrawals whose other writers all lock it,      *)
(*   - one with writers that do not: a client pays activation fees and a   *)
(*     technician is paid for stages without a lock (both Withdrawals),    *)
(*   - the wallets of two contracts and the platform (Settlements).        *)
(***************************************************************************)
EXTENDS Withdrawals, Integers, TLC

CONSTANTS    \* of Settlements
    Clerks, Agreements, Agreed, ActivationRate, CommissionRate, ServiceRate,
    ClientOpening, TechnicianOpening, Refunds, Reversals, MaxResolutions

\* Amounts are whole hundredths and rates whole percents; a refund runs for a positive
\* amount only, and names any amount of fees.
ASSUME AgreementsAssumption == IsFiniteSet(Agreements)
ASSUME RatesAssumption ==
    /\ Agreed \in Nat
    /\ ActivationRate \in Nat /\ CommissionRate \in Nat /\ ServiceRate \in Nat
ASSUME OpeningsAssumption == ClientOpening \in Nat /\ TechnicianOpening \in Nat
ASSUME ResolvedAssumption == Refunds \subseteq Nat \ {0} /\ Reversals \subseteq Int

VARIABLES
    part,     \* what is exercised
    wallet, collected, deal, paid, credits, earnings, held, overwritten

S == INSTANCE Settlements

settlementVars ==
    <<wallet, collected, deal, paid, credits, earnings, held, overwritten>>

WalletsInit ==
    /\ part \in {"locked", "unlocked", "settlements"}
    /\ Init /\ S!Init
    /\ part # "settlements" => \A c \in Agreements : deal[c].status = "signed"

WalletsNext ==
    \/ part = "unlocked" /\ Next /\ UNCHANGED <<part, settlementVars>>
    \/ part = "locked" /\ Next /\ AllLock' /\ UNCHANGED <<part, settlementVars>>
    \/ part = "settlements" /\ S!Next /\ UNCHANGED <<part, vars>>

WalletsSpec == WalletsInit /\ [][WalletsNext]_<<part, vars, settlementVars>>

\* Requests, withdrawals and contracts are interchangeable.
WalletsSymmetry ==
    Permutations(Workers) \cup Permutations(Withdrawals)
        \cup Permutations(Clerks) \cup Permutations(Agreements)

-----------------------------------------------------------------------------
\* LedgerExplainsBalance (Withdrawals.tla), of the wallet whose writers all lock
\* it (process_withdrawal_request).
LockedLedgerExplainsBalance == part = "locked" => LedgerExplainsBalance
\* Settlements: balance, counter and transactions of the platform agree
\* (settle_completed_contract, _reverse_platform_fees).
PlatformBooksAgree == S!PlatformBooksAgree
\* Settlements: what the reconciliation reports (reconcile_contract).
ReconciliationIsExplained == S!ReconciliationIsExplained
=============================================================================
