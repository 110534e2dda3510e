---------------------------- MODULE MCExecution ----------------------------
(***************************************************************************)
(* The work on a contract on small instances: its milestones, completion   *)
(* and extensions (Execution), or its payment stages (Stages).  The two    *)
(* share no rows but the contract's, of which they write other columns, so *)
(* a behaviour exercises one of them.                                      *)
(***************************************************************************)
EXTENDS Execution, Integers, TLC

CONSTANTS
    Requests, Prices, Counts, MaxPayments    \* of Stages

\* Prices are numbers, and there is a largest number of stages.
ASSUME TermsAssumption ==
    /\ Prices \subseteq Int /\ Counts \subseteq Nat
    /\ \E m \in Counts : \A n \in Counts : n <= m

VARIABLES
    part,      \* what is exercised
    row, stages, payments, editing, late, aborted, crossed, lost

S == INSTANCE Stages WITH req <- editing

stageVars == <<row, stages, payments, editing, late, aborted, crossed, lost>>

WorkInit ==
    /\ part \in {"execution", "stages"}
    /\ Init /\ S!Init
    /\ part = "execution" => ~row.described
    /\ part = "stages" => Existing = {}
WorkNext ==
    \/ part = "execution" /\ Next /\ UNCHANGED <<part, stageVars>>
    \/ part = "stages" /\ S!Next /\ UNCHANGED <<part, vars>>

WorkSpec == WorkInit /\ [][WorkNext]_<<part, vars, stageVars>>

\* Requests and milestones are interchangeable.
WorkSymmetry ==
    Permutations(Workers) \cup Permutations(Milestones) \cup Permutations(Requests)

-----------------------------------------------------------------------------
\* Stages: the stages are one split of a saved proposal, and of the contract's terms
\* unless these changed or the creation broke off (Contract.save).
StagesAddUp == S!StagesAddUp
\* Stages: a stage is paid twice only by requests that overlap, and total_paid
\* sums the payments unless one was lost (approve_by_client, update_stage).
StagesArePaidOnce == S!StagesArePaidOnce
=============================================================================
