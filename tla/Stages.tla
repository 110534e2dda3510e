------------------------------- MODULE Stages -------------------------------
(***************************************************************************)
(* The payment stages of one contract: how the first complete save of its  *)
(* row splits the agreed amount into stage rows, and how these are edited, *)
(* submitted and paid (contract/models.py, contract/services.py).          *)
(*                                                                         *)
(* A proposal is saved, and its stages are inserted one by one, in         *)
(* statements of their own; an acceptance does all that in a transaction.  *)
(* Both save every column of the contract they fetched, and an edit every  *)
(* column of its stage.  The steps from acceptance to funding are in       *)
(* ContractSigning and ContractEscrow; no stage endpoint asks for them.    *)
(***************************************************************************)
EXTENDS Integers, Sequences, Functions, FiniteSetsExt

CONSTANTS
    Requests,     \* requests in flight
    Prices,       \* agreed amounts that are proposed, in hundredths
    Counts,       \* numbers of stages that are proposed
    MaxPayments   \* bound on the payments of all stages together

VARIABLES
    row,      \* the contract: its terms, status and total_paid
    stages,   \* its ContractStage rows, in order
    payments, \* number of RELEASE transactions of each stage
    req,      \* what each request in flight holds
    late,     \* history: the terms changed when stages existed or were being made
    aborted,  \* history: a creation of stages ended before its time
    crossed,  \* history: stages approved while another request held them unapproved
    lost      \* history: a total_paid was saved from an older one

history == <<late, aborted, crossed, lost>>
vars == <<row, stages, payments, req, history>>

Idle == [op |-> "idle"]
Numbers == 1 .. Max(Counts)
Total(seq) == SumFunction(seq)
Terms(r) == [amount |-> r.amount, count |-> r.count]

-----------------------------------------------------------------------------
(* Splitting.                                                              *)

\* quantize of the quotient, with the default ROUND_HALF_EVEN.
Share(amount, n) ==
    LET q == amount \div n
        r == 2 * (amount % n)
    IN  IF r < n \/ (r = n /\ q % 2 = 0) THEN q ELSE q + 1

EvenSplit(amount, n) == [k \in 1 .. n |-> Share(amount, n)]
\* The last stage gets what the others leave, which may be less than nothing.
Split(amount, n) ==
    [k \in 1 .. n |->
        IF k < n THEN Share(amount, n) ELSE amount - (n - 1) * Share(amount, n)]

NewStage(amount) == [amount |-> amount, done |-> FALSE, approved |-> FALSE]
NewStages(t) == [k \in 1 .. t.count |-> NewStage(Split(t.amount, t.count)[k])]

-----------------------------------------------------------------------------
Init ==
    /\ row \in [amount : {0}, count : {0}, described : BOOLEAN,
                status : {"draft"}, total_paid : {0}]
    /\ stages = <<>>
    /\ payments = [k \in Numbers |-> 0]
    /\ req = [w \in Requests |-> Idle]
    /\ late = FALSE /\ aborted = FALSE /\ crossed = {} /\ lost = FALSE

Begin(w, job) ==
    /\ req[w] = Idle
    /\ req' = [req EXCEPT ![w] = job]
    /\ UNCHANGED <<row, stages, payments, history>>

InFlight(w, op) == req[w].op = op
Finish(w) == req' = [req EXCEPT ![w] = Idle]
Creating == \E w \in Requests : InFlight(w, "create")

\* The dates are given together with the number of stages.
Ready(r) == r.amount > 0 /\ r.count > 0

\* save() moves a complete draft on.
Saved(r) ==
    IF r.status = "draft" /\ Ready(r) /\ r.described
    THEN [r EXCEPT !.status = "pending_acceptance"] ELSE r

SaveRow(fetched, r) ==
    /\ row' = Saved(r)
    /\ late' = (late \/ (Terms(r) # Terms(row) /\ (stages # <<>> \/ Creating)))
    /\ lost' = (lost \/ r.total_paid # row.total_paid)

-----------------------------------------------------------------------------
(***************************************************************************)
(* Terms                                                                   *)
(***************************************************************************)
\* The technician fills in some fields of a draft.
BeginPropose(w) ==
    /\ row.status = "draft"
    /\ \E a \in Prices \cup {row.amount}, n \in Counts \cup {row.count},
          d \in {row.described, TRUE} :
          Begin(w, [op |-> "propose",
                    saves |-> [row EXCEPT !.amount = a, !.count = n, !.described = d]])

CommitPropose(w) ==
    LET r == req[w].saves
    IN  /\ InFlight(w, "propose")
        /\ SaveRow(row, r)
        /\ req' = [req EXCEPT ![w] = IF Ready(r) /\ stages = <<>>
                                     THEN [op |-> "create", for |-> Terms(r), next |-> 1]
                                     ELSE Idle]
        /\ UNCHANGED <<stages, payments, aborted, crossed>>

NumberFree(k) == Len(stages) < k

\* One insert; the stage number is unique, and a refused insert ends the request.
InsertStage(w) ==
    LET j == req[w]
    IN  /\ InFlight(w, "create")
        /\ IF NumberFree(j.next)
           THEN /\ stages' = Append(stages, NewStages(j.for)[j.next])
                /\ req' = [req EXCEPT ![w] =
                       IF j.next = j.for.count THEN Idle ELSE [j EXCEPT !.next = @ + 1]]
           ELSE Finish(w) /\ UNCHANGED stages
        /\ UNCHANGED <<row, payments, history>>

\* A party accepts: the transaction saves the row, and makes the stages if there
\* are none.
BeginAccept(w) ==
    row.status = "pending_acceptance" /\ Begin(w, [op |-> "accept", saves |-> row])

CommitAccept(w) ==
    LET r == req[w].saves
    IN  /\ InFlight(w, "accept")
        /\ SaveRow(row, r)
        /\ stages' = IF stages = <<>> THEN NewStages(Terms(r)) ELSE stages
        /\ Finish(w)
        /\ UNCHANGED <<payments, aborted, crossed>>

\* The process dies, or the client goes away before the save.
Abandon(w) ==
    /\ req[w] # Idle
    /\ aborted' = (aborted \/ InFlight(w, "create"))
    /\ Finish(w)
    /\ UNCHANGED <<row, stages, payments, late, crossed, lost>>

-----------------------------------------------------------------------------
(***************************************************************************)
(* Work and payment                                                        *)
(***************************************************************************)
Submitted(stage) == [stage EXCEPT !.done = TRUE]

Submit(k) ==
    /\ ~stages[k].done
    /\ stages' = [stages EXCEPT ![k] = Submitted(@)]
    /\ UNCHANGED <<row, payments, req, history>>

\* update_stage saves the whole row that it fetched before the approval.
BeginEdit(w, k) ==
    ~stages[k].approved /\ Begin(w, [op |-> "edit", on |-> k, saves |-> stages[k]])

CommitEdit(w) ==
    /\ InFlight(w, "edit")
    /\ stages' = [stages EXCEPT ![req[w].on] = req[w].saves]
    /\ Finish(w)
    /\ UNCHANGED <<row, payments, history>>

Paid(stage) == TRUE
Unpaid(stage) == ~stage.approved

BeginApprove(w, k) ==
    /\ stages[k].done /\ Unpaid(stages[k])
    /\ Begin(w, [op |-> "approve", on |-> k, total |-> row.total_paid])

Holds(w, k) == (InFlight(w, "edit") \/ InFlight(w, "approve")) /\ req[w].on = k

\* The stage is paid, total_paid is raised from the row that was read, and the
\* contract is completed when this was the last stage there is.
CommitApprove(w) ==
    LET k == req[w].on
    IN  /\ InFlight(w, "approve") /\ Total(payments) < MaxPayments
        /\ payments' = [payments EXCEPT ![k] = @ + 1]
        /\ stages' = [stages EXCEPT ![k].approved = TRUE]
        /\ row' = [row EXCEPT
               !.total_paid = req[w].total + stages[k].amount,
               !.status = IF \A j \in DOMAIN stages : stages'[j].approved
                          THEN "completed" ELSE @]
        /\ crossed' = IF \E v \in Requests \ {w} : Holds(v, k)
                      THEN crossed \cup {k} ELSE crossed
        /\ lost' = (lost \/ req[w].total # row.total_paid)
        /\ Finish(w)
        /\ UNCHANGED <<late, aborted>>

Next ==
    \/ \E w \in Requests :
          \/ BeginPropose(w) \/ BeginAccept(w) \/ Abandon(w)
          \/ CommitPropose(w) \/ InsertStage(w) \/ CommitAccept(w)
          \/ CommitEdit(w) \/ CommitApprove(w)
          \/ \E k \in DOMAIN stages : BeginEdit(w, k) \/ BeginApprove(w, k)
    \/ \E k \in DOMAIN stages : Submit(k)

Spec == Init /\ [][Next]_vars

-----------------------------------------------------------------------------
(***************************************************************************)
(* Properties                                                              *)
(***************************************************************************)
StageAmounts == [k \in DOMAIN stages |-> stages[k].amount]

\* All stage rows come from one saved proposal, whichever requests raced to
\* create them: they are what its amount is split into, in order,
\* and add up to it once all are there (_create_contract_stages, unique_together).
FromOneSplit ==
    stages # <<>> =>
        \E a \in Prices, n \in Counts :
            /\ Len(stages) <= n
            /\ \A k \in DOMAIN stages : stages[k].amount = Split(a, n)[k]
            /\ Len(stages) = n => Total(StageAmounts) = a

\* Once a contract is offered and no creation is under way, its stages are as many
\* and worth as much as it says, unless the creation was cut short or the terms
\* changed after it had begun: a draft without a description has stages already,
\* and no later proposal renews them (Contract.save, update_contract_proposal).
StagesAddUp ==
    /\ FromOneSplit
    /\ row.status # "draft" /\ ~Creating =>
          \/ late \/ aborted
          \/ Len(stages) = row.count /\ Total(StageAmounts) = row.amount

\* A stage is paid again only if another request held it unapproved when it was
\* approved; an approved stage was paid; and total_paid is the sum of the payments
\* unless one was saved from an older total (approve_by_client, update_stage).
StagesArePaidOnce ==
    /\ \A k \in Numbers : payments[k] > 1 => k \in crossed
    /\ \A k \in DOMAIN stages : stages[k].approved => payments[k] > 0
    /\ \/ lost
       \/ row.total_paid =
              Total([k \in DOMAIN stages |-> payments[k] * stages[k].amount])
-----------------------------------------------------------------------------
(***************************************************************************)
(* Why they hold.                                                          *)
(***************************************************************************)
Rows == [amount : Prices \cup {0}, count : Counts \cup {0}, described : BOOLEAN,
         status : {"draft", "pending_acceptance", "completed"}, total_paid : Int]
Stage == [amount : Int, done : BOOLEAN, approved : BOOLEAN]
Deals == {t \in [amount : Prices, count : Counts] : Ready(t)}
Jobs ==
    [op : {"propose", "accept"}, saves : Rows]
        \cup [op : {"create"}, for : Deals, next : Nat \ {0}]
        \cup [op : {"edit"}, on : Numbers, saves : Stage]
        \cup [op : {"approve"}, on : Numbers, total : Int]
        \cup {Idle}

WellTyped ==
    /\ row \in Rows /\ (row.status = "pending_acceptance" => Ready(row))
    /\ row.status = "completed" => stages # <<>>
    /\ stages \in Seq(Stage) /\ payments \in [Numbers -> Nat]
    /\ req \in [Requests -> Jobs]
    /\ late \in BOOLEAN /\ aborted \in BOOLEAN /\ lost \in BOOLEAN

\* What is held unapproved was not paid, or its approval crossed the request.
Clear(k) == payments[k] = 0 \/ k \in crossed

\* What a request has read: only its flag of a stage can be out of date, and the
\* terms that it makes stages from if those have changed late.
Founded(j) ==
    /\ j.op = "propose" => j.saves.status = "draft"
    /\ j.op = "accept" => j.saves.status = "pending_acceptance" /\ Ready(j.saves)
    /\ j.op = "create" =>
          /\ j.next <= j.for.count /\ j.next <= Len(stages) + 1
          /\ late \/ j.for = Terms(row)
    /\ j.op \in {"edit", "approve"} => j.on \in DOMAIN stages /\ Clear(j.on)
    /\ j.op = "edit" => ~j.saves.approved /\ j.saves.amount = stages[j.on].amount

\* The request whose insert comes next.
Leads(j) == j.op = "create" /\ j.next = Len(stages) + 1

MadeFrom(t) ==
    /\ Len(stages) <= t.count
    /\ \A k \in DOMAIN stages : stages[k].amount = Split(t.amount, t.count)[k]
    /\ \A w \in Requests : Leads(req[w]) => req[w].for = t

\* Whoever inserts the first stage makes the others, unless it is stopped.
OneMaker ==
    /\ stages # <<>> => \E t \in Deals : MadeFrom(t) /\ (late \/ t = Terms(row))
    /\ \/ late \/ aborted
       \/ stages = <<>> /\ row.status = "draft"
       \/ Len(stages) = row.count
       \/ \E w \in Requests : Leads(req[w])

UnapprovedIsClear ==
    /\ \A k \in Numbers \ DOMAIN stages : payments[k] = 0
    /\ \A k \in DOMAIN stages : ~stages[k].approved => Clear(k)

IInv ==
    /\ WellTyped
    /\ \A w \in Requests : Founded(req[w])
    /\ OneMaker /\ UnapprovedIsClear /\ StagesArePaidOnce
=============================================================================
