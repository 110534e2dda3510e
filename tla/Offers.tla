------------------------------- MODULE Offers -------------------------------
(***************************************************************************)
(* A service request, the technician's offers for it and the contracts     *)
(* that accepted offers create (servicerequest/views.py,                   *)
(* contract/offer_services.py).                                            *)
(*                                                                         *)
(* Except for an acceptance, an endpoint fetches the row, tests it, and    *)
(* saves every column of it.  The save is preceded by Model.clean, which   *)
(* reads the stored status again and checks the transition, in a statement *)
(* of its own: three steps, between which other requests run.              *)
(***************************************************************************)
EXTENDS Naturals, Sequences

CONSTANTS
    Workers,      \* concurrent requests in flight
    OfferIds,     \* offers that can be created
    Amounts,      \* amounts of an offer
    NoAmount,     \* the amount of an offer that does not exist
    MaxContracts, \* bound on the contracts that are created
    MaxSaves      \* bound on the saves that reach an accepted offer late

ASSUME NoAmountAssumption == NoAmount \notin Amounts
ASSUME BoundAssumption == MaxContracts \in Nat /\ MaxSaves \in Nat

VARIABLES
    request,   \* status of the ServiceRequest
    agreed,    \* the technician has accepted the request
    offer,     \* the Offer rows
    submitted, \* amounts that each offer was submitted with
    contracts, \* contracts created, with the offer and the amount
    undone,    \* acceptances that a later save has overwritten
    req        \* what each request in flight has read

vars == <<request, agreed, offer, submitted, contracts, undone, req>>

RequestStatus == {"PENDING", "ACCEPTED", "DECLINED", "CANCELLED", "WITHDRAWN"}
OfferStatus == {"DRAFT", "SUBMITTED", "ACCEPTED", "REJECTED", "WITHDRAWN"}

\* The endpoints on the request and the status each of them saves.
AnswerOps == {"accept", "decline", "cancel", "withdraw_request"}
MisspeltStatus(op) == IF op = "cancel" THEN "CANCELED" ELSE "ACCEPTED"
AnswerStatus(op) ==
    CASE op = "accept" -> "ACCEPTED"
      [] op = "decline" -> "DECLINED"
      [] op = "cancel" -> "CANCELLED"
      [] op = "withdraw_request" -> "WITHDRAWN"

\* The endpoints that save an offer, the statuses they act on and the one they
\* save.
SaveOps == {"update", "submit", "withdraw", "reject"}
MayStart(op) ==
    CASE op \in {"update", "submit"} -> {"DRAFT"}
      [] op = "withdraw" -> {"DRAFT", "SUBMITTED"}
      [] op = "reject" -> {"SUBMITTED"}
NewStatus(op) ==
    CASE op = "update" -> "DRAFT"
      [] op = "submit" -> "SUBMITTED"
      [] op = "withdraw" -> "WITHDRAWN"
      [] op = "reject" -> "REJECTED"

NoOffer == [status |-> "none", amount |-> NoAmount]
Row == [status : OfferStatus, amount : Amounts]
Exists(o) == offer[o] # NoOffer

\* A request in flight: its operation, the offer it works on, the amount of the
\* object it will save, whether clean has passed, and the offers that a
\* submission has withdrawn and locked.
Request == [op : AnswerOps \cup SaveOps \cup {"create"}, on : OfferIds,
            amount : Amounts \cup {NoAmount}, checked : BOOLEAN,
            locked : SUBSET OfferIds]
Idle == [op |-> "idle"]

TypeOK ==
    /\ request \in RequestStatus /\ agreed \in BOOLEAN
    /\ offer \in [OfferIds -> Row \cup {NoOffer}]
    /\ submitted \in [OfferIds -> SUBSET Amounts]
    /\ contracts \in Seq([offer : OfferIds, amount : Amounts])
    /\ undone \in Nat
    /\ req \in [Workers -> Request \cup {Idle}]

\* The client has created the request, for a technician who can take it.
Init ==
    /\ request = "PENDING" /\ agreed = FALSE
    /\ offer = [o \in OfferIds |-> NoOffer]
    /\ submitted = [o \in OfferIds |-> {}]
    /\ contracts = <<>>
    /\ undone = 0
    /\ req = [w \in Workers |-> Idle]

-----------------------------------------------------------------------------
Fetch(w, op, o, a) ==
    /\ req[w] = Idle
    /\ req' = [req EXCEPT ![w] = [op |-> op, on |-> o, amount |-> a,
                                  checked |-> FALSE, locked |-> {}]]
    /\ UNCHANGED <<request, agreed, offer, submitted, contracts, undone>>

Finish(w) == req' = [req EXCEPT ![w] = Idle]

\* A failed clean, a deadlock that the database resolves, a crash.
Rollback(w) ==
    /\ req[w] # Idle
    /\ Finish(w)
    /\ UNCHANGED <<request, agreed, offer, submitted, contracts, undone>>

InFlight(w, ops) == req[w] # Idle /\ req[w].op \in ops

-----------------------------------------------------------------------------
(***************************************************************************)
(* The service request                                                     *)
(***************************************************************************)
BeginAnswer(w, op) ==
    /\ request = "PENDING"
    /\ \E o \in OfferIds : Fetch(w, op, o, NoAmount)

\* ServiceRequest.clean: only PENDING leads anywhere.
RequestTransition(from, to) == from = to \/ from = "PENDING"

CheckAnswer(w) ==
    /\ InFlight(w, AnswerOps) /\ ~req[w].checked
    /\ RequestTransition(request, AnswerStatus(req[w].op))
    /\ req' = [req EXCEPT ![w].checked = TRUE]
    /\ UNCHANGED <<request, agreed, offer, submitted, contracts, undone>>

SaveAnswer(w) ==
    /\ InFlight(w, AnswerOps) /\ req[w].checked
    /\ request' = AnswerStatus(req[w].op)
    /\ agreed' = (agreed \/ request' = "ACCEPTED")
    /\ Finish(w)
    /\ UNCHANGED <<offer, submitted, contracts, undone>>

-----------------------------------------------------------------------------
(***************************************************************************)
(* Offers                                                                  *)
(***************************************************************************)
AnyRequest == TRUE
RequestAccepted == request = "ACCEPTED"

BeginCreate(w, a) ==
    /\ RequestAccepted
    /\ \E o \in OfferIds : Fetch(w, "create", o, a)

CreateOffer(w) ==
    LET o == req[w].on
    IN  /\ InFlight(w, {"create"})
        /\ ~Exists(o)
        /\ offer' = [offer EXCEPT ![o] = [status |-> "DRAFT",
                                          amount |-> req[w].amount]]
        /\ Finish(w)
        /\ UNCHANGED <<request, agreed, submitted, contracts, undone>>

\* An update carries the new amount, every other operation the one it fetched.
BeginSave(w, op, o, a) ==
    /\ Exists(o) /\ offer[o].status \in MayStart(op)
    /\ op # "update" => a = offer[o].amount
    /\ Fetch(w, op, o, a)

\* ClientOfferRejectView; the other endpoints are the technician's.
BeginReject(w, o) == BeginSave(w, "reject", o, offer[o].amount)

Transitions ==
    [s \in OfferStatus |->
        CASE s = "DRAFT" -> {"SUBMITTED", "WITHDRAWN"}
          [] s = "SUBMITTED" -> {"ACCEPTED", "REJECTED", "WITHDRAWN"}
          [] OTHER -> {}]
OfferTransition(from, to) == from = to \/ to \in Transitions[from]

\* Rows that a submission in flight has updated are locked until it ends.
Locked(o) == \E v \in Workers : InFlight(v, {"submit"}) /\ o \in req[v].locked

OtherSubmitted(o) ==
    {p \in OfferIds \ {o} : offer[p].status = "SUBMITTED"}

\* The transaction up to the end of clean; a submission first withdraws the
\* submitted offers it can see.
CheckSave(w) ==
    LET o == req[w].on
        others == IF req[w].op = "submit" THEN OtherSubmitted(o) ELSE {}
    IN  /\ InFlight(w, SaveOps) /\ ~req[w].checked
        /\ \A p \in others : ~Locked(p)
        /\ OfferTransition(offer[o].status, NewStatus(req[w].op))
        /\ req' = [req EXCEPT ![w].checked = TRUE, ![w].locked = others]
        /\ UNCHANGED <<request, agreed, offer, submitted, contracts, undone>>

\* The save of every column, and with it the withdrawals.
SaveOffer(w) ==
    LET o == req[w].on
        status == NewStatus(req[w].op)
    IN  /\ InFlight(w, SaveOps) /\ req[w].checked
        /\ ~Locked(o)
        /\ offer[o].status = "ACCEPTED" => undone < MaxSaves
        /\ offer' = [p \in OfferIds |->
                        IF p = o
                        THEN [status |-> status, amount |-> req[w].amount]
                        ELSE IF p \in req[w].locked
                        THEN [offer[p] EXCEPT !.status = "WITHDRAWN"]
                        ELSE offer[p]]
        /\ submitted' = IF status = "SUBMITTED"
                        THEN [submitted EXCEPT ![o] = @ \cup {req[w].amount}]
                        ELSE submitted
        /\ undone' = IF offer[o].status = "ACCEPTED" THEN undone + 1 ELSE undone
        /\ Finish(w)
        /\ UNCHANGED <<request, agreed, contracts>>

\* Acceptance locks the offer and tests it again; the partial unique constraint
\* allows one accepted offer.  The contract takes the locked row's amount.
NotConstrained == TRUE
NoneAccepted == \A p \in OfferIds : offer[p].status # "ACCEPTED"

AcceptableDraft(o) == offer[o].status \in {"DRAFT", "SUBMITTED"}
Acceptable(o) == offer[o].status = "SUBMITTED"

AcceptOffer(o) ==
    /\ Acceptable(o) /\ ~Locked(o)
    /\ NoneAccepted
    /\ Len(contracts) < MaxContracts
    /\ offer' = [offer EXCEPT ![o].status = "ACCEPTED"]
    /\ contracts' = Append(contracts, [offer |-> o, amount |-> offer[o].amount])
    /\ UNCHANGED <<request, agreed, submitted, undone, req>>

-----------------------------------------------------------------------------
Next ==
    \/ \E w \in Workers :
          \/ \E op \in AnswerOps : BeginAnswer(w, op)
          \/ CheckAnswer(w)
          \/ SaveAnswer(w)
          \/ \E a \in Amounts : BeginCreate(w, a)
          \/ CreateOffer(w)
          \/ \E o \in OfferIds : BeginReject(w, o)
          \/ \E op \in SaveOps \ {"reject"}, o \in OfferIds, a \in Amounts :
                BeginSave(w, op, o, a)
          \/ CheckSave(w)
          \/ SaveOffer(w)
          \/ Rollback(w)
    \/ \E o \in OfferIds : AcceptOffer(o)

Spec == Init /\ [][Next]_vars

-----------------------------------------------------------------------------
(***************************************************************************)
(* Properties                                                              *)
(***************************************************************************)
\* Besides the first, a contract is created only after a save has overwritten an
\* acceptance, whose clean had still seen the offer submitted or a draft
\* (accept_offer, Offer.save, uq_offer_accepted_per_request).
SecondContractNeedsLateSave ==
    Len(contracts) <= undone + 1

\* A contract is for an amount that the technician has submitted for that offer,
\* although updates in flight save other amounts over a submitted offer, and a
\* submission saves the amount it fetched over an update (submit_offer,
\* update_offer, accept_offer).
ContractTermsWereSubmitted ==
    \A i \in DOMAIN contracts :
        contracts[i].amount \in submitted[contracts[i].offer]

\* There are offers, and so contracts, only for a request that the technician has
\* accepted, although a cancellation that was checked before may be saved over
\* the acceptance (create_offer, ServiceRequest.clean).
OffersFollowAcceptance ==
    (\E o \in OfferIds : Exists(o)) \/ contracts # <<>> => agreed

\* The rows are well-typed, contracts come from submitted offers of accepted
\* requests, and a second one only from a late save (accept_offer).
ContractsFollowOffers ==
    /\ TypeOK /\ OffersFollowAcceptance
    /\ ContractTermsWereSubmitted
    /\ SecondContractNeedsLateSave

-----------------------------------------------------------------------------
(***************************************************************************)
(* Why they hold.                                                          *)
(***************************************************************************)

\* Until an acceptance is overwritten, its offer accounts for its contract.
ContractsCounted ==
    \/ Len(contracts) <= undone
    \/ Len(contracts) <= undone + 1 /\ \E o \in OfferIds : offer[o].status = "ACCEPTED"

\* A submission holds the rows that it withdraws, alone: no acceptance and no
\* other save comes between its update of them and its commit.
LocksHold ==
    /\ \A w \in Workers : req[w] # Idle =>
          \A p \in req[w].locked : offer[p].status = "SUBMITTED" /\ req[w].op = "submit"
    /\ \A v, w \in Workers : v # w /\ req[v] # Idle /\ req[w] # Idle =>
          req[v].locked \cap req[w].locked = {}

\* Offers are only inserted and saved, with the amounts they were given.
SavedRowsExist ==
    /\ \A w \in Workers : InFlight(w, SaveOps) =>
          Exists(req[w].on) /\ req[w].amount \in Amounts
    /\ \A w \in Workers : InFlight(w, {"create"}) => agreed /\ req[w].amount \in Amounts

IInv ==
    /\ TypeOK
    /\ request = "ACCEPTED" => agreed
    /\ OffersFollowAcceptance
    /\ \A o \in OfferIds : offer[o].status = "SUBMITTED" => offer[o].amount \in submitted[o]
    /\ ContractTermsWereSubmitted
    /\ ContractsCounted /\ LocksHold /\ SavedRowsExist
=============================================================================
