------------------------- MODULE MarketplaceProofs -------------------------
(***************************************************************************)
(* Theorems about the offers, the chat and the reviews, for any finite     *)
(* sets of requests in flight, contracts and voters and any number of      *)
(* offers, rooms, messages and edits.                                      *)
(*                                                                         *)
(* Each component has an inductive invariant of its own, stated at the end *)
(* of its module; in MarketSpec the other two components stand still.      *)
(***************************************************************************)
EXTENDS MCMarketplace, SumLemmas, FiniteSetTheorems, TLAPS

(***************************************************************************)
(* Offers.                                                                 *)
(***************************************************************************)
\* Statuses that saves write.
LEMMA SavedStatuses ==
    /\ \A op \in SaveOps : NewStatus(op) \in OfferStatus \ {"ACCEPTED"}
    /\ \A op \in SaveOps : NewStatus(op) = "SUBMITTED" <=> op = "submit"
    /\ \A op \in AnswerOps : AnswerStatus(op) \in RequestStatus
    /\ \A op \in SaveOps : MayStart(op) \subseteq OfferStatus
    /\ \A r \in Row : r # NoOffer
    /\ \A r \in Request : r # Idle /\ r.op # "idle"
BY DEF SaveOps, NewStatus, OfferStatus, AnswerOps, AnswerStatus, RequestStatus, MayStart,
       Row, NoOffer, Request, Idle

LEMMA OffersInit == Init => IInv
<1> SUFFICES ASSUME Init PROVE IInv
  OBVIOUS
<1>1. <<>> \in Seq([offer : OfferIds, amount : Amounts]) /\ Len(<<>>) = 0 /\ DOMAIN <<>> = {}
  OBVIOUS
<1>2. TypeOK
  BY <1>1 DEF Init, TypeOK, RequestStatus
<1>3. QED
  BY <1>1, <1>2 DEF Init, IInv, OffersFollowAcceptance, Exists, NoOffer, ContractTermsWereSubmitted,
     ContractsCounted, LocksHold, SavedRowsExist, InFlight

\* Requests that only read.
LEMMA FetchKeeps ==
    ASSUME IInv, NEW w \in Workers, NEW op \in AnswerOps \cup SaveOps \cup {"create"},
           NEW o \in OfferIds, NEW a \in Amounts \cup {NoAmount}, Fetch(w, op, o, a),
           op \in SaveOps => Exists(o) /\ a \in Amounts,
           op = "create" => request = "ACCEPTED" /\ a \in Amounts
    PROVE  IInv'
<1>1. TypeOK'
  BY DEF IInv, TypeOK, Fetch, Request, SaveOps, AnswerOps
<1>2. LocksHold'
  BY DEF IInv, TypeOK, LocksHold, Fetch
<1>3. SavedRowsExist'
  BY DEF IInv, TypeOK, SavedRowsExist, Fetch, InFlight, Exists, SaveOps
<1>4. QED
  BY <1>1, <1>2, <1>3 DEF IInv, Fetch, OffersFollowAcceptance, Exists, ContractTermsWereSubmitted, ContractsCounted

LEMMA ReleaseKeeps ==
    ASSUME IInv, NEW w \in Workers, Finish(w)
    PROVE  /\ req' \in [Workers -> Request \cup {Idle}]
           /\ req'[w] = Idle /\ \A v \in Workers \ {w} : req'[v] = req[v]
           /\ \A v \in Workers : req'[v] # Idle => v # w /\ req'[v] = req[v]
           /\ UNCHANGED <<offer, agreed>> => LocksHold' /\ SavedRowsExist'
<1>1. /\ req' \in [Workers -> Request \cup {Idle}]
      /\ req'[w] = Idle /\ \A v \in Workers \ {w} : req'[v] = req[v]
      /\ \A v \in Workers : req'[v] # Idle => v # w /\ req'[v] = req[v]
  BY DEF IInv, TypeOK, Finish
<1>2. QED
  BY <1>1 DEF IInv, LocksHold, SavedRowsExist, InFlight, Exists

LEMMA AnswersKeep ==
    ASSUME IInv, NEW w \in Workers,
           (\E op \in AnswerOps : BeginAnswer(w, op)) \/ CheckAnswer(w) \/ SaveAnswer(w) \/ Rollback(w)
    PROVE  IInv'
<1>1. CASE \E op \in AnswerOps : BeginAnswer(w, op)
  BY <1>1, FetchKeeps DEF BeginAnswer, AnswerOps, SaveOps
<1>2. CASE CheckAnswer(w)
  <2>1. TypeOK'
    BY <1>2 DEF IInv, TypeOK, CheckAnswer, InFlight, Request
  <2>2. \A v \in Workers : /\ req'[v] # Idle <=> req[v] # Idle
                           /\ req[v] # Idle => /\ req'[v].op = req[v].op /\ req'[v].on = req[v].on
                                               /\ req'[v].amount = req[v].amount
                                               /\ req'[v].locked = req[v].locked
    BY <1>2, SavedStatuses DEF IInv, TypeOK, CheckAnswer, InFlight, Request
  <2>3. LocksHold'
    BY <1>2, <2>2 DEF CheckAnswer, IInv, LocksHold
  <2>4. SavedRowsExist'
    BY <1>2, <2>2 DEF CheckAnswer, IInv, SavedRowsExist, InFlight, Exists
  <2>5. QED
    BY <1>2, <2>1, <2>3, <2>4 DEF CheckAnswer, IInv, OffersFollowAcceptance, Exists, ContractTermsWereSubmitted, ContractsCounted
<1>3. CASE SaveAnswer(w)
  <2>1. request' \in RequestStatus /\ agreed' \in BOOLEAN /\ (agreed => agreed') /\ (request' = "ACCEPTED" => agreed')
    BY <1>3, SavedStatuses DEF SaveAnswer, InFlight, IInv, TypeOK
  <2>2. \A v \in Workers : req'[v] # Idle => req'[v] = req[v] /\ req[v] # Idle
    BY <1>3, ReleaseKeeps DEF SaveAnswer
  <2>3. LocksHold'
    BY <1>3, <2>2 DEF SaveAnswer, IInv, LocksHold
  <2>4. SavedRowsExist'
    BY <1>3, <2>1, <2>2, Zenon DEF SaveAnswer, IInv, SavedRowsExist, InFlight, Exists
  <2>5. QED
    BY <1>3, <2>1, <2>3, <2>4, ReleaseKeeps DEF SaveAnswer, IInv, TypeOK, OffersFollowAcceptance, Exists, ContractTermsWereSubmitted, ContractsCounted
<1>4. CASE Rollback(w)
  BY <1>4, ReleaseKeeps DEF Rollback, IInv, TypeOK, OffersFollowAcceptance, Exists, ContractTermsWereSubmitted, ContractsCounted
<1>5. QED
  BY <1>1, <1>2, <1>3, <1>4

LEMMA CreationsKeep ==
    ASSUME IInv, NEW w \in Workers, (\E a \in Amounts : BeginCreate(w, a)) \/ CreateOffer(w)
    PROVE  IInv'
<1>1. CASE \E a \in Amounts : BeginCreate(w, a)
  BY <1>1, FetchKeeps DEF BeginCreate, RequestAccepted, SaveOps
<1>2. CASE CreateOffer(w)
  <2> DEFINE o == req[w].on
  <2>1. /\ o \in OfferIds /\ agreed /\ req[w].amount \in Amounts /\ offer[o] = NoOffer
        /\ offer' = [offer EXCEPT ![o] = [status |-> "DRAFT", amount |-> req[w].amount]]
        /\ UNCHANGED <<request, agreed, submitted, contracts, undone>>
    BY <1>2, SavedStatuses DEF CreateOffer, IInv, TypeOK, InFlight, Request, SavedRowsExist, Exists
  <2>2. offer' \in [OfferIds -> Row \cup {NoOffer}]
    BY <2>1 DEF IInv, TypeOK, Row, OfferStatus
  <2>3. /\ offer'[o].status = "DRAFT" /\ offer'[o] # NoOffer
        /\ \A p \in OfferIds \ {o} : offer'[p] = offer[p]
        /\ offer[o].status = "none"
    BY <2>1, <2>2 DEF IInv, TypeOK, NoOffer
  <2>4. TypeOK'
    BY <1>2, <2>1, <2>2, ReleaseKeeps DEF CreateOffer, IInv, TypeOK
  <2>5. \A v \in Workers : req'[v] # Idle => req[v] # Idle /\ req'[v] = req[v]
    BY <1>2, ReleaseKeeps DEF CreateOffer
  <2>6. LocksHold'
    BY <2>3, <2>5 DEF IInv, LocksHold, TypeOK, Request
  <2>7. SavedRowsExist'
    BY <2>1, <2>3, <2>5, <2>4, SavedStatuses DEF IInv, SavedRowsExist, InFlight, Exists, TypeOK, Request
  <2>8. ContractsCounted'
    BY <2>1, <2>3 DEF IInv, ContractsCounted
  <2>9. ContractTermsWereSubmitted' /\ OffersFollowAcceptance'
    BY <2>1 DEF IInv, ContractTermsWereSubmitted, OffersFollowAcceptance
  <2>10. (\A p \in OfferIds : offer[p].status = "SUBMITTED" => offer[p].amount \in submitted[p])'
    BY <2>1, <2>3 DEF IInv
  <2>11. QED
    BY <2>1, <2>4, <2>6, <2>7, <2>8, <2>9, <2>10 DEF IInv
<1>3. QED
  BY <1>1, <1>2

LEMMA SavesBegin ==
    ASSUME IInv, NEW w \in Workers, NEW op \in SaveOps, NEW o \in OfferIds, NEW a,
           a \in Amounts \/ a = offer[o].amount, BeginSave(w, op, o, a)
    PROVE  IInv'
<1>1. Exists(o) /\ a \in Amounts
  BY DEF BeginSave, Exists, IInv, TypeOK, Row
<1>2. QED
  BY <1>1, FetchKeeps DEF BeginSave, SaveOps

LEMMA ChecksKeep ==
    ASSUME IInv, NEW w \in Workers, CheckSave(w)
    PROVE  IInv'
<1> DEFINE others == IF req[w].op = "submit" THEN OtherSubmitted(req[w].on) ELSE {}
<1>1. /\ others \subseteq OfferIds
      /\ \A p \in others : offer[p].status = "SUBMITTED" /\ ~Locked(p) /\ req[w].op = "submit"
      /\ req[w] \in Request
      /\ req' = [req EXCEPT ![w] = [req[w] EXCEPT !.checked = TRUE, !.locked = others]]
      /\ UNCHANGED <<request, agreed, offer, submitted, contracts, undone>>
  BY DEF CheckSave, OtherSubmitted, IInv, TypeOK, InFlight
<1> HIDE DEF others
<1>2. TypeOK'
  BY <1>1 DEF IInv, TypeOK, Request
<1>3. /\ \A v \in Workers \ {w} : req'[v] = req[v]
      /\ req'[w].op = req[w].op /\ req'[w].on = req[w].on /\ req'[w].amount = req[w].amount
      /\ req'[w].locked = others /\ req'[w] # Idle /\ req[w] # Idle
  BY <1>1, <1>2, SavedStatuses DEF IInv, TypeOK, Request
<1>4. \A v \in Workers : req[v] # Idle => others \cap req[v].locked = {}
  BY <1>1 DEF IInv, LocksHold, Locked, InFlight
<1>5. LocksHold'
  <2>1. \A v \in Workers : req'[v] # Idle =>
          \A p \in req'[v].locked : offer'[p].status = "SUBMITTED" /\ req'[v].op = "submit"
    BY <1>1, <1>3 DEF IInv, LocksHold
  <2>2. \A u, v \in Workers : u # v /\ req'[u] # Idle /\ req'[v] # Idle =>
          req'[u].locked \cap req'[v].locked = {}
    BY <1>3, <1>4 DEF IInv, LocksHold
  <2>3. QED
    BY <2>1, <2>2 DEF LocksHold
<1>6. SavedRowsExist'
  BY <1>1, <1>3, Zenon DEF IInv, SavedRowsExist, InFlight, Exists
<1>7. QED
  BY <1>1, <1>2, <1>5, <1>6 DEF IInv, OffersFollowAcceptance, Exists, ContractTermsWereSubmitted, ContractsCounted

\* A save overwrites its offer, and withdraws the rows that it holds.
LEMMA SavesKeep ==
    ASSUME IInv, NEW w \in Workers, SaveOffer(w)
    PROVE  IInv'
<1> DEFINE o == req[w].on
           status == NewStatus(req[w].op)
<1>1. /\ req[w] \in Request /\ o \in OfferIds /\ req[w].op \in SaveOps /\ req[w] # Idle
      /\ req[w].locked \subseteq OfferIds
      /\ req[w].amount \in Amounts /\ Exists(o) /\ ~Locked(o)
      /\ status \in OfferStatus \ {"ACCEPTED"}
  BY SavedStatuses DEF SaveOffer, InFlight, IInv, TypeOK, SavedRowsExist, Request
<1>2. /\ \A p \in req[w].locked : offer[p].status = "SUBMITTED"
      /\ \A v \in Workers \ {w} : req[v] # Idle => req[v].locked \cap (req[w].locked \cup {o}) = {}
      /\ o \notin req[w].locked
  BY <1>1 DEF IInv, LocksHold, Locked, InFlight
<1>3. /\ offer'[o] = [status |-> status, amount |-> req[w].amount]
      /\ \A p \in req[w].locked : offer'[p] = [offer[p] EXCEPT !.status = "WITHDRAWN"]
      /\ \A p \in OfferIds : p # o /\ p \notin req[w].locked => offer'[p] = offer[p]
      /\ offer' = [p \in OfferIds |-> offer'[p]]
  BY <1>1, <1>2 DEF SaveOffer
<1>4. \A p \in OfferIds : offer[p].status = "SUBMITTED" => offer[p] \in Row
  BY DEF IInv, TypeOK, NoOffer
<1>5. \A p \in OfferIds : offer'[p] \in Row \/ (offer'[p] = NoOffer /\ offer[p] = NoOffer)
  <2> TAKE p \in OfferIds
  <2>1. CASE p = o
    BY <2>1, <1>1, <1>3 DEF Row
  <2>2. CASE p \in req[w].locked
    <3>1. offer[p] \in Row /\ offer'[p] = [offer[p] EXCEPT !.status = "WITHDRAWN"]
      BY <2>2, <1>2, <1>3, <1>4
    <3>2. QED
      BY <3>1 DEF Row, OfferStatus
  <2>3. CASE p # o /\ p \notin req[w].locked
    <3>1. offer'[p] = offer[p] /\ offer[p] \in Row \cup {NoOffer}
      BY <2>3, <1>3 DEF IInv, TypeOK
    <3>2. QED
      BY <3>1
  <2>4. QED
    BY <2>1, <2>2, <2>3
<1>6. offer' \in [OfferIds -> Row \cup {NoOffer}]
  BY <1>3, <1>5
<1>7. /\ submitted' \in [OfferIds -> SUBSET Amounts]
      /\ \A p \in OfferIds : submitted[p] \subseteq submitted'[p]
      /\ status = "SUBMITTED" => req[w].amount \in submitted'[o]
  BY <1>1 DEF SaveOffer, IInv, TypeOK
<1>8. /\ undone' \in Nat
      /\ undone' = IF offer[o].status = "ACCEPTED" THEN undone + 1 ELSE undone
      /\ UNCHANGED <<request, agreed, contracts>>
  BY DEF SaveOffer, IInv, TypeOK
<1>9. /\ req' \in [Workers -> Request \cup {Idle}]
      /\ \A v \in Workers : req'[v] # Idle => v # w /\ req'[v] = req[v] /\ req[v] # Idle
  BY ReleaseKeeps DEF SaveOffer
<1>10. TypeOK'
  BY <1>6, <1>7, <1>8, <1>9 DEF IInv, TypeOK
<1>11. \A p \in OfferIds : Exists(p) => Exists(p)'
  BY <1>5, SavedStatuses DEF Exists
<1>12. \A p \in OfferIds : Exists(p)' => \E q \in OfferIds : Exists(q)
  BY <1>1
<1>13. OffersFollowAcceptance'
  BY <1>8, <1>12 DEF IInv, OffersFollowAcceptance
<1>14. (\A p \in OfferIds : offer[p].status = "SUBMITTED" => offer[p].amount \in submitted[p])'
  <2> SUFFICES ASSUME NEW p \in OfferIds, offer'[p].status = "SUBMITTED"
               PROVE  offer'[p].amount \in submitted'[p]
    OBVIOUS
  <2>1. CASE p = o
    BY <2>1, <1>3, <1>7
  <2>2. CASE p \in req[w].locked
    BY <2>2, <1>2, <1>3, <1>4 DEF Row
  <2>3. CASE p # o /\ p \notin req[w].locked
    BY <2>3, <1>3, <1>7 DEF IInv
  <2>4. QED
    BY <2>1, <2>2, <2>3
<1>15. ContractTermsWereSubmitted'
  <2>1. \A i \in DOMAIN contracts : contracts[i].offer \in OfferIds
    <3>1. \A E : contracts \in Seq(E) => \A i \in DOMAIN contracts : contracts[i] \in E
      OBVIOUS
    <3>2. contracts \in Seq([offer : OfferIds, amount : Amounts])
      BY DEF IInv, TypeOK
    <3>3. \A i \in DOMAIN contracts : contracts[i] \in [offer : OfferIds, amount : Amounts]
      BY <3>1, <3>2, Zenon
    <3>4. QED
      BY <3>3
  <2>2. QED
    BY <2>1, <1>7, <1>8 DEF IInv, ContractTermsWereSubmitted
<1>16. ContractsCounted'
  <2>1. Len(contracts) \in Nat /\ undone \in Nat
    BY DEF IInv, TypeOK
  <2>2. CASE offer[o].status = "ACCEPTED"
    <3>1. Len(contracts) <= undone + 1
      BY <2>1 DEF IInv, ContractsCounted
    <3>2. QED
      BY <2>2, <3>1, <1>8 DEF ContractsCounted
  <2>3. CASE offer[o].status # "ACCEPTED"
    <3>1. \A p \in OfferIds : offer[p].status = "ACCEPTED" => offer'[p].status = "ACCEPTED"
      BY <2>3, <1>2, <1>3
    <3>2. QED
      BY <2>3, <3>1, <1>8 DEF IInv, ContractsCounted
  <2>4. QED
    BY <2>2, <2>3
<1>17. LocksHold'
  <2>1. \A v \in Workers : req'[v] # Idle =>
          \A p \in req'[v].locked : offer'[p].status = "SUBMITTED" /\ req'[v].op = "submit"
    <3> SUFFICES ASSUME NEW v \in Workers, req'[v] # Idle, NEW p \in req'[v].locked
                 PROVE  offer'[p].status = "SUBMITTED" /\ req'[v].op = "submit"
      OBVIOUS
    <3>1. p \in req[v].locked /\ p \in OfferIds /\ v \in Workers \ {w} /\ req[v] # Idle /\ req'[v] = req[v]
      BY <1>9 DEF IInv, TypeOK, Request
    <3>2. p # o /\ p \notin req[w].locked
      BY <3>1, <1>2
    <3>3. QED
      BY <3>1, <3>2, <1>3 DEF IInv, LocksHold
  <2>2. \A u, v \in Workers : u # v /\ req'[u] # Idle /\ req'[v] # Idle =>
          req'[u].locked \cap req'[v].locked = {}
    BY <1>9 DEF IInv, LocksHold
  <2>3. QED
    BY <2>1, <2>2 DEF LocksHold
<1>18. SavedRowsExist'
  <2>1. \A v \in Workers : req'[v] # Idle => req'[v].on \in OfferIds \/ req'[v].op \notin SaveOps
    BY <1>9 DEF Request
  <2>2. QED
    BY <2>1, <1>8, <1>9, <1>11 DEF IInv, SavedRowsExist, InFlight
<1>19. QED
  BY <1>8, <1>10, <1>13, <1>14, <1>15, <1>16, <1>17, <1>18 DEF IInv

LEMMA AcceptancesKeep ==
    ASSUME IInv, NEW o \in OfferIds, AcceptOffer(o)
    PROVE  IInv'
<1>1. /\ offer[o].status = "SUBMITTED" /\ offer[o] \in Row /\ offer[o].amount \in submitted[o]
      /\ agreed /\ ~Locked(o) /\ \A p \in OfferIds : offer[p].status # "ACCEPTED"
      /\ UNCHANGED <<request, agreed, submitted, undone, req>>
  BY DEF AcceptOffer, Acceptable, NoneAccepted, IInv, TypeOK, NoOffer, OffersFollowAcceptance, Exists
<1>2. /\ offer' = [offer EXCEPT ![o].status = "ACCEPTED"]
      /\ contracts' = Append(contracts, [offer |-> o, amount |-> offer[o].amount])
  BY DEF AcceptOffer
<1>3. /\ offer' \in [OfferIds -> Row \cup {NoOffer}]
      /\ offer'[o].status = "ACCEPTED" /\ offer'[o] # NoOffer
      /\ \A p \in OfferIds \ {o} : offer'[p] = offer[p]
  BY <1>1, <1>2 DEF IInv, TypeOK, Row, OfferStatus, NoOffer
<1>4. /\ contracts' \in Seq([offer : OfferIds, amount : Amounts])
      /\ Len(contracts') = Len(contracts) + 1
      /\ \A i \in DOMAIN contracts' :
            contracts'[i] = IF i = Len(contracts) + 1 THEN [offer |-> o, amount |-> offer[o].amount]
                            ELSE contracts[i]
      /\ \A i \in DOMAIN contracts' : i # Len(contracts) + 1 => i \in DOMAIN contracts
  BY <1>1, <1>2 DEF IInv, TypeOK, Row
<1>5. TypeOK'
  BY <1>1, <1>3, <1>4 DEF IInv, TypeOK
<1>6. ContractTermsWereSubmitted'
  BY <1>1, <1>4 DEF IInv, ContractTermsWereSubmitted
<1>7. ContractsCounted'
  <2>1. Len(contracts) <= undone /\ Len(contracts) \in Nat /\ undone \in Nat
    BY <1>1 DEF IInv, TypeOK, ContractsCounted
  <2>2. Len(contracts') <= undone + 1
    BY <2>1, <1>4
  <2>3. QED
    BY <2>2, <1>1, <1>3 DEF ContractsCounted
<1>8. LocksHold'
  BY <1>1, <1>3 DEF IInv, LocksHold, Locked, InFlight, TypeOK, Request
<1>9. SavedRowsExist'
  BY <1>1, <1>3 DEF IInv, SavedRowsExist, InFlight, Exists, TypeOK, Request, SaveOps
<1>10. OffersFollowAcceptance'
  BY <1>1 DEF OffersFollowAcceptance
<1>11. (\A p \in OfferIds : offer[p].status = "SUBMITTED" => offer[p].amount \in submitted[p])'
  BY <1>1, <1>3 DEF IInv
<1>12. QED
  BY <1>1, <1>5, <1>6, <1>7, <1>8, <1>9, <1>10, <1>11 DEF IInv

LEMMA OffersStep == IInv /\ [Next]_vars => IInv'
<1> SUFFICES ASSUME IInv, [Next]_vars PROVE IInv'
  OBVIOUS
<1>1. CASE UNCHANGED vars
  BY <1>1, SMTT(30) DEF vars, IInv, TypeOK, OffersFollowAcceptance, Exists, ContractTermsWereSubmitted, ContractsCounted,
     LocksHold, SavedRowsExist, InFlight
<1>2. CASE \E w \in Workers :
              \/ \E op \in AnswerOps : BeginAnswer(w, op)
              \/ CheckAnswer(w) \/ SaveAnswer(w) \/ Rollback(w)
  BY <1>2, AnswersKeep
<1>3. CASE \E w \in Workers : (\E a \in Amounts : BeginCreate(w, a)) \/ CreateOffer(w)
  BY <1>3, CreationsKeep
<1>4. CASE \E w \in Workers, o \in OfferIds : BeginReject(w, o)
  BY <1>4, SavesBegin DEF BeginReject, SaveOps
<1>5. CASE \E w \in Workers, op \in SaveOps \ {"reject"}, o \in OfferIds, a \in Amounts :
              BeginSave(w, op, o, a)
  BY <1>5, SavesBegin
<1>6. CASE \E w \in Workers : CheckSave(w)
  BY <1>6, ChecksKeep
<1>7. CASE \E w \in Workers : SaveOffer(w)
  BY <1>7, SavesKeep
<1>8. CASE \E o \in OfferIds : AcceptOffer(o)
  BY <1>8, AcceptancesKeep
<1>9. QED
  BY <1>1, <1>2, <1>3, <1>4, <1>5, <1>6, <1>7, <1>8 DEF Next

LEMMA OffersEntail == IInv => ContractsFollowOffers
<1>1. IInv => SecondContractNeedsLateSave
  BY DEF IInv, TypeOK, ContractsCounted, SecondContractNeedsLateSave
<1>2. QED
  BY <1>1 DEF IInv, ContractsFollowOffers

-----------------------------------------------------------------------------
(***************************************************************************)
(* Chat.                                                                   *)
(***************************************************************************)
\* The instances' cardinality is the one of FiniteSets.
LEMMA SameCardinality ==
    /\ \A S : C!Cardinality(S) = Cardinality(S)
    /\ \A S : R!Cardinality(S) = Cardinality(S)
<1>1. ASSUME NEW S PROVE C!Cardinality(S) = Cardinality(S)
  BY DEF C!Cardinality, Cardinality, C!IsFiniteSet, IsFiniteSet
<1>2. ASSUME NEW S PROVE R!Cardinality(S) = Cardinality(S)
  BY DEF R!Cardinality, Cardinality, R!IsFiniteSet, IsFiniteSet
<1>3. QED
  BY <1>1, <1>2

\* What Append and EXCEPT do to a sequence.
LEMMA Appended ==
    ASSUME NEW D, NEW s \in Seq(D), NEW e \in D
    PROVE  /\ Append(s, e) \in Seq(D)
           /\ Len(s) \in Nat /\ DOMAIN s = 1 .. Len(s)
           /\ Len(Append(s, e)) = Len(s) + 1
           /\ DOMAIN Append(s, e) = 1 .. Len(s) + 1
           /\ \A i \in 1 .. Len(s) : Append(s, e)[i] = s[i]
           /\ Append(s, e)[Len(s) + 1] = e
OBVIOUS

LEMMA Replaced ==
    ASSUME NEW D, NEW s \in Seq(D), NEW i \in DOMAIN s, NEW e \in D
    PROVE  /\ [s EXCEPT ![i] = e] \in Seq(D)
           /\ Len([s EXCEPT ![i] = e]) = Len(s)
           /\ DOMAIN [s EXCEPT ![i] = e] = DOMAIN s
           /\ [s EXCEPT ![i] = e][i] = e
           /\ \A j \in DOMAIN s : j # i => [s EXCEPT ![i] = e][j] = s[j]
OBVIOUS

LEMMA Entries ==
    ASSUME NEW D, NEW s \in Seq(D)
    PROVE  /\ Len(s) \in Nat /\ DOMAIN s = 1 .. Len(s)
           /\ \A i \in DOMAIN s : s[i] \in D
OBVIOUS

LEMMA OtherUser ==
    C!Other("client") = "technician" /\ C!Other("technician") = "client"
<1>1. \A u \in C!Users : \E v \in C!Users : v # u
  BY DEF C!Users
<1>2. \A u \in C!Users : C!Other(u) \in C!Users /\ C!Other(u) # u
  BY <1>1, Zenon DEF C!Other
<1>3. QED
  BY <1>2 DEF C!Users

\* The counted messages of the others that follow the n-th.
AwaitingIn(s, n, u) ==
    {m \in DOMAIN s : m > n /\ s[m].from # u /\ s[m].kind \in C!Counted}

LEMMA AwaitingGrows ==
    ASSUME NEW s \in Seq(C!Message), NEW n \in Nat, n <= Len(s), NEW u \in C!Users,
           NEW m \in C!Message
    PROVE  /\ IsFiniteSet(AwaitingIn(s, n, u))
           /\ Cardinality(AwaitingIn(s, n, u)) \in Nat
           /\ Cardinality(AwaitingIn(Append(s, m), n, u)) =
                IF m.from # u /\ m.kind \in C!Counted
                THEN Cardinality(AwaitingIn(s, n, u)) + 1
                ELSE Cardinality(AwaitingIn(s, n, u))
           /\ n = Len(s) => Cardinality(AwaitingIn(s, n, u)) = 0
<1>1. AwaitingIn(s, n, u) \subseteq 1 .. Len(s) /\ Len(s) \in Nat
  BY DEF AwaitingIn
<1>2. IsFiniteSet(1 .. Len(s))
  BY <1>1, FS_Interval
<1>3. IsFiniteSet(AwaitingIn(s, n, u)) /\ Cardinality(AwaitingIn(s, n, u)) \in Nat
  BY <1>1, <1>2, FS_Subset, FS_CardinalityType
<1>4. n = Len(s) => AwaitingIn(s, n, u) = {}
  BY <1>1 DEF AwaitingIn
<1>5. AwaitingIn(Append(s, m), n, u) =
        IF m.from # u /\ m.kind \in C!Counted
        THEN AwaitingIn(s, n, u) \cup {Len(s) + 1} ELSE AwaitingIn(s, n, u)
  BY Appended DEF AwaitingIn
<1>6. Len(s) + 1 \notin AwaitingIn(s, n, u)
  BY <1>1
<1>7. Cardinality({}) = 0
  BY FS_EmptySet
<1>8. Cardinality(AwaitingIn(s, n, u) \cup {Len(s) + 1}) = Cardinality(AwaitingIn(s, n, u)) + 1
  BY <1>3, <1>6, FS_AddElement
<1>9. QED
  BY <1>3, <1>4, <1>5, <1>7, <1>8

\* What the rooms' sequences hold, entry by entry.
LEMMA RoomEntries ==
    ASSUME C!IInv
    PROVE  /\ Len(rooms) \in Nat /\ C!Rooms = 1 .. Len(rooms)
           /\ DOMAIN messages = C!Rooms /\ DOMAIN unread = C!Rooms
           /\ DOMAIN lastRead = C!Rooms /\ DOMAIN crossed = C!Rooms
           /\ \A i \in C!Rooms :
                 /\ rooms[i] \in C!Room /\ messages[i] \in Seq(C!Message)
                 /\ unread[i] \in [C!Users -> Nat] /\ lastRead[i] \in [C!Users -> Nat]
                 /\ crossed[i] \in [C!Users -> BOOLEAN]
                 /\ Len(messages[i]) \in Nat
BY Entries DEF C!IInv, C!RowsInStep, C!Rooms

\* The counters, with the messages and what was read as parameters.
LEMMA UnreadCounts ==
    /\ C!UnreadMatchesMessages <=>
          \A i \in C!Rooms, u \in C!Users :
              crossed[i][u] \/ unread[i][u] = Cardinality(AwaitingIn(messages[i], lastRead[i][u], u))
    /\ C!UnreadMatchesMessages' <=>
          \A i \in C!Rooms', u \in C!Users :
              crossed'[i][u] \/ unread'[i][u] = Cardinality(AwaitingIn(messages'[i], lastRead'[i][u], u))
<1>1. \A i, u : /\ C!Awaiting(i, u) = AwaitingIn(messages[i], lastRead[i][u], u)
               /\ C!Awaiting(i, u)' = AwaitingIn(messages'[i], lastRead'[i][u], u)
  BY DEF C!Awaiting, AwaitingIn
<1>2. QED
  BY <1>1, SameCardinality DEF C!UnreadMatchesMessages

LEMMA ChatInit == C!Init => C!IInv
<1> SUFFICES ASSUME C!Init PROVE C!IInv
  OBVIOUS
<1>1. \A D : <<>> \in Seq(D) /\ Len(<<>>) = 0 /\ DOMAIN <<>> = {}
  OBVIOUS
<1>2. C!RowsInStep
  BY <1>1 DEF C!Init, C!RowsInStep, C!Rooms, C!Jobs, C!Idle
<1>3. QED
  BY <1>1, <1>2 DEF C!Init, C!IInv, C!UnreadMatchesMessages, C!RequestsApart, C!ActiveApart,
     C!Rooms, C!Active

\* Requests that only read.
LEMMA JobsBegin ==
    ASSUME C!IInv, NEW w \in Workers, NEW j \in C!Jobs, C!Begin(w, j),
           j.op = "read" => j.latest <= Len(messages[j.room])
    PROVE  C!IInv'
<1>1. C!RowsInStep'
  BY DEF C!IInv, C!RowsInStep, C!Begin, C!Rooms, C!Jobs, C!Idle
<1>2. QED
  BY <1>1 DEF C!IInv, C!Begin, C!UnreadMatchesMessages, C!Awaiting, C!RequestsApart, C!ActiveApart,
     C!Rooms, C!Active

LEMMA ReadsBegin ==
    ASSUME C!IInv, NEW w \in Workers,
           \/ C!BeginOpen(w)
           \/ \E q \in ServiceRequests : C!BeginOpenForRequest(w, q)
           \/ \E i \in C!Rooms :
                 \/ \E u \in C!Users : C!BeginMessage(w, i, u) \/ C!BeginRead(w, i, u) \/ C!Connect(w, i, u)
                 \/ C!BeginOffer(w, i) \/ C!BeginAccept(w, i) \/ C!BeginSocketSend(w, i)
                 \/ C!BeginLink(w, i) \/ C!BeginClose(w, i)
    PROVE  C!IInv'
<1>1. CASE C!BeginOpen(w)
  BY <1>1, JobsBegin DEF C!BeginOpen, C!Jobs
<1>2. ASSUME NEW q \in ServiceRequests, C!BeginOpenForRequest(w, q) PROVE C!IInv'
  <2>1. CASE C!Active = {}
    BY <1>2, <2>1, JobsBegin DEF C!BeginOpenForRequest, C!Jobs
  <2>2. CASE C!Active # {}
    <3>1. C!Active \subseteq C!Rooms /\ C!Active \in SUBSET Nat
      BY RoomEntries DEF C!Active
    <3>2. \E i \in C!Active : \A k \in C!Active : i <= k
      BY <2>2, <3>1, LeastNumber
    <3>3. C!First(C!Active) \in C!Rooms
      BY <3>1, <3>2, Zenon DEF C!First
    <3>4. [op |-> "relink", room |-> C!First(C!Active), request |-> q] \in C!Jobs
      BY <3>3 DEF C!Jobs
    <3>5. QED
      BY <1>2, <2>2, <3>4, JobsBegin DEF C!BeginOpenForRequest
  <2>3. QED
    BY <2>1, <2>2
<1>3. ASSUME NEW i \in C!Rooms, NEW u \in C!Users, NEW kind \in C!Kinds, C!BeginSend(w, i, u, kind)
      PROVE C!IInv'
  <2>1. C!SavedStatus(kind, rooms[i].status) \in C!Status \cup {"kept"}
    BY RoomEntries DEF C!SavedStatus, C!Status, C!Room
  <2>2. [op |-> "send", room |-> i, from |-> u, kind |-> kind,
         status |-> C!SavedStatus(kind, rooms[i].status)] \in C!Jobs
    BY <2>1 DEF C!Jobs
  <2>3. QED
    BY <1>3, <2>2, JobsBegin DEF C!BeginSend
<1>4. ASSUME NEW i \in C!Rooms, NEW u \in C!Users, C!ReadUpTo(w, i, u) PROVE C!IInv'
  <2>1. [op |-> "read", room |-> i, user |-> u, latest |-> Len(messages[i])] \in C!Jobs
    BY RoomEntries DEF C!Jobs
  <2>2. QED
    BY <1>4, <2>1, RoomEntries, JobsBegin DEF C!ReadUpTo
<1>5. ASSUME NEW i \in C!Rooms, C!BeginLink(w, i) \/ C!BeginClose(w, i) PROVE C!IInv'
  BY <1>5, JobsBegin DEF C!BeginLink, C!BeginClose, C!Jobs
<1>6. QED
  BY <1>1, <1>2, <1>3, <1>4, <1>5 DEF C!BeginMessage, C!BeginRead, C!Connect, C!BeginOffer, C!BeginAccept,
     C!BeginSocketSend, C!Kinds, C!Counted, C!Users

LEMMA JobTypes ==
    ASSUME C!IInv, NEW w \in Workers
    PROVE  /\ work[w].op = "open" => work[w].request \in ServiceRequests \cup {NoRequest}
           /\ work[w].op = "relink" => work[w].room \in C!Rooms /\ work[w].request \in ServiceRequests
           /\ work[w].op = "send" => /\ work[w].room \in C!Rooms /\ work[w].from \in C!Users
                                     /\ work[w].kind \in C!Kinds /\ work[w].status \in C!Status \cup {"kept"}
           /\ work[w].op \in {"link", "close"} => work[w].room \in C!Rooms
           /\ work[w].op = "read" => /\ work[w].room \in C!Rooms /\ work[w].user \in C!Users
                                     /\ work[w].latest \in Nat
                                     /\ work[w].latest <= Len(messages[work[w].room])
<1>1. work[w] \in C!Jobs
  BY DEF C!IInv, C!RowsInStep
<1>2. work[w].op = "read" => work[w].latest <= Len(messages[work[w].room])
  BY DEF C!IInv, C!RowsInStep
<1>3. QED
  BY <1>1, <1>2 DEF C!Jobs, C!Idle

\* A worker that ends its transaction leaves the other ones' reads as they are.
LEMMA WorkEnded ==
    ASSUME C!IInv, NEW w \in Workers, C!Done(w),
           C!Rooms \subseteq C!Rooms', 
           \A i \in C!Rooms : Len(messages[i]) <= Len(messages'[i]) /\ Len(messages'[i]) \in Nat
    PROVE  /\ (work \in [Workers -> C!Jobs])'
           /\ (\A v \in Workers : work[v].op = "read" => work[v].latest <= Len(messages[work[v].room]))'
<1>1. \A v \in Workers : work'[v] = C!Idle \/ work'[v] = work[v]
  BY DEF C!Done, C!IInv, C!RowsInStep
<1>2. work' = [v \in Workers |-> work'[v]]
  BY DEF C!Done, C!IInv, C!RowsInStep
<1>3. C!Jobs \subseteq C!Jobs'
  BY DEF C!Jobs
<1>4. C!Idle \in C!Jobs' /\ C!Idle.op # "read"
  BY DEF C!Jobs, C!Idle
<1>5. \A v \in Workers : work[v] \in C!Jobs
  BY DEF C!IInv, C!RowsInStep
<1>6. \A v \in Workers : work[v].op = "read" =>
         work[v].room \in C!Rooms /\ work[v].latest \in Nat /\ work[v].latest <= Len(messages[work[v].room])
  BY JobTypes
<1>7. \A i \in C!Rooms : Len(messages[i]) \in Nat
  BY RoomEntries
<1>8. \A v \in Workers : work'[v].op = "read" => work'[v].latest <= Len(messages'[work'[v].room])
  <2> TAKE v \in Workers
  <2> HAVE work'[v].op = "read"
  <2>1. work'[v] = work[v] /\ work[v].op = "read"
    BY <1>1, <1>4
  <2>2. QED
    BY <2>1, <1>6, <1>7
<1>9. QED
  BY <1>1, <1>2, <1>3, <1>4, <1>5, <1>8

\* A message is stored in a room that keeps its request, and its counter raised.
LEMMA MessageAdded ==
    ASSUME C!IInv, NEW w \in Workers, C!Done(w), NEW i \in C!Rooms, NEW u \in C!Users, NEW kind \in C!Kinds,
           C!AddMessage(i, u, kind),
           NEW row \in C!Room, row.request = rooms[i].request, rooms' = [rooms EXCEPT ![i] = row],
           unread' = IF kind \in C!Counted
                     THEN [unread EXCEPT ![i][C!Other(u)] = @ + 1] ELSE unread,
           reopened' = (reopened \/ (i \notin C!Active /\ row.status \in C!ActiveStatus)),
           UNCHANGED <<contract, lastRead, crossed>>
    PROVE  C!IInv'
<1> DEFINE m == [from |-> u, kind |-> kind]
<1>1. /\ Len(rooms) \in Nat /\ C!Rooms = 1 .. Len(rooms)
      /\ DOMAIN messages = C!Rooms /\ DOMAIN unread = C!Rooms
      /\ rooms \in Seq(C!Room) /\ messages \in Seq(Seq(C!Message)) /\ unread \in Seq([C!Users -> Nat])
      /\ Len(messages) = Len(rooms) /\ Len(unread) = Len(rooms)
  BY RoomEntries DEF C!IInv, C!RowsInStep
<1>2. /\ rooms' \in Seq(C!Room) /\ Len(rooms') = Len(rooms) /\ C!Rooms' = C!Rooms
      /\ rooms'[i] = row /\ \A j \in C!Rooms : j # i => rooms'[j] = rooms[j]
  BY <1>1, Replaced DEF C!Rooms
<1>3. m \in C!Message /\ Append(messages[i], m) \in Seq(C!Message)
  BY RoomEntries, Appended DEF C!Message
<1>4. /\ messages' = [messages EXCEPT ![i] = Append(messages[i], m)]
      /\ messages' \in Seq(Seq(C!Message)) /\ Len(messages') = Len(messages)
      /\ messages'[i] = Append(messages[i], m)
      /\ \A j \in C!Rooms : j # i => messages'[j] = messages[j]
  BY <1>1, <1>3, Replaced DEF C!AddMessage
<1>5. \A j \in C!Rooms : Len(messages[j]) \in Nat /\ Len(messages'[j]) \in Nat /\ Len(messages[j]) <= Len(messages'[j])
  BY <1>3, <1>4, RoomEntries, Appended
<1>6. C!Other(u) \in C!Users /\ \A v \in C!Users : v # u <=> v = C!Other(u)
  BY OtherUser DEF C!Users
<1>7. /\ unread' \in Seq([C!Users -> Nat]) /\ Len(unread') = Len(unread)
      /\ \A j \in C!Rooms, v \in C!Users :
            unread'[j][v] = IF j = i /\ v # u /\ kind \in C!Counted THEN unread[j][v] + 1 ELSE unread[j][v]
  <2>1. CASE kind \notin C!Counted
    BY <2>1, <1>1
  <2>2. CASE kind \in C!Counted
    <3> DEFINE counters == [unread[i] EXCEPT ![C!Other(u)] = unread[i][C!Other(u)] + 1]
    <3>1. unread[i] \in [C!Users -> Nat] /\ counters \in [C!Users -> Nat]
      BY <1>6, RoomEntries
    <3>2. unread' = [unread EXCEPT ![i] = counters]
      BY <2>2
    <3> HIDE DEF counters
    <3>3. /\ unread' \in Seq([C!Users -> Nat]) /\ Len(unread') = Len(unread) /\ unread'[i] = counters
          /\ \A j \in C!Rooms : j # i => unread'[j] = unread[j]
      <4> DEFINE D == [C!Users -> Nat]
                 new == [unread EXCEPT ![i] = counters]
      <4>1. unread \in Seq(D) /\ i \in DOMAIN unread /\ counters \in D /\ DOMAIN unread = C!Rooms
        BY <1>1, <3>1
      <4> HIDE DEF D
      <4>2. /\ new \in Seq(D) /\ Len(new) = Len(unread) /\ new[i] = counters
            /\ \A j \in DOMAIN unread : j # i => new[j] = unread[j]
        BY <4>1, Replaced
      <4> HIDE DEF new
      <4>3. unread' = new
        BY <3>2 DEF new
      <4>4. QED
        BY <4>1, <4>2, <4>3 DEF D
    <3>4. \A v \in C!Users : counters[v] = IF v # u THEN unread[i][v] + 1 ELSE unread[i][v]
      BY <1>6, <3>1 DEF counters
    <3>5. QED
      BY <2>2, <3>3, <3>4
  <2>3. QED
    BY <2>1, <2>2
<1>8. C!RowsInStep'
  <2>1. /\ (work \in [Workers -> C!Jobs])'
        /\ (\A v \in Workers : work[v].op = "read" => work[v].latest <= Len(messages[work[v].room]))'
    BY <1>2, <1>5, WorkEnded
  <2>2. (\A j \in C!Rooms, v \in C!Users : lastRead[j][v] <= Len(messages[j]))'
    <3> SUFFICES ASSUME NEW j \in C!Rooms, NEW v \in C!Users PROVE lastRead[j][v] <= Len(messages'[j])
      BY <1>2
    <3>1. lastRead[j][v] \in Nat /\ lastRead[j][v] <= Len(messages[j])
      BY RoomEntries DEF C!IInv, C!RowsInStep
    <3>2. QED
      BY <3>1, <1>5
  <2>3. reopened' \in BOOLEAN
    BY DEF C!IInv, C!RowsInStep
  <2>4. QED
    BY <1>1, <1>2, <1>4, <1>7, <2>1, <2>2, <2>3 DEF C!IInv, C!RowsInStep
<1>9. C!UnreadMatchesMessages'
  <2> DEFINE before(j, v) == AwaitingIn(messages[j], lastRead[j][v], v)
             after(j, v) == AwaitingIn(messages'[j], lastRead[j][v], v)
  <2> SUFFICES ASSUME NEW j \in C!Rooms, NEW v \in C!Users, ~ crossed[j][v]
               PROVE  unread'[j][v] = Cardinality(after(j, v))
    BY <1>2, UnreadCounts
  <2>1. unread[j][v] = Cardinality(before(j, v))
    BY UnreadCounts DEF C!IInv
  <2>2. lastRead[j][v] \in Nat /\ lastRead[j][v] <= Len(messages[j]) /\ messages[j] \in Seq(C!Message)
    BY RoomEntries DEF C!IInv, C!RowsInStep
  <2>3. CASE j # i
    BY <2>3, <2>1, <1>4, <1>7
  <2>4. CASE j = i
    <3>1. Cardinality(after(j, v)) =
            IF m.from # v /\ m.kind \in C!Counted
            THEN Cardinality(before(j, v)) + 1 ELSE Cardinality(before(j, v))
      BY <2>2, <2>4, <1>3, <1>4, AwaitingGrows
    <3>2. QED
      BY <2>4, <2>1, <3>1, <1>7
  <2>5. QED
    BY <2>3, <2>4
<1>10. \A j \in C!Rooms : rooms'[j].request = rooms[j].request
  BY <1>2
<1>11. C!RequestsApart'
  BY <1>2, <1>10 DEF C!IInv, C!RequestsApart
<1>12. C!ActiveApart'
  BY <1>2 DEF C!IInv, C!ActiveApart, C!Active
<1>13. QED
  BY <1>8, <1>9, <1>11, <1>12 DEF C!IInv

LEMMA MessagesKeep ==
    ASSUME C!IInv, NEW w \in Workers, C!CommitSend(w) \/ C!CommitLink(w) \/ C!CommitClose(w)
    PROVE  C!IInv'
<1> DEFINE i == work[w].room
<1>1. CASE C!CommitSend(w)
  <2> DEFINE status == IF work[w].status = "kept" THEN rooms[i].status ELSE work[w].status
             row == [rooms[i] EXCEPT !.status = status]
  <2>1. /\ i \in C!Rooms /\ work[w].from \in C!Users /\ work[w].kind \in C!Kinds
        /\ work[w].status \in C!Status \cup {"kept"} /\ rooms[i] \in C!Room
    BY <1>1, JobTypes, RoomEntries DEF C!CommitSend
  <2>2. row \in C!Room /\ row.request = rooms[i].request /\ row.status = status
    BY <2>1 DEF C!Room
  <2>3. rooms' = [rooms EXCEPT ![i] = row]
    BY <1>1 DEF C!CommitSend
  <2>4. /\ C!Done(w) /\ C!AddMessage(i, work[w].from, work[w].kind)
        /\ unread' = IF work[w].kind \in C!Counted
                     THEN [unread EXCEPT ![i][C!Other(work[w].from)] = @ + 1] ELSE unread
        /\ reopened' = (reopened \/ (i \notin C!Active /\ row.status \in C!ActiveStatus))
        /\ UNCHANGED <<contract, lastRead, crossed>>
    BY <1>1, <2>2 DEF C!CommitSend, C!RaisesCounter
  <2> HIDE DEF row
  <2>5. QED
    BY <2>1, <2>2, <2>3, <2>4, MessageAdded
<1>2. CASE C!CommitLink(w)
  <2> DEFINE row == [rooms[i] EXCEPT !.status = "CONTRACT_LINKED", !.linked = TRUE]
  <2>1. i \in C!Rooms /\ rooms[i] \in C!Room
    BY <1>2, JobTypes, RoomEntries DEF C!CommitLink
  <2>2. row \in C!Room /\ row.request = rooms[i].request /\ row.status = "CONTRACT_LINKED"
    BY <2>1 DEF C!Room, C!Status
  <2>3. rooms' = [rooms EXCEPT ![i] = row]
    BY <1>2, <2>1 DEF C!CommitLink, C!Room
  <2>4. "client" \in C!Users /\ "CONTRACT_LINKED" \in C!Kinds /\ "CONTRACT_LINKED" \notin C!Counted
        /\ "CONTRACT_LINKED" \in C!ActiveStatus
    BY DEF C!Users, C!Kinds, C!Counted, C!ActiveStatus
  <2>5. /\ C!Done(w) /\ C!AddMessage(i, "client", "CONTRACT_LINKED")
        /\ reopened' = (reopened \/ (i \notin C!Active /\ row.status \in C!ActiveStatus))
        /\ UNCHANGED <<contract, unread, lastRead, crossed>>
    BY <1>2, <2>2, <2>4 DEF C!CommitLink
  <2> HIDE DEF row
  <2>6. QED
    BY <2>1, <2>2, <2>3, <2>4, <2>5, MessageAdded
<1>3. CASE C!CommitClose(w)
  <2> DEFINE row == [rooms[i] EXCEPT !.status = "CLOSED"]
  <2>1. i \in C!Rooms /\ rooms[i] \in C!Room
    BY <1>3, JobTypes, RoomEntries DEF C!CommitClose
  <2>2. row \in C!Room /\ row.request = rooms[i].request /\ row.status = "CLOSED"
    BY <2>1 DEF C!Room, C!Status
  <2>3. rooms' = [rooms EXCEPT ![i] = row]
    BY <1>3 DEF C!CommitClose
  <2>4. "client" \in C!Users /\ "SYSTEM" \in C!Kinds /\ "SYSTEM" \notin C!Counted
        /\ "CLOSED" \notin C!ActiveStatus /\ reopened \in BOOLEAN
    BY DEF C!Users, C!Kinds, C!Counted, C!ActiveStatus, C!IInv, C!RowsInStep
  <2>5. /\ C!Done(w) /\ C!AddMessage(i, "client", "SYSTEM")
        /\ reopened' = (reopened \/ (i \notin C!Active /\ row.status \in C!ActiveStatus))
        /\ UNCHANGED <<contract, unread, lastRead, crossed>>
    BY <1>3, <2>2, <2>4 DEF C!CommitClose
  <2> HIDE DEF row
  <2>6. QED
    BY <2>1, <2>2, <2>3, <2>4, <2>5, MessageAdded
<1>4. QED
  BY <1>1, <1>2, <1>3

\* A new room is empty.
LEMMA OpeningKeeps ==
    ASSUME C!IInv, NEW w \in Workers, C!CommitOpen(w)
    PROVE  C!IInv'
<1> DEFINE q == work[w].request
           fresh == [u \in C!Users |-> 0]
           row == [status |-> "OPEN", linked |-> FALSE, request |-> q]
           n == Len(rooms)
<1>1. C!Done(w) /\ q \in ServiceRequests \cup {NoRequest}
  BY JobTypes DEF C!CommitOpen
<1>2. CASE UNCHANGED <<rooms, contract, messages, unread, lastRead, crossed, reopened>>
  <2>1. C!Rooms' = C!Rooms /\ C!Active' = C!Active
    BY <1>2 DEF C!Rooms, C!Active
  <2>2. \A i \in C!Rooms : Len(messages[i]) <= Len(messages'[i]) /\ Len(messages'[i]) \in Nat
    BY <1>2, RoomEntries
  <2>3. C!RowsInStep'
    BY <1>1, <1>2, <2>1, <2>2, WorkEnded DEF C!IInv, C!RowsInStep
  <2>4. C!UnreadMatchesMessages'
    BY <1>2, <2>1, UnreadCounts DEF C!IInv
  <2>5. QED
    BY <1>2, <2>1, <2>3, <2>4 DEF C!IInv, C!RequestsApart, C!ActiveApart
<1>3. CASE /\ C!RequestFree(q)
           /\ rooms' = Append(rooms, row) /\ messages' = Append(messages, <<>>)
           /\ unread' = Append(unread, fresh) /\ lastRead' = Append(lastRead, fresh)
           /\ crossed' = Append(crossed, [u \in C!Users |-> FALSE])
           /\ reopened' = (reopened \/ C!Active # {})
           /\ UNCHANGED contract
  <2>1. /\ n \in Nat /\ C!Rooms = 1 .. n /\ rooms \in Seq(C!Room)
        /\ messages \in Seq(Seq(C!Message)) /\ Len(messages) = n
        /\ unread \in Seq([C!Users -> Nat]) /\ Len(unread) = n
        /\ lastRead \in Seq([C!Users -> Nat]) /\ Len(lastRead) = n
        /\ crossed \in Seq([C!Users -> BOOLEAN]) /\ Len(crossed) = n
    BY RoomEntries DEF C!IInv, C!RowsInStep
  <2>2. /\ row \in C!Room /\ <<>> \in Seq(C!Message) /\ fresh \in [C!Users -> Nat]
        /\ [u \in C!Users |-> FALSE] \in [C!Users -> BOOLEAN] /\ Len(<<>>) = 0
    BY <1>1 DEF C!Room, C!Status
  <2>3. /\ rooms' \in Seq(C!Room) /\ Len(rooms') = n + 1 /\ C!Rooms' = 1 .. n + 1
        /\ rooms'[n + 1] = row /\ \A i \in 1 .. n : rooms'[i] = rooms[i]
    BY <1>3, <2>1, <2>2, Appended DEF C!Rooms
  <2>4. /\ messages' \in Seq(Seq(C!Message)) /\ Len(messages') = n + 1
        /\ messages'[n + 1] = <<>> /\ \A i \in 1 .. n : messages'[i] = messages[i]
    BY <1>3, <2>1, <2>2, Appended
  <2>5. /\ unread' \in Seq([C!Users -> Nat]) /\ Len(unread') = n + 1
        /\ unread'[n + 1] = fresh /\ \A i \in 1 .. n : unread'[i] = unread[i]
    BY <1>3, <2>1, <2>2, Appended
  <2>6. /\ lastRead' \in Seq([C!Users -> Nat]) /\ Len(lastRead') = n + 1
        /\ lastRead'[n + 1] = fresh /\ \A i \in 1 .. n : lastRead'[i] = lastRead[i]
    BY <1>3, <2>1, <2>2, Appended
  <2>7. /\ crossed' \in Seq([C!Users -> BOOLEAN]) /\ Len(crossed') = n + 1
        /\ \A i \in 1 .. n : crossed'[i] = crossed[i]
    BY <1>3, <2>1, <2>2, Appended
  <2>8. C!Rooms \subseteq C!Rooms' /\ \A i \in C!Rooms' : i # n + 1 => i \in C!Rooms
    BY <2>1, <2>3
  <2>9. C!RowsInStep'
    <3>1. \A i \in C!Rooms : Len(messages[i]) <= Len(messages'[i]) /\ Len(messages'[i]) \in Nat
      BY <2>1, <2>4, RoomEntries
    <3>2. /\ (work \in [Workers -> C!Jobs])'
          /\ (\A v \in Workers : work[v].op = "read" => work[v].latest <= Len(messages[work[v].room]))'
      BY <1>1, <2>8, <3>1, WorkEnded
    <3>3. (\A i \in C!Rooms, u \in C!Users : lastRead[i][u] <= Len(messages[i]))'
      <4> SUFFICES ASSUME NEW i \in C!Rooms', NEW u \in C!Users
                   PROVE  lastRead'[i][u] <= Len(messages'[i])
        OBVIOUS
      <4>1. CASE i = n + 1
        BY <4>1, <2>2, <2>4, <2>6
      <4>2. CASE i # n + 1
        BY <4>2, <2>1, <2>4, <2>6, <2>8 DEF C!IInv, C!RowsInStep
      <4>3. QED
        BY <4>1, <4>2
    <3>4. reopened' \in BOOLEAN /\ contract' \in {"in_progress", "later"}
      BY <1>3 DEF C!IInv, C!RowsInStep
    <3>5. QED
      BY <2>3, <2>4, <2>5, <2>6, <2>7, <3>2, <3>3, <3>4 DEF C!RowsInStep
  <2>10. C!UnreadMatchesMessages'
    <3> SUFFICES ASSUME NEW i \in C!Rooms', NEW u \in C!Users
                 PROVE  crossed'[i][u] \/
                        unread'[i][u] = Cardinality(AwaitingIn(messages'[i], lastRead'[i][u], u))
      BY UnreadCounts
    <3>1. CASE i = n + 1
      <4>1. AwaitingIn(<<>>, 0, u) = {}
        BY DEF AwaitingIn
      <4>2. QED
        BY <3>1, <4>1, <2>4, <2>5, <2>6, FS_EmptySet
    <3>2. CASE i # n + 1
      BY <3>2, <2>1, <2>4, <2>5, <2>6, <2>7, <2>8, UnreadCounts DEF C!IInv
    <3>3. QED
      BY <3>1, <3>2
  <2>11. C!RequestsApart'
    <3>1. \A i \in C!Rooms : rooms[i].request # NoRequest => rooms[i].request # q
      BY <1>3 DEF C!RequestFree, C!OfRequest
    <3>2. QED
      BY <2>1, <2>3, <2>8, <3>1 DEF C!IInv, C!RequestsApart
  <2>12. C!ActiveApart'
    <3>1. CASE reopened \/ C!Active # {}
      BY <1>3, <3>1 DEF C!ActiveApart
    <3>2. CASE C!Active = {}
      <4>1. \A i \in C!Active' : i = n + 1
        BY <3>2, <2>1, <2>3, <2>8 DEF C!Active
      <4>2. QED
        BY <4>1 DEF C!ActiveApart
    <3>3. QED
      BY <3>1, <3>2
  <2>13. QED
    BY <2>9, <2>10, <2>11, <2>12 DEF C!IInv
<1>4. QED
  BY <1>2, <1>3 DEF C!CommitOpen

LEMMA RelinkingKeeps ==
    ASSUME C!IInv, NEW w \in Workers, C!CommitRelink(w)
    PROVE  C!IInv'
<1> DEFINE i == work[w].room
           q == work[w].request
           row == [rooms[i] EXCEPT !.request = q]
<1>1. /\ C!Done(w) /\ i \in C!Rooms /\ q \in ServiceRequests /\ rooms[i] \in C!Room
      /\ UNCHANGED <<contract, messages, unread, lastRead, crossed, reopened>>
      /\ rooms' = rooms \/ (C!RequestFree(q) /\ rooms' = [rooms EXCEPT ![i] = row])
  BY JobTypes, RoomEntries DEF C!CommitRelink
<1>2. row \in C!Room /\ row.status = rooms[i].status /\ row.request = q
  BY <1>1 DEF C!Room
<1>3. /\ rooms' \in Seq(C!Room) /\ Len(rooms') = Len(rooms) /\ C!Rooms' = C!Rooms
      /\ \A j \in C!Rooms : rooms'[j].status = rooms[j].status
      /\ \A j \in C!Rooms : j # i => rooms'[j] = rooms[j]
      /\ rooms'[i] = rooms[i] \/ (C!RequestFree(q) /\ rooms'[i].request = q)
  <2> HIDE DEF row
  <2>1. rooms \in Seq(C!Room) /\ C!Rooms = DOMAIN rooms
    BY DEF C!IInv, C!RowsInStep, C!Rooms
  <2>2. CASE rooms' = rooms
    BY <2>1, <2>2 DEF C!Rooms
  <2>3. CASE C!RequestFree(q) /\ rooms' = [rooms EXCEPT ![i] = row]
    BY <1>1, <1>2, <2>1, <2>3, Replaced DEF C!Rooms
  <2>4. QED
    BY <1>1, <2>2, <2>3
<1>4. C!RowsInStep'
  <2>1. \A j \in C!Rooms : Len(messages[j]) <= Len(messages'[j]) /\ Len(messages'[j]) \in Nat
    BY <1>1, RoomEntries
  <2>2. QED
    BY <1>1, <1>3, <2>1, WorkEnded DEF C!IInv, C!RowsInStep
<1>5. C!UnreadMatchesMessages'
  BY <1>1, <1>3, UnreadCounts DEF C!IInv
<1>6. C!RequestsApart'
  <2>1. C!RequestFree(q) => q = NoRequest \/ \A j \in C!Rooms : rooms[j].request # q
    BY DEF C!RequestFree, C!OfRequest
  <2>2. QED
    BY <1>1, <1>3, <2>1 DEF C!IInv, C!RequestsApart
<1>7. C!ActiveApart'
  BY <1>1, <1>3 DEF C!IInv, C!ActiveApart, C!Active
<1>8. QED
  BY <1>4, <1>5, <1>6, <1>7 DEF C!IInv

\* A read that nothing has crossed leaves nothing unread.
LEMMA ReadingKeeps ==
    ASSUME C!IInv, NEW w \in Workers, C!CommitRead(w)
    PROVE  C!IInv'
<1> DEFINE i == work[w].room
           u == work[w].user
           n == work[w].latest
           late == Len(messages[i]) # n
<1>1. /\ C!Done(w) /\ i \in C!Rooms /\ u \in C!Users /\ n \in Nat /\ n <= Len(messages[i])
      /\ lastRead' = [lastRead EXCEPT ![i][u] = n]
      /\ unread' = [unread EXCEPT ![i][u] = 0]
      /\ crossed' = [crossed EXCEPT ![i][u] = late]
      /\ UNCHANGED <<rooms, contract, messages, reopened>>
  BY JobTypes DEF C!CommitRead
<1>2. /\ unread \in Seq([C!Users -> Nat]) /\ lastRead \in Seq([C!Users -> Nat])
      /\ crossed \in Seq([C!Users -> BOOLEAN]) /\ C!Rooms' = C!Rooms
      /\ DOMAIN unread = C!Rooms /\ DOMAIN lastRead = C!Rooms /\ DOMAIN crossed = C!Rooms
  BY <1>1, RoomEntries DEF C!IInv, C!RowsInStep, C!Rooms
<1>3. ASSUME NEW D, NEW s \in Seq([C!Users -> D]), i \in DOMAIN s, NEW v \in D
      PROVE  /\ [s EXCEPT ![i][u] = v] \in Seq([C!Users -> D])
             /\ Len([s EXCEPT ![i][u] = v]) = Len(s)
             /\ \A j \in DOMAIN s, x \in C!Users :
                   [s EXCEPT ![i][u] = v][j][x] = IF j = i /\ x = u THEN v ELSE s[j][x]
  <2> DEFINE E == [C!Users -> D]
             e == [s[i] EXCEPT ![u] = v]
  <2>1. s[i] \in E /\ s \in Seq(E)
    BY <1>3, Entries
  <2>2. e \in E /\ \A x \in C!Users : e[x] = IF x = u THEN v ELSE s[i][x]
    BY <1>1, <2>1
  <2> HIDE DEF e, E
  <2>3. /\ [s EXCEPT ![i] = e] \in Seq(E)
        /\ Len([s EXCEPT ![i] = e]) = Len(s)
        /\ [s EXCEPT ![i] = e][i] = e
        /\ \A j \in DOMAIN s : j # i => [s EXCEPT ![i] = e][j] = s[j]
    BY <1>3, <2>1, <2>2, Replaced
  <2>4. [s EXCEPT ![i][u] = v] = [s EXCEPT ![i] = e]
    BY DEF e
  <2>5. QED
    BY <2>2, <2>3, <2>4 DEF E
<1>4. /\ unread' \in Seq([C!Users -> Nat]) /\ Len(unread') = Len(unread)
      /\ \A j \in C!Rooms, x \in C!Users :
            unread'[j][x] = IF j = i /\ x = u THEN 0 ELSE unread[j][x]
  BY <1>1, <1>2, <1>3
<1>5. /\ lastRead' \in Seq([C!Users -> Nat]) /\ Len(lastRead') = Len(lastRead)
      /\ \A j \in C!Rooms, x \in C!Users :
            lastRead'[j][x] = IF j = i /\ x = u THEN n ELSE lastRead[j][x]
  <2> DEFINE D == Nat
             new == [lastRead EXCEPT ![i][u] = n]
  <2>1. /\ lastRead \in Seq([C!Users -> D]) /\ n \in D
        /\ DOMAIN lastRead = C!Rooms /\ i \in DOMAIN lastRead
    BY <1>1, <1>2
  <2> HIDE DEF D, n
  <2>2. /\ new \in Seq([C!Users -> D]) /\ Len(new) = Len(lastRead)
        /\ \A j \in DOMAIN lastRead, x \in C!Users :
              new[j][x] = IF j = i /\ x = u THEN n ELSE lastRead[j][x]
    <3>1. new \in Seq([C!Users -> D])
      BY <1>3, <2>1
    <3>2. Len(new) = Len(lastRead)
      BY <1>3, <2>1
    <3>3. ASSUME NEW j \in DOMAIN lastRead, NEW x \in C!Users
          PROVE  new[j][x] = IF j = i /\ x = u THEN n ELSE lastRead[j][x]
      BY <1>3, <2>1
    <3>4. QED
      BY <3>1, <3>2, <3>3
  <2> HIDE DEF new
  <2>3. lastRead' = new
    BY <1>1 DEF new, n
  <2>4. QED
    BY <2>1, <2>2, <2>3 DEF D
<1>6. /\ crossed' \in Seq([C!Users -> BOOLEAN]) /\ Len(crossed') = Len(crossed)
      /\ \A j \in C!Rooms, x \in C!Users :
            crossed'[j][x] = IF j = i /\ x = u THEN late ELSE crossed[j][x]
  <2>1. late \in BOOLEAN
    OBVIOUS
  <2> HIDE DEF late
  <2>2. QED
    BY <1>1, <1>2, <1>3, <2>1
<1>7. C!RowsInStep'
  <2>1. \A j \in C!Rooms : Len(messages[j]) <= Len(messages'[j]) /\ Len(messages'[j]) \in Nat
    BY <1>1, RoomEntries
  <2>2. /\ (work \in [Workers -> C!Jobs])'
        /\ (\A v \in Workers : work[v].op = "read" => work[v].latest <= Len(messages[work[v].room]))'
    BY <1>1, <1>2, <2>1, WorkEnded
  <2>3. (\A j \in C!Rooms, x \in C!Users : lastRead[j][x] <= Len(messages[j]))'
    BY <1>1, <1>2, <1>5 DEF C!IInv, C!RowsInStep
  <2>4. QED
    BY <1>1, <1>4, <1>5, <1>6, <2>2, <2>3 DEF C!IInv, C!RowsInStep
<1>8. C!UnreadMatchesMessages'
  <2> SUFFICES ASSUME NEW j \in C!Rooms, NEW x \in C!Users, ~ crossed'[j][x]
               PROVE  unread'[j][x] = Cardinality(AwaitingIn(messages[j], lastRead'[j][x], x))
    BY <1>1, <1>2, UnreadCounts
  <2>1. CASE j = i /\ x = u
    <3>1. n = Len(messages[i]) /\ messages[i] \in Seq(C!Message) /\ lastRead'[j][x] = n /\ unread'[j][x] = 0
      BY <2>1, <1>4, <1>5, <1>6, RoomEntries
    <3>2. AwaitingIn(messages[i], n, u) = {}
      BY <3>1 DEF AwaitingIn
    <3>3. QED
      BY <2>1, <3>1, <3>2, FS_EmptySet
  <2>2. CASE ~ (j = i /\ x = u)
    <3>1. /\ unread'[j][x] = unread[j][x] /\ lastRead'[j][x] = lastRead[j][x]
          /\ crossed'[j][x] = crossed[j][x]
      BY <2>2, <1>4, <1>5, <1>6
    <3>2. QED
      BY <3>1, UnreadCounts DEF C!IInv
  <2>3. QED
    BY <2>1, <2>2
<1>9. QED
  BY <1>1, <1>2, <1>7, <1>8 DEF C!IInv, C!RequestsApart, C!ActiveApart, C!Active

LEMMA ChatStep == C!IInv /\ [C!Next]_chatVars => C!IInv'
<1> SUFFICES ASSUME C!IInv, [C!Next]_chatVars PROVE C!IInv'
  OBVIOUS
<1>1. CASE UNCHANGED <<rooms, messages, unread, lastRead, work, crossed, reopened>>
              /\ contract' \in {contract, "later"}
  <2>1. C!Rooms' = C!Rooms /\ C!Active' = C!Active /\ C!Jobs' = C!Jobs
    BY <1>1 DEF C!Rooms, C!Active, C!Jobs
  <2>2. C!RowsInStep'
    BY <1>1, <2>1 DEF C!IInv, C!RowsInStep
  <2>3. C!UnreadMatchesMessages'
    BY <1>1, <2>1, UnreadCounts DEF C!IInv
  <2>4. QED
    BY <1>1, <2>1, <2>2, <2>3 DEF C!IInv, C!RequestsApart, C!ActiveApart
<1>2. CASE UNCHANGED chatVars \/ C!ContractMovesOn
  BY <1>1, <1>2 DEF chatVars, C!ContractMovesOn
<1>3. CASE \E w \in Workers :
              \/ C!BeginOpen(w)
              \/ \E q \in ServiceRequests : C!BeginOpenForRequest(w, q)
              \/ \E i \in C!Rooms :
                    \/ \E u \in C!Users : C!BeginMessage(w, i, u) \/ C!BeginRead(w, i, u) \/ C!Connect(w, i, u)
                    \/ C!BeginOffer(w, i) \/ C!BeginAccept(w, i) \/ C!BeginSocketSend(w, i)
                    \/ C!BeginLink(w, i) \/ C!BeginClose(w, i)
  BY <1>3, ReadsBegin
<1>4. CASE \E w \in Workers :
              \/ C!CommitOpen(w) \/ C!CommitRelink(w) \/ C!CommitSend(w)
              \/ C!CommitLink(w) \/ C!CommitClose(w) \/ C!CommitRead(w)
  BY <1>4, OpeningKeeps, RelinkingKeeps, MessagesKeep, ReadingKeeps
<1>5. QED
  BY <1>2, <1>3, <1>4 DEF C!Next

LEMMA ChatEntails ==
    C!IInv => /\ C!TypeOK /\ C!UnreadMatchesMessages
              /\ NoRequest \notin ServiceRequests => C!RoomsAreUnique
<1> SUFFICES ASSUME C!IInv PROVE C!TypeOK /\ C!UnreadMatchesMessages
                                 /\ (NoRequest \notin ServiceRequests => C!RoomsAreUnique)
  OBVIOUS
<1>1. C!TypeOK
  <2>1. \A i \in C!Rooms, u \in C!Users : lastRead[i][u] <= Len(messages[i])
    BY DEF C!IInv, C!RowsInStep
  <2>2. contract \in {"in_progress", "later"}
    BY DEF C!IInv, C!RowsInStep
  <2>3. QED
    BY <2>1, <2>2, RoomEntries DEF C!TypeOK
<1>2. ASSUME NEW S, \A i, j \in S : i = j PROVE C!Cardinality(S) \in {0, 1}
  <2>1. S = {} \/ \E i : S = {i}
    BY <1>2
  <2>2. QED
    BY <2>1, SameCardinality, FS_EmptySet, FS_Singleton
<1>3. ASSUME NoRequest \notin ServiceRequests PROVE C!OneRoomPerRequest
  <2> SUFFICES ASSUME NEW q \in ServiceRequests PROVE C!Cardinality(C!OfRequest(q)) <= 1
    BY DEF C!OneRoomPerRequest
  <2>1. \A i, j \in C!OfRequest(q) : i = j
    BY <1>3 DEF C!IInv, C!RequestsApart, C!OfRequest
  <2>2. QED
    BY <1>2, <2>1
<1>4. C!SecondRoomNeedsReopening
  <2>1. {i \in C!Rooms : C!CanSend(rooms[i])} = C!Active
    BY DEF C!Active, C!CanSend, C!ActiveStatus
  <2>2. ~ reopened => C!Cardinality(C!Active) \in {0, 1}
    BY <1>2 DEF C!IInv, C!ActiveApart
  <2>3. QED
    BY <2>1, <2>2 DEF C!SecondRoomNeedsReopening
<1>5. QED
  BY <1>1, <1>3, <1>4 DEF C!RoomsAreUnique, C!IInv

-----------------------------------------------------------------------------
(***************************************************************************)
(* Reviews.                                                                *)
(***************************************************************************)
\* What concerns the rows, and what concerns the aggregates.
RowsHold ==
    /\ R!WellTyped /\ R!CountsCovered /\ R!HiddenReturnsByEditOnly
    /\ R!FlagsSeen /\ R!FlaggedAtThreshold
CachesHold == R!TalliesCurrent /\ R!CachesMatchReviews

LEMMA TallyType == \A rows : R!Tally(rows) \in R!Tallies
<1> SUFFICES ASSUME NEW rows PROVE R!Tally(rows) \in R!Tallies
  OBVIOUS
<1>1. ASSUME NEW S, S \subseteq Contracts
      PROVE  R!Cardinality(S) \in 0 .. R!Cardinality(Contracts)
  <2>1. /\ Cardinality(S) \in Nat /\ Cardinality(Contracts) \in Nat
        /\ Cardinality(S) <= Cardinality(Contracts)
    BY <1>1, PartiesAssumption, FS_Subset, FS_CardinalityType
  <2>2. QED
    BY <2>1, SameCardinality
<1>2. \A n : {c \in Contracts : R!Counted(rows[c]) /\ rows[c].rating = n} \subseteq Contracts
  OBVIOUS
<1>3. QED
  BY <1>1, <1>2 DEF R!Tally, R!Tallies

\* Only the visible ratings count.
LEMMA TallySame ==
    ASSUME NEW rows, NEW others,
           \A c \in Contracts : (rows[c].public <=> others[c].public) /\ rows[c].rating = others[c].rating
    PROVE  R!Tally(rows) = R!Tally(others)
<1>1. \A n : {c \in Contracts : R!Counted(rows[c]) /\ rows[c].rating = n}
           = {c \in Contracts : R!Counted(others[c]) /\ others[c].rating = n}
  BY DEF R!Counted
<1>2. QED
  BY <1>1 DEF R!Tally

\* The invariants of the aggregates, with the state as a parameter.
LEMMA CachesRestated ==
    /\ CachesHold <=>
          /\ \A w \in Workers : job[w].op = "recalculate" =>
                job[w].tally = R!Tally(review) \/ {"snapshot", "rate"} \subseteq excused
          /\ \A w \in Workers : job[w].op = "rate" =>
                job[w].tally = R!Tally(review) \/ "rate" \in excused
          /\ "snapshot" \notin excused => snapshot = R!Tally(review)
          /\ "rate" \notin excused /\ (\A w \in Workers : job[w].op # "rate")
                => rate = R!Tally(review)
    /\ CachesHold' <=>
          /\ \A w \in Workers : job'[w].op = "recalculate" =>
                job'[w].tally = R!Tally(review') \/ {"snapshot", "rate"} \subseteq excused'
          /\ \A w \in Workers : job'[w].op = "rate" =>
                job'[w].tally = R!Tally(review') \/ "rate" \in excused'
          /\ "snapshot" \notin excused' => snapshot' = R!Tally(review')
          /\ "rate" \notin excused' /\ (\A w \in Workers : job'[w].op # "rate")
                => rate' = R!Tally(review')
<1>1. /\ R!Tally(review) = [n \in Ratings |->
            R!Cardinality({c \in Contracts : review[c].public /\ review[c].rating = n})]
      /\ R!Tally(review') = [n \in Ratings |->
            R!Cardinality({c \in Contracts : review'[c].public /\ review'[c].rating = n})]
      /\ R!Tally(review)' = R!Tally(review')
  BY DEF R!Tally, R!Counted
<1>2. R!CachesMatchReviews <=>
          /\ "snapshot" \notin excused => snapshot = R!Tally(review)
          /\ "rate" \notin excused /\ (\A w \in Workers : job[w].op # "rate")
                => rate = R!Tally(review)
  BY <1>1, Zenon DEF R!CachesMatchReviews
<1>3. R!CachesMatchReviews' <=>
          /\ "snapshot" \notin excused' => snapshot' = R!Tally(review')
          /\ "rate" \notin excused' /\ (\A w \in Workers : job'[w].op # "rate")
                => rate' = R!Tally(review')
  BY <1>1, Zenon DEF R!CachesMatchReviews
<1>4. QED
  BY <1>1, <1>2, <1>3, Zenon DEF CachesHold, R!TalliesCurrent

LEMMA ReviewsInit == R!Init => RowsHold /\ CachesHold
<1> SUFFICES ASSUME R!Init PROVE RowsHold /\ CachesHold
  OBVIOUS
<1>1. R!Tally(review) = [n \in Ratings |-> 0]
  <2>1. \A n : {c \in Contracts : R!Counted(review[c]) /\ review[c].rating = n} = {}
    BY DEF R!Init, R!NoReview, R!Counted
  <2>2. R!Cardinality({}) = 0
    BY SameCardinality, FS_EmptySet
  <2>3. QED
    BY <2>1, <2>2 DEF R!Tally
<1>2. \A w \in Workers : job[w].op = "idle"
  BY DEF R!Init, R!Idle
<1>3. R!WellTyped
  <2>1. snapshot \in R!Tallies /\ rate \in R!Tallies
    BY <1>1, TallyType DEF R!Init
  <2>2. QED
    BY <2>1, <1>2 DEF R!Init, R!WellTyped, R!Jobs, R!Idle, R!Exists
<1>4. CachesHold
  BY <1>1, <1>2, CachesRestated DEF R!Init
<1>5. R!CountsCovered
  <2>1. \A op, c : op \in {"vote", "report"} => R!Working(op, c) = {}
    BY <1>2 DEF R!Working
  <2>2. Cardinality({}) = 0 /\ R!Cardinality({}) = 0
    BY SameCardinality, FS_EmptySet
  <2>3. \A c \in Contracts : /\ review[c].helpful = 0 /\ review[c].reports = 0
                             /\ votes[c] = {} /\ reporters[c] = {}
    BY DEF R!Init, R!NoReview
  <2>4. ASSUME NEW c \in Contracts PROVE R!VotesCover(c, review[c]) /\ R!ReportsCover(c, review[c])
    <3>1. R!Working("vote", c) = {} /\ R!Working("report", c) = {}
      BY <2>1
    <3>2. /\ review[c].helpful = 0 /\ review[c].reports = 0
          /\ R!Cardinality(votes[c]) = 0 /\ R!Cardinality(reporters[c]) = 0
      BY <2>2, <2>3
    <3>3. QED
      BY <2>2, <3>1, <3>2 DEF R!VotesCover, R!ReportsCover
  <2>5. \A w \in Workers, c \in Contracts : ~ R!Editing(w, c)
    BY <1>2 DEF R!Editing
  <2>6. QED
    BY <2>4, <2>5 DEF R!CountsCovered
<1>6. R!HiddenReturnsByEditOnly /\ R!FlagsSeen /\ R!FlaggedAtThreshold
  BY <1>2, ReviewLimitsAssumption DEF R!Init, R!NoReview, R!HiddenReturnsByEditOnly, R!FlagsSeen, R!FlaggedAtThreshold
<1>7. QED
  BY <1>3, <1>4, <1>5, <1>6 DEF RowsHold

\* What a job is, by its operation.
LEMMA JobShapes ==
    ASSUME NEW j \in R!Jobs
    PROVE  /\ j.op \in {"recalculate", "rate"} => j.tally \in R!Tallies
           /\ j.op = "create" => /\ j.on \in Contracts /\ j.rating \in Ratings
                                 /\ j.endpoint \in {"contract", "reviews"}
           /\ j.op \in {"edit", "edit checked"} =>
                 /\ j \in [op : {"edit", "edit checked"}, on : Contracts, row : R!Rows, rating : Ratings]
                 /\ j.on \in Contracts /\ j.row \in R!Rows /\ j.rating \in Ratings
           /\ j.op \in {"vote", "flag", "respond"} => j.on \in Contracts
           /\ j.op = "report" => j.on \in Contracts /\ j.flagged \in BOOLEAN
           /\ j.op \in {"idle", "recalculate", "rate", "create", "edit", "edit checked",
                        "respond", "vote", "flag", "report"}
           /\ j.op = "idle" <=> j = R!Idle
<1>1. \/ j \in [op : {"recalculate", "rate"}, tally : R!Tallies]
      \/ j \in [op : {"create"}, on : Contracts, rating : Ratings, endpoint : {"contract", "reviews"}]
      \/ j \in [op : {"edit", "edit checked"}, on : Contracts, row : R!Rows, rating : Ratings]
      \/ j \in [op : {"respond"}, on : Contracts, row : R!Rows]
      \/ j \in [op : {"vote", "flag"}, on : Contracts]
      \/ j \in [op : {"report"}, on : Contracts, flagged : BOOLEAN]
      \/ j = R!Idle
  BY DEF R!Jobs
<1>2. R!Idle.op = "idle"
  BY DEF R!Idle
<1>3. /\ j.op \in {"recalculate", "rate"} => j.tally \in R!Tallies
      /\ j.op = "create" => j.on \in Contracts /\ j.rating \in Ratings /\ j.endpoint \in {"contract", "reviews"}
  BY <1>1, <1>2
<1>4. j.op \in {"edit", "edit checked"} =>
         /\ j \in [op : {"edit", "edit checked"}, on : Contracts, row : R!Rows, rating : Ratings]
         /\ j.on \in Contracts /\ j.row \in R!Rows /\ j.rating \in Ratings
  BY <1>1, <1>2
<1>5. /\ j.op \in {"vote", "flag", "respond"} => j.on \in Contracts
      /\ j.op = "report" => j.on \in Contracts /\ j.flagged \in BOOLEAN
      /\ j.op = "idle" <=> j = R!Idle
  BY <1>1, <1>2
<1>6. j.op \in {"idle", "recalculate", "rate", "create", "edit", "edit checked",
                "respond", "vote", "flag", "report"}
  BY <1>1, <1>2
<1>7. QED
  BY <1>3, <1>4, <1>5, <1>6

LEMMA ReviewJobs ==
    ASSUME R!WellTyped, NEW w \in Workers
    PROVE  /\ job[w] \in R!Jobs
           /\ job[w].op \in {"recalculate", "rate"} => job[w].tally \in R!Tallies
           /\ job[w].op = "create" => /\ job[w].on \in Contracts /\ job[w].rating \in Ratings
                                      /\ job[w].endpoint \in {"contract", "reviews"}
           /\ job[w].op \in {"edit", "edit checked"} =>
                 job[w].on \in Contracts /\ job[w].row \in R!Rows /\ job[w].rating \in Ratings
           /\ job[w].op \in {"vote", "flag", "respond"} => job[w].on \in Contracts
           /\ job[w].op = "report" => job[w].on \in Contracts /\ job[w].flagged \in BOOLEAN
<1>1. job[w] \in R!Jobs
  BY DEF R!WellTyped
<1> DEFINE j == job[w]
<1> HIDE DEF j
<1>2. j \in R!Jobs
  BY <1>1 DEF j
<1>3. QED
  BY <1>2, JobShapes DEF j

LEMMA ReviewRows ==
    ASSUME R!WellTyped, NEW c \in Contracts
    PROVE  /\ review[c].helpful \in Nat /\ review[c].reports \in Nat /\ review[c].edits \in Nat
           /\ review[c] \in R!Rows \/ review[c] = R!NoReview
           /\ R!Exists(c) => review[c] \in R!Rows
<1>1. review[c] \in R!Rows \/ review[c] = R!NoReview
  BY DEF R!WellTyped
<1>2. QED
  BY <1>1, ReviewLimitsAssumption DEF R!Rows, R!NoReview, R!Exists

LEMMA SmallerFits == \A k, m, n, s \in Nat : k + n <= s /\ m <= n => k + m <= s
OBVIOUS

\* How many requests are about to count, when one request goes on.
LEMMA WorkingChanges ==
    ASSUME job \in [Workers -> R!Jobs], NEW w \in Workers, NEW j \in R!Jobs,
           job' = [job EXCEPT ![w] = j], NEW op, NEW c
    PROVE  /\ R!Cardinality(R!Working(op, c)) \in Nat /\ R!Cardinality(R!Working(op, c)') \in Nat
           /\ ~ (j.op = op /\ j.on = c) /\ ~ (job[w].op = op /\ job[w].on = c) =>
                 R!Cardinality(R!Working(op, c)') = R!Cardinality(R!Working(op, c))
           /\ ~ (j.op = op /\ j.on = c) =>
                 R!Cardinality(R!Working(op, c)') <= R!Cardinality(R!Working(op, c))
           /\ ~ (j.op = op /\ j.on = c) /\ job[w].op = op /\ job[w].on = c =>
                 R!Cardinality(R!Working(op, c)') + 1 = R!Cardinality(R!Working(op, c))
           /\ j.op = op /\ j.on = c /\ ~ (job[w].op = op /\ job[w].on = c) =>
                 R!Cardinality(R!Working(op, c)') = R!Cardinality(R!Working(op, c)) + 1
<1> DEFINE before == R!Working(op, c)
           after == R!Working(op, c)'
<1>1. before \subseteq Workers /\ after \subseteq Workers
  BY DEF R!Working
<1>2. IsFiniteSet(before) /\ IsFiniteSet(after) /\ Cardinality(before) \in Nat /\ Cardinality(after) \in Nat
  BY <1>1, PartiesAssumption, FS_Subset, FS_CardinalityType
<1>3. /\ w \in before <=> job[w].op = op /\ job[w].on = c
      /\ w \in after <=> j.op = op /\ j.on = c
      /\ before \ {w} = after \ {w}
  BY DEF R!Working
<1> HIDE DEF before, after
<1>4. CASE w \notin before /\ w \notin after
  <2>1. after = before
    BY <1>3, <1>4
  <2>2. QED
    BY <2>1, <1>2, <1>3, <1>4, SameCardinality DEF before, after
<1>5. CASE w \in before /\ w \notin after
  <2>1. after = before \ {w}
    BY <1>3, <1>5
  <2>2. Cardinality(after) = Cardinality(before) - 1
    BY <2>1, <1>2, <1>5, FS_RemoveElement
  <2>3. QED
    BY <2>2, <1>2, <1>3, <1>5, SameCardinality DEF before, after
<1>6. CASE w \notin before /\ w \in after
  <2>1. after = before \cup {w}
    BY <1>3, <1>6
  <2>2. Cardinality(after) = Cardinality(before) + 1
    BY <2>1, <1>2, <1>6, FS_AddElement
  <2>3. QED
    BY <2>2, <1>2, <1>3, <1>6, SameCardinality DEF before, after
<1>7. CASE w \in before /\ w \in after
  BY <1>2, <1>3, <1>7, SameCardinality DEF before, after
<1>8. QED
  BY <1>4, <1>5, <1>6, <1>7

\* The state of the aggregates when what they count has not changed.
LEMMA TallyKept ==
    ASSUME CachesHold, job \in [Workers -> R!Jobs], NEW w \in Workers, NEW j,
           job' = [job EXCEPT ![w] = j],
           R!Tally(review') = R!Tally(review), UNCHANGED <<snapshot, rate, excused>>,
           job[w].op # "rate",
           j.op \in {"recalculate", "rate"} => j.tally = R!Tally(review)
    PROVE  CachesHold'
<1>1. \A v \in Workers : job'[v] = IF v = w THEN j ELSE job[v]
  OBVIOUS
<1>2. (\A v \in Workers : job'[v].op # "rate") => \A v \in Workers : job[v].op # "rate"
  BY <1>1
<1> DEFINE tally == R!Tally(review)
<1> HIDE DEF tally
<1>3. \A v \in Workers : job'[v].op = "recalculate" =>
         job'[v].tally = tally \/ {"snapshot", "rate"} \subseteq excused
  BY <1>1, CachesRestated DEF tally
<1>4. \A v \in Workers : job'[v].op = "rate" => job'[v].tally = tally \/ "rate" \in excused
  BY <1>1, CachesRestated DEF tally
<1>5. /\ "snapshot" \notin excused => snapshot = tally
      /\ "rate" \notin excused /\ (\A v \in Workers : job'[v].op # "rate") => rate = tally
  BY <1>2, CachesRestated DEF tally
<1>6. QED
  BY <1>3, <1>4, <1>5, CachesRestated DEF tally

\* A transaction that writes both aggregates.
LEMMA RecalculationKeeps ==
    ASSUME CachesHold, NEW rows, R!SaveAndRecalculate(rows),
           \A v \in Workers : job'[v] = job[v] \/ job'[v] = R!Idle
    PROVE  CachesHold'
<1>1. R!Idle.op \notin {"recalculate", "rate"}
  BY DEF R!Idle
<1>2. \A v \in Workers : job'[v].op \in {"recalculate", "rate"} => job'[v] = job[v]
  BY <1>1
<1>3. /\ review' = rows /\ snapshot' = R!Tally(rows) /\ rate' = R!Tally(rows)
      /\ excused' = excused \cup R!Overtaken(rows)
  BY DEF R!SaveAndRecalculate
<1>4. ASSUME NEW v \in Workers, job[v].op = "recalculate", R!Tally(rows) # R!Tally(review)
      PROVE  {"snapshot", "rate"} \subseteq R!Overtaken(rows)
  BY <1>4 DEF R!Overtaken
<1>5. ASSUME NEW v \in Workers, job[v].op = "rate", R!Tally(rows) # R!Tally(review)
      PROVE  "rate" \in R!Overtaken(rows)
  BY <1>5 DEF R!Overtaken
<1>6. \A v \in Workers : job'[v].op = "recalculate" =>
         job'[v].tally = R!Tally(rows) \/ {"snapshot", "rate"} \subseteq excused'
  BY <1>2, <1>3, <1>4, CachesRestated
<1>7. \A v \in Workers : job'[v].op = "rate" => job'[v].tally = R!Tally(rows) \/ "rate" \in excused'
  BY <1>2, <1>3, <1>5, CachesRestated
<1>8. QED
  BY <1>3, <1>6, <1>7, CachesRestated

-----------------------------------------------------------------------------
LEMMA StoredCounts ==
    ASSUME R!WellTyped, NEW c \in Contracts
    PROVE  /\ IsFiniteSet(votes[c]) /\ IsFiniteSet(reporters[c])
           /\ R!Cardinality(votes[c]) \in Nat /\ R!Cardinality(reporters[c]) \in Nat
           /\ R!Cardinality(votes[c]) <= R!Cardinality(Voters)
           /\ R!Cardinality(reporters[c]) <= R!Cardinality(Voters)
           /\ R!Cardinality(Voters) \in Nat
<1>1. votes[c] \subseteq Voters /\ reporters[c] \subseteq Voters
  BY DEF R!WellTyped
<1>2. QED
  BY <1>1, PartiesAssumption, FS_Subset, FS_CardinalityType, SameCardinality

\* A row is saved by a request that goes on with j.
LEMMA RowSaved ==
    ASSUME RowsHold, NEW w \in Workers, NEW j \in R!Jobs, job' = [job EXCEPT ![w] = j],
           NEW c \in Contracts, NEW row \in R!Rows, review' = [review EXCEPT ![c] = row],
           UNCHANGED <<votes, reporters, moderated>>,
           snapshot' \in R!Tallies, rate' \in R!Tallies, excused' \subseteq {"snapshot", "rate"},
           j.op \in {"idle", "rate", "flag"}, j.op = "flag" => j.on = c,
           job[w].op = "flag" => job[w].on = c,
           R!VotesCover(c, row)', R!ReportsCover(c, row)',
           moderated[c] = "hide" /\ row.public => row.edits > 0,
           R!Exists(c) /\ (review[c].flagged \/ review[c].edits > 0) => row.flagged \/ row.edits > 0,
           row.reports >= ReportThreshold /\ row.edits = 0 => row.flagged \/ j.op = "flag" \/
              (job[w].op # "flag" /\ \E v \in Workers : job[v].op = "flag" /\ job[v].on = c)
    PROVE  RowsHold'
<1>1. /\ job \in [Workers -> R!Jobs] /\ review \in [Contracts -> R!Rows \cup {R!NoReview}]
  BY DEF RowsHold, R!WellTyped
<1>2. /\ \A d \in Contracts : review'[d] = IF d = c THEN row ELSE review[d]
      /\ \A v \in Workers : job'[v] = IF v = w THEN j ELSE job[v]
  BY <1>1
<1>3. row # R!NoReview
  BY ReviewLimitsAssumption DEF R!Rows, R!NoReview
<1>4. \A d \in Contracts : R!Exists(d) => review'[d] # R!NoReview
  BY <1>2, <1>3 DEF R!Exists
<1>5. \A v \in Workers : v # w /\ job[v].op \in {"edit", "edit checked", "respond", "vote", "flag", "report"} =>
         job[v].on \in Contracts /\ R!Exists(job[v].on)
  BY ReviewJobs DEF RowsHold, R!WellTyped
<1>6. R!WellTyped'
  <2>1. review' \in [Contracts -> R!Rows \cup {R!NoReview}]
    BY <1>1
  <2>2. job' \in [Workers -> R!Jobs]
    BY <1>1
  <2>3. \A d \in Contracts : review'[d] = R!NoReview => moderated'[d] = "none"
    BY <1>2, <1>3 DEF RowsHold, R!WellTyped, R!Exists
  <2>4. \A v \in Workers :
           job'[v].op \in {"edit", "edit checked", "respond", "vote", "flag", "report"} =>
              review'[job'[v].on] # R!NoReview
    <3> SUFFICES ASSUME NEW v \in Workers,
                        job'[v].op \in {"edit", "edit checked", "respond", "vote", "flag", "report"}
                 PROVE  review'[job'[v].on] # R!NoReview
      OBVIOUS
    <3>1. CASE v = w
      BY <3>1, <1>2, <1>3
    <3>2. CASE v # w
      BY <3>2, <1>2, <1>4, <1>5
    <3>3. QED
      BY <3>1, <3>2
  <2>5. \A v \in Workers : job'[v].op = "edit checked" => job'[v].row.edits < MaxEdits
    BY <1>2 DEF RowsHold, R!WellTyped
  <2>6. /\ votes' \in [Contracts -> SUBSET Voters] /\ reporters' \in [Contracts -> SUBSET Voters]
        /\ moderated' \in [Contracts -> {"none", "hide", "restore", "verify"}]
    BY DEF RowsHold, R!WellTyped
  <2>7. QED
    BY <2>1, <2>2, <2>3, <2>4, <2>5, <2>6 DEF R!WellTyped, R!Exists
<1>7. \A op \in {"vote", "report"}, d \in Contracts :
         /\ R!Cardinality(R!Working(op, d)') <= R!Cardinality(R!Working(op, d))
         /\ R!Cardinality(R!Working(op, d)') \in Nat /\ R!Cardinality(R!Working(op, d)) \in Nat
  BY <1>1, WorkingChanges
<1>8. R!CountsCovered'
  <2>1. ASSUME NEW d \in Contracts, NEW k \in Nat
        PROVE  /\ k + R!Cardinality(R!Working("vote", d)) <= R!Cardinality(votes[d]) =>
                     k + R!Cardinality(R!Working("vote", d)') <= R!Cardinality(votes'[d])
               /\ k + R!Cardinality(R!Working("report", d)) <= R!Cardinality(reporters[d]) =>
                     k + R!Cardinality(R!Working("report", d)') <= R!Cardinality(reporters'[d])
    <3>1. R!Cardinality(votes[d]) \in Nat /\ R!Cardinality(reporters[d]) \in Nat
      BY StoredCounts DEF RowsHold
    <3>2. votes' = votes /\ reporters' = reporters
      OBVIOUS
    <3>3. QED
      BY <1>7, <3>1, <3>2, SmallerFits
  <2>2. \A d \in Contracts : review[d].helpful \in Nat /\ review[d].reports \in Nat
    BY ReviewRows DEF RowsHold
  <2>3. ASSUME NEW d \in Contracts PROVE (R!VotesCover(d, review[d]) /\ R!ReportsCover(d, review[d]))'
    <3>1. CASE d = c
      BY <3>1, <1>2 DEF R!VotesCover, R!ReportsCover
    <3>2. CASE d # c
      <4>1. R!VotesCover(d, review[d]) /\ R!ReportsCover(d, review[d]) /\ review'[d] = review[d]
        BY <3>2, <1>2 DEF RowsHold, R!CountsCovered
      <4>2. QED
        BY <4>1, <2>1, <2>2 DEF R!VotesCover, R!ReportsCover
    <3>3. QED
      BY <3>1, <3>2
  <2>4. ASSUME NEW d \in Contracts, NEW v \in Workers, R!Editing(v, d)'
        PROVE  (R!VotesCover(d, job[v].row) /\ R!ReportsCover(d, job[v].row))'
    <3>1. job'[v] = job[v] /\ R!Editing(v, d)
      BY <1>2, <2>4 DEF R!Editing
    <3>2. /\ R!VotesCover(d, job[v].row) /\ R!ReportsCover(d, job[v].row)
          /\ job[v].row.helpful \in Nat /\ job[v].row.reports \in Nat
      BY <3>1, ReviewJobs DEF RowsHold, R!CountsCovered, R!Editing, R!Rows
    <3>3. QED
      BY <3>1, <3>2, <2>1 DEF R!VotesCover, R!ReportsCover
  <2>5. QED
    BY <2>3, <2>4 DEF R!CountsCovered
<1>9. R!HiddenReturnsByEditOnly'
  BY <1>2 DEF RowsHold, R!HiddenReturnsByEditOnly
<1>10. R!FlagsSeen'
  <2> SUFFICES ASSUME NEW v \in Workers, job'[v].op = "report", job'[v].flagged
               PROVE  review'[job'[v].on].flagged \/ review'[job'[v].on].edits > 0
    BY DEF R!FlagsSeen
  <2>1. /\ job'[v] = job[v] /\ v # w /\ job[v].on \in Contracts /\ R!Exists(job[v].on)
        /\ review[job[v].on].flagged \/ review[job[v].on].edits > 0
    BY <1>2, <1>5 DEF RowsHold, R!FlagsSeen
  <2>2. QED
    BY <1>2, <2>1
<1>11. R!FlaggedAtThreshold'
  <2> SUFFICES ASSUME NEW d \in Contracts, review'[d].reports >= ReportThreshold, review'[d].edits = 0,
                      \A v \in Workers : job'[v].op = "flag" => job'[v].on # d
               PROVE  review'[d].flagged
    BY DEF R!FlaggedAtThreshold
  <2>1. CASE d = c
    BY <1>2, <2>1
  <2>2. CASE d # c
    <3>1. \A v \in Workers : job[v].op = "flag" => job[v].on # d
      BY <1>2, <2>2
    <3>2. QED
      BY <1>2, <2>2, <3>1 DEF RowsHold, R!FlaggedAtThreshold
  <2>3. QED
    BY <2>1, <2>2
<1>12. QED
  BY <1>6, <1>8, <1>9, <1>10, <1>11 DEF RowsHold

\* A request begins, is tested or is refused: it only reads.
LEMMA JobKeeps ==
    ASSUME RowsHold, NEW w \in Workers, NEW j \in R!Jobs, job' = [job EXCEPT ![w] = j],
           UNCHANGED <<review, votes, reporters, moderated>>,
           snapshot' \in R!Tallies, rate' \in R!Tallies, excused' \subseteq {"snapshot", "rate"},
           j.op \notin {"vote", "report", "flag"}, job[w].op # "flag",
           j.op \in {"edit", "edit checked", "respond"} => R!Exists(j.on),
           j.op \in {"edit", "edit checked"} => R!VotesCover(j.on, j.row) /\ R!ReportsCover(j.on, j.row),
           j.op = "edit checked" => j.row.edits < MaxEdits
    PROVE  RowsHold'
<1>1. /\ job \in [Workers -> R!Jobs] /\ review \in [Contracts -> R!Rows \cup {R!NoReview}]
      /\ \A v \in Workers : job'[v] = IF v = w THEN j ELSE job[v]
  BY DEF RowsHold, R!WellTyped
<1>2. R!WellTyped'
  <2>1. \A v \in Workers :
           job'[v].op \in {"edit", "edit checked", "respond", "vote", "flag", "report"} =>
              review'[job'[v].on] # R!NoReview
    <3> SUFFICES ASSUME NEW v \in Workers,
                        job'[v].op \in {"edit", "edit checked", "respond", "vote", "flag", "report"}
                 PROVE  review'[job'[v].on] # R!NoReview
      OBVIOUS
    <3>1. CASE v = w
      BY <3>1, <1>1 DEF R!Exists
    <3>2. CASE v # w
      BY <3>2, <1>1 DEF RowsHold, R!WellTyped, R!Exists
    <3>3. QED
      BY <3>1, <3>2
  <2>2. \A v \in Workers : job'[v].op = "edit checked" => job'[v].row.edits < MaxEdits
    BY <1>1 DEF RowsHold, R!WellTyped
  <2>3. job' \in [Workers -> R!Jobs]
    BY <1>1
  <2>4. QED
    BY <2>1, <2>2, <2>3 DEF RowsHold, R!WellTyped, R!Exists
<1>3. R!CountsCovered'
  <2>1. ASSUME NEW d \in Contracts, NEW k \in Nat
        PROVE  /\ k + R!Cardinality(R!Working("vote", d)) <= R!Cardinality(votes[d]) =>
                     k + R!Cardinality(R!Working("vote", d)') <= R!Cardinality(votes'[d])
               /\ k + R!Cardinality(R!Working("report", d)) <= R!Cardinality(reporters[d]) =>
                     k + R!Cardinality(R!Working("report", d)') <= R!Cardinality(reporters'[d])
    <3>1. R!Cardinality(votes[d]) \in Nat /\ R!Cardinality(reporters[d]) \in Nat
      BY StoredCounts DEF RowsHold
    <3>2. \A op \in {"vote", "report"} :
             /\ R!Cardinality(R!Working(op, d)') <= R!Cardinality(R!Working(op, d))
             /\ R!Cardinality(R!Working(op, d)') \in Nat /\ R!Cardinality(R!Working(op, d)) \in Nat
      BY <1>1, WorkingChanges
    <3>3. votes' = votes /\ reporters' = reporters
      OBVIOUS
    <3>4. QED
      BY <3>1, <3>2, <3>3, SmallerFits
  <2>2. \A d \in Contracts : review[d].helpful \in Nat /\ review[d].reports \in Nat
    BY ReviewRows DEF RowsHold
  <2>3. ASSUME NEW d \in Contracts PROVE (R!VotesCover(d, review[d]) /\ R!ReportsCover(d, review[d]))'
    <3>1. R!VotesCover(d, review[d]) /\ R!ReportsCover(d, review[d]) /\ review'[d] = review[d]
      BY DEF RowsHold, R!CountsCovered
    <3>2. QED
      BY <3>1, <2>1, <2>2 DEF R!VotesCover, R!ReportsCover
  <2>4. ASSUME NEW d \in Contracts, NEW v \in Workers, R!Editing(v, d)'
        PROVE  (R!VotesCover(d, job[v].row) /\ R!ReportsCover(d, job[v].row))'
    <3>1. /\ R!VotesCover(d, job'[v].row) /\ R!ReportsCover(d, job'[v].row)
          /\ job'[v].row \in R!Rows
      <4>1. CASE v = w
        <5>1. j.op \in {"edit", "edit checked"} /\ j.on = d
          BY <4>1, <2>4, <1>1 DEF R!Editing
        <5>2. j.row \in R!Rows
          BY <5>1, JobShapes
        <5>3. QED
          BY <4>1, <5>1, <5>2, <1>1
      <4>2. CASE v # w
        <5>1. job'[v] = job[v] /\ R!Editing(v, d)
          BY <4>2, <2>4, <1>1 DEF R!Editing
        <5>2. QED
          BY <5>1, ReviewJobs DEF RowsHold, R!CountsCovered, R!Editing
      <4>3. QED
        BY <4>1, <4>2
    <3>2. job'[v].row.helpful \in Nat /\ job'[v].row.reports \in Nat
      BY <3>1 DEF R!Rows
    <3>3. QED
      BY <3>1, <3>2, <2>1 DEF R!VotesCover, R!ReportsCover
  <2>5. QED
    BY <2>3, <2>4 DEF R!CountsCovered
<1>4. R!FlagsSeen'
  BY <1>1 DEF RowsHold, R!FlagsSeen
<1>5. R!FlaggedAtThreshold'
  BY <1>1 DEF RowsHold, R!FlaggedAtThreshold
<1>6. QED
  BY <1>2, <1>3, <1>4, <1>5 DEF RowsHold, R!HiddenReturnsByEditOnly

LEMMA BeginningsKeep ==
    ASSUME RowsHold, CachesHold, NEW w \in Workers,
           \/ R!BeginRecalculate(w)
           \/ \E c \in Contracts, n \in Ratings :
                 R!ReviewContract(w, c, n) \/ R!PostReview(w, c, n) \/ R!BeginEdit(w, c, n)
           \/ \E c \in Contracts : R!BeginRespond(w, c)
           \/ R!CheckEdit(w) \/ R!Rollback(w)
    PROVE  RowsHold' /\ CachesHold'
<1>1. ASSUME NEW j \in R!Jobs, job' = [job EXCEPT ![w] = j],
             UNCHANGED <<review, votes, reporters, moderated, snapshot, rate, excused>>,
             j.op \in {"recalculate", "create", "edit", "edit checked", "respond", "idle"},
             job[w].op \in {"idle", "create", "edit", "edit checked"},
             j.op = "recalculate" => j.tally = R!Tally(review),
             j.op \in {"edit", "edit checked", "respond"} => R!Exists(j.on),
             j.op \in {"edit", "edit checked"} => R!VotesCover(j.on, j.row) /\ R!ReportsCover(j.on, j.row),
             j.op = "edit checked" => j.row.edits < MaxEdits
      PROVE  RowsHold' /\ CachesHold'
  <2>1. /\ snapshot \in R!Tallies /\ rate \in R!Tallies /\ excused \subseteq {"snapshot", "rate"}
        /\ job \in [Workers -> R!Jobs]
    BY DEF RowsHold, R!WellTyped
  <2>2. RowsHold'
    BY <1>1, <2>1, JobKeeps
  <2>3. R!Tally(review') = R!Tally(review)
    BY <1>1
  <2>4. CachesHold'
    BY <1>1, <2>1, <2>3, TallyKept
  <2>5. QED
    BY <2>2, <2>4
<1>2. R!Idle.op = "idle" /\ R!Idle \in R!Jobs
  BY DEF R!Idle, R!Jobs
<1>3. \A c \in Contracts : R!Exists(c) => /\ review[c] \in R!Rows
                                          /\ R!VotesCover(c, review[c]) /\ R!ReportsCover(c, review[c])
  BY DEF RowsHold, R!WellTyped, R!Exists, R!CountsCovered
<1>4. CASE R!BeginRecalculate(w)
  <2>1. [op |-> "recalculate", tally |-> R!Tally(review)] \in R!Jobs
    BY TallyType DEF R!Jobs
  <2>2. QED
    BY <1>1, <1>2, <1>4, <2>1 DEF R!BeginRecalculate, R!Begin, R!rowVars, R!cacheVars
<1>5. ASSUME NEW c \in Contracts, NEW n \in Ratings, NEW e \in {"contract", "reviews"},
             R!BeginCreate(w, c, n, e)
      PROVE  RowsHold' /\ CachesHold'
  <2>1. [op |-> "create", on |-> c, rating |-> n, endpoint |-> e] \in R!Jobs
    BY DEF R!Jobs
  <2>2. QED
    BY <1>1, <1>2, <1>5, <2>1 DEF R!BeginCreate, R!Begin, R!rowVars, R!cacheVars
<1>6. ASSUME NEW c \in Contracts, NEW n \in Ratings, R!BeginEdit(w, c, n)
      PROVE  RowsHold' /\ CachesHold'
  <2> DEFINE j == [op |-> "edit", on |-> c, row |-> review[c], rating |-> n]
  <2>1. R!Exists(c) /\ R!Begin(w, j)
    BY <1>6 DEF R!BeginEdit
  <2>2. j \in R!Jobs
    BY <1>3, <2>1 DEF R!Jobs
  <2>3. QED
    BY <1>1, <1>2, <1>3, <2>1, <2>2 DEF R!Begin, R!rowVars, R!cacheVars
<1>7. ASSUME NEW c \in Contracts, R!BeginRespond(w, c)
      PROVE  RowsHold' /\ CachesHold'
  <2> DEFINE j == [op |-> "respond", on |-> c, row |-> review[c]]
  <2>1. R!Exists(c) /\ R!Begin(w, j)
    BY <1>7 DEF R!BeginRespond, R!Exists, R!NoReview
  <2>2. j \in R!Jobs
    BY <1>3, <2>1 DEF R!Jobs
  <2>3. QED
    BY <1>1, <1>2, <2>1, <2>2 DEF R!Begin, R!rowVars, R!cacheVars
<1>8. CASE R!CheckEdit(w)
  <2> DEFINE j == [job[w] EXCEPT !.op = "edit checked"]
  <2>1. /\ job[w].op = "edit" /\ job[w].row.edits < MaxEdits /\ job' = [job EXCEPT ![w] = j]
        /\ UNCHANGED <<review, votes, reporters, moderated, snapshot, rate, excused>>
    BY <1>8 DEF R!CheckEdit, R!InFlight, R!EditsLeft, R!rowVars, R!cacheVars
  <2>2. /\ job[w] \in R!Jobs /\ job[w].on \in Contracts /\ R!Exists(job[w].on)
        /\ R!VotesCover(job[w].on, job[w].row) /\ R!ReportsCover(job[w].on, job[w].row)
    BY <2>1, ReviewJobs DEF RowsHold, R!WellTyped, R!CountsCovered, R!Editing
  <2>3. j \in R!Jobs /\ j.op = "edit checked" /\ j.on = job[w].on /\ j.row = job[w].row
    <3>1. job[w] \in [op : {"edit", "edit checked"}, on : Contracts, row : R!Rows, rating : Ratings]
      <4> DEFINE k == job[w]
      <4> HIDE DEF k
      <4>1. k \in R!Jobs /\ k.op = "edit"
        BY <2>1, <2>2 DEF k
      <4>2. QED
        BY <4>1, JobShapes DEF k
    <3>2. QED
      BY <3>1 DEF R!Jobs
  <2> HIDE DEF j
  <2>4. QED
    BY <1>1, <2>1, <2>2, <2>3
<1>9. CASE R!Rollback(w)
  BY <1>1, <1>2, <1>9 DEF R!Rollback, R!Finish, R!rowVars, R!cacheVars
<1>10. QED
  BY <1>4, <1>5, <1>6, <1>7, <1>8, <1>9 DEF R!ReviewContract, R!PostReview

\* An aggregate is written.
LEMMA WritesKeep ==
    ASSUME RowsHold, CachesHold, NEW w \in Workers, R!CommitRecalculate(w) \/ R!CommitRate(w)
    PROVE  RowsHold' /\ CachesHold'
<1>1. /\ job[w].op \in {"recalculate", "rate"} /\ job' = [job EXCEPT ![w] = R!Idle]
      /\ UNCHANGED <<review, votes, reporters, moderated, excused>>
      /\ snapshot' = snapshot \/ snapshot' = job[w].tally
      /\ rate' = job[w].tally
  BY DEF R!CommitRecalculate, R!CommitRate, R!InFlight, R!Finish, R!rowVars
<1>2. R!Idle \in R!Jobs /\ R!Idle.op = "idle"
  BY DEF R!Idle, R!Jobs
<1>3. /\ job[w].tally \in R!Tallies /\ snapshot \in R!Tallies /\ excused \subseteq {"snapshot", "rate"}
      /\ \A v \in Workers : job'[v] = IF v = w THEN R!Idle ELSE job[v]
  BY <1>1, ReviewJobs DEF RowsHold, R!WellTyped
<1>4. RowsHold'
  BY <1>1, <1>2, <1>3, JobKeeps
<1>5. CASE R!CommitRecalculate(w)
  <2>1. /\ job[w].op = "recalculate" /\ snapshot' = job[w].tally /\ review' = review
    BY <1>5 DEF R!CommitRecalculate, R!InFlight
  <2>2. job[w].tally = R!Tally(review) \/ {"snapshot", "rate"} \subseteq excused
    BY <2>1, CachesRestated
  <2>3. \A v \in Workers : job'[v].op \in {"recalculate", "rate"} => job'[v] = job[v]
    BY <1>2, <1>3
  <2>4. QED
    BY <1>1, <1>4, <2>1, <2>2, <2>3, CachesRestated
<1>6. CASE R!CommitRate(w)
  <2>1. job[w].op = "rate" /\ snapshot' = snapshot /\ review' = review
    BY <1>6 DEF R!CommitRate, R!InFlight
  <2>2. job[w].tally = R!Tally(review) \/ "rate" \in excused
    BY <2>1, CachesRestated
  <2>3. \A v \in Workers : job'[v].op \in {"recalculate", "rate"} => job'[v] = job[v]
    BY <1>2, <1>3
  <2>4. QED
    BY <1>1, <1>4, <2>1, <2>2, <2>3, CachesRestated
<1>7. QED
  BY <1>5, <1>6

\* A save outside the transaction that counts, of a row whose rating and
\* visibility stay.
LEMMA CounterSaved ==
    ASSUME RowsHold, CachesHold, NEW w \in Workers, NEW c \in Contracts, NEW j \in R!Jobs,
           R!Exists(c), NEW row \in R!Rows,
           row.public <=> review[c].public, row.rating = review[c].rating,
           row.edits = review[c].edits, review[c].flagged => row.flagged,
           review' = [review EXCEPT ![c] = row], job' = [job EXCEPT ![w] = j],
           UNCHANGED <<votes, reporters, moderated, snapshot, rate, excused>>,
           j.op \in {"rate", "flag"}, j.op = "rate" => j.tally = R!Tally(review'), j.op = "flag" => j.on = c,
           job[w].op # "rate", job[w].op = "flag" => job[w].on = c /\ row.flagged,
           R!VotesCover(c, row)', R!ReportsCover(c, row)',
           row.reports >= ReportThreshold =>
              row.reports = review[c].reports \/ row.flagged \/ row.edits > 0 \/ j.op = "flag"
    PROVE  RowsHold' /\ CachesHold'
<1>1. /\ review \in [Contracts -> R!Rows \cup {R!NoReview}] /\ job \in [Workers -> R!Jobs]
      /\ snapshot \in R!Tallies /\ rate \in R!Tallies /\ excused \subseteq {"snapshot", "rate"}
  BY DEF RowsHold, R!WellTyped
<1>2. R!Tally(review') = R!Tally(review)
  <2>1. \A d \in Contracts : (review'[d].public <=> review[d].public) /\ review'[d].rating = review[d].rating
    <3> TAKE d \in Contracts
    <3>1. CASE d = c
      BY <3>1, <1>1
    <3>2. CASE d # c
      BY <3>2, <1>1
    <3>3. QED
      BY <3>1, <3>2
  <2>2. QED
    BY <2>1, TallySame
<1>3. CachesHold'
  BY <1>1, <1>2, TallyKept
<1>4. moderated[c] = "hide" /\ row.public => row.edits > 0
  BY DEF RowsHold, R!HiddenReturnsByEditOnly
<1>5. row.reports >= ReportThreshold /\ row.edits = 0 => row.flagged \/ j.op = "flag" \/
         (job[w].op # "flag" /\ \E v \in Workers : job[v].op = "flag" /\ job[v].on = c)
  <2> SUFFICES ASSUME row.reports >= ReportThreshold, row.edits = 0, j.op # "flag", job[w].op # "flag",
                      ~ row.flagged,
                      \A v \in Workers : job[v].op = "flag" => job[v].on # c
               PROVE  FALSE
    OBVIOUS
  <2>1. review[c].edits = 0
    OBVIOUS
  <2>2. ~ (row.edits > 0)
    OBVIOUS
  <2>3. row.reports = review[c].reports
    BY <2>2
  <2>4. review[c].flagged
    BY <2>1, <2>3 DEF RowsHold, R!FlaggedAtThreshold
  <2>5. QED
    BY <2>4
<1>6. review[c].flagged \/ review[c].edits > 0 => row.flagged \/ row.edits > 0
  OBVIOUS
<1>7. RowsHold'
  BY <1>1, <1>4, <1>5, <1>6, RowSaved
<1>8. QED
  BY <1>3, <1>7

\* How a counter job leaves what is stored covering what is counted.
LEMMA CountedOnce ==
    ASSUME RowsHold, NEW w \in Workers, NEW c \in Contracts, NEW j \in R!Jobs,
           job' = [job EXCEPT ![w] = j], j.op \in {"idle", "rate", "flag"},
           UNCHANGED <<votes, reporters>>
    PROVE  /\ review[c].helpful + R!Cardinality(R!Working("vote", c)') <= R!Cardinality(votes'[c])
           /\ review[c].reports + R!Cardinality(R!Working("report", c)') <= R!Cardinality(reporters'[c])
           /\ job[w].op = "vote" /\ job[w].on = c =>
                 review[c].helpful + 1 + R!Cardinality(R!Working("vote", c)') <= R!Cardinality(votes'[c])
           /\ job[w].op = "report" /\ job[w].on = c =>
                 review[c].reports + 1 + R!Cardinality(R!Working("report", c)') <= R!Cardinality(reporters'[c])
<1>1. \A op \in {"vote", "report"} :
         /\ R!Cardinality(R!Working(op, c)') <= R!Cardinality(R!Working(op, c))
         /\ R!Cardinality(R!Working(op, c)') \in Nat /\ R!Cardinality(R!Working(op, c)) \in Nat
         /\ job[w].op = op /\ job[w].on = c =>
               R!Cardinality(R!Working(op, c)') + 1 = R!Cardinality(R!Working(op, c))
  <2> TAKE op \in {"vote", "report"}
  <2>1. job \in [Workers -> R!Jobs] /\ ~ (j.op = op /\ j.on = c)
    BY DEF RowsHold, R!WellTyped
  <2>2. QED
    BY <2>1, WorkingChanges
<1>2. /\ review[c].helpful + R!Cardinality(R!Working("vote", c)) <= R!Cardinality(votes[c])
      /\ review[c].reports + R!Cardinality(R!Working("report", c)) <= R!Cardinality(reporters[c])
      /\ votes' = votes /\ reporters' = reporters
  BY DEF RowsHold, R!CountsCovered, R!VotesCover, R!ReportsCover
<1>3. /\ review[c].helpful \in Nat /\ review[c].reports \in Nat
      /\ R!Cardinality(votes[c]) \in Nat /\ R!Cardinality(reporters[c]) \in Nat
  BY ReviewRows, StoredCounts DEF RowsHold
<1>4. \A k, m, n, s \in Nat : k + n <= s /\ m + 1 = n => k + 1 + m <= s
  OBVIOUS
<1>5. /\ review[c].helpful + R!Cardinality(R!Working("vote", c)') <= R!Cardinality(votes[c])
      /\ review[c].reports + R!Cardinality(R!Working("report", c)') <= R!Cardinality(reporters[c])
  BY <1>1, <1>2, <1>3, SmallerFits
<1>6. /\ job[w].op = "vote" /\ job[w].on = c =>
            review[c].helpful + 1 + R!Cardinality(R!Working("vote", c)') <= R!Cardinality(votes[c])
      /\ job[w].op = "report" /\ job[w].on = c =>
            review[c].reports + 1 + R!Cardinality(R!Working("report", c)') <= R!Cardinality(reporters[c])
  BY <1>1, <1>2, <1>3, <1>4
<1>7. QED
  BY <1>2, <1>5, <1>6

LEMMA CountersKeep ==
    ASSUME RowsHold, CachesHold, NEW w \in Workers,
           R!CommitRespond(w) \/ R!CountVote(w) \/ R!SetFlag(w) \/ R!CountReport(w)
    PROVE  RowsHold' /\ CachesHold'
<1>1. /\ job[w].on \in Contracts /\ R!Exists(job[w].on)
      /\ job[w].op \in {"respond", "vote", "flag", "report"}
      /\ job \in [Workers -> R!Jobs] /\ review \in [Contracts -> R!Rows \cup {R!NoReview}]
  BY ReviewJobs DEF RowsHold, R!WellTyped, R!CommitRespond, R!CountVote, R!SetFlag, R!CountReport, R!InFlight
<1>2. PICK c \in Contracts : c = job[w].on
  BY <1>1
<1>3. R!Exists(c) /\ review[c] \in R!Rows
  BY <1>1, <1>2, ReviewRows DEF RowsHold
<1>4. ASSUME NEW row \in R!Rows, R!SaveThenRate(w, c, row),
             UNCHANGED <<votes, reporters, moderated, snapshot, rate, excused>>,
             row.public <=> review[c].public, row.rating = review[c].rating, row.edits = review[c].edits,
             row.reports = review[c].reports, review[c].flagged => row.flagged,
             job[w].op = "flag" => row.flagged,
             row.helpful = review[c].helpful \/ (row.helpful = review[c].helpful + 1 /\ job[w].op = "vote")
      PROVE  RowsHold' /\ CachesHold'
  <2> DEFINE j == [op |-> "rate", tally |-> R!Tally(review')]
  <2>1. j \in R!Jobs /\ j.op = "rate" /\ j.tally = R!Tally(review')
    BY TallyType DEF R!Jobs
  <2>2. review' = [review EXCEPT ![c] = row] /\ job' = [job EXCEPT ![w] = j]
    BY <1>4 DEF R!SaveThenRate
  <2> HIDE DEF j
  <2>3. /\ row.helpful + R!Cardinality(R!Working("vote", c)') <= R!Cardinality(votes'[c])
        /\ row.reports + R!Cardinality(R!Working("report", c)') <= R!Cardinality(reporters'[c])
    <3>1. j.op \in {"idle", "rate", "flag"}
      BY <2>1
    <3>2. /\ review[c].helpful + R!Cardinality(R!Working("vote", c)') <= R!Cardinality(votes'[c])
          /\ review[c].reports + R!Cardinality(R!Working("report", c)') <= R!Cardinality(reporters'[c])
          /\ job[w].op = "vote" =>
                review[c].helpful + 1 + R!Cardinality(R!Working("vote", c)') <= R!Cardinality(votes'[c])
      BY <1>2, <1>4, <2>1, <2>2, <3>1, CountedOnce
    <3>3. QED
      BY <1>4, <3>2
  <2>4. R!VotesCover(c, row)' /\ R!ReportsCover(c, row)'
    BY <2>3 DEF R!VotesCover, R!ReportsCover
  <2>5. j.op \in {"rate", "flag"} /\ j.op # "flag" /\ job[w].op # "rate"
    BY <1>1, <2>1
  <2>6. QED
    BY <1>2, <1>3, <1>4, <2>1, <2>2, <2>4, <2>5, CounterSaved
<1>5. CASE R!CommitRespond(w)
  BY <1>2, <1>3, <1>4, <1>5 DEF R!CommitRespond, R!InFlight, R!Responded, R!rowVars, R!cacheVars
<1>6. CASE R!CountVote(w)
  <2> DEFINE row == [review[c] EXCEPT !.helpful = @ + 1]
  <2>1. /\ row \in R!Rows /\ row.helpful = review[c].helpful + 1 /\ row.public = review[c].public
        /\ row.rating = review[c].rating /\ row.edits = review[c].edits
        /\ row.reports = review[c].reports /\ row.flagged = review[c].flagged
    BY <1>3 DEF R!Rows
  <2>2. /\ job[w].op = "vote" /\ R!SaveThenRate(w, c, row)
        /\ UNCHANGED <<votes, reporters, moderated, snapshot, rate, excused>>
    BY <1>2, <1>6 DEF R!CountVote, R!InFlight, R!rowVars, R!cacheVars
  <2> HIDE DEF row
  <2>3. QED
    BY <1>4, <2>1, <2>2
<1>7. CASE R!SetFlag(w)
  <2> DEFINE row == [review[c] EXCEPT !.flagged = TRUE]
  <2>1. /\ row \in R!Rows /\ row.helpful = review[c].helpful /\ row.public = review[c].public
        /\ row.rating = review[c].rating /\ row.edits = review[c].edits
        /\ row.reports = review[c].reports /\ row.flagged
    BY <1>3 DEF R!Rows
  <2>2. /\ job[w].op = "flag" /\ R!SaveThenRate(w, c, row)
        /\ UNCHANGED <<votes, reporters, moderated, snapshot, rate, excused>>
    BY <1>2, <1>7 DEF R!SetFlag, R!InFlight, R!rowVars, R!cacheVars
  <2> HIDE DEF row
  <2>3. QED
    BY <1>4, <2>1, <2>2
<1>8. CASE R!CountReport(w)
  <2> DEFINE counted == [review[c] EXCEPT !.reports = @ + 1]
  <2>1. counted \in R!Rows
    BY <1>3 DEF R!Rows
  <2>2. PICK row \in R!Rows : row = counted
    BY <2>1
  <2> DEFINE flags == row.reports >= ReportThreshold /\ ~ job[w].flagged
             j == IF flags THEN [op |-> "flag", on |-> c]
                  ELSE [op |-> "rate", tally |-> R!Tally(review')]
  <2>3. /\ row \in R!Rows /\ row.helpful = review[c].helpful /\ row.public = review[c].public
        /\ row.rating = review[c].rating /\ row.edits = review[c].edits
        /\ row.reports = review[c].reports + 1 /\ row.flagged = review[c].flagged
    BY <1>3, <2>2 DEF R!Rows
  <2>4. /\ job[w].op = "report" /\ review' = [review EXCEPT ![c] = row]
        /\ job' = [job EXCEPT ![w] = j]
        /\ UNCHANGED <<votes, reporters, moderated, snapshot, rate, excused>>
    BY <1>1, <1>2, <1>8, <2>2 DEF R!CountReport, R!InFlight, R!rowVars, R!cacheVars, R!ReachesThreshold
  <2>5. /\ j \in R!Jobs /\ j.op \in {"rate", "flag"}
        /\ j.op = "rate" => j.tally = R!Tally(review')
        /\ j.op = "flag" => j.on = c
        /\ j.op = "flag" <=> flags
    BY <1>1, <1>2, TallyType DEF R!Jobs
  <2>6. job[w].flagged => row.flagged \/ row.edits > 0
    BY <1>2, <2>3, <2>4 DEF RowsHold, R!FlagsSeen
  <2> HIDE DEF j
  <2>7. R!VotesCover(c, row)' /\ R!ReportsCover(c, row)'
    <3>1. j.op \in {"idle", "rate", "flag"}
      BY <2>5
    <3>2. /\ review[c].helpful + R!Cardinality(R!Working("vote", c)') <= R!Cardinality(votes'[c])
          /\ review[c].reports + 1 + R!Cardinality(R!Working("report", c)') <= R!Cardinality(reporters'[c])
      BY <1>2, <2>4, <2>5, <3>1, CountedOnce
    <3>3. QED
      BY <2>3, <3>2 DEF R!VotesCover, R!ReportsCover
  <2>8. row.reports >= ReportThreshold => row.flagged \/ row.edits > 0 \/ j.op = "flag"
    BY <2>5, <2>6
  <2>9. QED
    BY <1>2, <1>3, <2>3, <2>4, <2>5, <2>7, <2>8, CounterSaved
<1>9. QED
  BY <1>5, <1>6, <1>7, <1>8

LEMMA CreationKeeps ==
    ASSUME RowsHold, CachesHold, NEW w \in Workers, R!CommitCreate(w)
    PROVE  RowsHold' /\ CachesHold'
<1>1. /\ job[w].op = "create" /\ job[w].on \in Contracts /\ job[w].rating \in Ratings
      /\ job \in [Workers -> R!Jobs] /\ review \in [Contracts -> R!Rows \cup {R!NoReview}]
      /\ excused \subseteq {"snapshot", "rate"} /\ snapshot \in R!Tallies /\ rate \in R!Tallies
  BY ReviewJobs DEF RowsHold, R!WellTyped, R!CommitCreate, R!InFlight
<1>2. PICK c \in Contracts : c = job[w].on
  BY <1>1
<1>3. PICK row \in R!Rows : row = R!NewReview(job[w].rating)
  <2>1. PICK n \in Ratings : n = job[w].rating
    BY <1>1
  <2>2. R!NewReview(n) = [rating |-> n, public |-> TRUE, edits |-> 0, flagged |-> FALSE,
                          reports |-> 0, helpful |-> 0]
    <3>1. PICK rated : rated = [R!NoReview EXCEPT !.rating = n]
      OBVIOUS
    <3>2. rated = [rating |-> n, public |-> FALSE, edits |-> 0, flagged |-> FALSE,
                   reports |-> 0, helpful |-> 0]
      BY <3>1 DEF R!NoReview
    <3>3. R!NewReview(n) = [rated EXCEPT !.public = TRUE]
      BY <3>1, Zenon DEF R!NewReview
    <3>4. QED
      BY <3>2, <3>3
  <2>3. 0 \in 0 .. MaxEdits
    BY ReviewLimitsAssumption
  <2>4. R!NewReview(n) \in R!Rows
    BY <2>2, <2>3 DEF R!Rows
  <2>5. QED
    BY <2>1, <2>4
<1>4. /\ ~ R!Exists(c) /\ row.helpful = 0 /\ row.reports = 0 /\ row.edits = 0
      /\ UNCHANGED <<votes, reporters, moderated>>
  BY <1>1, <1>2, <1>3 DEF R!CommitCreate, R!NewReview, R!NoReview, R!rowVars
<1> DEFINE rows == [review EXCEPT ![c] = row]
<1>5. ASSUME NEW j \in R!Jobs, j.op \in {"idle", "rate"}, job' = [job EXCEPT ![w] = j], review' = rows,
             snapshot' \in R!Tallies, rate' \in R!Tallies, excused' \subseteq {"snapshot", "rate"}
      PROVE  RowsHold'
  <2>1. /\ review[c].helpful + R!Cardinality(R!Working("vote", c)') <= R!Cardinality(votes'[c])
        /\ review[c].reports + R!Cardinality(R!Working("report", c)') <= R!Cardinality(reporters'[c])
    BY <1>4, <1>5, CountedOnce
  <2>2. review[c].helpful = 0 /\ review[c].reports = 0
    BY <1>4 DEF R!Exists, R!NoReview
  <2>3. R!VotesCover(c, row)' /\ R!ReportsCover(c, row)'
    BY <2>1, <2>2, <1>4 DEF R!VotesCover, R!ReportsCover
  <2>4. moderated[c] # "hide"
    BY <1>4 DEF RowsHold, R!WellTyped
  <2>5. ~ (row.reports >= ReportThreshold)
    BY <1>4, ReviewLimitsAssumption
  <2>6. j.op # "flag" /\ job[w].op # "flag" /\ j.op \in {"idle", "rate", "flag"}
    BY <1>1, <1>5
  <2>7. QED
    BY <1>4, <1>5, <2>3, <2>4, <2>5, <2>6, RowSaved
<1>6. R!Idle.op = "idle" /\ R!Idle \in R!Jobs
  BY DEF R!Idle, R!Jobs
<1>7. R!Overtaken(rows) \subseteq {"snapshot", "rate"}
  BY DEF R!Overtaken
<1>8. CASE R!SaveAndRecalculate(rows) /\ R!Finish(w)
  <2>1. /\ review' = rows /\ snapshot' = R!Tally(rows) /\ rate' = R!Tally(rows)
        /\ excused' = excused \cup R!Overtaken(rows) /\ job' = [job EXCEPT ![w] = R!Idle]
    BY <1>8 DEF R!SaveAndRecalculate, R!Finish
  <2>2. RowsHold'
    BY <1>1, <1>5, <1>6, <1>7, <2>1, TallyType
  <2>3. \A v \in Workers : job'[v] = job[v] \/ job'[v] = R!Idle
    BY <1>1, <2>1
  <2>4. CachesHold'
    BY <1>8, <2>3, RecalculationKeeps
  <2>5. QED
    BY <2>2, <2>4
<1>9. CASE /\ R!SaveThenRate(w, c, row)
           /\ excused' = excused \cup {"snapshot"} \cup R!Overtaken(rows)
           /\ UNCHANGED <<snapshot, rate>>
  <2> DEFINE j == [op |-> "rate", tally |-> R!Tally(rows)]
  <2>1. review' = rows /\ job' = [job EXCEPT ![w] = j]
    BY <1>9 DEF R!SaveThenRate
  <2>2. j \in R!Jobs /\ j.op = "rate" /\ j.tally = R!Tally(rows)
    BY TallyType DEF R!Jobs
  <2> HIDE DEF j
  <2>3. RowsHold'
    BY <1>1, <1>5, <1>7, <1>9, <2>1, <2>2
  <2>4. \A v \in Workers : job'[v] = IF v = w THEN j ELSE job[v]
    BY <1>1, <2>1
  <2>5. ASSUME NEW v \in Workers, job[v].op = "recalculate", R!Tally(rows) # R!Tally(review)
        PROVE  {"snapshot", "rate"} \subseteq R!Overtaken(rows)
    BY <2>5 DEF R!Overtaken
  <2>6. ASSUME NEW v \in Workers, job[v].op = "rate", R!Tally(rows) # R!Tally(review)
        PROVE  "rate" \in R!Overtaken(rows)
    BY <2>6 DEF R!Overtaken
  <2> HIDE DEF rows
  <2>7. \A v \in Workers : job'[v].op = "recalculate" =>
           job'[v].tally = R!Tally(rows) \/ {"snapshot", "rate"} \subseteq excused'
    BY <1>9, <2>2, <2>4, <2>5, CachesRestated
  <2>8. \A v \in Workers : job'[v].op = "rate" => job'[v].tally = R!Tally(rows) \/ "rate" \in excused'
    BY <1>9, <2>2, <2>4, <2>6, CachesRestated
  <2>9. "snapshot" \in excused' /\ job'[w].op = "rate"
    BY <1>9, <2>2, <2>4
  <2>10. CachesHold'
    BY <2>1, <2>7, <2>8, <2>9, CachesRestated
  <2>11. QED
    BY <2>3, <2>10
<1>10. QED
  <2>1. rows = [review EXCEPT ![job[w].on] = R!NewReview(job[w].rating)] /\ rows[c] = row
    BY <1>1, <1>2, <1>3
  <2>2. QED
    BY <1>2, <1>8, <1>9, <2>1 DEF R!CommitCreate

LEMMA EditedRow ==
    ASSUME NEW row \in R!Rows, NEW n \in Ratings, row.edits < MaxEdits
    PROVE  LET edited == [row EXCEPT !.rating = n, !.edits = @ + 1]
           IN  /\ edited \in R!Rows /\ edited.edits > 0
               /\ edited.helpful = row.helpful /\ edited.reports = row.reports
<1>1. PICK edits \in 0 .. MaxEdits : edits = row.edits + 1 /\ edits > 0
  BY ReviewLimitsAssumption DEF R!Rows
<1>2. PICK rated \in R!Rows : rated = [row EXCEPT !.rating = n]
  BY DEF R!Rows
<1>3. PICK edited \in R!Rows : edited = [rated EXCEPT !.edits = edits]
  BY DEF R!Rows
<1>4. [row EXCEPT !.rating = n, !.edits = @ + 1] = edited
  BY <1>1, <1>2, <1>3, Zenon
<1>5. edited.edits > 0 /\ edited.helpful = row.helpful /\ edited.reports = row.reports
  BY <1>1, <1>2, <1>3 DEF R!Rows
<1>6. QED
  BY <1>4, <1>5

\* An edit writes the row that was fetched, with one edit more.
LEMMA EditKeeps ==
    ASSUME RowsHold, CachesHold, NEW w \in Workers, R!CommitEdit(w)
    PROVE  RowsHold' /\ CachesHold'
<1>1. /\ job[w].op = "edit checked" /\ job[w].on \in Contracts /\ job[w].row \in R!Rows
      /\ job[w].rating \in Ratings /\ job[w].row.edits < MaxEdits
      /\ job \in [Workers -> R!Jobs] /\ review \in [Contracts -> R!Rows \cup {R!NoReview}]
      /\ excused \subseteq {"snapshot", "rate"}
  BY ReviewJobs DEF RowsHold, R!WellTyped, R!CommitEdit, R!InFlight
<1>2. PICK c \in Contracts : c = job[w].on
  BY <1>1
<1> DEFINE edited == [job[w].row EXCEPT !.rating = job[w].rating, !.edits = @ + 1]
<1>3. /\ edited \in R!Rows /\ edited.edits > 0
      /\ edited.helpful = job[w].row.helpful /\ edited.reports = job[w].row.reports
  BY <1>1, EditedRow
<1>4. PICK row \in R!Rows : row = edited
  BY <1>3
<1>5. row.edits > 0 /\ row.helpful = job[w].row.helpful /\ row.reports = job[w].row.reports
  BY <1>3, <1>4
<1> DEFINE rows == [review EXCEPT ![c] = row]
<1>6. R!SaveAndRecalculate(rows) /\ job' = [job EXCEPT ![w] = R!Idle] /\ UNCHANGED <<votes, reporters, moderated>>
  BY <1>2, <1>4 DEF R!CommitEdit, R!Finish, R!rowVars
<1>7. R!Idle.op = "idle" /\ R!Idle \in R!Jobs
  BY DEF R!Idle, R!Jobs
<1>8. R!VotesCover(c, row)' /\ R!ReportsCover(c, row)'
  <2>1. /\ job[w].row.helpful + R!Cardinality(R!Working("vote", c)) <= R!Cardinality(votes[c])
        /\ job[w].row.reports + R!Cardinality(R!Working("report", c)) <= R!Cardinality(reporters[c])
    BY <1>1, <1>2 DEF RowsHold, R!CountsCovered, R!Editing, R!VotesCover, R!ReportsCover
  <2>2. \A op \in {"vote", "report"} :
           /\ R!Cardinality(R!Working(op, c)') <= R!Cardinality(R!Working(op, c))
           /\ R!Cardinality(R!Working(op, c)') \in Nat /\ R!Cardinality(R!Working(op, c)) \in Nat
    BY <1>1, <1>6, <1>7, WorkingChanges
  <2>3. /\ R!Cardinality(votes[c]) \in Nat /\ R!Cardinality(reporters[c]) \in Nat
        /\ row.helpful \in Nat /\ row.reports \in Nat
    BY StoredCounts DEF RowsHold, R!Rows
  <2>4. /\ row.helpful + R!Cardinality(R!Working("vote", c)') <= R!Cardinality(votes[c])
        /\ row.reports + R!Cardinality(R!Working("report", c)') <= R!Cardinality(reporters[c])
    BY <1>5, <2>1, <2>2, <2>3, SmallerFits
  <2>5. QED
    BY <1>6, <2>4 DEF R!VotesCover, R!ReportsCover
<1>9. /\ review' = rows /\ snapshot' \in R!Tallies /\ rate' \in R!Tallies
      /\ excused' \subseteq {"snapshot", "rate"}
  BY <1>1, <1>6, TallyType DEF R!SaveAndRecalculate, R!Overtaken
<1>10. RowsHold'
  <2>1. row.edits # 0
    BY <1>5 DEF R!Rows
  <2>2. job[w].op # "flag" /\ R!Idle.op # "flag" /\ R!Idle.op \in {"idle", "rate", "flag"}
    BY <1>1, <1>7
  <2>3. QED
    BY <1>5, <1>6, <1>7, <1>8, <1>9, <2>1, <2>2, RowSaved
<1>11. CachesHold'
  <2>1. \A v \in Workers : job'[v] = job[v] \/ job'[v] = R!Idle
    BY <1>1, <1>6
  <2>2. QED
    BY <1>6, <2>1, RecalculationKeeps
<1>12. QED
  BY <1>10, <1>11

\* A moderation changes the visibility alone.
LEMMA ModerationKeeps ==
    ASSUME RowsHold, CachesHold, NEW c \in Contracts,
           R!Moderate(c, "hide") \/ R!Moderate(c, "restore") \/ R!Moderate(c, "verify")
    PROVE  RowsHold' /\ CachesHold'
<1>1. PICK action \in {"hide", "restore", "verify"} : R!Moderate(c, action)
  OBVIOUS
<1>2. /\ R!Exists(c) /\ moderated' = [moderated EXCEPT ![c] = action]
      /\ UNCHANGED <<votes, reporters, job>>
      /\ review \in [Contracts -> R!Rows \cup {R!NoReview}]
      /\ moderated \in [Contracts -> {"none", "hide", "restore", "verify"}]
      /\ excused \subseteq {"snapshot", "rate"}
  BY <1>1 DEF R!Moderate, RowsHold, R!WellTyped
<1>3. PICK rows : /\ R!SaveAndRecalculate(rows)
                  /\ rows \in {[review EXCEPT ![c].public = FALSE], [review EXCEPT ![c].public = TRUE], review}
                  /\ action = "hide" => rows = [review EXCEPT ![c].public = FALSE]
  BY <1>1 DEF R!Moderate
<1>4. /\ review' = rows /\ snapshot' \in R!Tallies /\ rate' \in R!Tallies
      /\ excused' \subseteq {"snapshot", "rate"}
  BY <1>2, <1>3, TallyType DEF R!SaveAndRecalculate, R!Overtaken
<1>5. review[c] \in R!Rows
  BY <1>2, ReviewRows DEF RowsHold
<1>6. /\ review' \in [Contracts -> R!Rows \cup {R!NoReview}]
      /\ \A d \in Contracts \ {c} : review'[d] = review[d]
      /\ review'[c] \in R!Rows
      /\ review'[c].edits = review[c].edits /\ review'[c].flagged = review[c].flagged
      /\ review'[c].reports = review[c].reports /\ review'[c].helpful = review[c].helpful
      /\ action = "hide" => ~ review'[c].public
  <2>1. \E p \in BOOLEAN : /\ review' = [review EXCEPT ![c].public = p]
                           /\ action = "hide" => ~ p
    <3>1. CASE rows = [review EXCEPT ![c].public = FALSE]
      <4> WITNESS FALSE \in BOOLEAN
      <4>1. QED
        BY <1>4, <3>1
    <3>2. CASE rows = [review EXCEPT ![c].public = TRUE] /\ action # "hide"
      <4> WITNESS TRUE \in BOOLEAN
      <4>1. QED
        BY <1>4, <3>2
    <3>3. CASE rows = review /\ action # "hide"
      <4>1. review[c].public \in BOOLEAN
        BY <1>5 DEF R!Rows
      <4>2. [review[c] EXCEPT !.public = review[c].public] = review[c]
        BY <1>5 DEF R!Rows
      <4>3. review' = [review EXCEPT ![c].public = review[c].public]
        BY <1>2, <1>4, <3>3, <4>2
      <4> WITNESS review[c].public \in BOOLEAN
      <4>4. QED
        BY <3>3, <4>3
    <3>4. QED
      BY <1>3, <3>1, <3>2, <3>3, Zenon
  <2>2. PICK p \in BOOLEAN : review' = [review EXCEPT ![c].public = p] /\ (action = "hide" => ~ p)
    BY <2>1
  <2>3. PICK row \in R!Rows : row = [review[c] EXCEPT !.public = p]
    BY <1>5 DEF R!Rows
  <2>4. /\ row.edits = review[c].edits /\ row.flagged = review[c].flagged
        /\ row.reports = review[c].reports /\ row.helpful = review[c].helpful /\ row.public = p
    BY <1>5, <2>3 DEF R!Rows
  <2>5. review' = [review EXCEPT ![c] = row]
    BY <2>2, <2>3
  <2>6. QED
    BY <1>2, <2>2, <2>4, <2>5
<1>7. review'[c] # R!NoReview
  BY <1>6, ReviewLimitsAssumption DEF R!Rows, R!NoReview
<1>8. R!WellTyped'
  <2>1. \A d \in Contracts : review'[d] = R!NoReview => moderated'[d] = "none"
    BY <1>2, <1>6, <1>7 DEF RowsHold, R!WellTyped, R!Exists
  <2>2. \A v \in Workers :
           job'[v].op \in {"edit", "edit checked", "respond", "vote", "flag", "report"} =>
              review'[job'[v].on] # R!NoReview
    <3> SUFFICES ASSUME NEW v \in Workers,
                        job[v].op \in {"edit", "edit checked", "respond", "vote", "flag", "report"}
                 PROVE  review'[job[v].on] # R!NoReview
      BY <1>2
    <3>1. job[v].on \in Contracts /\ R!Exists(job[v].on)
      BY ReviewJobs DEF RowsHold, R!WellTyped
    <3>2. QED
      BY <3>1, <1>6, <1>7 DEF R!Exists
  <2>3. moderated' \in [Contracts -> {"none", "hide", "restore", "verify"}]
    BY <1>2
  <2>4. QED
    BY <1>2, <1>4, <1>6, <2>1, <2>2, <2>3 DEF RowsHold, R!WellTyped, R!Exists
<1>9. R!CountsCovered'
  <2>1. \A d \in Contracts : review'[d].helpful = review[d].helpful /\ review'[d].reports = review[d].reports
    BY <1>6
  <2>2. QED
    BY <1>2, <2>1 DEF RowsHold, R!CountsCovered, R!VotesCover, R!ReportsCover, R!Working, R!Editing
<1>10. R!HiddenReturnsByEditOnly'
  <2> SUFFICES ASSUME NEW d \in Contracts, moderated'[d] = "hide", review'[d].public
               PROVE  review'[d].edits > 0
    BY DEF R!HiddenReturnsByEditOnly
  <2>1. d # c
    BY <1>2, <1>6
  <2>2. QED
    BY <2>1, <1>2, <1>6 DEF RowsHold, R!HiddenReturnsByEditOnly
<1>11. R!FlagsSeen'
  <2>1. \A v \in Workers : job[v].op = "report" => job[v].on \in Contracts
    BY ReviewJobs DEF RowsHold
  <2>2. \A d \in Contracts : review'[d].flagged = review[d].flagged /\ review'[d].edits = review[d].edits
    BY <1>6
  <2>3. QED
    BY <1>2, <2>1, <2>2 DEF RowsHold, R!FlagsSeen
<1>12. R!FlaggedAtThreshold'
  <2>1. \A d \in Contracts : /\ review'[d].flagged = review[d].flagged /\ review'[d].edits = review[d].edits
                             /\ review'[d].reports = review[d].reports
    BY <1>6
  <2>2. QED
    BY <1>2, <2>1 DEF RowsHold, R!FlaggedAtThreshold
<1>13. CachesHold'
  BY <1>2, <1>3, RecalculationKeeps
<1>14. QED
  BY <1>8, <1>9, <1>10, <1>11, <1>12, <1>13 DEF RowsHold

-----------------------------------------------------------------------------
\* A vote or a report is stored, and is about to be counted.
LEMMA StoredOnce ==
    ASSUME NEW S, NEW T, IsFiniteSet(S), NEW u, u \notin S, T = S \cup {u},
           NEW n, NEW m, n \in Nat, m \in Nat, m = n + 1
    PROVE  /\ R!Cardinality(S) \in Nat /\ R!Cardinality(T) \in Nat
           /\ \A k \in Nat : k + n <= R!Cardinality(S) => k + m <= R!Cardinality(T)
<1>1. R!Cardinality(T) = R!Cardinality(S) + 1 /\ R!Cardinality(S) \in Nat
  BY FS_AddElement, FS_CardinalityType, SameCardinality
<1>2. PICK s \in Nat : s = R!Cardinality(S) /\ s + 1 = R!Cardinality(T)
  BY <1>1
<1>3. s + 1 \in Nat /\ \A k \in Nat : k + n <= s => k + m <= s + 1
  BY <1>2
<1>4. QED
  BY <1>2, <1>3

LEMMA VotesKeep ==
    ASSUME RowsHold, CachesHold, NEW w \in Workers, NEW c \in Contracts, NEW u \in Voters,
           R!Vote(w, c, u) \/ R!Report(w, c, u)
    PROVE  RowsHold' /\ CachesHold'
<1>1. /\ review \in [Contracts -> R!Rows \cup {R!NoReview}] /\ job \in [Workers -> R!Jobs]
      /\ votes \in [Contracts -> SUBSET Voters] /\ reporters \in [Contracts -> SUBSET Voters]
      /\ snapshot \in R!Tallies /\ rate \in R!Tallies /\ excused \subseteq {"snapshot", "rate"}
  BY DEF RowsHold, R!WellTyped
<1>2. /\ job[w].op = "idle" /\ R!Exists(c)
      /\ UNCHANGED <<review, moderated, snapshot, rate, excused>>
  BY DEF R!Vote, R!Report, R!Idle, R!cacheVars
<1>3. review[c] \in R!Rows /\ review[c].flagged \in BOOLEAN
  BY <1>2, ReviewRows DEF RowsHold, R!Rows
<1>4. PICK j \in R!Jobs :
         /\ job' = [job EXCEPT ![w] = j] /\ j.on = c
         /\ \/ /\ j.op = "vote" /\ u \notin votes[c]
               /\ votes' = [votes EXCEPT ![c] = @ \cup {u}] /\ reporters' = reporters
            \/ /\ j.op = "report" /\ u \notin reporters[c] /\ j.flagged = review[c].flagged
               /\ reporters' = [reporters EXCEPT ![c] = @ \cup {u}] /\ votes' = votes
  <2>1. CASE R!Vote(w, c, u)
    <3>1. [op |-> "vote", on |-> c] \in R!Jobs
      BY DEF R!Jobs
    <3>2. QED
      BY <2>1, <3>1 DEF R!Vote, R!VoteFree
  <2>2. CASE R!Report(w, c, u)
    <3>1. [op |-> "report", on |-> c, flagged |-> review[c].flagged] \in R!Jobs
      BY <1>3 DEF R!Jobs
    <3>2. QED
      BY <2>2, <3>1 DEF R!Report
  <2>3. QED
    BY <2>1, <2>2
<1>5. \A v \in Workers : job'[v] = IF v = w THEN j ELSE job[v]
  BY <1>1, <1>4
<1>6. R!WellTyped'
  <2>1. \A v \in Workers :
           job'[v].op \in {"edit", "edit checked", "respond", "vote", "flag", "report"} =>
              R!Exists(job'[v].on)
    BY <1>2, <1>4, <1>5 DEF RowsHold, R!WellTyped
  <2>2. \A v \in Workers : job'[v].op = "edit checked" => job'[v].row.edits < MaxEdits
    BY <1>4, <1>5 DEF RowsHold, R!WellTyped
  <2>3. job' \in [Workers -> R!Jobs]
    BY <1>1, <1>4
  <2>4. votes' \in [Contracts -> SUBSET Voters] /\ reporters' \in [Contracts -> SUBSET Voters]
    BY <1>1, <1>4
  <2>5. QED
    BY <1>1, <1>2, <2>1, <2>2, <2>3, <2>4 DEF RowsHold, R!WellTyped, R!Exists
<1>7. ASSUME NEW d \in Contracts, NEW k \in Nat
      PROVE  /\ k + R!Cardinality(R!Working("vote", d)) <= R!Cardinality(votes[d]) =>
                   k + R!Cardinality(R!Working("vote", d)') <= R!Cardinality(votes'[d])
             /\ k + R!Cardinality(R!Working("report", d)) <= R!Cardinality(reporters[d]) =>
                   k + R!Cardinality(R!Working("report", d)') <= R!Cardinality(reporters'[d])
  <2>1. \A op \in {"vote", "report"} :
           /\ R!Cardinality(R!Working(op, d)) \in Nat /\ R!Cardinality(R!Working(op, d)') \in Nat
           /\ ~ (j.op = op /\ c = d) => R!Cardinality(R!Working(op, d)') = R!Cardinality(R!Working(op, d))
           /\ j.op = op /\ c = d => R!Cardinality(R!Working(op, d)') = R!Cardinality(R!Working(op, d)) + 1
    <3> TAKE op \in {"vote", "report"}
    <3>1. job[w].op # op /\ j.on = c
      BY <1>2, <1>4
    <3>2. job' = [job EXCEPT ![w] = j] /\ job \in [Workers -> R!Jobs]
      BY <1>1, <1>4
    <3>3. R!Cardinality(R!Working(op, d)) \in Nat /\ R!Cardinality(R!Working(op, d)') \in Nat
      BY <3>2, WorkingChanges
    <3>4. ~ (job[w].op = op /\ job[w].on = d)
      BY <3>1
    <3>5. ASSUME ~ (j.op = op /\ j.on = d)
          PROVE  R!Cardinality(R!Working(op, d)') = R!Cardinality(R!Working(op, d))
      <4>1. ~ (j.op = op /\ j.on = d) /\ ~ (job[w].op = op /\ job[w].on = d)
        BY <3>4, <3>5
      <4>2. QED
        BY <3>2, <4>1, WorkingChanges, ZenonT(60)
    <3>6. ASSUME j.op = op /\ j.on = d
          PROVE  R!Cardinality(R!Working(op, d)') = R!Cardinality(R!Working(op, d)) + 1
      BY <3>2, <3>4, <3>6, WorkingChanges, Zenon
    <3>7. QED
      BY <3>1, <3>3, <3>5, <3>6
  <2>2. IsFiniteSet(votes[d]) /\ IsFiniteSet(reporters[d])
    BY StoredCounts DEF RowsHold
  <2>3. CASE c # d
    <3>1. votes'[d] = votes[d] /\ reporters'[d] = reporters[d]
      BY <1>1, <1>4, <2>3
    <3>2. QED
      BY <2>1, <2>3, <3>1
  <2>4. CASE c = d /\ j.op = "vote"
    <3>1. votes'[d] = votes[d] \cup {u} /\ u \notin votes[d] /\ reporters' = reporters
      BY <1>1, <1>4, <2>4
    <3>2. /\ R!Cardinality(R!Working("vote", d)') = R!Cardinality(R!Working("vote", d)) + 1
          /\ R!Cardinality(R!Working("report", d)') = R!Cardinality(R!Working("report", d))
      BY <2>1, <2>4
    <3>3. k + R!Cardinality(R!Working("vote", d)) <= R!Cardinality(votes[d]) =>
             k + R!Cardinality(R!Working("vote", d)') <= R!Cardinality(votes'[d])
      BY <2>1, <2>2, <3>1, <3>2, StoredOnce
    <3>4. QED
      BY <3>1, <3>2, <3>3
  <2>5. CASE c = d /\ j.op = "report"
    <3>1. reporters'[d] = reporters[d] \cup {u} /\ u \notin reporters[d] /\ votes' = votes
      BY <1>1, <1>4, <2>5
    <3>2. /\ R!Cardinality(R!Working("report", d)') = R!Cardinality(R!Working("report", d)) + 1
          /\ R!Cardinality(R!Working("vote", d)') = R!Cardinality(R!Working("vote", d))
      BY <2>1, <2>5
    <3>3. k + R!Cardinality(R!Working("report", d)) <= R!Cardinality(reporters[d]) =>
             k + R!Cardinality(R!Working("report", d)') <= R!Cardinality(reporters'[d])
      BY <2>1, <2>2, <3>1, <3>2, StoredOnce
    <3>4. QED
      BY <3>1, <3>2, <3>3
  <2>6. QED
    BY <1>4, <2>3, <2>4, <2>5
<1>8. R!CountsCovered'
  <2>1. ASSUME NEW d \in Contracts PROVE (R!VotesCover(d, review[d]) /\ R!ReportsCover(d, review[d]))'
    <3>1. /\ R!VotesCover(d, review[d]) /\ R!ReportsCover(d, review[d]) /\ review' = review
          /\ review[d].helpful \in Nat /\ review[d].reports \in Nat
      BY <1>2, ReviewRows DEF RowsHold, R!CountsCovered
    <3>2. QED
      BY <3>1, <1>7 DEF R!VotesCover, R!ReportsCover
  <2>2. ASSUME NEW d \in Contracts, NEW v \in Workers, R!Editing(v, d)'
        PROVE  (R!VotesCover(d, job[v].row) /\ R!ReportsCover(d, job[v].row))'
    <3>1. job'[v] = job[v] /\ R!Editing(v, d)
      BY <1>4, <1>5, <2>2 DEF R!Editing
    <3>2. /\ R!VotesCover(d, job[v].row) /\ R!ReportsCover(d, job[v].row)
          /\ job[v].row.helpful \in Nat /\ job[v].row.reports \in Nat
      BY <3>1, ReviewJobs DEF RowsHold, R!CountsCovered, R!Editing, R!Rows
    <3>3. QED
      BY <3>1, <3>2, <1>7 DEF R!VotesCover, R!ReportsCover
  <2>3. QED
    BY <2>1, <2>2 DEF R!CountsCovered
<1>9. R!FlagsSeen'
  BY <1>2, <1>4, <1>5 DEF RowsHold, R!FlagsSeen
<1>10. R!FlaggedAtThreshold' /\ R!HiddenReturnsByEditOnly'
  BY <1>2, <1>4, <1>5 DEF RowsHold, R!FlaggedAtThreshold, R!HiddenReturnsByEditOnly
<1>11. CachesHold'
  <2>1. j.op \notin {"recalculate", "rate"} /\ job[w].op # "rate"
    BY <1>2, <1>4
  <2>2. QED
    BY <1>1, <1>2, <1>4, <2>1, TallyKept
<1>12. QED
  BY <1>6, <1>8, <1>9, <1>10, <1>11 DEF RowsHold

LEMMA ReviewsStep ==
    RowsHold /\ CachesHold /\ [R!Next]_reviewVars => RowsHold' /\ CachesHold'
<1> SUFFICES ASSUME RowsHold, CachesHold, [R!Next]_reviewVars
             PROVE  RowsHold' /\ CachesHold'
  OBVIOUS
<1>1. ASSUME NEW c \in Contracts,
             R!Publish(c) \/ R!Hide(c) \/ R!VerifyOrUnverify(c) \/ R!AdminModerates(c)
      PROVE  RowsHold' /\ CachesHold'
  BY <1>1, ModerationKeeps DEF R!Publish, R!Hide, R!VerifyOrUnverify, R!AdminModerates
<1>2. ASSUME NEW w \in Workers,
             \/ R!BeginRecalculate(w) \/ R!CommitRecalculate(w) \/ R!CommitRate(w)
             \/ \E c \in Contracts, n \in Ratings :
                   R!ReviewContract(w, c, n) \/ R!PostReview(w, c, n) \/ R!BeginEdit(w, c, n)
             \/ R!CommitCreate(w) \/ R!CheckEdit(w) \/ R!CommitEdit(w) \/ R!Rollback(w)
             \/ \E c \in Contracts : R!BeginRespond(w, c)
             \/ R!CommitRespond(w) \/ R!CountVote(w) \/ R!CountReport(w) \/ R!SetFlag(w)
             \/ \E c \in Contracts, u \in Voters : R!Vote(w, c, u) \/ R!Report(w, c, u)
      PROVE  RowsHold' /\ CachesHold'
  BY <1>2, BeginningsKeep, WritesKeep, CountersKeep, CreationKeeps, EditKeeps, VotesKeep
<1>3. CASE UNCHANGED reviewVars
  <2>1. /\ review' = review /\ votes' = votes /\ reporters' = reporters /\ moderated' = moderated
        /\ snapshot' = snapshot /\ rate' = rate /\ excused' = excused /\ job' = job
    BY <1>3 DEF reviewVars
  <2>2. R!Tally(review') = R!Tally(review)
    BY <2>1
  <2>3. CachesHold'
    BY <2>1, <2>2, CachesRestated
  <2>4. RowsHold'
    BY <2>1 DEF RowsHold, R!WellTyped, R!Exists, R!CountsCovered, R!VotesCover, R!ReportsCover, R!Working,
                R!Editing, R!HiddenReturnsByEditOnly, R!FlagsSeen, R!FlaggedAtThreshold
  <2>5. QED
    BY <2>3, <2>4
<1>4. QED
  BY <1>1, <1>2, <1>3 DEF R!Next

LEMMA ReviewsEntail == RowsHold /\ CachesHold => ReviewsAreKept /\ CachesMatchReviews
<1> SUFFICES ASSUME RowsHold, CachesHold PROVE ReviewsAreKept /\ CachesMatchReviews
  OBVIOUS
<1>1. ASSUME NEW c \in Contracts
      PROVE  /\ review[c].helpful \in Nat /\ review[c].reports \in Nat
             /\ review[c].helpful <= R!Cardinality(votes[c])
             /\ review[c].reports <= R!Cardinality(reporters[c])
  <2>1. /\ review[c].helpful + R!Cardinality(R!Working("vote", c)) <= R!Cardinality(votes[c])
        /\ review[c].reports + R!Cardinality(R!Working("report", c)) <= R!Cardinality(reporters[c])
    BY DEF RowsHold, R!CountsCovered, R!VotesCover, R!ReportsCover
  <2>2. R!Cardinality(R!Working("vote", c)) \in Nat /\ R!Cardinality(R!Working("report", c)) \in Nat
    <3>1. R!Working("vote", c) \subseteq Workers /\ R!Working("report", c) \subseteq Workers
      BY DEF R!Working
    <3>2. QED
      BY <3>1, PartiesAssumption, FS_Subset, FS_CardinalityType, SameCardinality
  <2>3. /\ review[c].helpful \in Nat /\ review[c].reports \in Nat
        /\ R!Cardinality(votes[c]) \in Nat /\ R!Cardinality(reporters[c]) \in Nat
    BY ReviewRows, StoredCounts DEF RowsHold
  <2>4. QED
    BY <2>1, <2>2, <2>3
<1>2. R!HelpfulNeverOverstated
  BY <1>1 DEF R!HelpfulNeverOverstated
<1>3. R!TypeOK
  <2>1. ASSUME NEW c \in Contracts
        PROVE  /\ review[c].rating \in Ratings \cup {0}
               /\ review[c].public \in BOOLEAN /\ review[c].flagged \in BOOLEAN
               /\ review[c].edits \in 0 .. MaxEdits
    <3>1. review[c] \in R!Rows \/ review[c] = R!NoReview
      BY ReviewRows DEF RowsHold
    <3>2. 0 \in 0 .. MaxEdits
      BY ReviewLimitsAssumption
    <3>3. CASE review[c] \in R!Rows
      BY <3>3 DEF R!Rows
    <3>4. CASE review[c] = R!NoReview
      BY <3>2, <3>4 DEF R!NoReview
    <3>5. QED
      BY <3>1, <3>3, <3>4
  <2>2. ASSUME NEW c \in Contracts
        PROVE  {review[c].reports, review[c].helpful} \subseteq 0 .. R!Cardinality(Voters)
    <3>1. /\ R!Cardinality(votes[c]) <= R!Cardinality(Voters)
          /\ R!Cardinality(reporters[c]) <= R!Cardinality(Voters)
          /\ R!Cardinality(votes[c]) \in Nat /\ R!Cardinality(reporters[c]) \in Nat
          /\ R!Cardinality(Voters) \in Nat
      BY StoredCounts DEF RowsHold
    <3>2. QED
      BY <1>1, <3>1
  <2>3. ASSUME NEW c \in Contracts
        PROVE  /\ votes[c] \subseteq Voters /\ reporters[c] \subseteq Voters
               /\ moderated[c] \in {"none", "hide", "restore", "verify"}
    BY DEF RowsHold, R!WellTyped
  <2>4. {snapshot, rate} \subseteq [Ratings -> 0 .. R!Cardinality(Contracts)]
    BY DEF RowsHold, R!WellTyped, R!Tallies
  <2>5. QED
    BY <2>1, <2>2, <2>3, <2>4 DEF R!TypeOK
<1>4. QED
  BY <1>2, <1>3 DEF ReviewsAreKept, R!ReviewsAreKept, RowsHold, CachesHold, CachesMatchReviews

-----------------------------------------------------------------------------
(***************************************************************************)
(* The three components together.                                          *)
(***************************************************************************)
MarketInv == IInv /\ C!IInv /\ RowsHold /\ CachesHold

LEMMA ComponentsStay ==
    /\ MarketInv /\ UNCHANGED vars => IInv'
    /\ MarketInv /\ UNCHANGED chatVars => C!IInv'
    /\ MarketInv /\ UNCHANGED reviewVars => RowsHold' /\ CachesHold'
BY OffersStep, ChatStep, ReviewsStep, Zenon DEF MarketInv

\* The inductive invariants of offers, chat and reviews hold in every state.
THEOREM Invariance == MarketSpec => []MarketInv
<1>1. MarketInit => MarketInv
  BY OffersInit, ChatInit, ReviewsInit DEF MarketInit, MarketInv
<1>2. MarketInv /\ [MarketNext]_<<part, vars, chatVars, reviewVars>> => MarketInv'
  <2> SUFFICES ASSUME MarketInv, [MarketNext]_<<part, vars, chatVars, reviewVars>>
               PROVE  MarketInv'
    OBVIOUS
  <2>1. CASE Next /\ UNCHANGED chatVars /\ UNCHANGED reviewVars
    BY <2>1, OffersStep, ComponentsStay, Zenon DEF MarketInv
  <2>2. CASE C!Next /\ UNCHANGED vars /\ UNCHANGED reviewVars
    BY <2>2, ChatStep, ComponentsStay, Zenon DEF MarketInv
  <2>3. CASE R!Next /\ UNCHANGED vars /\ UNCHANGED chatVars
    BY <2>3, ReviewsStep, ComponentsStay, Zenon DEF MarketInv
  <2>4. CASE UNCHANGED vars /\ UNCHANGED chatVars /\ UNCHANGED reviewVars
    BY <2>4, ComponentsStay, Zenon DEF MarketInv
  <2>5. QED
    BY <2>1, <2>2, <2>3, <2>4 DEF MarketNext
<1>3. QED
  BY <1>1, <1>2, PTL DEF MarketSpec

\* Contracts come from offers of accepted requests, at terms that the technician
\* submitted, and a second one only from a save that was fetched before the
\* first acceptance and written after it (accept_offer, create_offer).
THEOREM ContractsFollow == MarketSpec => []ContractsFollowOffers
BY Invariance, OffersEntail, PTL DEF MarketInv

\* A room's unread counters are the messages after the reader's last read, but
\* for the readers whose reset crossed a message (_update_unread_counts).
THEOREM UnreadCountsMatch == MarketSpec => []UnreadMatchesMessages
<1>1. MarketInv => UnreadMatchesMessages
  BY ChatEntails DEF MarketInv, UnreadMatchesMessages, C!IInv
<1>2. QED
  BY <1>1, Invariance, PTL

\* A service request has one room at most, and a pair two active ones only after
\* openings overlapped or a late save reopened a closed one
\* (get_or_create_chat_room, get_or_create_room_for_request).
THEOREM RoomsUnique == MarketSpec => []RoomsAreUnique
<1>1. MarketInv => RoomsAreUnique
  BY ChatEntails, NoRequestAssumption DEF MarketInv, RoomsAreUnique
<1>2. QED
  BY <1>1, Invariance, PTL

\* No review is edited more often than allowed, a hidden one returns only by an
\* edit tested before, its helpful count stays within the votes, and it is
\* flagged at the threshold, whatever requests are in flight
\* (update_contract_review, moderate_review, ReviewHelpfulView, ReviewReportView).
THEOREM ReviewsKept == MarketSpec => []ReviewsAreKept
BY Invariance, ReviewsEntail, PTL DEF MarketInv

\* The snapshot and the rate count exactly the public reviews, but for the
\* aggregates that a change overtook (recalculate_user_reputation, update_rating).
THEOREM CachesMatch == MarketSpec => []CachesMatchReviews
BY Invariance, ReviewsEntail, PTL DEF MarketInv
=============================================================================
