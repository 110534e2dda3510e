------------------------ MODULE ContractSigningProofs ------------------------
(***************************************************************************)
(* Proofs about ContractSigning for any number of requests in flight and   *)
(* any terms.                                                              *)
(***************************************************************************)
EXTENDS ContractSigning, TLAPS

\* What Contract.save stores: the object's terms and acceptances, and a status
\* that waits for signatures only when both parties have accepted.
LEMMA SavedRow ==
    ASSUME NEW row \in Row, row.status \in {"draft", "pending_acceptance"},
           Complete(row)
    PROVE  /\ Saved(row) \in Row
           /\ Saved(row).terms = row.terms
           /\ Saved(row).acceptedBy = row.acceptedBy
           /\ \/ Saved(row).status \in {"draft", "pending_acceptance"}
              \/ Saved(row).status = "pending_signatures"
                 /\ row.acceptedBy = Roles
           /\ Complete(Saved(row))
<1> DEFINE r == Completed(row)
<1>1. /\ r \in Row /\ r.terms = row.terms /\ r.acceptedBy = row.acceptedBy
      /\ r.status \in {"draft", "pending_acceptance"}
      /\ r.status = "pending_acceptance" => r.terms \in Terms
  BY DEF Completed, Row, Status, Complete
<1>2. CASE r.status = "pending_acceptance" /\ AcceptedByBoth(r)
  <2>1. Saved(row) = [r EXCEPT !.status = "pending_signatures"]
    BY <1>2 DEF Saved
  <2> QED
    BY <1>1, <1>2, <2>1 DEF Row, Status, Complete, AcceptedByBoth
<1>3. CASE ~(r.status = "pending_acceptance" /\ AcceptedByBoth(r))
  <2>1. Saved(row) = r
    BY <1>3 DEF Saved
  <2> QED
    BY <1>1, <2>1 DEF Complete
<1> QED
  BY <1>2, <1>3

\* A fetched request holds the stored contract.
LEMMA FetchEffect ==
    ASSUME TypeOK, NEW w \in Workers, NEW op \in Ops, NEW r \in Roles,
           Fetch(w, op, r)
    PROVE  /\ req' \in [Workers -> Request]
           /\ req'[w].op = op /\ req'[w].row = contract
           /\ \A v \in Workers \ {w} : req'[v] = req[v]
<1>1. [op |-> op, role |-> r, row |-> contract, version |-> NoVersion,
       other |-> NoVersion] \in Request
  BY DEF TypeOK, Request
<1> QED
  BY <1>1 DEF Fetch, TypeOK

\* A finished request holds nothing.
LEMMA FinishEffect ==
    ASSUME TypeOK, NEW w \in Workers, Finish(w)
    PROVE  /\ req' \in [Workers -> Request]
           /\ req'[w] = Idle
           /\ \A v \in Workers \ {w} : req'[v] = req[v]
<1>1. Idle \in Request
  BY DEF Idle, Request, Ops, Roles, Row, Status, Draft
<1> QED
  BY <1>1 DEF Finish, TypeOK

\* Every acceptance, the frozen version and every signature, once given, stay.
Grows ==
    /\ \A r \in Roles : accepted[r] \subseteq accepted'[r]
    /\ version # NoVersion => version' = version
    /\ \A r \in Roles : HasSigned(r) => HasSigned(r)'

\* What is known of the requests in flight survives a step of one of them.
LEMMA OthersKept ==
    ASSUME IInv, TypeOK', Grows, NEW w \in Workers,
           \A v \in Workers \ {w} : req'[v] = req[v],
           req'[w].row \in {req[w].row, contract, Draft},
           Honest(contract)', Complete(contract)', Sound(w)'
    PROVE  RowsAreHonest' /\ RequestsAreSound'
<1>1. \A r \in Roles : r = "client" \/ r = "technician"
  BY DEF Roles
<1>2. \A row : Honest(row) =>
        /\ row.status = "draft" => row.acceptedBy = {}
        /\ row.acceptedBy \subseteq Roles =>
              \A r \in row.acceptedBy : row.terms \in accepted'[r]
        /\ row.status = "pending_signatures" =>
              \A q \in Roles : row.terms \in accepted'[q]
        /\ row.status = "pending_finalization" => BothSigned'
  BY DEF Grows, Honest, AcceptedByAll, BothSigned
<1>3. ASSUME NEW v \in Workers
      PROVE  Honest(req[v].row)' /\ Complete(req[v].row)'
  <2>1. Honest(Draft) /\ Complete(Draft)
    BY DEF Honest, Complete, Draft
  <2>2. PICK row : /\ row = req'[v].row /\ row.acceptedBy \subseteq Roles
                   /\ Honest(row) /\ Complete(row)
    BY <2>1 DEF IInv, RowsAreHonest, TypeOK, Row, Request, Draft
  <2>3. Honest(row)' /\ Complete(row)'
    BY <1>2, <2>2 DEF Honest, Complete, AcceptedByAll
  <2> QED
    BY <2>2, <2>3 DEF Honest, Complete, AcceptedByAll
<1>4. ASSUME NEW v \in Workers \ {w}
      PROVE  Sound(v)'
  <2>1. Sound(v) /\ req'[v] = req[v] /\ Other(req[v].role) \in Roles
    BY DEF IInv, RequestsAreSound, Other, Roles
  <2> QED
    BY <2>1 DEF Sound, Grows, Creates, SeesOther, HasSigned, Other
<1> QED
  BY <1>3, <1>4 DEF RowsAreHonest, RequestsAreSound

\* The draft is sound, and no request is in flight.
LEMMA InvInit == Init => IInv
<1> SUFFICES ASSUME Init PROVE IInv
  OBVIOUS
<1>1. TypeOK
  <2>1. Idle \in Request /\ Draft \in Row
    BY DEF Idle, Request, Ops, Roles, Row, Status, Draft
  <2> QED
    BY <2>1 DEF Init, TypeOK
<1>2. RowsAreHonest /\ RequestsAreSound
  BY DEF Init, RowsAreHonest, RequestsAreSound, Honest, Complete, Sound, Idle,
         Draft
<1>3. SameVersionSigned /\ FinalizationIsSigned /\ VersionWasAccepted
  BY DEF Init, SameVersionSigned, FinalizationIsSigned, VersionWasAccepted,
         HasSigned, Draft
<1> QED
  BY <1>1, <1>2, <1>3 DEF IInv

\* A request that fetches the contract, and has checked what its operation
\* needs, keeps the invariant.
LEMMA FetchKeeps ==
    ASSUME IInv, NEW w \in Workers, NEW op \in Ops \ {"signing"},
           NEW r \in Roles, Fetch(w, op, r),
           op = "accept" => contract.status = "pending_acceptance",
           op = "propose" => contract.status = "draft",
           op \in {"freeze", "sign"} => contract.status \in Signable
    PROVE  IInv'
<1>1. /\ req' \in [Workers -> Request]
      /\ req'[w].op = op /\ req'[w].row = contract
      /\ \A v \in Workers \ {w} : req'[v] = req[v]
  BY FetchEffect DEF IInv
<1>2. UNCHANGED <<contract, accepted, version, codes, signed, attested>>
  BY DEF Fetch
<1>3. TypeOK'
  BY <1>1, <1>2 DEF IInv, TypeOK
<1>4. Grows /\ Honest(contract)' /\ Complete(contract)'
  BY <1>2 DEF IInv, RowsAreHonest, Grows, Honest, Complete, AcceptedByAll,
              BothSigned, HasSigned
<1>5. Sound(w)'
  BY <1>1, <1>2 DEF Sound
<1>6. RowsAreHonest' /\ RequestsAreSound'
  BY <1>1, <1>3, <1>4, <1>5, OthersKept
<1> QED
  BY <1>2, <1>3, <1>6
  DEF IInv, SameVersionSigned, FinalizationIsSigned, VersionWasAccepted,
      HasSigned, BothSigned, AcceptedByAll

\* A request that finishes leaves nothing to keep but the stored contract and
\* what the step itself has written.
LEMMA FinishKeeps ==
    ASSUME IInv, NEW w \in Workers, Finish(w), Grows,
           contract' \in Row, Honest(contract)', Complete(contract)',
           accepted' \in [Roles -> SUBSET Terms],
           version' \in Terms \cup {NoVersion}, codes' \subseteq Roles,
           signed' \in [Roles -> Terms \cup {NoVersion}], attested' \in Nat,
           SameVersionSigned', FinalizationIsSigned', VersionWasAccepted'
    PROVE  IInv'
<1>1. /\ req' \in [Workers -> Request]
      /\ req'[w] = Idle
      /\ \A v \in Workers \ {w} : req'[v] = req[v]
  BY FinishEffect DEF IInv
<1>2. TypeOK'
  BY <1>1 DEF TypeOK
<1>3. Sound(w)' /\ req'[w].row = Draft
  BY <1>1 DEF Sound, Idle
<1> QED
  BY <1>1, <1>2, <1>3, OthersKept DEF IInv

\* What Contract.save stores of an honest object is honest.
LEMMA SavedKeeps ==
    ASSUME IInv, NEW w \in Workers, Finish(w), Grows,
           NEW row \in Row, contract' = Saved(row),
           row.status \in {"draft", "pending_acceptance"}, Complete(row),
           row.status = "draft" => row.acceptedBy = {},
           \A r \in row.acceptedBy : row.terms \in accepted'[r],
           accepted' \in [Roles -> SUBSET Terms],
           UNCHANGED <<version, codes, signed, attested>>
    PROVE  IInv'
<1>1. /\ contract' \in Row /\ contract'.terms = row.terms
      /\ contract'.acceptedBy = row.acceptedBy
      /\ \/ contract'.status \in {"draft", "pending_acceptance"}
         \/ contract'.status = "pending_signatures" /\ row.acceptedBy = Roles
      /\ Complete(contract')
  BY SavedRow
<1>2. contract'.status = "draft" => row.status = "draft"
  BY DEF Saved, Completed, Row
<1>3. Honest(contract)' /\ Complete(contract)'
  BY <1>1, <1>2 DEF Honest, Complete, AcceptedByAll
<1>4. SameVersionSigned' /\ VersionWasAccepted'
  BY DEF IInv, SameVersionSigned, VersionWasAccepted, HasSigned, AcceptedByAll,
         Grows
<1>5. FinalizationIsSigned'
  BY <1>1 DEF IInv, FinalizationIsSigned, BothSigned, HasSigned
<1> QED
  BY <1>1, <1>3, <1>4, <1>5, FinishKeeps DEF IInv, TypeOK

\* A proposal keeps the invariant: it can only be saved over the draft it read,
\* which no party had accepted.
LEMMA ProposeKeeps ==
    ASSUME IInv, NEW w \in Workers, NEW t \in Terms \cup {Incomplete},
           CommitPropose(w, t)
    PROVE  IInv'
<1>1. /\ req[w].row \in Row /\ req[w].row.status = "draft"
      /\ req[w].row.acceptedBy = {}
  BY DEF IInv, TypeOK, Request, CommitPropose, RequestsAreSound, Sound,
         RowsAreHonest, Honest
<1>2. PICK row \in Row : /\ row = [req[w].row EXCEPT !.terms = t]
                        /\ row.status = "draft" /\ row.acceptedBy = {}
  <2> DEFINE new == [req[w].row EXCEPT !.terms = t]
  <2>1. new \in Row /\ new.status = "draft" /\ new.acceptedBy = {}
    BY <1>1 DEF Row
  <2> HIDE DEF new
  <2> QED
    BY <2>1 DEF new
<1>3. Complete(row)
  BY <1>2 DEF Complete
<1>4. /\ Finish(w) /\ contract' = Saved(row)
      /\ UNCHANGED <<accepted, version, codes, signed, attested>>
  BY <1>2 DEF CommitPropose
<1>5. Grows /\ accepted' \in [Roles -> SUBSET Terms]
  BY <1>4 DEF Grows, HasSigned, IInv, TypeOK
<1> QED
  BY <1>2, <1>3, <1>4, <1>5, SavedKeeps

\* So does an acceptance: it saves the terms it accepted, and with them only
\* roles that had accepted the same.
LEMMA AcceptKeeps ==
    ASSUME IInv, NEW w \in Workers, CommitAccept(w)
    PROVE  IInv'
<1> DEFINE r == req[w].role
           old == req[w].row
<1>1. /\ old \in Row /\ r \in Roles /\ old.status = "pending_acceptance"
      /\ old.terms \in Terms
      /\ \A q \in old.acceptedBy : old.terms \in accepted[q]
  BY DEF IInv, TypeOK, Request, CommitAccept, RequestsAreSound, Sound,
         RowsAreHonest, Honest, Complete
<1>2. PICK row \in Row : /\ row = [old EXCEPT !.acceptedBy = @ \cup {r}]
                        /\ row.status = "pending_acceptance"
                        /\ row.terms = old.terms
                        /\ row.acceptedBy = old.acceptedBy \cup {r}
  <2> DEFINE new == [old EXCEPT !.acceptedBy = @ \cup {r}]
  <2>1. /\ new \in Row /\ new.status = "pending_acceptance"
        /\ new.terms = old.terms /\ new.acceptedBy = old.acceptedBy \cup {r}
    BY <1>1 DEF Row
  <2> HIDE DEF new
  <2> QED
    BY <2>1 DEF new
<1>3. /\ Finish(w) /\ contract' = Saved(row)
      /\ accepted' = [accepted EXCEPT ![r] = @ \cup {old.terms}]
      /\ UNCHANGED <<version, codes, signed, attested>>
  BY <1>2 DEF CommitAccept, FetchedRow
<1>4. /\ accepted' \in [Roles -> SUBSET Terms]
      /\ \A q \in Roles : accepted[q] \subseteq accepted'[q]
      /\ old.terms \in accepted'[r]
  BY <1>1, <1>3 DEF IInv, TypeOK
<1>5. Grows
  BY <1>3, <1>4 DEF Grows, HasSigned
<1>6. \A q \in row.acceptedBy : row.terms \in accepted'[q]
  BY <1>1, <1>2, <1>4 DEF Row
<1>7. Complete(row)
  BY <1>1, <1>2 DEF Complete
<1> QED
  BY <1>2, <1>3, <1>4, <1>5, <1>6, <1>7, SavedKeeps

\* A contract that can be signed has terms that both parties have accepted.
LEMMA SignableTerms ==
    ASSUME IInv, NEW w \in Workers, req[w].row.status \in Signable,
           version = NoVersion
    PROVE  /\ req[w].row.terms \in Terms
           /\ AcceptedByAll(req[w].row.terms)
<1>1. req[w].row.status = "pending_signatures"
  BY DEF IInv, RowsAreHonest, Honest, BothSigned, HasSigned, Roles,
         SameVersionSigned, Signable
<1>2. AcceptedByAll(req[w].row.terms)
  BY <1>1 DEF IInv, RowsAreHonest, Honest
<1> QED
  BY <1>2 DEF AcceptedByAll, IInv, TypeOK, Roles

\* The frozen version is what both parties have accepted.
LEMMA FreezeKeeps ==
    ASSUME IInv, NEW w \in Workers, CommitFreeze(w)
    PROVE  IInv'
<1>1. /\ version = NoVersion /\ version' = req[w].row.terms /\ Finish(w)
      /\ UNCHANGED <<contract, accepted, codes, signed, attested>>
  BY DEF CommitFreeze, VersionNumberFree
<1>2. req[w].row.status \in Signable
  BY DEF CommitFreeze, IInv, RequestsAreSound, Sound
<1>3. version' \in Terms /\ AcceptedByAll(version')
  BY <1>1, <1>2, SignableTerms
<1>4. Grows /\ \A r \in Roles : ~HasSigned(r)
  BY <1>1 DEF Grows, HasSigned, IInv, SameVersionSigned
<1>5. Honest(contract)' /\ Complete(contract)'
  BY <1>1 DEF IInv, RowsAreHonest, Honest, Complete, AcceptedByAll, BothSigned,
              HasSigned
<1>6. SameVersionSigned' /\ FinalizationIsSigned' /\ VersionWasAccepted'
  BY <1>1, <1>3, <1>4
  DEF IInv, SameVersionSigned, FinalizationIsSigned, VersionWasAccepted,
      AcceptedByAll, BothSigned, HasSigned
<1> QED
  BY <1>1, <1>3, <1>4, <1>5, <1>6, FinishKeeps DEF IInv, TypeOK

\* The reads of a signing request: what it finds signed or frozen, stays so.
LEMMA CheckSignKeeps ==
    ASSUME IInv, NEW w \in Workers, CheckSign(w)
    PROVE  IInv'
<1> DEFINE r == req[w].role
           new == [op |-> "signing", role |-> r, row |-> req[w].row,
                   version |-> version, other |-> signed[Other(r)]]
<1>1. /\ req' = [req EXCEPT ![w] = new] /\ req[w].op = "sign"
      /\ UNCHANGED <<contract, accepted, version, codes, signed, attested>>
  BY DEF CheckSign
<1>2. r \in Roles /\ Other(r) \in Roles /\ new \in Request
  BY DEF IInv, TypeOK, Request, Ops, Other, Roles
<1>3. /\ req' \in [Workers -> Request] /\ req'[w] = new
      /\ \A v \in Workers \ {w} : req'[v] = req[v]
  BY <1>1, <1>2 DEF IInv, TypeOK
<1>4. TypeOK'
  BY <1>1, <1>3 DEF IInv, TypeOK
<1>5. Grows /\ Honest(contract)' /\ Complete(contract)'
  BY <1>1 DEF IInv, RowsAreHonest, Grows, Honest, Complete, AcceptedByAll,
              BothSigned, HasSigned
<1>6. Sound(w)'
  <2>1. req[w].row.status \in Signable
    BY <1>1 DEF IInv, RequestsAreSound, Sound
  <2> QED
    BY <1>1, <1>3, <2>1 DEF Sound, Creates, SeesOther, HasSigned
<1>7. RowsAreHonest' /\ RequestsAreSound'
  BY <1>3, <1>4, <1>5, <1>6, OthersKept
<1> QED
  BY <1>1, <1>4, <1>7
  DEF IInv, SameVersionSigned, FinalizationIsSigned, VersionWasAccepted,
      HasSigned, BothSigned, AcceptedByAll

\* A signature keeps the invariant: the version it is given to exists or is
\* created with it, and the status moves on only when the other one is there.
LEMMA CommitSignKeeps ==
    ASSUME IInv, NEW w \in Workers, CommitSign(w)
    PROVE  IInv'
<1> DEFINE r == req[w].role
<1>1. /\ req[w].op = "signing" /\ r \in Roles /\ Finish(w)
      /\ UNCHANGED <<accepted, attested>>
      /\ codes' = codes \ {r} /\ signed' = [signed EXCEPT ![r] = version']
  BY DEF CommitSign, IInv, TypeOK, Request
<1>2. /\ version' \in Terms /\ AcceptedByAll(version')
      /\ version # NoVersion => version' = version
  <2>1. CASE Creates(w)
    <3>1. version = NoVersion /\ version' = req[w].row.terms
      BY <2>1 DEF CommitSign, VersionNumberFree
    <3>2. req[w].row.status \in Signable
      BY <1>1 DEF IInv, RequestsAreSound, Sound
    <3> QED
      BY <3>1, <3>2, SignableTerms
  <2>2. CASE ~Creates(w)
    <3>1. version' = version /\ version # NoVersion
      BY <1>1, <2>2 DEF CommitSign, IInv, RequestsAreSound, Sound
    <3> QED
      BY <3>1 DEF IInv, VersionWasAccepted, TypeOK
  <2> QED
    BY <2>1, <2>2
<1>3. /\ signed' \in [Roles -> Terms \cup {NoVersion}]
      /\ signed'[r] = version'
      /\ \A q \in Roles \ {r} : signed'[q] = signed[q]
  BY <1>1, <1>2 DEF IInv, TypeOK
<1>4. version' # NoVersion
  BY <1>2, NoVersionAssumption
<1>5. Grows
  BY <1>1, <1>2, <1>3, <1>4 DEF Grows, HasSigned
<1>6. SameVersionSigned' /\ VersionWasAccepted'
  <2>1. \A q \in Roles \ {r} : HasSigned(q) => signed[q] = version'
    BY <1>2 DEF IInv, SameVersionSigned, HasSigned
  <2> QED
    BY <1>1, <1>2, <1>3, <2>1
    DEF SameVersionSigned, HasSigned, VersionWasAccepted, AcceptedByAll
<1>7. /\ contract' \in Row /\ contract'.terms = contract.terms
      /\ contract'.acceptedBy = contract.acceptedBy
      /\ \/ contract'.status = contract.status
         \/ contract'.status = "pending_finalization" /\ SeesOther(w)
  BY DEF CommitSign, IInv, TypeOK, Row, Status
<1>8. SeesOther(w) => BothSigned'
  <2>1. SeesOther(w) => HasSigned(Other(r))
    BY <1>1 DEF IInv, RequestsAreSound, Sound
  <2> QED
    BY <1>1, <1>3, <1>4, <1>5, <2>1
    DEF Grows, BothSigned, HasSigned, Other, Roles
<1>9. BothSigned => BothSigned'
  BY <1>5 DEF Grows, BothSigned
<1>10. FinalizationIsSigned'
  BY <1>1, <1>7, <1>8, <1>9 DEF IInv, FinalizationIsSigned
<1>11. Honest(contract)' /\ Complete(contract)'
  BY <1>1, <1>7, <1>8, <1>9
  DEF IInv, RowsAreHonest, Honest, Complete, AcceptedByAll
<1> QED
  BY <1>1, <1>2, <1>3, <1>5, <1>6, <1>7, <1>10, <1>11, FinishKeeps
  DEF IInv, TypeOK

\* Only the contract's status, the codes and the attestation change otherwise.
LEMMA StatusKeeps ==
    ASSUME IInv, NEW w \in Workers,
           Rollback(w) \/ CommitFinalize(w) \/ CommitCancel(w)
    PROVE  IInv'
<1>1. Finish(w) /\ UNCHANGED <<accepted, version, codes, signed>>
  BY DEF Rollback, CommitFinalize, CommitCancel
<1>2. /\ contract' \in Row /\ contract'.terms = contract.terms
      /\ contract'.acceptedBy = contract.acceptedBy
      /\ \/ contract'.status = contract.status
         \/ contract'.status \in {"in_progress", "canceled"}
  BY DEF Rollback, CommitFinalize, CommitCancel, IInv, TypeOK, Row, Status
<1>3. /\ attested' \in Nat
      /\ attested' > 0 => (attested > 0 \/ BothSigned)
  BY DEF Rollback, CommitFinalize, CommitCancel, IInv, TypeOK
<1>4. Grows /\ (BothSigned => BothSigned')
  BY <1>1 DEF Grows, HasSigned, BothSigned
<1>5. Honest(contract)' /\ Complete(contract)'
  BY <1>1, <1>2, <1>4
  DEF IInv, RowsAreHonest, Honest, Complete, AcceptedByAll
<1>6. SameVersionSigned' /\ VersionWasAccepted'
  BY <1>1 DEF IInv, SameVersionSigned, VersionWasAccepted, HasSigned,
              AcceptedByAll
<1>7. FinalizationIsSigned'
  BY <1>2, <1>3, <1>4 DEF IInv, FinalizationIsSigned
<1> QED
  BY <1>1, <1>2, <1>3, <1>4, <1>5, <1>6, <1>7, FinishKeeps DEF IInv, TypeOK

\* One-time codes, and steps that change nothing.
LEMMA CodesKeep ==
    ASSUME IInv, codes' \subseteq Roles,
           UNCHANGED <<contract, accepted, version, signed, attested, req>>
    PROVE  IInv'
BY DEF IInv, TypeOK, SameVersionSigned, FinalizationIsSigned, RowsAreHonest,
       VersionWasAccepted, RequestsAreSound, Honest, Complete, Sound, Creates,
       SeesOther, HasSigned, BothSigned, AcceptedByAll

\* No step disturbs the invariant.
LEMMA InvStep == IInv /\ [Next]_vars => IInv'
<1> SUFFICES ASSUME IInv, [Next]_vars PROVE IInv'
  OBVIOUS
<1>1. ASSUME NEW w \in Workers, Begin(w) PROVE IInv'
  <2>1. CASE BeginPropose(w)
    BY <2>1, FetchKeeps DEF BeginPropose, Ops, Roles
  <2>2. ASSUME NEW r \in Roles, BeginAccept(w, r) PROVE IInv'
    BY <2>2, FetchKeeps DEF BeginAccept, Ops
  <2>3. ASSUME NEW r \in Roles, BeginFreeze(w, r) PROVE IInv'
    BY <2>3, FetchKeeps DEF BeginFreeze, Ops
  <2>4. ASSUME NEW r \in Roles, BeginSign(w, r) PROVE IInv'
    BY <2>4, FetchKeeps DEF BeginSign, Ops
  <2>5. CASE BeginFinalize(w)
    BY <2>5, FetchKeeps DEF BeginFinalize, Ops, Roles
  <2>6. CASE BeginCancel(w)
    BY <2>6, FetchKeeps DEF BeginCancel, Ops, Roles
  <2> QED
    BY <1>1, <2>1, <2>2, <2>3, <2>4, <2>5, <2>6 DEF Begin
<1>2. ASSUME NEW w \in Workers, Commit(w) PROVE IInv'
  BY <1>2, ProposeKeeps, AcceptKeeps, FreezeKeeps, CheckSignKeeps,
     CommitSignKeeps, StatusKeeps
  DEF Commit
<1>3. ASSUME NEW w \in Workers, Rollback(w) PROVE IInv'
  BY <1>3, StatusKeeps
<1>4. ASSUME NEW r \in Roles, IssueCode(r) \/ ExpireCode(r) PROVE IInv'
  BY <1>4, CodesKeep DEF IssueCode, ExpireCode, IInv, TypeOK
<1>5. CASE UNCHANGED vars
  BY <1>5, CodesKeep DEF vars, IInv, TypeOK
<1> QED
  BY <1>1, <1>2, <1>3, <1>4, <1>5 DEF Next

-----------------------------------------------------------------------------
\* The inductive invariant holds of every behaviour (contract/services.py,
\* proposal to finalization).
THEOREM Invariance == Spec => []IInv
<1> QED
  BY InvInit, InvStep, PTL DEF Spec

\* Every column, signature and request keeps its type.
THEOREM TypeCorrect == Spec => []TypeOK
<1>1. IInv => TypeOK
  BY DEF IInv
<1> QED
  BY <1>1, Invariance, PTL

\* What a party signs both parties have accepted, although a proposal or an
\* acceptance of an older object may still be saved (accept_contract,
\* update_contract_proposal, sign_contract_version).
THEOREM SignedTermsAccepted == Spec => []SignedTermsWereAccepted
<1>1. IInv => SignedTermsWereAccepted
  BY DEF IInv, SignedTermsWereAccepted, SameVersionSigned, VersionWasAccepted,
         AcceptedByAll, HasSigned
<1> QED
  BY <1>1, Invariance, PTL

\* Both parties sign the same frozen version, whichever request created it
\* (get_or_create_frozen_version, sign_contract_version).
THEOREM OneVersionSigned == Spec => []SameVersionSigned
<1>1. IInv => SameVersionSigned
  BY DEF IInv
<1> QED
  BY <1>1, Invariance, PTL

\* A contract waits for finalization, or is attested, only with both signatures
\* (sign_contract_version, finalize_signed_contract).
THEOREM FinalizationSigned == Spec => []FinalizationIsSigned
<1>1. IInv => FinalizationIsSigned
  BY DEF IInv
<1> QED
  BY <1>1, Invariance, PTL
=============================================================================
