--------------------------- MODULE ContractSigning ---------------------------
(***************************************************************************)
(* A contract from its draft to its activation: proposal, acceptance by    *)
(* both parties, the frozen version, its two signatures and finalization   *)
(* (contract/services.py, Contract.save, get_or_create_frozen_version).    *)
(*                                                                         *)
(* Proposal and acceptance save every column of the object their view      *)
(* fetched; the later endpoints save single columns.  A signature is       *)
(* inserted, and the other one looked for, in a transaction that does not  *)
(* see the other party's uncommitted insert: signing is three actions.     *)
(***************************************************************************)
EXTENDS Naturals

CONSTANTS
    Workers,    \* concurrent requests in flight
    Terms,      \* complete terms: amount, number of stages, description, deadline
    Incomplete, \* terms with one of these missing
    NoVersion   \* no version frozen, no signature given

ASSUME IncompleteAssumption == Incomplete \notin Terms
ASSUME NoVersionAssumption == NoVersion \notin Terms \cup {Incomplete}

VARIABLES
    contract,  \* the Contract row: status, terms, roles that accepted
    accepted,  \* terms that each role has accepted so far
    version,   \* canonical_snapshot of version 1, once frozen
    codes,     \* roles that have a valid unused one-time code
    signed,    \* the version that each role has signed
    attested,  \* PlatformAttestation rows
    req        \* what each request in flight has read

vars == <<contract, accepted, version, codes, signed, attested, req>>

Roles == {"client", "technician"}
Status == {"draft", "pending_acceptance", "pending_signatures",
           "pending_finalization", "in_progress", "canceled"}
Row == [status : Status, terms : Terms \cup {Incomplete},
        acceptedBy : SUBSET Roles]
Signable == {"pending_signatures", "pending_finalization"}

Ops == {"idle", "propose", "accept", "freeze", "sign", "signing", "finalize",
        "cancel"}

\* A request: its operation and role, the contract object it holds and, once it
\* is signing, the version and the signature of the other party it has read.
Request == [op : Ops, role : Roles, row : Row, version : Terms \cup {NoVersion},
            other : Terms \cup {NoVersion}]

Draft == [status |-> "draft", terms |-> Incomplete, acceptedBy |-> {}]
Idle == [op |-> "idle", role |-> "client", row |-> Draft,
         version |-> NoVersion, other |-> NoVersion]

TypeOK ==
    /\ contract \in Row
    /\ accepted \in [Roles -> SUBSET Terms]
    /\ version \in Terms \cup {NoVersion}
    /\ codes \subseteq Roles
    /\ signed \in [Roles -> Terms \cup {NoVersion}]
    /\ attested \in Nat
    /\ req \in [Workers -> Request]

Init ==
    /\ contract = Draft
    /\ accepted = [r \in Roles |-> {}]
    /\ version = NoVersion
    /\ codes = {}
    /\ signed = [r \in Roles |-> NoVersion]
    /\ attested = 0
    /\ req = [w \in Workers |-> Idle]

-----------------------------------------------------------------------------
Fetch(w, op, r) ==
    /\ req[w] = Idle
    /\ req' = [req EXCEPT ![w] = [op |-> op, role |-> r, row |-> contract,
                                  version |-> NoVersion, other |-> NoVersion]]
    /\ UNCHANGED <<contract, accepted, version, codes, signed, attested>>

Finish(w) == req' = [req EXCEPT ![w] = Idle]

\* The request ends without effect: an error, a constraint, a crash, or an
\* idempotent return.
Rollback(w) ==
    /\ req[w] # Idle
    /\ Finish(w)
    /\ UNCHANGED <<contract, accepted, version, codes, signed, attested>>

-----------------------------------------------------------------------------
(***************************************************************************)
(* Proposal and acceptance                                                 *)
(***************************************************************************)
AcceptedByClient(row) == "client" \in row.acceptedBy
AcceptedByBoth(row) == row.acceptedBy = Roles

CompletedAlways(row) == [row EXCEPT !.status = "pending_acceptance"]
Completed(row) ==
    IF row.status = "draft" /\ row.terms # Incomplete
    THEN [row EXCEPT !.status = "pending_acceptance"]
    ELSE row

\* Contract.save: both automatic transitions can happen in one save.
Saved(row) ==
    LET r == Completed(row)
    IN  IF r.status = "pending_acceptance" /\ AcceptedByBoth(r)
        THEN [r EXCEPT !.status = "pending_signatures"]
        ELSE r

BeginPropose(w) ==
    /\ contract.status = "draft"
    /\ Fetch(w, "propose", "technician")

CommitPropose(w, t) ==
    /\ req[w].op = "propose"
    /\ contract' = Saved([req[w].row EXCEPT !.terms = t])
    /\ Finish(w)
    /\ UNCHANGED <<accepted, version, codes, signed, attested>>

BeginAccept(w, r) ==
    /\ contract.status = "pending_acceptance"
    /\ r \notin contract.acceptedBy
    /\ Fetch(w, "accept", r)

\* The object an acceptance saves: all columns of the fetched row.
FlagOfCurrentRow(w) == contract
FetchedRow(w) == req[w].row

CommitAccept(w) ==
    LET r == req[w].role
        row == FetchedRow(w)
    IN  /\ req[w].op = "accept"
        /\ contract' = Saved([row EXCEPT !.acceptedBy = @ \cup {r}])
        /\ accepted' = [accepted EXCEPT ![r] = @ \cup {req[w].row.terms}]
        /\ Finish(w)
        /\ UNCHANGED <<version, codes, signed, attested>>

-----------------------------------------------------------------------------
(***************************************************************************)
(* Freezing and one-time codes.  Version 1 is unique: of two requests that *)
(* found no version, one fails.  The snapshot is taken from the fetched    *)
(* object.  request_signature_otp freezes and then issues a code; so do    *)
(* the account endpoints issue codes, at any time.                         *)
(***************************************************************************)
Unchecked == TRUE
VersionNumberFree == version = NoVersion

BeginFreeze(w, r) ==
    /\ contract.status \in Signable
    /\ version = NoVersion
    /\ Fetch(w, "freeze", r)

CommitFreeze(w) ==
    /\ req[w].op = "freeze"
    /\ VersionNumberFree
    /\ version' = req[w].row.terms
    /\ Finish(w)
    /\ UNCHANGED <<contract, accepted, codes, signed, attested>>

IssueCode(r) ==
    /\ codes' = codes \cup {r}
    /\ UNCHANGED <<contract, accepted, version, signed, attested, req>>

ExpireCode(r) ==
    /\ codes' = codes \ {r}
    /\ UNCHANGED <<contract, accepted, version, signed, attested, req>>

-----------------------------------------------------------------------------
(***************************************************************************)
(* Signing                                                                 *)
(***************************************************************************)
Other(r) == IF r = "client" THEN "technician" ELSE "client"

HasSigned(r) == signed[r] # NoVersion

BeginSign(w, r) ==
    /\ contract.status \in Signable
    /\ Fetch(w, "sign", r)

\* The transaction's reads: the code, the latest version, the signatures.
CheckSign(w) ==
    LET r == req[w].role
    IN  /\ req[w].op = "sign"
        /\ r \in codes
        /\ ~HasSigned(r)
        /\ req' = [req EXCEPT ![w] =
                      [op |-> "signing", role |-> r, row |-> req[w].row,
                       version |-> version, other |-> signed[Other(r)]]]
        /\ UNCHANGED <<contract, accepted, version, codes, signed, attested>>

SeesOtherUnchecked(w) == TRUE
SeesOther(w) == req[w].other # NoVersion

Creates(w) == req[w].version = NoVersion

\* Its writes, with the unique version number and the unique role per version.
CommitSign(w) ==
    LET r == req[w].role
    IN  /\ req[w].op = "signing"
        /\ Creates(w) => VersionNumberFree
        /\ ~HasSigned(r)
        /\ version' = IF Creates(w) THEN req[w].row.terms ELSE version
        /\ signed' = [signed EXCEPT ![r] = version']
        /\ codes' = codes \ {r}
        /\ contract' =
              IF req[w].row.status = "pending_signatures" /\ SeesOther(w)
              THEN [contract EXCEPT !.status = "pending_finalization"]
              ELSE contract
        /\ Finish(w)
        /\ UNCHANGED <<accepted, attested>>

-----------------------------------------------------------------------------
(***************************************************************************)
(* Finalization and cancellation, as far as the contract's status goes:    *)
(* their money is in ContractEscrow.                                       *)
(***************************************************************************)
BothSigned == \A r \in Roles : HasSigned(r)

BeginFinalize(w) ==
    /\ contract.status = "pending_finalization"
    /\ Fetch(w, "finalize", "client")

CommitFinalize(w) ==
    /\ req[w].op = "finalize"
    /\ BothSigned
    /\ attested = 0
    /\ attested' = attested + 1
    /\ contract' = [contract EXCEPT !.status = "in_progress"]
    /\ Finish(w)
    /\ UNCHANGED <<accepted, version, codes, signed>>

BeginCancel(w) ==
    /\ contract.status # "canceled"
    /\ Fetch(w, "cancel", "client")

CommitCancel(w) ==
    /\ req[w].op = "cancel"
    /\ contract' = [contract EXCEPT !.status = "canceled"]
    /\ Finish(w)
    /\ UNCHANGED <<accepted, version, codes, signed, attested>>

-----------------------------------------------------------------------------
Begin(w) ==
    \/ BeginPropose(w)
    \/ \E r \in Roles : BeginAccept(w, r) \/ BeginFreeze(w, r) \/ BeginSign(w, r)
    \/ BeginFinalize(w)
    \/ BeginCancel(w)

Commit(w) ==
    \/ \E t \in Terms \cup {Incomplete} : CommitPropose(w, t)
    \/ CommitAccept(w)
    \/ CommitFreeze(w)
    \/ CheckSign(w)
    \/ CommitSign(w)
    \/ CommitFinalize(w)
    \/ CommitCancel(w)

Next ==
    \/ \E w \in Workers : Begin(w) \/ Commit(w) \/ Rollback(w)
    \/ \E r \in Roles : IssueCode(r) \/ ExpireCode(r)

Spec == Init /\ [][Next]_vars

-----------------------------------------------------------------------------
(***************************************************************************)
(* Properties                                                              *)
(***************************************************************************)

\* What a party signs, both parties have accepted: although a proposal that is
\* still in flight may rewrite the terms, every acceptance writes back the terms
\* it accepted (accept_contract, Contract.save, freeze_contract_version).
SignedTermsWereAccepted ==
    \A r, q \in Roles : HasSigned(r) => signed[r] \in accepted[q]

\* Both parties sign one and the same frozen version, although either request
\* may have found none and created it (sign_contract_version,
\* ContractVersion.unique_together).
SameVersionSigned == \A r \in Roles : HasSigned(r) => signed[r] = version

\* A contract waits for finalization, or has been activated, only with both
\* signatures, whatever the signing requests saw of each other and whichever
\* stale save came between (sign_contract_version, finalize_signed_contract).
FinalizationIsSigned ==
    contract.status = "pending_finalization" \/ attested > 0 => BothSigned

-----------------------------------------------------------------------------
(***************************************************************************)
(* Why they hold.                                                          *)
(***************************************************************************)
AcceptedByAll(t) == \A q \in Roles : t \in accepted[q]

\* A contract object, stored or held by a request, carries the acceptances of
\* its own terms, none while it is a draft, and reaches the signatures only with
\* both.
Honest(row) ==
    /\ row.status = "draft" => row.acceptedBy = {}
    /\ \A r \in row.acceptedBy : row.terms \in accepted[r]
    /\ row.status = "pending_signatures" => AcceptedByAll(row.terms)
    /\ row.status = "pending_finalization" => BothSigned

\* The terms are complete once a contract can be accepted.
Complete(row) == row.status = "pending_acceptance" => row.terms \in Terms

RowsAreHonest ==
    /\ Honest(contract) /\ Complete(contract)
    /\ \A w \in Workers : Honest(req[w].row) /\ Complete(req[w].row)

VersionWasAccepted == version # NoVersion => AcceptedByAll(version)

\* What a request in flight has tested stays true of the object it holds.
Sound(w) ==
    /\ req[w].op = "accept" => req[w].row.status = "pending_acceptance"
    /\ req[w].op = "propose" => req[w].row.status = "draft"
    /\ req[w].op \in {"freeze", "sign", "signing"}
          => req[w].row.status \in Signable
    /\ req[w].op = "signing" /\ ~Creates(w) => version # NoVersion
    /\ req[w].op = "signing" /\ SeesOther(w) => HasSigned(Other(req[w].role))

RequestsAreSound == \A w \in Workers : Sound(w)

\* The inductive invariant.
IInv ==
    /\ TypeOK
    /\ SameVersionSigned
    /\ FinalizationIsSigned
    /\ RowsAreHonest
    /\ VersionWasAccepted
    /\ RequestsAreSound
=============================================================================
