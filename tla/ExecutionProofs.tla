-------------------------- MODULE ExecutionProofs --------------------------
(***************************************************************************)
(* Theorems about the milestones, submissions, revisions and completion of *)
(* a contract, for any milestones and extensions, any number of requests   *)
(* in flight and any bounds.                                               *)
(***************************************************************************)
EXTENDS MCExecution, SumLemmas, FiniteSetTheorems, TLAPS

\* What Append and EXCEPT do to a sequence.
LEMMA Appended ==
    ASSUME NEW D, NEW s \in Seq(D), NEW e \in D
    PROVE  /\ Append(s, e) \in Seq(D)
           /\ Len(s) \in Nat /\ DOMAIN s = 1 .. Len(s)
           /\ Len(Append(s, e)) = Len(s) + 1
           /\ DOMAIN Append(s, e) = 1 .. Len(s) + 1
           /\ \A i \in 1 .. Len(s) : Append(s, e)[i] = s[i]
           /\ Append(s, e)[Len(s) + 1] = e
OBVIOUS

LEMMA Replaced ==
    ASSUME NEW D, NEW s \in Seq(D), NEW i \in DOMAIN s, NEW e \in D
    PROVE  /\ [s EXCEPT ![i] = e] \in Seq(D)
           /\ DOMAIN [s EXCEPT ![i] = e] = DOMAIN s
OBVIOUS

LEMMA Entries ==
    ASSUME NEW D, NEW s \in Seq(D)
    PROVE  /\ Len(s) \in Nat /\ DOMAIN s = 1 .. Len(s)
           /\ \A i \in DOMAIN s : s[i] \in D
           /\ Len(s) = 0 <=> s = <<>>
OBVIOUS

LEMMA JobShapes ==
    ASSUME NEW j \in Jobs
    PROVE  /\ j.op = "create" => j.on \in Milestones /\ j.number \in 0 .. MaxSequence
           /\ j.op = "edit" => j.on \in Milestones /\ j.saves \in Rows
           /\ j.op \in {"start", "approve"} => j.on \in Milestones
           /\ j.op = "submit" => j.on \in Milestones /\ j.number \in 0 .. MaxDeliveries
           /\ j.op = "revise" => /\ j.on \in Milestones /\ j.number \in Nat
                                 /\ j.version \in Nat \ {0} /\ j.count \in Nat
           /\ j.op = "request_completion" => j.checked \in BOOLEAN /\ j.seen \subseteq Milestones
           /\ j.op \in {"extend", "answer"} => j.on \in Extensions
           /\ j.op = "answer" => j.answer \in {"approved", "rejected"}
<1>1. \/ j \in [op : {"create"}, on : Milestones, number : 0..MaxSequence]
      \/ j \in [op : {"edit"}, on : Milestones, saves : Rows]
      \/ j \in [op : {"start", "approve"}, on : Milestones]
      \/ j \in [op : {"submit"}, on : Milestones, number : 0..MaxDeliveries]
      \/ j \in [op : {"revise"}, on : Milestones, number : Nat, version : Nat \ {0}, count : Nat]
      \/ j.op \in {"activate", "cancel", "confirm", "reject", "idle"}
      \/ j \in [op : {"request_completion"}, checked : BOOLEAN, seen : SUBSET Milestones]
      \/ j \in [op : {"extend"}, on : Extensions]
      \/ j \in [op : {"answer"}, on : Extensions, answer : {"approved", "rejected"}]
  BY DEF Jobs, Idle
<1>2. /\ j.op = "create" => j.on \in Milestones /\ j.number \in 0 .. MaxSequence
      /\ j.op = "edit" => j.on \in Milestones /\ j.saves \in Rows
      /\ j.op \in {"start", "approve"} => j.on \in Milestones
      /\ j.op = "submit" => j.on \in Milestones /\ j.number \in 0 .. MaxDeliveries
  BY <1>1
<1>3. /\ j.op = "revise" => /\ j.on \in Milestones /\ j.number \in Nat
                            /\ j.version \in Nat \ {0} /\ j.count \in Nat
      /\ j.op = "request_completion" => j.checked \in BOOLEAN /\ j.seen \subseteq Milestones
      /\ j.op \in {"extend", "answer"} => j.on \in Extensions
      /\ j.op = "answer" => j.answer \in {"approved", "rejected"}
  BY <1>1
<1>4. QED
  BY <1>2, <1>3

\* The invariant's types, in the form in which the steps use them.
LEMMA StoredRows ==
    ASSUME IInv
    PROVE  /\ milestone \in [Milestones -> Rows \cup {NoMilestone}]
           /\ \A m \in Existing : m \in Milestones /\ milestone[m] \in Rows
           /\ \A m \in Milestones :
                 /\ versions[m] \in Seq(Nat \ {0}) /\ revisions[m] \in Seq(Revision)
                 /\ Len(versions[m]) \in 0 .. MaxDeliveries /\ DOMAIN versions[m] = 1 .. Len(versions[m])
                 /\ Len(revisions[m]) \in 0 .. MaxDeliveries /\ DOMAIN revisions[m] = 1 .. Len(revisions[m])
                 /\ versions[m] = <<>> <=> Len(versions[m]) = 0
           /\ req \in [Workers -> Jobs]
<1>1. milestone \in [Milestones -> Rows \cup {NoMilestone}] /\ req \in [Workers -> Jobs]
  BY DEF IInv, WellTyped
<1>2. \A m \in Existing : m \in Milestones /\ milestone[m] \in Rows
  BY <1>1 DEF Existing
<1>3. ASSUME NEW m \in Milestones
      PROVE  /\ versions[m] \in Seq(Nat \ {0}) /\ revisions[m] \in Seq(Revision)
             /\ Len(versions[m]) \in 0 .. MaxDeliveries /\ DOMAIN versions[m] = 1 .. Len(versions[m])
             /\ Len(revisions[m]) \in 0 .. MaxDeliveries /\ DOMAIN revisions[m] = 1 .. Len(revisions[m])
             /\ versions[m] = <<>> <=> Len(versions[m]) = 0
  <2>1. versions[m] \in Seq(Nat \ {0}) /\ revisions[m] \in Seq(Revision)
    BY DEF IInv, TypeOK
  <2>2. Len(versions[m]) <= MaxDeliveries /\ Len(revisions[m]) <= MaxDeliveries
    BY DEF IInv, WellTyped
  <2>3. QED
    BY <2>1, <2>2, Entries, BoundAssumption
<1>4. QED
  BY <1>1, <1>2, <1>3

\* A version is held exactly when it is one of the first, since they are numbered
\* in order.
LEMMA VersionsHeld ==
    ASSUME NEW s \in Seq(Nat \ {0}), \A i \in DOMAIN s : s[i] = i, NEW n \in Nat
    PROVE  Holds(s, n) <=> n \in 1 .. Len(s)
<1>1. DOMAIN s = 1 .. Len(s)
  BY Entries
<1>2. QED
  BY <1>1 DEF Holds

LEMMA LatestIsLast ==
    ASSUME IInv, NEW m \in Milestones
    PROVE  Latest(m) = Len(versions[m])
<1> DEFINE s == versions[m]
<1>1. /\ s \in Seq(Nat \ {0}) /\ Len(s) \in 0 .. MaxDeliveries /\ DOMAIN s = 1 .. Len(s)
      /\ \A i \in DOMAIN s : s[i] = i
  BY StoredRows DEF IInv, SubmissionsAreNumbered, VersionsAreConsecutive
<1> DEFINE P(n) == /\ n = 0 \/ Holds(s, n)
                   /\ \A i \in DOMAIN s : s[i] <= n
<1>2. P(Len(s))
  <2>1. Len(s) = 0 \/ Holds(s, Len(s))
    BY <1>1 DEF Holds
  <2>2. QED
    BY <1>1, <2>1
<1>3. ASSUME NEW n \in 0 .. MaxDeliveries, P(n) PROVE n = Len(s)
  <2>1. n = 0 \/ n \in 1 .. Len(s)
    BY <1>1, <1>3, BoundAssumption DEF Holds
  <2>2. Len(s) > 0 => Len(s) <= n
    BY <1>1, <1>3
  <2>3. QED
    BY <1>1, <2>1, <2>2
<1>4. Latest(m) = CHOOSE n \in 0 .. MaxDeliveries : P(n)
  BY DEF Latest
<1> HIDE DEF P
<1>5. \E n \in 0 .. MaxDeliveries : P(n)
  BY <1>1, <1>2
<1>6. QED
  BY <1>3, <1>4, <1>5, Zenon

\* The last place taken, found as the least one that none exceeds.
LEMMA LastPlace == ASSUME IInv PROVE LastSequence \in 0 .. MaxSequence
<1> DEFINE P(n) == /\ n = 0 \/ \E m \in Existing : milestone[m].sequence = n
                   /\ \A m \in Existing : milestone[m].sequence <= n
           Above == {n \in 0 .. MaxSequence : \A m \in Existing : milestone[m].sequence <= n}
<1>1. \A m \in Existing : milestone[m].sequence \in 1 .. MaxSequence
  BY DEF IInv, TypeOK
<1>2. MaxSequence \in Above
  BY <1>1, BoundAssumption
<1>3. PICK n \in Above : \A k \in Above : n <= k
  <2>1. Above \in SUBSET Nat /\ Above # {}
    BY <1>2
  <2> HIDE DEF Above
  <2>2. QED
    BY <2>1, LeastNumber
<1>4. n = 0 \/ \E m \in Existing : milestone[m].sequence = n
  <2> SUFFICES ASSUME n # 0, \A m \in Existing : milestone[m].sequence # n PROVE FALSE
    OBVIOUS
  <2>1. n \in 1 .. MaxSequence
    BY <1>3, BoundAssumption
  <2>2. n - 1 \in Above
    BY <1>1, <1>3, <2>1, BoundAssumption
  <2>3. QED
    BY <1>3, <2>1, <2>2
<1>5. n \in 0 .. MaxSequence /\ P(n)
  BY <1>3, <1>4
<1> HIDE DEF P
<1>6. (CHOOSE k \in 0 .. MaxSequence : P(k)) \in 0 .. MaxSequence
  BY <1>5
<1>7. QED
  BY <1>6 DEF LastSequence, P

LEMMA ExecutionInit == Init => IInv
<1> SUFFICES ASSUME Init PROVE IInv
  OBVIOUS
<1>1. /\ milestone \in [Milestones -> Rows \cup {NoMilestone}]
      /\ \A m, n \in Existing : m # n => milestone[m].sequence # milestone[n].sequence
      /\ \A m \in Existing : milestone[m].status = "PENDING"
      /\ \A m \in Milestones : milestone[m].revision_count = 0
  <2>1. PICK ready \in SUBSET Milestones, place \in [Milestones -> 1..MaxSequence] :
          /\ \A m, n \in ready : m # n => place[m] # place[n]
          /\ milestone = [m \in Milestones |->
                 IF m \in ready
                 THEN [status |-> "PENDING", sequence |-> place[m], revision_count |-> 0]
                 ELSE NoMilestone]
    BY DEF Init
  <2>2. \A m \in Milestones :
           [status |-> "PENDING", sequence |-> place[m], revision_count |-> 0] \in Rows
    BY BoundAssumption DEF Rows, MilestoneStatus
  <2>3. Existing \subseteq ready
    BY <2>1 DEF Existing
  <2>4. QED
    BY <2>1, <2>2, <2>3 DEF NoMilestone
<1>2. <<>> \in Seq(Nat \ {0}) /\ <<>> \in Seq(Revision) /\ <<>> \in Seq({"PENDING", "CONFIRMED", "REJECTED"})
      /\ Len(<<>>) = 0 /\ DOMAIN <<>> = {}
  OBVIOUS
<1>3. /\ versions = [m \in Milestones |-> <<>>] /\ revisions = [m \in Milestones |-> <<>>]
      /\ completions = <<>> /\ counted = {} /\ reopened = {}
      /\ req = [w \in Workers |-> Idle] /\ contract = "in_progress"
      /\ extension = [x \in Extensions |-> "none"]
  BY DEF Init
<1>4. TypeOK
  <2>1. \A m \in Existing : milestone[m] \in Rows
    BY <1>1 DEF Existing
  <2>2. QED
    BY <1>1, <1>2, <1>3, <2>1 DEF TypeOK, Rows, ContractStatus, ExtensionStatus
<1>5. WellTyped /\ RequestsFounded
  <2>1. /\ milestone \in [Milestones -> Rows \cup {NoMilestone}] /\ req \in [Workers -> Jobs]
        /\ \A w \in Workers : req[w].op = "idle"
    BY <1>1, <1>3 DEF Jobs, Idle
  <2>2. \A m \in Milestones : versions[m] = <<>> /\ revisions[m] = <<>>
    BY <1>3
  <2>3. WellTyped
    BY <2>1, <2>2, <1>2, BoundAssumption DEF WellTyped
  <2>4. RequestsFounded
    BY <2>1 DEF RequestsFounded, Founded, DraftOnlyEdited, StillThere, OfMilestone
  <2>5. QED
    BY <2>3, <2>4
<1>6. ApprovalsKept /\ SubmissionsAreNumbered
  <2>1. \A m \in Milestones : /\ versions[m] = <<>> /\ revisions[m] = <<>>
                             /\ milestone[m].revision_count = 0
    BY <1>1, <1>3
  <2>2. SubmissionsAreNumbered
    BY <2>1, <1>2 DEF SubmissionsAreNumbered, VersionsAreConsecutive, RevisionsFollowSubmissions
  <2>3. ApprovalsKept
    BY <1>1, <1>3 DEF ApprovalsKept
  <2>4. QED
    BY <2>2, <2>3
<1>7. QED
  BY <1>4, <1>5, <1>6 DEF IInv

-----------------------------------------------------------------------------
\* Rows are kept and drafts stay drafts, and the rest only grows.
Grows ==
    /\ \A m \in Existing :
          /\ milestone'[m] # NoMilestone
          /\ milestone'[m].status = "DRAFT" <=> milestone[m].status = "DRAFT"
    /\ \A m \in Milestones :
          /\ Len(versions'[m]) \in Nat /\ Len(versions[m]) <= Len(versions'[m])
          /\ versions[m] # <<>> => versions'[m] # <<>>
          /\ \A n \in Nat : Holds(versions[m], n) => Holds(versions'[m], n)
          /\ Len(revisions'[m]) \in Nat /\ Len(revisions[m]) <= Len(revisions'[m])
    /\ Approved \cup reopened \subseteq (Approved \cup reopened)'
    /\ DOMAIN completions \subseteq DOMAIN completions'

LEMMA FoundedStays ==
    ASSUME IInv, Grows, NEW j \in Jobs, Founded(j)
    PROVE  Founded(j)'
<1>1. \A m \in Milestones : Len(versions[m]) \in Nat /\ Len(revisions[m]) \in Nat
  BY StoredRows, BoundAssumption
<1>2. Existing \subseteq Existing' /\ Existing \subseteq Milestones
  BY DEF Grows, Existing
<1>3. \A k, n, s \in Nat : (k <= n /\ n <= s => k <= s) /\ (k <= n + 1 /\ n <= s => k <= s + 1)
  OBVIOUS
<1>4. DraftOnlyEdited(j)'
  <2>1. j.op \in OfMilestone => j.on \in Existing'
    BY <1>2 DEF Founded, DraftOnlyEdited
  <2>2. j.op \in OfMilestone \ {"edit"} => milestone'[j.on].status # "DRAFT"
    BY DEF Founded, DraftOnlyEdited, Grows, OfMilestone
  <2>3. ASSUME j.op = "edit"
        PROVE  /\ milestone'[j.on].status = "DRAFT" /\ j.saves.status = "DRAFT"
               /\ j.saves.revision_count <= Len(revisions'[j.on])
    <3>1. /\ j.on \in Existing /\ milestone[j.on].status = "DRAFT" /\ j.saves.status = "DRAFT"
          /\ j.saves.revision_count <= Len(revisions[j.on])
      BY <2>3 DEF Founded, DraftOnlyEdited, OfMilestone
    <3>2. j.saves.revision_count \in Nat
      BY <2>3, JobShapes, BoundAssumption DEF Rows
    <3>3. /\ Len(revisions[j.on]) \in Nat /\ Len(revisions'[j.on]) \in Nat
          /\ Len(revisions[j.on]) <= Len(revisions'[j.on])
      BY <1>1, <1>2, <3>1 DEF Grows
    <3>4. QED
      BY <1>3, <3>1, <3>2, <3>3 DEF Grows
  <2>4. QED
    BY <2>1, <2>2, <2>3 DEF DraftOnlyEdited
<1>5. StillThere(j)'
  <2>1. j.op = "approve" => versions'[j.on] # <<>>
    BY <1>2 DEF Founded, DraftOnlyEdited, StillThere, Grows, OfMilestone
  <2>2. ASSUME j.op = "submit" PROVE j.number <= Len(versions'[j.on]) + 1
    <3>1. /\ j.number \in Nat /\ j.on \in Milestones /\ j.number <= Len(versions[j.on]) + 1
      BY <2>2, JobShapes, BoundAssumption DEF Founded, StillThere
    <3>2. /\ Len(versions[j.on]) \in Nat /\ Len(versions'[j.on]) \in Nat
          /\ Len(versions[j.on]) <= Len(versions'[j.on])
      BY <1>1, <3>1 DEF Grows
    <3>3. QED
      BY <1>3, <3>1, <3>2
  <2>3. ASSUME j.op = "revise"
        PROVE  /\ Holds(versions'[j.on], j.version)
               /\ j.count <= Len(revisions'[j.on])
               /\ j.number <= Len(revisions'[j.on]) + 1
    <3>1. /\ j.number \in Nat /\ j.count \in Nat /\ j.version \in Nat /\ j.on \in Milestones
          /\ Holds(versions[j.on], j.version)
          /\ j.count <= Len(revisions[j.on]) /\ j.number <= Len(revisions[j.on]) + 1
      BY <2>3, JobShapes DEF Founded, StillThere
    <3>2. /\ Len(revisions[j.on]) \in Nat /\ Len(revisions'[j.on]) \in Nat
          /\ Len(revisions[j.on]) <= Len(revisions'[j.on])
      BY <1>1, <3>1 DEF Grows
    <3>3. Holds(versions'[j.on], j.version)
      BY <3>1 DEF Grows
    <3>4. QED
      BY <1>3, <3>1, <3>2, <3>3
  <2>4. j.op = "request_completion" /\ j.checked => j.seen \subseteq (Approved \cup reopened)'
    BY DEF Founded, StillThere, Grows
  <2>5. j.op \in {"confirm", "reject"} => j.on \in DOMAIN completions'
    BY DEF Founded, StillThere, Grows
  <2>6. QED
    BY <2>1, <2>2, <2>3, <2>4, <2>5 DEF StillThere, Holds
<1>6. QED
  BY <1>4, <1>5 DEF Founded

LEMMA IdleFounded == Idle \in Jobs /\ Idle.op = "idle" /\ Founded(Idle) /\ Founded(Idle)'
BY DEF Founded, DraftOnlyEdited, StillThere, Idle, OfMilestone, Jobs

LEMMA RequestsStay ==
    ASSUME IInv, Grows, NEW w \in Workers, NEW k \in Jobs, Founded(k)',
           req' = [req EXCEPT ![w] = k]
    PROVE  req' \in [Workers -> Jobs] /\ RequestsFounded'
<1>1. req \in [Workers -> Jobs]
  BY DEF IInv, WellTyped
<1>2. req' \in [Workers -> Jobs] /\ \A v \in Workers : req'[v] = k \/ req'[v] = req[v]
  BY <1>1
<1>3. ASSUME NEW v \in Workers PROVE Founded(req[v])'
  <2>1. PICK j \in Jobs : j = req'[v]
    BY <1>2
  <2>2. Founded(j)'
    <3>1. CASE j = k
      BY <3>1
    <3>2. CASE j = req[v]
      BY <3>2, FoundedStays DEF IInv, RequestsFounded
    <3>3. QED
      BY <1>2, <2>1, <3>1, <3>2
  <2>3. QED
    BY <2>1, <2>2 DEF Founded, DraftOnlyEdited, StillThere
<1>4. QED
  BY <1>2, <1>3 DEF RequestsFounded

LEMMA RequestsUntouched ==
    ASSUME IInv, Grows, req' = req
    PROVE  req' \in [Workers -> Jobs] /\ RequestsFounded'
<1>1. req \in [Workers -> Jobs]
  BY DEF IInv, WellTyped
<1>2. ASSUME NEW v \in Workers PROVE Founded(req[v])'
  <2>1. PICK j \in Jobs : j = req[v] /\ j = req'[v]
    BY <1>1
  <2>2. Founded(j)'
    BY <2>1, FoundedStays DEF IInv, RequestsFounded
  <2>3. QED
    BY <2>1, <2>2 DEF Founded, DraftOnlyEdited, StillThere
<1>3. QED
  BY <1>1, <1>2 DEF RequestsFounded

\* Nothing of the milestones changes.
LEMMA SameWorkGrows ==
    ASSUME IInv, UNCHANGED <<milestone, versions, revisions, reopened>>,
           DOMAIN completions \subseteq DOMAIN completions'
    PROVE  Grows
BY StoredRows, BoundAssumption DEF Grows, Existing, Approved, Holds

LEMMA WorkUntouched ==
    ASSUME IInv, NEW w \in Workers, NEW k \in Jobs, Founded(k), req' = [req EXCEPT ![w] = k],
           UNCHANGED <<milestone, versions, revisions, reopened>>,
           contract' \in ContractStatus, completions' \in Seq({"PENDING", "CONFIRMED", "REJECTED"}),
           DOMAIN completions \subseteq DOMAIN completions',
           extension' \in [Extensions -> ExtensionStatus],
           counted' = counted \/ (counted' \subseteq Existing /\ counted' \subseteq Approved \cup reopened)
    PROVE  IInv'
<1>1. Grows
  BY SameWorkGrows
<1>2. Founded(k)'
  BY <1>1, FoundedStays
<1>3. req' \in [Workers -> Jobs] /\ RequestsFounded'
  BY <1>1, <1>2, RequestsStay
<1>4. Existing' = Existing /\ Approved' = Approved
  BY DEF Existing, Approved
<1>5. TypeOK'
  BY <1>4 DEF IInv, TypeOK, ApprovalsKept
<1>6. WellTyped'
  BY <1>3 DEF IInv, WellTyped
<1>7. ApprovalsKept'
  BY <1>4 DEF IInv, ApprovalsKept
<1>8. SubmissionsAreNumbered'
  BY DEF IInv, SubmissionsAreNumbered, VersionsAreConsecutive, RevisionsFollowSubmissions, Holds
<1>9. QED
  BY <1>3, <1>5, <1>6, <1>7, <1>8 DEF IInv

\* A request only reads.
LEMMA ReadsKeep ==
    ASSUME IInv, NEW w \in Workers, NEW k \in Jobs, Founded(k), req' = [req EXCEPT ![w] = k],
           UNCHANGED <<contract, completions, workVars, extension, counted>>
    PROVE  IInv'
<1>1. /\ contract' \in ContractStatus /\ completions' \in Seq({"PENDING", "CONFIRMED", "REJECTED"})
      /\ extension' \in [Extensions -> ExtensionStatus]
  BY DEF IInv, TypeOK
<1>2. UNCHANGED <<milestone, versions, revisions, reopened>> /\ completions' = completions /\ counted' = counted
  BY DEF workVars
<1>3. QED
  BY <1>1, <1>2, WorkUntouched

LEMMA FetchesKeep == ASSUME IInv, NEW w \in Workers, Fetch(w) PROVE IInv'
<1>1. ASSUME NEW k \in Jobs, Founded(k), Begin(w, k) PROVE IInv'
  BY <1>1, ReadsKeep DEF Begin
<1>2. ASSUME NEW m \in Milestones, BeginCreate(w, m) PROVE IInv'
  <2> DEFINE k == [op |-> "create", on |-> m, number |-> 0]
  <2>1. k \in Jobs /\ Founded(k)
    BY BoundAssumption DEF Jobs, Founded, DraftOnlyEdited, StillThere, OfMilestone
  <2> HIDE DEF k
  <2>2. QED
    BY <1>1, <1>2, <2>1 DEF BeginCreate, k
<1>3. ASSUME NEW m \in Milestones, BeginEdit(w, m) PROVE IInv'
  <2> DEFINE k == [op |-> "edit", on |-> m, saves |-> milestone[m]]
  <2>1. m \in Existing /\ milestone[m].status = "DRAFT" /\ Begin(w, k)
    BY <1>3 DEF BeginEdit
  <2>2. milestone[m] \in Rows /\ milestone[m].revision_count <= Len(revisions[m])
    BY <2>1, StoredRows DEF IInv, SubmissionsAreNumbered, RevisionsFollowSubmissions
  <2>3. k \in Jobs /\ Founded(k)
    BY <2>1, <2>2 DEF Jobs, Founded, DraftOnlyEdited, StillThere, OfMilestone
  <2> HIDE DEF k
  <2>4. QED
    BY <1>1, <2>1, <2>3
<1>4. ASSUME NEW m \in Milestones, BeginStart(w, m) PROVE IInv'
  <2> DEFINE k == [op |-> "start", on |-> m]
  <2>1. m \in Existing /\ milestone[m].status = "PENDING" /\ Begin(w, k)
    BY <1>4 DEF BeginStart
  <2>2. k \in Jobs /\ Founded(k)
    BY <2>1 DEF Jobs, Founded, DraftOnlyEdited, StillThere, OfMilestone
  <2> HIDE DEF k
  <2>3. QED
    BY <1>1, <2>1, <2>2
<1>5. ASSUME NEW m \in Milestones, BeginApprove(w, m) PROVE IInv'
  <2> DEFINE k == [op |-> "approve", on |-> m]
  <2>1. m \in Existing /\ milestone[m].status = "SUBMITTED" /\ Begin(w, k)
    BY <1>5 DEF BeginApprove, CanApprove
  <2>2. versions[m] # <<>>
    BY <2>1 DEF IInv, ApprovalsKept
  <2>3. k \in Jobs /\ Founded(k)
    BY <2>1, <2>2 DEF Jobs, Founded, DraftOnlyEdited, StillThere, OfMilestone
  <2> HIDE DEF k
  <2>4. QED
    BY <1>1, <2>1, <2>3
<1>6. ASSUME NEW m \in Milestones, BeginSubmit(w, m) PROVE IInv'
  <2> DEFINE k == [op |-> "submit", on |-> m, number |-> 0]
  <2>1. m \in Existing /\ milestone[m].status # "DRAFT" /\ Begin(w, k)
    BY <1>6 DEF BeginSubmit, CanSubmit
  <2>2. Len(versions[m]) \in Nat
    BY StoredRows, BoundAssumption
  <2>3. k \in Jobs /\ Founded(k)
    BY <2>1, <2>2, BoundAssumption DEF Jobs, Founded, DraftOnlyEdited, StillThere, OfMilestone
  <2> HIDE DEF k
  <2>4. QED
    BY <1>1, <2>1, <2>3
<1>7. ASSUME NEW m \in Milestones, BeginRevise(w, m) PROVE IInv'
  <2> DEFINE k == [op |-> "revise", on |-> m, number |-> 0, version |-> Latest(m),
                   count |-> milestone[m].revision_count]
  <2>1. m \in Existing /\ milestone[m].status # "DRAFT" /\ versions[m] # <<>> /\ Begin(w, k)
    BY <1>7 DEF BeginRevise, CanApprove
  <2>2. /\ Latest(m) \in Nat \ {0} /\ Latest(m) \in 1 .. Len(versions[m]) /\ versions[m] \in Seq(Nat \ {0})
    BY <2>1, StoredRows, LatestIsLast, BoundAssumption
  <2>3. Holds(versions[m], Latest(m))
    <3>1. \A i \in DOMAIN versions[m] : versions[m][i] = i
      BY DEF IInv, SubmissionsAreNumbered, VersionsAreConsecutive
    <3>2. QED
      BY <2>2, <3>1, VersionsHeld
  <2>4. /\ milestone[m].revision_count \in Nat /\ milestone[m].revision_count <= Len(revisions[m])
        /\ Len(revisions[m]) \in Nat
    BY <2>1, StoredRows, BoundAssumption DEF IInv, SubmissionsAreNumbered, RevisionsFollowSubmissions, Rows
  <2>5. k \in Jobs
    BY <2>2, <2>4 DEF Jobs
  <2>6. Founded(k)
    BY <2>1, <2>3, <2>4 DEF Founded, DraftOnlyEdited, StillThere, OfMilestone
  <2> HIDE DEF k
  <2>7. QED
    BY <1>1, <2>1, <2>5, <2>6
<1>8. CASE BeginActivate(w) \/ BeginRequestCompletion(w) \/ BeginCancel(w)
  <2> DEFINE i == [op |-> "activate"]
             j == [op |-> "cancel"]
             k == [op |-> "request_completion", checked |-> FALSE, seen |-> {}]
  <2>1. Begin(w, i) \/ Begin(w, j) \/ Begin(w, k)
    BY <1>8 DEF BeginActivate, BeginRequestCompletion, BeginCancel
  <2>2. i \in Jobs /\ j \in Jobs /\ k \in Jobs
    BY DEF Jobs
  <2>3. Founded(i) /\ Founded(j) /\ Founded(k)
    BY DEF Founded, DraftOnlyEdited, StillThere, OfMilestone
  <2> HIDE DEF i, j, k
  <2>4. QED
    BY <1>1, <2>1, <2>2, <2>3
<1>9. ASSUME NEW op \in {"confirm", "reject"}, NEW i \in DOMAIN completions, BeginRespond(w, op, i)
      PROVE  IInv'
  <2> DEFINE k == [op |-> op, on |-> i]
  <2>1. i \in Nat
    <3>1. completions \in Seq({"PENDING", "CONFIRMED", "REJECTED"})
      BY DEF IInv, TypeOK
    <3>2. QED
      BY <3>1, Entries
  <2>2. k \in Jobs /\ Founded(k)
    BY <2>1 DEF Jobs, Founded, DraftOnlyEdited, StillThere, OfMilestone
  <2>3. Begin(w, k)
    BY <1>9 DEF BeginRespond
  <2> HIDE DEF k
  <2>4. QED
    BY <1>1, <2>2, <2>3
<1>10. ASSUME NEW x \in Extensions, NEW answer \in {"approved", "rejected"},
              BeginExtension(w, x) \/ BeginAnswer(w, x, answer)
       PROVE  IInv'
  <2> DEFINE j == [op |-> "extend", on |-> x]
             k == [op |-> "answer", on |-> x, answer |-> answer]
  <2>1. Begin(w, j) \/ Begin(w, k)
    BY <1>10 DEF BeginExtension, BeginAnswer
  <2>2. j \in Jobs /\ Founded(j) /\ k \in Jobs /\ Founded(k)
    BY DEF Jobs, Founded, DraftOnlyEdited, StillThere, OfMilestone
  <2> HIDE DEF j, k
  <2>3. QED
    BY <1>1, <2>1, <2>2
<1>11. QED
  BY <1>2, <1>3, <1>4, <1>5, <1>6, <1>7, <1>8, <1>9, <1>10 DEF Fetch

LEMMA NumbersKeep == ASSUME IInv, NEW w \in Workers, Read(w) PROVE IInv'
<1>1. req[w] \in Jobs /\ Founded(req[w]) /\ req \in [Workers -> Jobs]
  BY StoredRows DEF IInv, RequestsFounded
<1>2. ASSUME NEW j \in Jobs, j = req[w], j.op \in {"create", "submit", "revise"}, NEW n \in Nat,
             ReadNumber(w, n),
             j.op = "create" => n <= MaxSequence,
             j.op = "submit" => n \in 0 .. MaxDeliveries /\ n <= Len(versions[j.on]) + 1,
             j.op = "revise" => n <= Len(revisions[j.on]) + 1
      PROVE  IInv'
  <2>1. PICK k : k = [j EXCEPT !.number = n]
    OBVIOUS
  <2>2. k \in Jobs /\ k.op = j.op
    <3>1. CASE j.op = "create"
      <4>1. j \in [op : {"create"}, on : Milestones, number : 0..MaxSequence]
        BY <3>1 DEF Jobs, Idle
      <4>2. QED
        BY <1>2, <2>1, <3>1, <4>1, BoundAssumption DEF Jobs
    <3>2. CASE j.op = "submit"
      <4>1. j \in [op : {"submit"}, on : Milestones, number : 0..MaxDeliveries]
        BY <3>2 DEF Jobs, Idle
      <4>2. QED
        BY <1>2, <2>1, <3>2, <4>1 DEF Jobs
    <3>3. CASE j.op = "revise"
      <4>1. j \in [op : {"revise"}, on : Milestones, number : Nat, version : Nat \ {0}, count : Nat]
        BY <3>3 DEF Jobs, Idle
      <4>2. QED
        BY <1>2, <2>1, <3>3, <4>1 DEF Jobs
    <3>4. QED
      BY <1>2, <3>1, <3>2, <3>3
  <2>3. /\ k.on = j.on
        /\ k.op = "revise" => k.version = j.version /\ k.count = j.count
        /\ k.number = n
    <3>1. CASE j.op = "create"
      <4>1. j \in [op : {"create"}, on : Milestones, number : 0..MaxSequence]
        BY <3>1 DEF Jobs, Idle
      <4>2. QED
        BY <2>1, <2>2, <3>1, <4>1
    <3>2. CASE j.op = "submit"
      <4>1. j \in [op : {"submit"}, on : Milestones, number : 0..MaxDeliveries]
        BY <3>2 DEF Jobs, Idle
      <4>2. QED
        BY <2>1, <2>2, <3>2, <4>1
    <3>3. CASE j.op = "revise"
      <4>1. j \in [op : {"revise"}, on : Milestones, number : Nat, version : Nat \ {0}, count : Nat]
        BY <3>3 DEF Jobs, Idle
      <4>2. QED
        BY <2>1, <2>2, <3>3, <4>1
    <3>4. QED
      BY <1>2, <3>1, <3>2, <3>3
  <2>4. Founded(k)
    <3>0. Founded(j)
      BY <1>1, <1>2
    <3>1. DraftOnlyEdited(k)
      BY <1>2, <2>2, <2>3, <3>0 DEF Founded, DraftOnlyEdited, OfMilestone
    <3>2. k.op = "submit" => k.number <= Len(versions[k.on]) + 1
      <4>1. j.op = "submit" => n <= Len(versions[j.on]) + 1
        BY <1>2, Zenon
      <4>2. QED
        BY <2>2, <2>3, <4>1
    <3>3. k.op = "revise" => /\ Holds(versions[k.on], k.version)
                             /\ k.count <= Len(revisions[k.on])
                             /\ k.number <= Len(revisions[k.on]) + 1
      <4>1. j.op = "revise" => n <= Len(revisions[j.on]) + 1
        BY <1>2, Zenon
      <4>2. j.op = "revise" => Holds(versions[j.on], j.version) /\ j.count <= Len(revisions[j.on])
        BY <3>0 DEF Founded, StillThere
      <4>3. QED
        BY <2>2, <2>3, <4>1, <4>2
    <3>4. StillThere(k)
      BY <1>2, <2>2, <3>2, <3>3 DEF StillThere
    <3>5. QED
      BY <3>1, <3>4 DEF Founded
  <2>5. req' = [req EXCEPT ![w] = k] /\ UNCHANGED <<contract, completions, workVars, extension, counted>>
    BY <1>1, <1>2, <2>1 DEF ReadNumber
  <2>6. QED
    BY <2>2, <2>4, <2>5, ReadsKeep
<1>3. CASE ReadSequence(w)
  <2>1. PICK n \in {LastSequence + 1} \cup 1..MaxSequence : n <= MaxSequence /\ ReadNumber(w, n)
    BY <1>3 DEF ReadSequence
  <2>2. n \in Nat /\ req[w].op = "create"
    BY <1>3, <2>1, LastPlace, BoundAssumption DEF ReadSequence, InFlight
  <2>3. QED
    BY <1>1, <1>2, <2>1, <2>2
<1>4. CASE ReadVersion(w)
  <2>1. /\ req[w].op = "submit" /\ Latest(req[w].on) < MaxDeliveries
        /\ ReadNumber(w, Latest(req[w].on) + 1) /\ req[w].on \in Milestones
    BY <1>1, <1>4, JobShapes DEF ReadVersion, InFlight
  <2>2. Latest(req[w].on) = Len(versions[req[w].on]) /\ Len(versions[req[w].on]) \in Nat
    BY <2>1, LatestIsLast, StoredRows, BoundAssumption
  <2>3. PICK n \in Nat : n = Latest(req[w].on) + 1
    BY <2>2
  <2>4. n \in 0 .. MaxDeliveries /\ n <= Len(versions[req[w].on]) + 1
    BY <2>1, <2>2, <2>3, BoundAssumption
  <2>5. QED
    BY <1>1, <1>2, <2>1, <2>3, <2>4
<1>5. CASE ReadRevisionNumber(w)
  <2>1. /\ req[w].op = "revise" /\ ReadNumber(w, Len(revisions[req[w].on]) + 1)
        /\ req[w].on \in Milestones
    BY <1>1, <1>5, JobShapes DEF ReadRevisionNumber, InFlight
  <2>2. PICK n \in Nat : n = Len(revisions[req[w].on]) + 1
    BY <2>1, StoredRows, BoundAssumption
  <2>3. QED
    BY <1>1, <1>2, <2>1, <2>2
<1>6. CASE CheckCompletion(w)
  <2>1. PICK j \in Jobs : j = req[w]
    BY <1>1
  <2>2. j \in [op : {"request_completion"}, checked : BOOLEAN, seen : SUBSET Milestones]
    BY <1>6, <2>1 DEF CheckCompletion, InFlight, Jobs, Idle
  <2>0. PICK s : s = Existing
    OBVIOUS
  <2>3. PICK k : k = [op |-> "request_completion", checked |-> TRUE, seen |-> s]
    OBVIOUS
  <2>4. k \in Jobs
    BY <2>0, <2>3 DEF Jobs, Existing
  <2>5. Founded(k)
    BY <1>6, <2>0, <2>3 DEF CheckCompletion, AllApproved, Founded, DraftOnlyEdited, StillThere, OfMilestone
  <2>6. req' = [req EXCEPT ![w] = k]
    <3>1. PICK i : i = [j EXCEPT !.checked = TRUE]
      OBVIOUS
    <3>2. i = [op |-> "request_completion", checked |-> TRUE, seen |-> j.seen]
      BY <2>2, <3>1
    <3>3. [i EXCEPT !.seen = s] = k
      <4>1. PICK t : t = j.seen
        OBVIOUS
      <4>2. PICK h : h = [i EXCEPT !.seen = s]
        OBVIOUS
      <4>3. i = [op |-> "request_completion", checked |-> TRUE, seen |-> t]
        BY <3>2, <4>1
      <4>4. h = [op |-> "request_completion", checked |-> TRUE, seen |-> s]
        BY <4>2, <4>3
      <4>5. QED
        BY <2>3, <4>2, <4>4
    <3>4. req' = [req EXCEPT ![w] = [i EXCEPT !.seen = s]]
      BY <1>1, <1>6, <2>0, <2>1, <3>1, Zenon DEF CheckCompletion
    <3>5. QED
      BY <3>3, <3>4
  <2>7. UNCHANGED <<contract, completions, workVars, extension, counted>>
    BY <1>6 DEF CheckCompletion
  <2>8. QED
    BY <2>4, <2>5, <2>6, <2>7, ReadsKeep
<1>7. QED
  BY <1>3, <1>4, <1>5, <1>6 DEF Read

-----------------------------------------------------------------------------
\* Milestones are created, edited or put in another order: their statuses and
\* what was handed in stay.
LEMMA RowsReplaced ==
    ASSUME IInv, milestone' \in [Milestones -> Rows \cup {NoMilestone}],
           \A m \in Existing : milestone'[m] # NoMilestone /\ milestone'[m].status = milestone[m].status,
           \A m \in Milestones \ Existing : milestone'[m] = NoMilestone \/ milestone'[m].status = "DRAFT",
           \A m \in Milestones : milestone'[m].revision_count <= Len(revisions[m]),
           \A m, n \in Existing' : m # n => milestone'[m].sequence # milestone'[n].sequence,
           req' = req \/ \E w \in Workers : req' = [req EXCEPT ![w] = Idle],
           UNCHANGED <<contract, completions, versions, revisions, reopened, extension, counted>>
    PROVE  IInv'
<1>1. /\ Existing \subseteq Existing' /\ Approved' = Approved
      /\ \A m \in Existing' : m \in Milestones /\ milestone'[m] \in Rows
      /\ \A m \in Existing' \ Existing : milestone'[m].status = "DRAFT"
  BY DEF Existing, Approved
<1>2. Grows
  <2>1. \A m \in Milestones : Len(versions[m]) \in Nat /\ Len(revisions[m]) \in Nat
    BY StoredRows, BoundAssumption
  <2>2. QED
    BY <1>1, <2>1 DEF Grows
<1>3. req' \in [Workers -> Jobs] /\ RequestsFounded'
  BY <1>2, RequestsStay, RequestsUntouched, IdleFounded
<1>4. TypeOK'
  <2>1. \A m \in Existing' : /\ milestone'[m].status \in MilestoneStatus
                             /\ milestone'[m].sequence \in 1..MaxSequence
                             /\ milestone'[m].revision_count \in 0..MaxDeliveries
    BY <1>1 DEF Rows
  <2>2. counted' \subseteq Existing' /\ reopened' \subseteq Existing'
    BY <1>1 DEF IInv, TypeOK
  <2>3. QED
    BY <2>1, <2>2 DEF IInv, TypeOK
<1>5. WellTyped'
  BY <1>3 DEF IInv, WellTyped
<1>6. ApprovalsKept'
  BY <1>1 DEF IInv, ApprovalsKept
<1>7. SubmissionsAreNumbered'
  BY DEF IInv, SubmissionsAreNumbered, VersionsAreConsecutive, RevisionsFollowSubmissions, Holds
<1>8. QED
  BY <1>3, <1>4, <1>5, <1>6, <1>7 DEF IInv

LEMMA CreationsKeep == ASSUME IInv, NEW w \in Workers, CommitCreate(w) PROVE IInv'
<1>1. PICK m \in Milestones : m = req[w].on
  BY StoredRows, JobShapes DEF CommitCreate, InFlight
<1>2. PICK n \in 1 .. MaxSequence : n = req[w].number
  BY StoredRows, JobShapes, BoundAssumption DEF CommitCreate, InFlight
<1>3. PICK saved \in Rows : saved = [status |-> "DRAFT", sequence |-> n, revision_count |-> 0]
  <2>1. 0 \in 0 .. MaxDeliveries
    BY BoundAssumption
  <2>2. [status |-> "DRAFT", sequence |-> n, revision_count |-> 0] \in Rows
    BY <2>1 DEF Rows, MilestoneStatus
  <2>3. QED
    BY <2>2
<1>4. /\ m \notin Existing /\ SequenceFree(n) /\ milestone' = [milestone EXCEPT ![m] = saved]
      /\ req' = [req EXCEPT ![w] = Idle]
      /\ UNCHANGED <<contract, completions, versions, revisions, reopened, extension, counted>>
  BY <1>1, <1>2, <1>3 DEF CommitCreate, Finish
<1>5. /\ milestone \in [Milestones -> Rows \cup {NoMilestone}]
      /\ \A d \in Milestones : milestone'[d] = IF d = m THEN saved ELSE milestone[d]
  BY <1>4, StoredRows
<1>6. saved # NoMilestone /\ saved.status = "DRAFT" /\ saved.sequence = n /\ saved.revision_count = 0
  BY <1>3 DEF NoMilestone
<1>7. Existing' = Existing \cup {m}
  BY <1>5, <1>6 DEF Existing
<1>8. \A a, b \in Existing' : a # b => milestone'[a].sequence # milestone'[b].sequence
  BY <1>4, <1>5, <1>6, <1>7, StoredRows DEF IInv, TypeOK, SequenceFree
<1>9. \A d \in Milestones : milestone'[d].revision_count <= Len(revisions[d])
  BY <1>5, <1>6, StoredRows, BoundAssumption DEF IInv, SubmissionsAreNumbered, RevisionsFollowSubmissions
<1>10. /\ milestone' \in [Milestones -> Rows \cup {NoMilestone}]
       /\ \A d \in Existing : milestone'[d] # NoMilestone /\ milestone'[d].status = milestone[d].status
       /\ \A d \in Milestones \ Existing : milestone'[d] = NoMilestone \/ milestone'[d].status = "DRAFT"
  BY <1>4, <1>5, <1>6 DEF Existing
<1>11. QED
  BY <1>4, <1>8, <1>9, <1>10, RowsReplaced

LEMMA EditsKeep == ASSUME IInv, NEW w \in Workers, CommitEdit(w) PROVE IInv'
<1>1. PICK m \in Milestones : m = req[w].on
  BY StoredRows, JobShapes DEF CommitEdit, InFlight
<1>2. PICK saved \in Rows : saved = req[w].saves
  BY StoredRows, JobShapes DEF CommitEdit, InFlight
<1>3. /\ req[w].op = "edit" /\ \A n \in Existing \ {m} : milestone[n].sequence # saved.sequence
      /\ milestone' = [milestone EXCEPT ![m] = saved] /\ req' = [req EXCEPT ![w] = Idle]
      /\ UNCHANGED <<contract, completions, versions, revisions, reopened, extension, counted>>
  BY <1>1, <1>2 DEF CommitEdit, InFlight, Finish
<1>4. /\ m \in Existing /\ milestone[m].status = "DRAFT" /\ saved.status = "DRAFT"
      /\ saved.revision_count <= Len(revisions[m])
  BY <1>1, <1>2, <1>3 DEF IInv, RequestsFounded, Founded, DraftOnlyEdited, OfMilestone
<1>5. /\ milestone \in [Milestones -> Rows \cup {NoMilestone}]
      /\ \A d \in Milestones : milestone'[d] = IF d = m THEN saved ELSE milestone[d]
  BY <1>3, StoredRows
<1>6. saved # NoMilestone
  BY DEF Rows, MilestoneStatus, NoMilestone
<1>7. Existing' = Existing
  BY <1>4, <1>5, <1>6 DEF Existing
<1>8. \A a, b \in Existing' : a # b => milestone'[a].sequence # milestone'[b].sequence
  BY <1>3, <1>5, <1>7, StoredRows DEF IInv, TypeOK
<1>9. \A d \in Milestones : milestone'[d].revision_count <= Len(revisions[d])
  BY <1>4, <1>5 DEF IInv, SubmissionsAreNumbered, RevisionsFollowSubmissions
<1>10. milestone' \in [Milestones -> Rows \cup {NoMilestone}]
  BY <1>3, <1>5
<1>11. \A d \in Existing : milestone'[d] # NoMilestone /\ milestone'[d].status = milestone[d].status
  BY <1>4, <1>5, <1>6 DEF Existing
<1>12. \A d \in Milestones \ Existing : milestone'[d] = NoMilestone
  BY <1>4, <1>5 DEF Existing
<1>13. QED
  BY <1>3, <1>8, <1>9, <1>10, <1>11, <1>12, RowsReplaced

\* Only so many milestones have a place, and they are as many as they have.
LEMMA PlacesSuffice ==
    ASSUME IInv, NEW listed \in SUBSET Existing
    PROVE  Cardinality(listed) \in 0 .. MaxSequence
<1> DEFINE f == [m \in listed |-> milestone[m].sequence]
<1>1. f \in Injection(listed, 1 .. MaxSequence)
  <2>1. \A m \in listed : milestone[m].sequence \in 1 .. MaxSequence
    BY DEF IInv, TypeOK
  <2>2. \A m, n \in listed : milestone[m].sequence = milestone[n].sequence => m = n
    BY DEF IInv, TypeOK
  <2>3. QED
    BY <2>1, <2>2 DEF Injection, IsInjective
<1>2. IsFiniteSet(1 .. MaxSequence) /\ Cardinality(1 .. MaxSequence) = MaxSequence
  BY FS_Interval, BoundAssumption
<1>3. IsFiniteSet(listed) /\ Cardinality(listed) <= MaxSequence
  BY <1>1, <1>2, FS_Injection
<1>4. QED
  BY <1>3, FS_CardinalityType, BoundAssumption

LEMMA ReorderingsKeep == ASSUME IInv, Reorder PROVE IInv'
<1>1. PICK listed \in SUBSET Existing : \E place \in Orders(listed) :
            /\ milestone' = [m \in Milestones |->
                   IF m \in listed THEN [milestone[m] EXCEPT !.sequence = place[m]]
                   ELSE milestone[m]]
            /\ UNCHANGED <<contract, completions, versions, revisions, reopened,
                           extension, counted, req>>
  BY DEF Reorder
<1>2. PICK place \in Orders(listed) :
            /\ milestone' = [m \in Milestones |->
                   IF m \in listed THEN [milestone[m] EXCEPT !.sequence = place[m]]
                   ELSE milestone[m]]
            /\ UNCHANGED <<contract, completions, versions, revisions, reopened,
                           extension, counted, req>>
  BY <1>1
<1>3. /\ \A m \in listed : place[m] \in 1 .. MaxSequence
      /\ \A m, n \in listed : m # n => place[m] # place[n]
      /\ \A m \in listed, n \in Existing \ listed : milestone[n].sequence # place[m]
  BY PlacesSuffice, BoundAssumption DEF Orders
<1>4. ASSUME NEW m \in listed
      PROVE  /\ m \in Milestones /\ milestone'[m] \in Rows /\ milestone'[m].sequence = place[m]
             /\ milestone'[m].status = milestone[m].status
             /\ milestone'[m].revision_count = milestone[m].revision_count
  <2>1. milestone[m] \in Rows /\ m \in Milestones
    BY StoredRows
  <2>2. milestone'[m] = [milestone[m] EXCEPT !.sequence = place[m]]
    BY <1>2, <2>1
  <2>3. QED
    BY <1>3, <2>1, <2>2 DEF Rows
<1>5. \A m \in Milestones \ listed : milestone'[m] = milestone[m]
  BY <1>2
<1>6. \A saved \in Rows : saved # NoMilestone
  BY DEF Rows, MilestoneStatus, NoMilestone
<1>7. Existing' = Existing
  BY <1>4, <1>5, <1>6 DEF Existing
<1>8. milestone' \in [Milestones -> Rows \cup {NoMilestone}]
  <2>1. \A m \in Milestones : milestone'[m] \in Rows \cup {NoMilestone}
    BY <1>4, <1>5, StoredRows
  <2>2. QED
    BY <1>2, <2>1
<1>9. ASSUME NEW m \in Existing', NEW n \in Existing', m # n
      PROVE  milestone'[m].sequence # milestone'[n].sequence
  <2>1. /\ m \in Existing /\ n \in Existing /\ m \in Milestones /\ n \in Milestones
        /\ milestone[m].sequence # milestone[n].sequence
    BY <1>7, <1>9, StoredRows DEF IInv, TypeOK
  <2>2. CASE m \in listed /\ n \in listed
    BY <1>3, <1>4, <1>9, <2>2
  <2>3. CASE m \in listed /\ n \notin listed
    <3>1. milestone'[m].sequence = place[m] /\ milestone'[n] = milestone[n]
      BY <1>4, <1>5, <2>1, <2>3
    <3>2. QED
      BY <1>3, <2>1, <2>3, <3>1
  <2>4. CASE m \notin listed /\ n \in listed
    <3>1. milestone'[n].sequence = place[n] /\ milestone'[m] = milestone[m]
      BY <1>4, <1>5, <2>1, <2>4
    <3>2. QED
      BY <1>3, <2>1, <2>4, <3>1
  <2>5. CASE m \notin listed /\ n \notin listed
    BY <1>5, <2>1, <2>5
  <2>6. QED
    BY <2>2, <2>3, <2>4, <2>5
<1>10. \A m \in Milestones : milestone'[m].revision_count <= Len(revisions[m])
  BY <1>4, <1>5 DEF IInv, SubmissionsAreNumbered, RevisionsFollowSubmissions
<1>11. /\ \A m \in Existing : milestone'[m] # NoMilestone /\ milestone'[m].status = milestone[m].status
       /\ \A m \in Milestones \ Existing : milestone'[m] = NoMilestone \/ milestone'[m].status = "DRAFT"
  BY <1>4, <1>5, <1>6 DEF Existing
<1>12. QED
  BY <1>2, <1>8, <1>9, <1>10, <1>11, RowsReplaced

-----------------------------------------------------------------------------
\* The status column is saved, with what the same transaction inserts: vs and rs
\* are what has now been handed in and asked to be revised.
LEMMA StatusSaved ==
    ASSUME IInv, NEW w \in Workers, NEW m \in Existing, milestone[m].status # "DRAFT",
           NEW status \in MilestoneStatus \ {"DRAFT"}, NEW count \in Nat,
           NEW vs \in Seq(Nat \ {0}), NEW rs \in Seq(Revision),
           SaveStatus(m, status, count),
           versions' = [versions EXCEPT ![m] = vs], revisions' = [revisions EXCEPT ![m] = rs],
           \A i \in DOMAIN vs : vs[i] = i,
           Len(versions[m]) <= Len(vs), Len(vs) <= MaxDeliveries,
           Len(revisions[m]) <= Len(rs), Len(rs) <= MaxDeliveries,
           count <= Len(rs), status \in {"SUBMITTED", "APPROVED"} => vs # <<>>,
           \A i \in DOMAIN rs : Holds(vs, rs[i].version) /\ rs[i].number <= i,
           req' = [req EXCEPT ![w] = Idle],
           UNCHANGED <<contract, completions, extension, counted>>
    PROVE  IInv'
<1>0. /\ m \in Milestones /\ milestone[m] \in Rows /\ milestone \in [Milestones -> Rows \cup {NoMilestone}]
      /\ versions \in [Milestones -> Seq(Nat \ {0})] /\ revisions \in [Milestones -> Seq(Revision)]
      /\ Len(vs) \in Nat /\ Len(rs) \in Nat
  BY StoredRows, Entries DEF IInv, TypeOK
<1>1. PICK saved \in Rows :
         saved = [status |-> status, sequence |-> milestone[m].sequence, revision_count |-> count]
  <2>1. count \in 0 .. MaxDeliveries /\ milestone[m].sequence \in 1 .. MaxSequence
    BY <1>0, BoundAssumption DEF Rows
  <2>2. [status |-> status, sequence |-> milestone[m].sequence, revision_count |-> count] \in Rows
    BY <2>1 DEF Rows
  <2>3. QED
    BY <2>2
<1>2. milestone' = [milestone EXCEPT ![m] = saved]
  <2>1. PICK f : f = [milestone EXCEPT ![m].status = status]
    OBVIOUS
  <2>2. PICK i : i = [milestone[m] EXCEPT !.status = status]
    OBVIOUS
  <2>3. f = [milestone EXCEPT ![m] = i] /\ f[m] = i
    BY <1>0, <2>1, <2>2
  <2>4. i = [status |-> status, sequence |-> milestone[m].sequence,
             revision_count |-> milestone[m].revision_count]
    BY <1>0, <2>2 DEF Rows
  <2>5. PICK c : c = milestone[m].sequence
    OBVIOUS
  <2>6. PICK d : d = milestone[m].revision_count
    OBVIOUS
  <2>7. i = [status |-> status, sequence |-> c, revision_count |-> d]
    BY <2>4, <2>5, <2>6
  <2>8. PICK k : k = [i EXCEPT !.revision_count = count]
    OBVIOUS
  <2>9. k = [status |-> status, sequence |-> c, revision_count |-> count]
    BY <2>7, <2>8
  <2>10. k = saved
    BY <1>1, <2>5, <2>9
  <2>11. milestone' = [f EXCEPT ![m].revision_count = count]
    BY <2>1, Zenon DEF SaveStatus
  <2>12. milestone' = [f EXCEPT ![m] = k]
    BY <2>3, <2>8, <2>11
  <2>13. QED
    BY <1>0, <2>3, <2>10, <2>12
<1>3. /\ \A d \in Milestones : milestone'[d] = IF d = m THEN saved ELSE milestone[d]
      /\ \A d \in Milestones : versions'[d] = IF d = m THEN vs ELSE versions[d]
      /\ \A d \in Milestones : revisions'[d] = IF d = m THEN rs ELSE revisions[d]
      /\ versions' \in [Milestones -> Seq(Nat \ {0})] /\ revisions' \in [Milestones -> Seq(Revision)]
      /\ milestone' \in [Milestones -> Rows \cup {NoMilestone}]
  BY <1>0, <1>2
<1>4. /\ saved # NoMilestone /\ saved.status = status /\ saved.revision_count = count
      /\ saved.sequence = milestone[m].sequence
  BY <1>1 DEF NoMilestone, MilestoneStatus
<1>5. Existing' = Existing
  BY <1>3, <1>4 DEF Existing
<1>6. Approved \cup reopened \subseteq (Approved \cup reopened)' /\ reopened' \subseteq Existing
  <2>1. \A d \in Existing : d # m => (d \in Approved <=> d \in Approved')
    BY <1>3, <1>5 DEF Approved, Existing
  <2>2. m \in Approved' <=> status = "APPROVED"
    BY <1>0, <1>3, <1>4, <1>5 DEF Approved
  <2>3. m \in Approved => m \in Approved' \/ m \in reopened'
    BY <2>2 DEF SaveStatus, Approved
  <2>4. reopened \subseteq reopened' /\ reopened' \subseteq reopened \cup {m}
    BY DEF SaveStatus
  <2>5. Approved \subseteq Existing /\ reopened \subseteq Existing
    BY DEF Approved, IInv, TypeOK
  <2>6. QED
    BY <2>1, <2>3, <2>4, <2>5
<1>7. \A d \in Milestones :
         /\ Len(versions[d]) \in Nat /\ Len(revisions[d]) \in Nat
         /\ Len(versions[d]) <= MaxDeliveries /\ Len(revisions[d]) <= MaxDeliveries
         /\ \A i \in DOMAIN versions[d] : versions[d][i] = i
         /\ versions[d] \in Seq(Nat \ {0})
         /\ versions[d] = <<>> <=> Len(versions[d]) = 0
  BY StoredRows, BoundAssumption DEF IInv, SubmissionsAreNumbered, VersionsAreConsecutive
<1>8. Grows
  <2>1. \A d \in Existing : /\ milestone'[d] # NoMilestone
                            /\ milestone'[d].status = "DRAFT" <=> milestone[d].status = "DRAFT"
    BY <1>3, <1>4 DEF Existing
  <2>2. ASSUME NEW d \in Milestones
        PROVE  /\ Len(versions'[d]) \in Nat /\ Len(versions[d]) <= Len(versions'[d])
               /\ versions[d] # <<>> => versions'[d] # <<>>
               /\ \A n \in Nat : Holds(versions[d], n) => Holds(versions'[d], n)
               /\ Len(revisions'[d]) \in Nat /\ Len(revisions[d]) <= Len(revisions'[d])
    <3>1. CASE d # m
      <4>1. versions'[d] = versions[d] /\ revisions'[d] = revisions[d]
        BY <1>3, <3>1
      <4>2. QED
        BY <1>7, <4>1
    <3>2. CASE d = m
      <4>1. versions'[d] = vs /\ revisions'[d] = rs
        BY <1>3, <3>2
      <4>2. \A n \in Nat : (Holds(versions[m], n) <=> n \in 1 .. Len(versions[m]))
                           /\ (Holds(vs, n) <=> n \in 1 .. Len(vs))
        BY <1>0, <1>7, VersionsHeld
      <4>3. \A n \in Nat : Holds(versions[m], n) => Holds(vs, n)
        BY <1>0, <1>7, <4>2
      <4>4. versions[m] # <<>> => vs # <<>>
        BY <1>0, <1>7, Entries
      <4>5. QED
        BY <1>0, <3>2, <4>1, <4>3, <4>4
    <3>3. QED
      BY <3>1, <3>2
  <2>3. DOMAIN completions \subseteq DOMAIN completions'
    OBVIOUS
  <2>4. QED
    BY <1>6, <2>1, <2>2, <2>3 DEF Grows
<1>9. req' \in [Workers -> Jobs] /\ RequestsFounded'
  BY <1>8, RequestsStay, IdleFounded
<1>10. TypeOK'
  <2>1. \A d \in Existing' : milestone'[d] \in Rows /\ d \in Milestones
    BY <1>3, <1>5, StoredRows
  <2>2. \A d \in Existing' : /\ milestone'[d].status \in MilestoneStatus
                             /\ milestone'[d].sequence \in 1..MaxSequence
                             /\ milestone'[d].revision_count \in 0..MaxDeliveries
    BY <2>1 DEF Rows
  <2>3. \A d \in Existing : milestone'[d].sequence = milestone[d].sequence
    BY <1>3, <1>4 DEF Existing
  <2>4. \A d, n \in Existing' : d # n => milestone'[d].sequence # milestone'[n].sequence
    BY <1>5, <2>3 DEF IInv, TypeOK
  <2>5. counted' \subseteq Existing' /\ reopened' \subseteq Existing'
    BY <1>5, <1>6 DEF IInv, TypeOK
  <2>6. QED
    BY <1>3, <2>2, <2>4, <2>5 DEF IInv, TypeOK
<1>11. WellTyped'
  <2>1. ASSUME NEW d \in Milestones
        PROVE  Len(versions'[d]) <= MaxDeliveries /\ Len(revisions'[d]) <= MaxDeliveries
    BY <1>3, <1>7
  <2>2. QED
    BY <1>3, <1>9, <2>1 DEF WellTyped
<1>12. ApprovalsKept'
  <2>1. counted' \subseteq (Approved \cup reopened)'
    BY <1>6 DEF IInv, ApprovalsKept
  <2>2. ASSUME NEW d \in Existing', milestone'[d].status \in {"SUBMITTED", "APPROVED"}
        PROVE  versions'[d] # <<>>
    BY <1>3, <1>4, <1>5, <2>2, StoredRows DEF IInv, ApprovalsKept
  <2>3. QED
    BY <2>1, <2>2 DEF ApprovalsKept
<1>13. SubmissionsAreNumbered'
  <2>1. ASSUME NEW d \in Milestones
        PROVE  /\ \A i \in DOMAIN versions'[d] : versions'[d][i] = i
               /\ milestone'[d].revision_count <= Len(revisions'[d])
               /\ \A i \in DOMAIN revisions'[d] :
                     /\ Holds(versions'[d], revisions'[d][i].version)
                     /\ revisions'[d][i].number <= i
    <3>1. CASE d # m
      <4>1. /\ versions'[d] = versions[d] /\ revisions'[d] = revisions[d]
            /\ milestone'[d] = milestone[d]
        BY <1>3, <3>1
      <4>2. QED
        BY <4>1 DEF IInv, SubmissionsAreNumbered, VersionsAreConsecutive, RevisionsFollowSubmissions
    <3>2. CASE d = m
      <4>1. versions'[d] = vs /\ revisions'[d] = rs /\ milestone'[d] = saved
        BY <1>3, <3>2
      <4>2. QED
        BY <1>4, <4>1
    <3>3. QED
      BY <3>1, <3>2
  <2>2. QED
    BY <2>1 DEF SubmissionsAreNumbered, VersionsAreConsecutive, RevisionsFollowSubmissions, Holds
<1>14. QED
  BY <1>9, <1>10, <1>11, <1>12, <1>13 DEF IInv
LEMMA StatusesKeep ==
    ASSUME IInv, NEW w \in Workers, CommitStart(w) \/ CommitApprove(w) PROVE IInv'
<1>1. PICK j \in Jobs : j = req[w]
  BY StoredRows
<1>2. /\ j.op \in {"start", "approve"}
      /\ CommitStart(w) => j.op = "start"
      /\ CommitApprove(w) => j.op = "approve"
  BY <1>1 DEF CommitStart, CommitApprove, InFlight
<1>3. PICK m \in Existing : m = j.on /\ milestone[m].status # "DRAFT"
                            /\ (j.op = "approve" => versions[m] # <<>>)
  <2>1. Founded(j)
    BY <1>1 DEF IInv, RequestsFounded
  <2>2. QED
    BY <1>2, <2>1 DEF Founded, DraftOnlyEdited, StillThere, OfMilestone
<1>4. PICK count \in Nat : count = milestone[m].revision_count
  BY <1>3, StoredRows, BoundAssumption DEF Rows
<1>5. PICK status \in {"IN_PROGRESS", "APPROVED"} :
         SaveStatus(m, status, count) /\ (status = "APPROVED" => versions[m] # <<>>)
  <2>1. CASE CommitStart(w)
    BY <1>1, <1>3, <1>4, <2>1 DEF CommitStart
  <2>2. CASE CommitApprove(w)
    BY <1>1, <1>2, <1>3, <1>4, <2>2 DEF CommitApprove
  <2>3. QED
    BY <2>1, <2>2
<1>6. /\ req' = [req EXCEPT ![w] = Idle]
      /\ UNCHANGED <<contract, completions, versions, revisions, extension, counted>>
  BY DEF CommitStart, CommitApprove, Finish
<1>7. PICK vs \in Seq(Nat \ {0}) : vs = versions[m]
  BY <1>3, StoredRows
<1>8. PICK rs \in Seq(Revision) : rs = revisions[m]
  BY <1>3, StoredRows
<1>9. versions' = [versions EXCEPT ![m] = vs] /\ revisions' = [revisions EXCEPT ![m] = rs]
  BY <1>3, <1>6, <1>7, <1>8, StoredRows DEF IInv, TypeOK
<1>10. /\ \A i \in DOMAIN vs : vs[i] = i
       /\ Len(versions[m]) <= Len(vs) /\ Len(vs) <= MaxDeliveries
       /\ Len(revisions[m]) <= Len(rs) /\ Len(rs) <= MaxDeliveries
       /\ count <= Len(rs)
       /\ \A i \in DOMAIN rs : Holds(vs, rs[i].version) /\ rs[i].number <= i
  <2>1. m \in Milestones /\ Len(vs) \in Nat /\ Len(rs) \in Nat
        /\ Len(vs) <= MaxDeliveries /\ Len(rs) <= MaxDeliveries
    BY <1>3, <1>7, <1>8, StoredRows, BoundAssumption
  <2>2. QED
    BY <1>4, <1>7, <1>8, <2>1
    DEF IInv, SubmissionsAreNumbered, VersionsAreConsecutive, RevisionsFollowSubmissions
<1>11. status \in MilestoneStatus \ {"DRAFT"} /\ (status \in {"SUBMITTED", "APPROVED"} => vs # <<>>)
  BY <1>5, <1>7 DEF MilestoneStatus
<1>12. QED
  BY <1>3, <1>5, <1>6, <1>9, <1>10, <1>11, StatusSaved

LEMMA SubmissionsKeep == ASSUME IInv, NEW w \in Workers, CommitSubmit(w) PROVE IInv'
<1>1. PICK j \in Jobs : j = req[w]
  BY StoredRows
<1>2. PICK m \in Existing : m = j.on /\ milestone[m].status # "DRAFT"
                            /\ j.number <= Len(versions[m]) + 1
  <2>1. Founded(j) /\ j.op = "submit"
    BY <1>1 DEF IInv, RequestsFounded, CommitSubmit, InFlight
  <2>2. QED
    BY <2>1 DEF Founded, DraftOnlyEdited, StillThere, OfMilestone
<1>3. PICK count \in Nat : count = milestone[m].revision_count
  BY <1>2, StoredRows, BoundAssumption DEF Rows
<1>4. PICK n \in 1 .. MaxDeliveries : n = j.number
  BY <1>1, JobShapes, BoundAssumption DEF CommitSubmit, InFlight
<1>5. PICK held \in Seq(Nat \ {0}) : held = versions[m]
  BY <1>2, StoredRows
<1>6. PICK vs : vs = Append(held, n)
  OBVIOUS
<1>7. PICK rs \in Seq(Revision) : rs = revisions[m]
  BY <1>2, StoredRows
<1>8. /\ ~Holds(held, n) /\ SaveStatus(m, "SUBMITTED", count)
      /\ versions' = [versions EXCEPT ![m] = vs]
      /\ req' = [req EXCEPT ![w] = Idle]
      /\ UNCHANGED <<contract, completions, revisions, extension, counted>>
  BY <1>1, <1>2, <1>3, <1>4, <1>5, <1>6 DEF CommitSubmit, VersionFree, Finish
<1>9. revisions' = [revisions EXCEPT ![m] = rs]
  BY <1>7, <1>8 DEF IInv, TypeOK
<1>10. /\ \A i \in DOMAIN held : held[i] = i
       /\ Len(held) \in Nat /\ DOMAIN held = 1 .. Len(held)
  BY <1>2, <1>5, Entries DEF IInv, SubmissionsAreNumbered, VersionsAreConsecutive, Existing
<1>11. n = Len(held) + 1
  <2>1. n \notin 1 .. Len(held)
    <3>1. \A k \in Nat : Holds(held, k) <=> k \in 1 .. Len(held)
      BY <1>10, VersionsHeld
    <3>2. n \in Nat
      BY <1>4
    <3>3. QED
      BY <1>8, <3>1, <3>2
  <2>2. n <= Len(held) + 1
    BY <1>2, <1>4, <1>5
  <2>3. QED
    BY <1>4, <1>10, <2>1, <2>2
<1>12. /\ vs \in Seq(Nat \ {0}) /\ Len(vs) = n /\ DOMAIN vs = 1 .. n
       /\ \A i \in 1 .. Len(held) : vs[i] = held[i]
       /\ vs[n] = n /\ n \in Nat \ {0}
  <2>1. n \in Nat \ {0}
    BY <1>4
  <2>2. QED
    BY <1>6, <1>10, <1>11, <2>1, Appended
<1>13. \A i \in DOMAIN vs : vs[i] = i
  BY <1>10, <1>11, <1>12
<1>14. /\ Len(versions[m]) <= Len(vs) /\ Len(vs) <= MaxDeliveries /\ vs # <<>>
  BY <1>4, <1>5, <1>10, <1>11, <1>12
<1>15. /\ Len(revisions[m]) <= Len(rs) /\ Len(rs) <= MaxDeliveries
       /\ count <= Len(rs)
  BY <1>2, <1>3, <1>7, StoredRows, BoundAssumption
  DEF IInv, SubmissionsAreNumbered, RevisionsFollowSubmissions
<1>16. \A i \in DOMAIN rs : Holds(vs, rs[i].version) /\ rs[i].number <= i
  <2>1. ASSUME NEW i \in DOMAIN rs PROVE Holds(vs, rs[i].version) /\ rs[i].number <= i
    <3>1. Holds(held, rs[i].version) /\ rs[i].number <= i /\ rs[i].version \in Nat
      <4>1. rs[i] \in Revision
        BY <1>7, Entries
      <4>2. QED
        BY <1>2, <1>5, <1>7, <4>1
        DEF IInv, SubmissionsAreNumbered, RevisionsFollowSubmissions, Revision, Existing
    <3>2. rs[i].version \in 1 .. Len(held)
      BY <1>10, <3>1, VersionsHeld
    <3>3. rs[i].version \in 1 .. Len(vs)
      BY <1>10, <1>11, <1>12, <3>2
    <3>4. QED
      BY <1>12, <1>13, <3>1, <3>3, VersionsHeld
  <2>2. QED
    BY <2>1
<1>17. "SUBMITTED" \in MilestoneStatus \ {"DRAFT"}
  BY DEF MilestoneStatus
<1>18. QED
  BY <1>2, <1>8, <1>9, <1>12, <1>13, <1>14, <1>15, <1>16, <1>17, StatusSaved

LEMMA RevisionsKeep == ASSUME IInv, NEW w \in Workers, CommitRevise(w) PROVE IInv'
<1>1. PICK j \in Jobs : j = req[w]
  BY StoredRows
<1>2. /\ j.op = "revise" /\ j.number \in Nat /\ j.version \in Nat \ {0} /\ j.count \in Nat
  BY <1>1, JobShapes DEF CommitRevise, InFlight
<1>3. PICK m \in Existing : /\ m = j.on /\ milestone[m].status # "DRAFT"
                            /\ Holds(versions[m], j.version)
                            /\ j.count <= Len(revisions[m])
                            /\ j.number <= Len(revisions[m]) + 1
  <2>1. Founded(j)
    BY <1>1 DEF IInv, RequestsFounded
  <2>2. QED
    BY <1>2, <2>1 DEF Founded, DraftOnlyEdited, StillThere, OfMilestone
<1>4. PICK count \in Nat : count = j.count + 1
  BY <1>2
<1>5. PICK e \in Revision : e = [number |-> j.number, version |-> j.version]
  <2>1. j.number # 0
    BY <1>1 DEF CommitRevise
  <2>2. QED
    BY <1>2, <2>1 DEF Revision
<1>6. PICK vs \in Seq(Nat \ {0}) : vs = versions[m]
  BY <1>3, StoredRows
<1>7. PICK held \in Seq(Revision) : held = revisions[m]
  BY <1>3, StoredRows
<1>8. PICK rs : rs = Append(held, e)
  OBVIOUS
<1>9. /\ Len(held) < MaxDeliveries /\ SaveStatus(m, "REVISION_REQUESTED", count)
      /\ revisions' = [revisions EXCEPT ![m] = rs]
      /\ req' = [req EXCEPT ![w] = Idle]
      /\ UNCHANGED <<contract, completions, versions, extension, counted>>
  BY <1>1, <1>3, <1>4, <1>5, <1>7, <1>8 DEF CommitRevise, RevisionCount, Finish
<1>10. versions' = [versions EXCEPT ![m] = vs]
  BY <1>6, <1>9 DEF IInv, TypeOK
<1>11. /\ rs \in Seq(Revision) /\ Len(held) \in Nat /\ DOMAIN held = 1 .. Len(held)
       /\ Len(rs) = Len(held) + 1 /\ DOMAIN rs = 1 .. Len(held) + 1
       /\ \A i \in 1 .. Len(held) : rs[i] = held[i]
       /\ rs[Len(held) + 1] = e
  BY <1>8, Appended
<1>12. /\ Len(revisions[m]) <= Len(rs) /\ Len(rs) <= MaxDeliveries /\ count <= Len(rs)
  BY <1>2, <1>3, <1>4, <1>7, <1>9, <1>11, BoundAssumption
<1>13. \A i \in DOMAIN rs : Holds(vs, rs[i].version) /\ rs[i].number <= i
  <2>1. e.number = j.number /\ e.version = j.version
    BY <1>5
  <2>2. ASSUME NEW i \in DOMAIN rs PROVE Holds(vs, rs[i].version) /\ rs[i].number <= i
    <3>1. CASE i \in 1 .. Len(held)
      BY <1>3, <1>6, <1>7, <1>11, <3>1
      DEF IInv, SubmissionsAreNumbered, RevisionsFollowSubmissions, Existing
    <3>2. CASE i = Len(held) + 1
      BY <1>3, <1>6, <1>7, <1>11, <2>1, <3>2
    <3>3. QED
      BY <1>11, <3>1, <3>2
  <2>3. QED
    BY <2>2
<1>14. /\ Len(versions[m]) <= Len(vs) /\ Len(vs) <= MaxDeliveries /\ \A i \in DOMAIN vs : vs[i] = i
  BY <1>3, <1>6, StoredRows, BoundAssumption
  DEF IInv, SubmissionsAreNumbered, VersionsAreConsecutive
<1>15. "REVISION_REQUESTED" \in MilestoneStatus \ {"DRAFT"}
  BY DEF MilestoneStatus
<1>16. QED
  BY <1>3, <1>9, <1>10, <1>11, <1>12, <1>13, <1>14, <1>15, StatusSaved

-----------------------------------------------------------------------------
LEMMA ContractKeeps == ASSUME IInv, NEW w \in Workers, CommitContract(w) PROVE IInv'
<1>1. PICK j \in Jobs : j = req[w] /\ j # Idle
  BY StoredRows DEF CommitContract, InFlight
<1>2. /\ j.op \in {"activate", "request_completion", "confirm", "reject", "cancel"}
      /\ InFlight(w, "activate") <=> j.op = "activate"
      /\ InFlight(w, "request_completion") <=> j.op = "request_completion"
      /\ InFlight(w, "confirm") <=> j.op = "confirm"
      /\ InFlight(w, "reject") <=> j.op = "reject"
      /\ InFlight(w, "cancel") <=> j.op = "cancel"
      /\ Founded(j)
  BY <1>1 DEF IInv, RequestsFounded, CommitContract, InFlight
<1>3. contract' \in ContractStatus
  <2>1. contract' = SavedContractStatus(w)
    BY DEF CommitContract
  <2>2. QED
    BY <1>2, <2>1 DEF SavedContractStatus, ContractStatus
<1>4. /\ req' = [req EXCEPT ![w] = Idle]
      /\ UNCHANGED <<milestone, versions, revisions, reopened>> /\ extension' = extension
  BY DEF CommitContract, Finish, workVars
<1>5. completions \in Seq({"PENDING", "CONFIRMED", "REJECTED"}) /\ DOMAIN completions = 1 .. Len(completions)
  BY Entries DEF IInv, TypeOK
<1>6. /\ completions' \in Seq({"PENDING", "CONFIRMED", "REJECTED"})
      /\ DOMAIN completions \subseteq DOMAIN completions'
      /\ counted' = counted \/ (counted' \subseteq Existing /\ counted' \subseteq Approved \cup reopened)
  <2>1. CASE j.op = "request_completion"
    <3>1. j.checked /\ completions' = Append(completions, "PENDING") /\ counted' = j.seen
      BY <1>1, <1>2, <2>1 DEF CommitContract
    <3>2. j.seen \subseteq Approved \cup reopened
      BY <1>2, <2>1, <3>1 DEF Founded, StillThere
    <3>3. Approved \cup reopened \subseteq Existing
      BY DEF IInv, TypeOK, Approved
    <3>4. /\ Append(completions, "PENDING") \in Seq({"PENDING", "CONFIRMED", "REJECTED"})
          /\ Len(completions) \in Nat
          /\ DOMAIN Append(completions, "PENDING") = 1 .. Len(completions) + 1
      BY <1>5, Appended
    <3>5. DOMAIN completions \subseteq DOMAIN completions'
      BY <1>5, <3>1, <3>4
    <3>6. QED
      BY <3>1, <3>2, <3>3, <3>4, <3>5
  <2>2. CASE j.op \in {"confirm", "reject"}
    <3>1. PICK answer \in {"CONFIRMED", "REJECTED"} :
             completions' = [completions EXCEPT ![j.on] = answer] /\ counted' = counted
      BY <1>1, <1>2, <2>2 DEF CommitContract
    <3>2. j.on \in DOMAIN completions
      BY <1>2, <2>2 DEF Founded, StillThere
    <3>3. QED
      BY <1>5, <3>1, <3>2, Replaced
  <2>3. CASE j.op \in {"activate", "cancel"}
    BY <1>2, <1>5, <2>3 DEF CommitContract
  <2>4. QED
    BY <1>2, <2>1, <2>2, <2>3
<1>7. extension' \in [Extensions -> ExtensionStatus]
  BY <1>4 DEF IInv, TypeOK
<1>8. QED
  BY <1>3, <1>4, <1>6, <1>7, IdleFounded, WorkUntouched

LEMMA ExtensionsKeep ==
    ASSUME IInv, NEW w \in Workers, CommitExtension(w) \/ CommitAnswer(w) PROVE IInv'
<1>1. PICK j \in Jobs : j = req[w] /\ j.op \in {"extend", "answer"}
  BY StoredRows DEF CommitExtension, CommitAnswer, InFlight
<1>2. PICK status \in ExtensionStatus : SaveExtension(w, status)
  <2>1. CASE CommitExtension(w)
    BY <2>1 DEF CommitExtension, ExtensionStatus
  <2>2. CASE CommitAnswer(w)
    <3>1. j.answer \in {"approved", "rejected"}
      BY <1>1, <2>2, JobShapes DEF CommitAnswer, InFlight
    <3>2. QED
      BY <1>1, <2>2, <3>1 DEF CommitAnswer, ExtensionStatus
  <2>3. QED
    BY <2>1, <2>2
<1>3. /\ req' = [req EXCEPT ![w] = Idle]
      /\ UNCHANGED <<milestone, versions, revisions, reopened>>
      /\ contract' = contract /\ completions' = completions /\ counted' = counted
      /\ extension' = [extension EXCEPT ![j.on] = status]
  BY <1>1, <1>2 DEF SaveExtension, Finish, workVars
<1>4. extension' \in [Extensions -> ExtensionStatus]
  BY <1>1, <1>3, JobShapes DEF IInv, TypeOK
<1>5. contract' \in ContractStatus /\ completions' \in Seq({"PENDING", "CONFIRMED", "REJECTED"})
  BY <1>3 DEF IInv, TypeOK
<1>6. QED
  BY <1>3, <1>4, <1>5, IdleFounded, WorkUntouched

LEMMA ExecutionStep == IInv /\ [Next]_vars => IInv'
<1> SUFFICES ASSUME IInv, [Next]_vars PROVE IInv'
  OBVIOUS
<1>1. CASE UNCHANGED vars
  <2>1. UNCHANGED <<contract, completions, milestone, versions, revisions, reopened,
                    extension, counted, req>>
    BY <1>1 DEF vars, workVars
  <2>2. QED
    BY <2>1 DEF IInv, TypeOK, WellTyped, RequestsFounded, Founded, DraftOnlyEdited, StillThere,
                ApprovalsKept, SubmissionsAreNumbered, VersionsAreConsecutive,
                RevisionsFollowSubmissions, Existing, Approved, Holds
<1>2. ASSUME NEW w \in Workers, Fetch(w) PROVE IInv'
  BY <1>2, FetchesKeep
<1>3. ASSUME NEW w \in Workers, Read(w) PROVE IInv'
  BY <1>3, NumbersKeep
<1>4. ASSUME NEW w \in Workers, Commit(w) PROVE IInv'
  BY <1>4, CreationsKeep, EditsKeep, StatusesKeep, SubmissionsKeep, RevisionsKeep,
     ContractKeeps, ExtensionsKeep DEF Commit
<1>5. ASSUME NEW w \in Workers, Rollback(w) PROVE IInv'
  BY <1>5, ReadsKeep, IdleFounded DEF Rollback, Finish
<1>6. CASE Reorder
  BY <1>6, ReorderingsKeep
<1>7. QED
  BY <1>1, <1>2, <1>3, <1>4, <1>5, <1>6 DEF Next

-----------------------------------------------------------------------------
\* A behaviour of the contract's work, or of its stages, which leave the work alone.
LEMMA WorkStarts == WorkInit => IInv
BY ExecutionInit DEF WorkInit

LEMMA WorkSteps == IInv /\ [WorkNext]_<<part, vars, stageVars>> => IInv'
<1>1. [WorkNext]_<<part, vars, stageVars>> => [Next]_vars
  BY DEF WorkNext
<1>2. QED
  BY <1>1, ExecutionStep

\* Drafts are only edited, and whatever a request in flight has read of a milestone's
\* submissions and revisions is still there when it commits (the fetches and saves of
\* execution_views.py and execution_services.py).
THEOREM Invariance == WorkSpec => []IInv
<1>1. WorkInit => IInv
  BY WorkStarts
<1>2. IInv /\ [WorkNext]_<<part, vars, stageVars>> => IInv'
  BY WorkSteps
<1>3. QED
  BY <1>1, <1>2, PTL DEF WorkSpec

\* The rows keep their types, and no two milestones share a place, whatever is created,
\* edited or put in another order at once (ExecutionMilestone's unique_together).
THEOREM TypeCorrect == WorkSpec => []TypeOK
<1>1. IInv => TypeOK
  BY DEF IInv
<1>2. QED
  BY <1>1, Invariance, PTL

\* The submissions of a milestone are numbered without a gap, every revision request is
\* about one of them, and the counter never runs ahead of the requests
\* (submit_deliverable, request_revision).
THEOREM AlwaysNumbered == WorkSpec => []SubmissionsAreNumbered
<1>1. IInv => SubmissionsAreNumbered
  BY DEF IInv
<1>2. QED
  BY <1>1, Invariance, PTL

\* A completion that was asked for covers milestones that are approved, or whose approval
\* an overlapping save has overwritten, and whatever is approved had been handed in
\* (check_completion_eligibility, approve_milestone).
THEOREM CompletionIsCovered == WorkSpec => []CompletionCoversMilestones
<1>1. IInv => CompletionCoversMilestones
  BY DEF IInv, ApprovalsKept, CompletionCoversMilestones, Approved
<1>2. QED
  BY <1>1, Invariance, PTL

-----------------------------------------------------------------------------
(***************************************************************************)
(* Payment stages.                                                         *)
(***************************************************************************)
\* The total of a sequence is its sum.
LEMMA StageTotal == ASSUME NEW f PROVE S!Total(f) = SumFunction(f)
BY Zenon DEF S!Total, S!SumFunction, S!SumFunctionOnSet, S!FoldFunctionOnSet, S!MapThenFoldSet,
             SumFunction, SumFunctionOnSet, FoldFunctionOnSet, MapThenFoldSet

(* Splitting.                                                              *)

LEMMA MostStages ==
    S!Max(Counts) \in Nat /\ \A n \in Counts : n \in Nat /\ n <= S!Max(Counts)
<1>1. \E m \in Counts : \A n \in Counts : m >= n
  BY TermsAssumption
<1>2. QED
  BY <1>1, TermsAssumption DEF S!Max

LEMMA DealTypes ==
    ASSUME NEW t \in S!Deals
    PROVE  t.amount \in Nat \ {0} /\ t.count \in Nat \ {0} /\ t.count \in Counts
           /\ t.count <= S!Max(Counts) /\ t.amount \in Prices
<1>1. t.amount \in Prices /\ t.count \in Counts /\ t.amount > 0 /\ t.count > 0
  BY DEF S!Deals, S!Ready
<1>2. PICK a \in Int : a = t.amount
  BY <1>1, TermsAssumption
<1>3. PICK n \in Nat : n = t.count /\ n <= S!Max(Counts)
  BY <1>1, MostStages
<1>4. a \in Nat \ {0} /\ n \in Nat \ {0}
  BY <1>1, <1>2, <1>3
<1>5. QED
  BY <1>1, <1>2, <1>3, <1>4

LEMMA ShareType == ASSUME NEW a \in Nat, NEW n \in Nat \ {0} PROVE S!Share(a, n) \in Nat
<1>1. PICK q \in Nat : q = a \div n
  OBVIOUS
<1>2. QED
  BY <1>1 DEF S!Share

LEMMA SplitAddsUp ==
    ASSUME NEW t \in S!Deals
    PROVE  /\ S!Split(t.amount, t.count) \in [1 .. t.count -> Int]
           /\ SumFunction(S!Split(t.amount, t.count)) = t.amount
<1>1. PICK a \in Nat : a = t.amount
  BY DealTypes
<1>2. PICK m \in Nat : t.count = m + 1
  <2>1. PICK n \in Nat : n = t.count /\ n # 0
    BY DealTypes
  <2>2. PICK m \in Int : m = n - 1
    OBVIOUS
  <2>3. m \in Nat /\ n = m + 1
    BY <2>1, <2>2
  <2>4. QED
    BY <2>1, <2>3
<1>3. PICK b \in Nat : b = S!Share(a, m + 1)
  BY ShareType
<1>4. PICK f : f = [k \in 1 .. m |-> b]
  OBVIOUS
<1>5. PICK g : g = S!Split(a, m + 1)
  OBVIOUS
<1>6. f \in [1 .. m -> Int]
  BY <1>4
<1>7. PICK c \in Int : c = b * m
  OBVIOUS
<1>8. g = [k \in 1 .. m + 1 |-> IF k < m + 1 THEN b ELSE a - c]
  <2>1. ((m + 1) - 1) * b = c
    BY <1>7
  <2>2. g = [k \in 1 .. m + 1 |-> IF k < m + 1 THEN b ELSE a - ((m + 1) - 1) * b]
    BY <1>3, <1>5, Zenon DEF S!Split
  <2>3. QED
    BY <2>1, <2>2
<1>9. g \in [1 .. m + 1 -> Int] /\ (\A k \in 1 .. m : g[k] = f[k]) /\ g[m + 1] = a - c
  BY <1>4, <1>8
<1>10. SumFunction(f) = b * m
  <2>1. IsFiniteSet(1 .. m) /\ Cardinality(1 .. m) = m
    BY FS_Interval
  <2>2. SumFunction([k \in 1 .. m |-> b]) = b * Cardinality(1 .. m)
    BY <2>1, SumConstant
  <2>3. QED
    BY <1>4, <2>1, <2>2
<1>11. SumFunction(g) = SumFunction(f) + g[m + 1]
  BY <1>6, <1>9, SumAppended
<1>12. SumFunction(g) = a
  BY <1>7, <1>9, <1>10, <1>11
<1>13. QED
  BY <1>1, <1>2, <1>5, <1>9, <1>12

LEMMA NewStagesMade ==
    ASSUME NEW t \in S!Deals
    PROVE  /\ S!NewStages(t) \in Seq(S!Stage) /\ Len(S!NewStages(t)) = t.count
           /\ \A k \in 1 .. t.count :
                 /\ S!NewStages(t)[k] \in S!Stage /\ ~S!NewStages(t)[k].approved
                 /\ S!NewStages(t)[k].amount = S!Split(t.amount, t.count)[k]
<1>1. PICK n \in Nat : n = t.count
  BY DealTypes
<1>2. PICK g \in [1 .. n -> Int] : g = S!Split(t.amount, t.count)
  BY <1>1, SplitAddsUp
<1>3. PICK s : s = S!NewStages(t)
  OBVIOUS
<1>4. s = [k \in 1 .. n |-> [amount |-> g[k], done |-> FALSE, approved |-> FALSE]]
  BY <1>1, <1>2, <1>3 DEF S!NewStages, S!NewStage
<1>5. s \in [1 .. n -> S!Stage]
  BY <1>4 DEF S!Stage
<1>6. s \in Seq(S!Stage) /\ Len(s) = n
  BY <1>5
<1>7. \A k \in 1 .. n : s[k] \in S!Stage /\ ~s[k].approved /\ s[k].amount = g[k]
  BY <1>4, <1>5
<1>8. QED
  BY <1>1, <1>2, <1>3, <1>6, <1>7

\* The stages of a whole split are worth its amount.
LEMMA WholeSplit ==
    ASSUME stages \in Seq(S!Stage), NEW t \in S!Deals, Len(stages) = t.count,
           \A k \in DOMAIN stages : stages[k].amount = S!Split(t.amount, t.count)[k]
    PROVE  S!Total(S!StageAmounts) = t.amount
<1>1. PICK n \in Nat : n = Len(stages) /\ n = t.count /\ DOMAIN stages = 1 .. n
  BY Entries
<1>2. PICK g \in [1 .. n -> Int] : g = S!Split(t.amount, t.count)
  BY <1>1, SplitAddsUp
<1>3. S!StageAmounts = [k \in 1 .. n |-> stages[k].amount]
  BY <1>1 DEF S!StageAmounts
<1>4. \A k \in 1 .. n : stages[k].amount = g[k]
  BY <1>1, <1>2
<1>5. S!StageAmounts = g
  BY <1>3, <1>4
<1>6. QED
  BY <1>2, <1>5, SplitAddsUp, StageTotal

LEMMA StagesFounded == ASSUME S!IInv PROVE S!StagesAddUp
<1>1. stages \in Seq(S!Stage) /\ row \in S!Rows
  BY DEF S!IInv, S!WellTyped
<1>2. S!FromOneSplit
  <2>1. CASE stages = <<>>
    BY <2>1 DEF S!FromOneSplit
  <2>2. CASE stages # <<>>
    <3>1. PICK t \in S!Deals : S!MadeFrom(t)
      BY <2>2 DEF S!IInv, S!OneMaker
    <3>2. PICK a \in Prices, n \in Counts : a = t.amount /\ n = t.count
      BY DealTypes
    <3>3. Len(stages) <= n /\ \A k \in DOMAIN stages : stages[k].amount = S!Split(a, n)[k]
      BY <3>1, <3>2 DEF S!MadeFrom
    <3>4. Len(stages) = n => S!Total(S!StageAmounts) = a
      BY <1>1, <3>2, <3>3, WholeSplit
    <3>5. QED
      BY <3>3, <3>4 DEF S!FromOneSplit
  <2>3. QED
    BY <2>1, <2>2
<1>3. ASSUME row.status # "draft", ~S!Creating, ~late, ~aborted
      PROVE  Len(stages) = row.count /\ S!Total(S!StageAmounts) = row.amount
  <2>1. Len(stages) = row.count
    BY <1>3 DEF S!IInv, S!OneMaker, S!Leads, S!Creating, S!InFlight
  <2>2. stages # <<>>
    <3>1. row.status \in {"pending_acceptance", "completed"}
      BY <1>1, <1>3 DEF S!Rows
    <3>2. CASE row.status = "completed"
      BY <3>2 DEF S!IInv, S!WellTyped
    <3>3. CASE row.status = "pending_acceptance"
      <4>1. row.count > 0 /\ Len(<<>>) = 0
        BY <3>3 DEF S!IInv, S!WellTyped, S!Ready
      <4>2. ~(0 > 0)
        OBVIOUS
      <4>3. QED
        BY <2>1, <4>1, <4>2
    <3>4. QED
      BY <3>1, <3>2, <3>3
  <2>3. PICK t \in S!Deals : S!MadeFrom(t) /\ t = S!Terms(row)
    BY <1>3, <2>2 DEF S!IInv, S!OneMaker
  <2>4. t.amount = row.amount /\ t.count = row.count
    BY <2>3 DEF S!Terms
  <2>5. S!Total(S!StageAmounts) = t.amount
    BY <1>1, <2>1, <2>3, <2>4, WholeSplit DEF S!MadeFrom
  <2>6. QED
    BY <2>1, <2>4, <2>5
<1>4. QED
  BY <1>2, <1>3 DEF S!StagesAddUp
-----------------------------------------------------------------------------
(* The state.                                                              *)

LEMMA StageJobShapes ==
    ASSUME NEW j \in S!Jobs
    PROVE  /\ j.op \in {"propose", "accept"} => j.saves \in S!Rows
           /\ j.op = "create" => j.for \in S!Deals /\ j.next \in Nat \ {0}
           /\ j.op = "edit" => j.on \in S!Numbers /\ j.saves \in S!Stage
           /\ j.op = "approve" => j.on \in S!Numbers /\ j.total \in Int
<1>1. \/ j \in [op : {"propose", "accept"}, saves : S!Rows]
      \/ j \in [op : {"create"}, for : S!Deals, next : Nat \ {0}]
      \/ j \in [op : {"edit"}, on : S!Numbers, saves : S!Stage]
      \/ j \in [op : {"approve"}, on : S!Numbers, total : Int]
      \/ j \in {S!Idle}
  BY DEF S!Jobs
<1>2. j \in {S!Idle} => j.op = "idle"
  BY DEF S!Idle
<1>3. /\ j.op \in {"propose", "accept"} => j.saves \in S!Rows
      /\ j.op = "create" => j.for \in S!Deals /\ j.next \in Nat \ {0}
  BY <1>1, <1>2
<1>4. /\ j.op = "edit" => j.on \in S!Numbers /\ j.saves \in S!Stage
      /\ j.op = "approve" => j.on \in S!Numbers /\ j.total \in Int
  BY <1>1, <1>2
<1>5. QED
  BY <1>3, <1>4

LEMMA NotWaiting == S!Idle \in S!Jobs /\ S!Idle.op = "idle" /\ S!Founded(S!Idle) /\ ~S!Leads(S!Idle)
BY DEF S!Jobs, S!Idle, S!Founded, S!Leads

\* Stages have numbers up to the largest count.
LEMMA StageNumbers ==
    ASSUME S!IInv
    PROVE  /\ Len(stages) \in Nat /\ DOMAIN stages = 1 .. Len(stages)
           /\ DOMAIN stages \subseteq S!Numbers
           /\ \A k \in DOMAIN stages : stages[k] \in S!Stage /\ k \in S!Numbers
<1>1. stages \in Seq(S!Stage)
  BY DEF S!IInv, S!WellTyped
<1>2. PICK n \in Nat : n = Len(stages) /\ DOMAIN stages = 1 .. n
  BY <1>1, Entries
<1>3. PICK m \in Nat : m = S!Max(Counts)
  BY MostStages
<1>4. n <= m
  <2>1. CASE stages = <<>>
    BY <1>1, <1>2, <2>1, Entries
  <2>2. CASE stages # <<>>
    <3>1. PICK t \in S!Deals : n <= t.count
      BY <1>2, <2>2 DEF S!IInv, S!OneMaker, S!MadeFrom
    <3>2. PICK c \in Nat : c = t.count /\ c <= m
      BY <1>3, DealTypes
    <3>3. QED
      BY <3>1, <3>2
  <2>3. QED
    BY <2>1, <2>2
<1>5. 1 .. n \subseteq 1 .. m
  BY <1>4
<1>6. \A k \in DOMAIN stages : stages[k] \in S!Stage
  BY <1>1, Entries
<1>7. QED
  BY <1>2, <1>3, <1>5, <1>6 DEF S!Numbers

LEMMA StageRequestStays ==
    ASSUME NEW j, S!Founded(j), j.op = "create" => j.next \in Nat,
           Len(stages) \in Nat, Len(stages') \in Nat, Len(stages) <= Len(stages'),
           DOMAIN stages \subseteq DOMAIN stages',
           \A k \in DOMAIN stages : stages'[k].amount = stages[k].amount,
           j.op = "create" => late' \/ (late' = late /\ S!Terms(row') = S!Terms(row)),
           j.op \in {"edit", "approve"} => (S!Clear(j.on) => S!Clear(j.on)')
    PROVE  S!Founded(j)'
<1>1. PICK n \in Nat, m \in Nat : n = Len(stages) /\ m = Len(stages') /\ n <= m
  OBVIOUS
<1>2. ASSUME j.op = "create" PROVE j.next <= m + 1
  <2>1. PICK x \in Nat : x = j.next
    BY <1>2
  <2>2. x <= n + 1
    BY <1>1, <1>2, <2>1 DEF S!Founded
  <2>3. QED
    BY <1>1, <2>1, <2>2
<1>3. QED
  BY <1>1, <1>2 DEF S!Founded

\* One request goes on and no row changes.
LEMMA StageRequestMoves ==
    ASSUME S!IInv, NEW w \in Requests, NEW j \in S!Jobs, editing' = [editing EXCEPT ![w] = j],
           UNCHANGED <<row, stages, payments, late, crossed, lost>>,
           aborted' \in BOOLEAN, aborted => aborted',
           S!Founded(j), ~S!Leads(j), aborted' \/ ~S!Leads(editing[w])
    PROVE  S!IInv'
<1>1. editing \in [Requests -> S!Jobs]
  BY DEF S!IInv, S!WellTyped
<1>2. editing' \in [Requests -> S!Jobs] /\ editing'[w] = j /\ \A v \in Requests \ {w} : editing'[v] = editing[v]
  BY <1>1
<1>3. S!WellTyped'
  BY <1>2 DEF S!IInv, S!WellTyped
<1>4. ASSUME NEW v \in Requests PROVE S!Founded(editing[v])'
  <2>1. PICK k : k = editing'[v]
    OBVIOUS
  <2>2. S!Founded(k)
    BY <1>2, <2>1 DEF S!IInv
  <2>3. S!Founded(k)'
    BY <2>2 DEF S!Founded, S!Clear
  <2>4. QED
    BY <2>1, <2>3 DEF S!Founded
<1>5. \A k : S!Leads(k)' <=> S!Leads(k)
  BY DEF S!Leads
<1>6. \A v \in Requests : S!Leads(editing'[v]) => S!Leads(editing[v]) /\ editing'[v] = editing[v]
  BY <1>2
<1>7. S!OneMaker'
  <2>1. ASSUME stages # <<>> PROVE \E t \in S!Deals : S!MadeFrom(t)' /\ (late \/ t = S!Terms(row))
    <3>1. PICK t \in S!Deals : S!MadeFrom(t) /\ (late \/ t = S!Terms(row))
      BY <2>1 DEF S!IInv, S!OneMaker
    <3>2. S!MadeFrom(t)'
      <4>1. \A v \in Requests : S!Leads(editing'[v]) => editing'[v].for = t
        BY <1>6, <3>1 DEF S!MadeFrom
      <4>2. QED
        BY <3>1, <4>1 DEF S!MadeFrom, S!Leads
    <3>3. QED
      BY <3>1, <3>2
  <2>2. \/ late \/ aborted'
        \/ stages = <<>> /\ row.status = "draft"
        \/ Len(stages) = row.count
        \/ \E v \in Requests : S!Leads(editing'[v])
    <3>1. ASSUME NEW v \in Requests, S!Leads(editing[v]), ~aborted' PROVE S!Leads(editing'[v])
      BY <1>2, <3>1
    <3>2. QED
      BY <3>1 DEF S!IInv, S!OneMaker
  <2>3. QED
    BY <2>1, <2>2 DEF S!OneMaker, S!Leads
<1>8. S!UnapprovedIsClear' /\ S!StagesArePaidOnce'
  BY DEF S!IInv, S!UnapprovedIsClear, S!StagesArePaidOnce, S!Clear, S!Total
<1>9. QED
  BY <1>3, <1>4, <1>7, <1>8 DEF S!IInv

Worth(ss, ps) == [k \in DOMAIN ss |-> ps[k] * ss[k].amount]

LEMMA WorthType ==
    ASSUME NEW ss \in Seq(S!Stage), NEW ps \in [S!Numbers -> Nat], DOMAIN ss \subseteq S!Numbers
    PROVE  /\ Len(ss) \in Nat /\ DOMAIN ss = 1 .. Len(ss) /\ IsFiniteSet(DOMAIN ss)
           /\ Worth(ss, ps) \in [DOMAIN ss -> Int]
<1>1. Len(ss) \in Nat /\ DOMAIN ss = 1 .. Len(ss) /\ IsFiniteSet(1 .. Len(ss))
  BY Entries, FS_Interval
<1>2. \A k \in DOMAIN ss : ss[k].amount \in Int /\ ps[k] \in Int
  <2>1. \A k \in DOMAIN ss : ss[k] \in S!Stage /\ ps[k] \in Nat
    BY Entries
  <2>2. QED
    BY <2>1 DEF S!Stage
<1>3. \A k \in DOMAIN ss : ps[k] * ss[k].amount \in Int
  BY <1>2
<1>4. QED
  BY <1>1, <1>3 DEF Worth

LEMMA NothingPaid ==
    ASSUME NEW ss \in Seq(S!Stage), NEW ps \in [S!Numbers -> Nat], DOMAIN ss \subseteq S!Numbers,
           \A k \in DOMAIN ss : ps[k] = 0
    PROVE  S!Total(Worth(ss, ps)) = 0
<1>1. \A k \in DOMAIN ss : ss[k].amount \in Int
  <2>1. \A k \in DOMAIN ss : ss[k] \in S!Stage
    BY Entries
  <2>2. QED
    BY <2>1 DEF S!Stage
<1>2. \A k \in DOMAIN ss : ps[k] * ss[k].amount = 0
  BY <1>1
<1>3. PICK f : f = Worth(ss, ps)
  OBVIOUS
<1>4. f \in [DOMAIN ss -> Nat] /\ \A k \in DOMAIN ss : f[k] = 0
  BY <1>2, <1>3 DEF Worth
<1>5. IsFiniteSet(DOMAIN ss)
  BY WorthType
<1>6. SumFunction(f) = 0
  BY <1>4, <1>5, SumType
<1>7. QED
  BY <1>3, <1>6, StageTotal

LEMMA StagesInit == S!Init => S!IInv
<1> SUFFICES ASSUME S!Init PROVE S!IInv
  OBVIOUS
<1>1. /\ row \in [amount : {0}, count : {0}, described : BOOLEAN,
                  status : {"draft"}, total_paid : {0}]
      /\ stages = <<>> /\ payments = [k \in S!Numbers |-> 0]
      /\ editing = [w \in Requests |-> S!Idle]
      /\ late = FALSE /\ aborted = FALSE /\ crossed = {} /\ lost = FALSE
  BY DEF S!Init
<1>2. /\ <<>> \in Seq(S!Stage) /\ DOMAIN <<>> = {}
  OBVIOUS
<1>3. payments \in [S!Numbers -> Nat] /\ \A k \in S!Numbers : payments[k] = 0
  BY <1>1
<1>4. row \in S!Rows /\ row.status = "draft" /\ row.total_paid = 0
  BY <1>1 DEF S!Rows
<1>5. editing \in [Requests -> S!Jobs] /\ \A w \in Requests : editing[w] = S!Idle
  BY <1>1, NotWaiting
<1>6. S!WellTyped
  BY <1>1, <1>2, <1>3, <1>4, <1>5 DEF S!WellTyped
<1>7. S!OneMaker /\ \A w \in Requests : S!Founded(editing[w])
  BY <1>1, <1>4, <1>5, NotWaiting DEF S!OneMaker
<1>8. S!UnapprovedIsClear
  BY <1>1, <1>2, <1>3 DEF S!UnapprovedIsClear
<1>9. S!StagesArePaidOnce
  <2>1. S!Total(Worth(stages, payments)) = 0
    BY <1>1, <1>2, <1>3, NothingPaid
  <2>2. \A k \in S!Numbers : ~(payments[k] > 1)
    BY <1>3
  <2>3. QED
    BY <1>1, <1>2, <1>4, <2>1, <2>2 DEF S!StagesArePaidOnce, Worth
<1>10. QED
  BY <1>6, <1>7, <1>8, <1>9 DEF S!IInv

LEMMA IdleAgain ==
    ASSUME S!IInv, NEW w \in Requests, editing' = [editing EXCEPT ![w] = S!Idle]
    PROVE  /\ editing' \in [Requests -> S!Jobs]
           /\ \A v \in Requests : editing'[v] = editing[v] \/ (v = w /\ editing'[v] = S!Idle)
           /\ \A v \in Requests \ {w} : editing'[v] = editing[v]
BY NotWaiting DEF S!IInv, S!WellTyped

\* The terms and the amounts stay: a stage is submitted, edited or paid.
LEMMA StagesStay ==
    ASSUME S!IInv,
           editing' \in [Requests -> S!Jobs],
           \A v \in Requests : editing'[v] = editing[v] \/ (editing'[v] = S!Idle /\ ~S!Leads(editing[v])),
           \A v \in Requests, k \in DOMAIN stages :
               editing'[v].op \in {"edit", "approve"} /\ editing'[v].on = k => (S!Clear(k) => S!Clear(k)'),
           row' \in S!Rows, S!Terms(row') = S!Terms(row),
           row'.status = row.status \/ row'.status = "completed",
           stages # <<>>, stages' \in Seq(S!Stage), Len(stages') = Len(stages),
           \A k \in DOMAIN stages : stages'[k].amount = stages[k].amount,
           payments' \in [S!Numbers -> Nat], lost' \in BOOLEAN,
           UNCHANGED <<late, aborted>>
    PROVE  S!WellTyped' /\ (\A v \in Requests : S!Founded(editing[v])') /\ S!OneMaker'
<1>1. PICK n \in Nat : /\ n = Len(stages) /\ n = Len(stages') /\ n # 0
                       /\ DOMAIN stages = 1 .. n /\ DOMAIN stages' = 1 .. n
  BY Entries DEF S!IInv, S!WellTyped
<1>2. stages' # <<>>
  BY <1>1, Entries
<1>3. row'.amount = row.amount /\ row'.count = row.count
  BY DEF S!Terms
<1>4. S!WellTyped'
  BY <1>2, <1>3 DEF S!IInv, S!WellTyped, S!Ready
<1>5. ASSUME NEW v \in Requests PROVE S!Founded(editing[v])'
  <2>1. PICK j \in S!Jobs : j = editing'[v]
    OBVIOUS
  <2>2. S!Founded(j)
    BY <2>1, NotWaiting DEF S!IInv
  <2>3. j.op = "create" => j.next \in Nat
    BY StageJobShapes
  <2>4. S!Founded(j)'
    <3>1. Len(stages) \in Nat /\ Len(stages') \in Nat /\ Len(stages) <= Len(stages')
          /\ DOMAIN stages \subseteq DOMAIN stages'
      BY <1>1
    <3>2. j.op \in {"edit", "approve"} => (S!Clear(j.on) => S!Clear(j.on)')
      BY <2>1, <2>2 DEF S!Founded
    <3>3. late' = late /\ S!Terms(row') = S!Terms(row)
      OBVIOUS
    <3>4. QED
      BY <2>2, <2>3, <3>1, <3>2, <3>3, StageRequestStays
  <2>5. QED
    BY <2>1, <2>4 DEF S!Founded
<1>6. \A k : S!Leads(k)' <=> S!Leads(k)
  BY <1>1 DEF S!Leads
<1>7. \A v \in Requests : S!Leads(editing'[v]) <=> S!Leads(editing[v])
  BY NotWaiting
<1>8. \A v \in Requests : S!Leads(editing'[v]) => editing'[v] = editing[v]
  BY NotWaiting
<1>9. S!OneMaker'
  <2>1. PICK t \in S!Deals : S!MadeFrom(t) /\ (late \/ t = S!Terms(row))
    BY DEF S!IInv, S!OneMaker
  <2>2. S!MadeFrom(t)'
    <3>1. \A v \in Requests : S!Leads(editing'[v]) => editing'[v].for = t
      BY <1>7, <1>8, <2>1 DEF S!MadeFrom
    <3>2. Len(stages') <= t.count
          /\ \A k \in DOMAIN stages' : stages'[k].amount = S!Split(t.amount, t.count)[k]
      BY <1>1, <2>1 DEF S!MadeFrom
    <3>3. QED
      BY <1>6, <3>1, <3>2 DEF S!MadeFrom
  <2>3. \/ late' \/ aborted'
        \/ Len(stages') = row'.count
        \/ \E v \in Requests : S!Leads(editing[v])'
    <3>1. \/ late \/ aborted \/ Len(stages) = row.count
          \/ \E v \in Requests : S!Leads(editing[v])
      BY DEF S!IInv, S!OneMaker
    <3>2. QED
      BY <1>3, <1>6, <1>7, <3>1
  <2>4. QED
    BY <2>1, <2>2, <2>3 DEF S!OneMaker, S!Leads
<1>10. QED
  BY <1>4, <1>5, <1>9

\* One stage is saved again with the amount it had, unapproved if that is clear.
LEMMA StageSaved ==
    ASSUME S!IInv, NEW k \in DOMAIN stages, NEW e \in S!Stage,
           e.amount = stages[k].amount,
           e.approved => stages[k].approved, ~e.approved => S!Clear(k),
           stages' = [stages EXCEPT ![k] = e],
           UNCHANGED <<row, payments, S!history>>,
           editing' \in [Requests -> S!Jobs],
           \A v \in Requests : editing'[v] = editing[v] \/ (editing'[v] = S!Idle /\ ~S!Leads(editing[v]))
    PROVE  S!IInv'
<1>1. /\ stages \in Seq(S!Stage) /\ stages' \in Seq(S!Stage) /\ Len(stages') = Len(stages)
      /\ stages # <<>> /\ DOMAIN stages' = DOMAIN stages /\ DOMAIN stages \subseteq S!Numbers
      /\ stages'[k] = e /\ \A i \in DOMAIN stages \ {k} : stages'[i] = stages[i]
  <2>1. stages \in Seq(S!Stage)
    BY DEF S!IInv, S!WellTyped
  <2>2. QED
    BY <2>1, StageNumbers
<1>2. \A i \in DOMAIN stages : stages'[i].amount = stages[i].amount
  BY <1>1
<1>3. \A i : S!Clear(i) => S!Clear(i)'
  <2>1. payments' = payments /\ crossed' = crossed
    BY DEF S!history
  <2>2. QED
    BY <2>1 DEF S!Clear
<1>4. row \in S!Rows /\ payments \in [S!Numbers -> Nat] /\ lost \in BOOLEAN
  BY DEF S!IInv, S!WellTyped
<1>5. S!WellTyped' /\ (\A v \in Requests : S!Founded(editing[v])') /\ S!OneMaker'
  <2>1. UNCHANGED <<late, aborted>> /\ lost' \in BOOLEAN /\ row' = row /\ payments' = payments
    BY <1>4 DEF S!history
  <2>2. row' \in S!Rows /\ S!Terms(row') = S!Terms(row) /\ row'.status = row.status
        /\ payments' \in [S!Numbers -> Nat]
    BY <1>4, <2>1
  <2>3. \A v \in Requests, i \in DOMAIN stages :
           editing'[v].op \in {"edit", "approve"} /\ editing'[v].on = i => (S!Clear(i) => S!Clear(i)')
    BY <1>3
  <2>4. QED
    BY <1>1, <1>2, <2>1, <2>2, <2>3, StagesStay
<1>6. S!UnapprovedIsClear'
  <2>1. ASSUME NEW i \in DOMAIN stages, ~stages'[i].approved PROVE S!Clear(i)'
    <3>1. CASE i = k
      BY <1>1, <1>3, <2>1, <3>1
    <3>2. CASE i # k
      BY <1>1, <1>3, <2>1, <3>2 DEF S!IInv, S!UnapprovedIsClear
    <3>3. QED
      BY <3>1, <3>2
  <2>2. QED
    BY <1>1, <2>1 DEF S!IInv, S!UnapprovedIsClear
<1>7. S!StagesArePaidOnce'
  <2>1. ASSUME NEW i \in DOMAIN stages, stages'[i].approved PROVE payments[i] > 0
    <3>1. stages[i].approved
      BY <1>1, <2>1
    <3>2. QED
      BY <3>1 DEF S!IInv, S!StagesArePaidOnce
  <2>2. Worth(stages', payments) = Worth(stages, payments)
    BY <1>1, <1>2 DEF Worth
  <2>3. QED
    BY <1>1, <2>1, <2>2 DEF S!IInv, S!StagesArePaidOnce, Worth, S!Total, S!history
<1>8. QED
  BY <1>5, <1>6, <1>7 DEF S!IInv

LEMMA StageEditsKeep == ASSUME S!IInv, NEW w \in Requests, S!CommitEdit(w) PROVE S!IInv'
<1>1. PICK j \in S!Jobs : j = editing[w]
  BY DEF S!IInv, S!WellTyped
<1>2. j.op = "edit" /\ S!Founded(j) /\ ~S!Leads(j)
  BY <1>1 DEF S!IInv, S!CommitEdit, S!InFlight, S!Leads
<1>3. PICK k \in DOMAIN stages : k = j.on /\ S!Clear(k)
  BY <1>2 DEF S!Founded
<1>4. PICK e \in S!Stage : e = j.saves /\ ~e.approved /\ e.amount = stages[k].amount
  BY <1>2, <1>3, StageJobShapes DEF S!Founded
<1>5. /\ stages' = [stages EXCEPT ![k] = e] /\ UNCHANGED <<row, payments, S!history>>
      /\ editing' = [editing EXCEPT ![w] = S!Idle]
  BY <1>1, <1>3, <1>4 DEF S!CommitEdit, S!Finish
<1>6. editing' \in [Requests -> S!Jobs]
      /\ \A v \in Requests : editing'[v] = editing[v] \/ (editing'[v] = S!Idle /\ ~S!Leads(editing[v]))
  BY <1>1, <1>2, <1>5, IdleAgain
<1>7. QED
  BY <1>3, <1>4, <1>5, <1>6, StageSaved

LEMMA StageSubmissionsKeep == ASSUME S!IInv, NEW k \in DOMAIN stages, S!Submit(k) PROVE S!IInv'
<1>1. PICK s \in S!Stage : s = stages[k]
  BY StageNumbers
<1>2. PICK e \in S!Stage : e = S!Submitted(s) /\ e.amount = s.amount /\ e.approved = s.approved
  <2>1. S!Submitted(s) = [s EXCEPT !.done = TRUE]
    BY DEF S!Submitted
  <2>2. [s EXCEPT !.done = TRUE] \in S!Stage
    BY DEF S!Stage
  <2>3. [s EXCEPT !.done = TRUE].amount = s.amount /\ [s EXCEPT !.done = TRUE].approved = s.approved
    BY DEF S!Stage
  <2>4. QED
    BY <2>1, <2>2, <2>3
<1>3. stages' = [stages EXCEPT ![k] = e]
  BY <1>1, <1>2 DEF S!Submit
<1>4. UNCHANGED <<row, payments, S!history>> /\ editing' = editing /\ editing \in [Requests -> S!Jobs]
  BY DEF S!Submit, S!IInv, S!WellTyped
<1>5. ~e.approved => S!Clear(k)
  BY <1>1, <1>2 DEF S!IInv, S!UnapprovedIsClear
<1>6. QED
  BY <1>1, <1>2, <1>3, <1>4, <1>5, StageSaved


LEMMA StageApprovalsKeep == ASSUME S!IInv, NEW w \in Requests, S!CommitApprove(w) PROVE S!IInv'
<1>1. PICK j \in S!Jobs : j = editing[w]
  BY DEF S!IInv, S!WellTyped
<1>2. j.op = "approve" /\ S!Founded(j) /\ ~S!Leads(j)
  BY <1>1 DEF S!IInv, S!CommitApprove, S!InFlight, S!Leads
<1>3. PICK k \in DOMAIN stages : k = j.on /\ S!Clear(k)
  BY <1>2 DEF S!Founded
<1>4. PICK read \in Int : read = j.total
  BY <1>2, StageJobShapes
<1>5. PICK amount \in Int : amount = stages[k].amount
  <2>1. stages[k] \in S!Stage
    BY StageNumbers
  <2>2. QED
    BY <2>1 DEF S!Stage
<1>6. /\ payments' = [payments EXCEPT ![k] = @ + 1]
      /\ stages' = [stages EXCEPT ![k].approved = TRUE]
      /\ row' = [row EXCEPT
             !.total_paid = read + amount,
             !.status = IF \A i \in DOMAIN stages : stages'[i].approved
                        THEN "completed" ELSE @]
      /\ crossed' = IF \E v \in Requests \ {w} : S!Holds(v, k)
                    THEN crossed \cup {k} ELSE crossed
      /\ lost' = (lost \/ read # row.total_paid)
      /\ editing' = [editing EXCEPT ![w] = S!Idle]
      /\ late' = late /\ aborted' = aborted
  BY <1>1, <1>3, <1>4, <1>5 DEF S!CommitApprove, S!Finish
<1>7. /\ stages \in Seq(S!Stage) /\ stages # <<>> /\ DOMAIN stages \subseteq S!Numbers
      /\ stages[k] \in S!Stage /\ k \in S!Numbers
  BY StageNumbers DEF S!IInv, S!WellTyped
<1>8. PICK e \in S!Stage : e = [stages[k] EXCEPT !.approved = TRUE] /\ e.approved /\ e.amount = amount
  <2>1. PICK s \in S!Stage : s = stages[k]
    BY <1>7
  <2>2. [s EXCEPT !.approved = TRUE] \in S!Stage /\ [s EXCEPT !.approved = TRUE].approved
        /\ [s EXCEPT !.approved = TRUE].amount = s.amount
    BY DEF S!Stage
  <2>3. QED
    BY <1>5, <2>1, <2>2
<1>9. stages' = [stages EXCEPT ![k] = e]
  BY <1>6, <1>8
<1>10. /\ stages' \in Seq(S!Stage) /\ Len(stages') = Len(stages) /\ DOMAIN stages' = DOMAIN stages
       /\ stages'[k] = e /\ \A i \in DOMAIN stages \ {k} : stages'[i] = stages[i]
       /\ \A i \in DOMAIN stages : stages'[i].amount = stages[i].amount
  <2>1. /\ stages' \in Seq(S!Stage) /\ Len(stages') = Len(stages) /\ DOMAIN stages' = DOMAIN stages
        /\ stages'[k] = e /\ \A i \in DOMAIN stages \ {k} : stages'[i] = stages[i]
    BY <1>7, <1>9
  <2>2. QED
    BY <1>5, <1>8, <2>1
<1>11. PICK p \in Nat : p = payments[k]
  BY <1>7 DEF S!IInv, S!WellTyped
<1>12. /\ payments \in [S!Numbers -> Nat] /\ payments' \in [S!Numbers -> Nat]
       /\ payments'[k] = p + 1 /\ \A i \in S!Numbers \ {k} : payments'[i] = payments[i]
  <2>1. payments \in [S!Numbers -> Nat] /\ p + 1 \in Nat
    BY DEF S!IInv, S!WellTyped
  <2>2. payments' = [payments EXCEPT ![k] = p + 1]
    BY <1>6, <1>7, <1>11, <2>1
  <2>3. QED
    BY <1>7, <2>1, <2>2
<1>13. crossed \subseteq crossed' /\ ((\E v \in Requests \ {w} : S!Holds(v, k)) => k \in crossed')
  BY <1>6
<1>14. /\ editing' \in [Requests -> S!Jobs]
       /\ \A v \in Requests : editing'[v] = editing[v] \/ (v = w /\ editing'[v] = S!Idle)
       /\ \A v \in Requests : editing'[v] = editing[v] \/ (editing'[v] = S!Idle /\ ~S!Leads(editing[v]))
  BY <1>1, <1>2, <1>6, IdleAgain
<1>15. ASSUME NEW i \in DOMAIN stages, i # k, S!Clear(i) PROVE S!Clear(i)'
  BY <1>7, <1>12, <1>13, <1>15 DEF S!Clear
<1>16. ASSUME NEW v \in Requests, NEW i \in DOMAIN stages,
              editing'[v].op \in {"edit", "approve"} /\ editing'[v].on = i, S!Clear(i)
       PROVE  S!Clear(i)'
  <2>1. v # w /\ editing'[v] = editing[v]
    BY <1>6, <1>14, <1>16, IdleAgain, NotWaiting
  <2>2. CASE i = k
    <3>1. S!Holds(v, k)
      BY <1>16, <2>1, <2>2 DEF S!Holds, S!InFlight
    <3>2. k \in crossed'
      BY <1>13, <2>1, <3>1
    <3>3. QED
      BY <2>2, <3>2 DEF S!Clear
  <2>3. QED
    BY <1>15, <1>16, <2>2
<1>17. row.total_paid \in Int /\ row \in S!Rows
  <2>1. row \in S!Rows
    BY DEF S!IInv, S!WellTyped
  <2>2. QED
    BY <2>1 DEF S!Rows
<1>18. PICK total \in Int : total = read + amount
  OBVIOUS
<1>19. /\ row' \in S!Rows /\ S!Terms(row') = S!Terms(row) /\ row'.total_paid = total
       /\ row'.status = row.status \/ row'.status = "completed"
  <2>1. row' = [row EXCEPT !.total_paid = total, !.status = "completed"]
        \/ row' = [row EXCEPT !.total_paid = total, !.status = row.status]
    BY <1>6, <1>18
  <2>2. QED
    BY <1>17, <2>1 DEF S!Rows, S!Terms
<1>20. lost' \in BOOLEAN
  BY <1>6 DEF S!IInv, S!WellTyped
<1>21. S!WellTyped' /\ (\A v \in Requests : S!Founded(editing[v])') /\ S!OneMaker'
  BY <1>6, <1>7, <1>10, <1>12, <1>14, <1>16, <1>19, <1>20, StagesStay
<1>22. S!UnapprovedIsClear'
  <2>1. ASSUME NEW i \in DOMAIN stages, ~stages'[i].approved PROVE S!Clear(i)'
    <3>1. i # k
      BY <1>8, <1>10, <2>1
    <3>2. S!Clear(i)
      BY <1>10, <2>1, <3>1 DEF S!IInv, S!UnapprovedIsClear
    <3>3. QED
      BY <1>15, <3>1, <3>2
  <2>2. \A i \in S!Numbers \ DOMAIN stages' : payments'[i] = 0
    BY <1>10, <1>12 DEF S!IInv, S!UnapprovedIsClear
  <2>3. QED
    BY <1>10, <2>1, <2>2 DEF S!UnapprovedIsClear
<1>23. S!StagesArePaidOnce'
  <2>1. ASSUME NEW i \in S!Numbers, payments'[i] > 1 PROVE i \in crossed'
    <3>1. CASE i = k
      <4>1. p # 0
        BY <1>12, <2>1, <3>1
      <4>2. QED
        BY <1>3, <1>11, <1>13, <3>1, <4>1 DEF S!Clear
    <3>2. CASE i # k
      BY <1>12, <1>13, <2>1, <3>2 DEF S!IInv, S!StagesArePaidOnce
    <3>3. QED
      BY <3>1, <3>2
  <2>2. ASSUME NEW i \in DOMAIN stages', stages'[i].approved PROVE payments'[i] > 0
    <3>1. CASE i = k
      BY <1>12, <3>1
    <3>2. CASE i # k
      <4>1. stages[i].approved /\ payments'[i] = payments[i] /\ i \in DOMAIN stages
        BY <1>7, <1>10, <1>12, <2>2, <3>2
      <4>2. QED
        BY <4>1 DEF S!IInv, S!StagesArePaidOnce
    <3>3. QED
      BY <3>1, <3>2
  <2>3. ASSUME ~lost' PROVE total = S!Total(Worth(stages', payments'))
    <3>1. read = row.total_paid /\ row.total_paid = S!Total(Worth(stages, payments))
      BY <1>6, <2>3 DEF S!IInv, S!StagesArePaidOnce, Worth
    <3>2. PICK f, g : f = Worth(stages, payments) /\ g = Worth(stages', payments')
      OBVIOUS
    <3>3. f \in [DOMAIN stages -> Int] /\ g \in [DOMAIN stages -> Int] /\ IsFiniteSet(DOMAIN stages)
      BY <1>7, <1>10, <1>12, <3>2, WorthType
    <3>4. f[k] = p * amount /\ g[k] = (p + 1) * amount
      BY <1>5, <1>8, <1>10, <1>11, <1>12, <3>2 DEF Worth
    <3>5. \A i \in DOMAIN stages \ {k} : g[i] = f[i]
      BY <1>7, <1>10, <1>12, <3>2 DEF Worth
    <3>6. SumFunction(g) = SumFunction(f) + g[k] - f[k]
      BY <3>3, <3>5, SumStep
    <3>7. SumFunction(f) = read
      BY <3>1, <3>2, StageTotal
    <3>8. (p + 1) * amount = p * amount + amount
      OBVIOUS
    <3>9. PICK q \in Int : q = p * amount
      OBVIOUS
    <3>10. SumFunction(g) = read + amount
      BY <3>4, <3>6, <3>7, <3>8, <3>9
    <3>11. QED
      BY <1>18, <3>2, <3>10, StageTotal
  <2>4. QED
    BY <1>19, <2>1, <2>2, <2>3 DEF S!StagesArePaidOnce, Worth
<1>24. QED
  BY <1>21, <1>22, <1>23 DEF S!IInv

LEMMA StageInsertsKeep == ASSUME S!IInv, NEW w \in Requests, S!InsertStage(w) PROVE S!IInv'
<1>1. PICK j \in S!Jobs : j = editing[w]
  BY DEF S!IInv, S!WellTyped
<1>2. j.op = "create" /\ S!Founded(j)
  BY <1>1 DEF S!IInv, S!InsertStage, S!InFlight
<1>3. PICK t \in S!Deals : t = j.for
  BY <1>2, StageJobShapes
<1>4. PICK c \in Nat : c = t.count
  BY DealTypes
<1>5. PICK n \in Nat : n = Len(stages) /\ DOMAIN stages = 1 .. n
  BY StageNumbers
<1>6. PICK next \in Nat : next = j.next /\ next # 0 /\ next <= c /\ next <= n + 1
  BY <1>2, <1>3, <1>4, <1>5, StageJobShapes DEF S!Founded
<1>7. UNCHANGED <<row, payments, S!history>>
  BY DEF S!InsertStage
<1>8. UNCHANGED <<row, payments, late, aborted, crossed, lost>> /\ aborted \in BOOLEAN
  BY <1>7 DEF S!history, S!IInv, S!WellTyped
<1>9. CASE ~S!NumberFree(j.next)
  <2>1. editing' = [editing EXCEPT ![w] = S!Idle] /\ stages' = stages
    BY <1>1, <1>9 DEF S!InsertStage, S!Finish
  <2>2. ~S!Leads(editing[w])
    BY <1>1, <1>5, <1>6, <1>9 DEF S!Leads, S!NumberFree
  <2>3. QED
    BY <1>8, <2>1, <2>2, NotWaiting, StageRequestMoves
<1>10. CASE S!NumberFree(j.next)
  <2>1. next = n + 1 /\ S!Leads(j)
    BY <1>2, <1>5, <1>6, <1>10 DEF S!NumberFree, S!Leads
  <2>2. PICK e \in S!Stage : e = S!NewStages(t)[next] /\ ~e.approved /\ e.amount = S!Split(t.amount, t.count)[next]
    <3>1. next \in 1 .. t.count
      BY <1>4, <1>6
    <3>2. QED
      BY <3>1, NewStagesMade
  <2>3. PICK jj : jj = IF next = c THEN S!Idle ELSE [j EXCEPT !.next = @ + 1]
    OBVIOUS
  <2>4. stages' = Append(stages, e) /\ editing' = [editing EXCEPT ![w] = jj]
    BY <1>1, <1>3, <1>4, <1>6, <1>10, <2>2, <2>3 DEF S!InsertStage
  <2>5. /\ stages \in Seq(S!Stage) /\ stages' \in Seq(S!Stage) /\ Len(stages') = n + 1
        /\ DOMAIN stages' = 1 .. n + 1 /\ stages' # <<>>
        /\ \A k \in 1 .. n : stages'[k] = stages[k]
        /\ stages'[n + 1] = e
    <3>1. stages \in Seq(S!Stage)
      BY DEF S!IInv, S!WellTyped
    <3>2. /\ stages' \in Seq(S!Stage) /\ Len(stages') = n + 1 /\ DOMAIN stages' = 1 .. n + 1
          /\ \A k \in 1 .. n : stages'[k] = stages[k]
          /\ stages'[n + 1] = e
      BY <1>5, <2>4, <3>1, Appended
    <3>3. stages' # <<>>
      BY <3>2, Entries
    <3>4. QED
      BY <3>1, <3>2, <3>3
  <2>6. /\ next # c => jj.op = "create" /\ jj.for = t /\ jj.next = n + 2 /\ jj \in S!Jobs
        /\ next = c => jj = S!Idle
    <3>1. ASSUME next # c
          PROVE  jj.op = "create" /\ jj.for = t /\ jj.next = n + 2 /\ jj \in S!Jobs
      <4>1. j \in [op : {"create"}, for : S!Deals, next : Nat \ {0}]
        BY <1>2 DEF S!Jobs, S!Idle
      <4>2. jj = [j EXCEPT !.next = n + 2]
        <5>1. j.next + 1 = n + 2
          BY <1>6, <2>1
        <5>2. jj = [j EXCEPT !.next = j.next + 1]
          BY <2>3, <3>1, Zenon
        <5>3. QED
          BY <5>1, <5>2
      <4>3. n + 2 \in Nat \ {0}
        OBVIOUS
      <4>4. jj \in [op : {"create"}, for : S!Deals, next : Nat \ {0}]
            /\ jj.for = t /\ jj.next = n + 2 /\ jj.op = "create"
        BY <1>3, <4>1, <4>2, <4>3
      <4>5. QED
        BY <4>4 DEF S!Jobs
    <3>2. QED
      BY <2>3, <3>1
  <2>7. /\ editing' \in [Requests -> S!Jobs] /\ editing'[w] = jj
        /\ \A v \in Requests \ {w} : editing'[v] = editing[v]
    BY <2>4, <2>6, NotWaiting DEF S!IInv, S!WellTyped
  <2>8. S!WellTyped'
    BY <1>8, <2>5, <2>7 DEF S!IInv, S!WellTyped
  <2>9. \A i : S!Clear(i) => S!Clear(i)'
    BY <1>8 DEF S!Clear
  <2>10. ASSUME NEW v \in Requests PROVE S!Founded(editing[v])'
    <3>1. CASE v = w /\ next = c
      BY <2>6, <2>7, <3>1 DEF S!Founded, S!Idle
    <3>2. CASE v = w /\ next # c
      <4>1. n + 2 <= c
        BY <1>6, <2>1, <3>2
      <4>2. late \/ t = S!Terms(row)
        BY <1>2, <1>3 DEF S!Founded
      <4>3. n + 2 <= Len(stages') + 1
        BY <2>5
      <4>4. QED
        BY <1>4, <1>8, <2>6, <2>7, <3>2, <4>1, <4>2, <4>3 DEF S!Founded
    <3>3. CASE v # w
      <4>1. PICK k \in S!Jobs : k = editing[v]
        BY DEF S!IInv, S!WellTyped
      <4>2. S!Founded(k) /\ (k.op = "create" => k.next \in Nat)
        BY <4>1, StageJobShapes DEF S!IInv
      <4>3. /\ Len(stages) \in Nat /\ Len(stages') \in Nat /\ Len(stages) <= Len(stages')
            /\ DOMAIN stages \subseteq DOMAIN stages'
            /\ \A i \in DOMAIN stages : stages'[i].amount = stages[i].amount
        BY <1>5, <2>5
      <4>4. S!Founded(k)'
        BY <1>8, <2>9, <4>2, <4>3, StageRequestStays
      <4>5. k = editing'[v]
        BY <2>7, <3>3, <4>1
      <4>6. QED
        BY <4>4, <4>5 DEF S!Founded
    <3>4. QED
      BY <3>1, <3>2, <3>3
  <2>11. S!OneMaker'
    <3>1. \A k \in DOMAIN stages : stages[k].amount = S!Split(t.amount, t.count)[k]
      <4>1. CASE stages = <<>>
        BY <4>1
      <4>2. CASE stages # <<>>
        BY <1>1, <1>3, <2>1, <4>2 DEF S!IInv, S!OneMaker, S!MadeFrom
      <4>3. QED
        BY <4>1, <4>2
    <3>2. \A k \in DOMAIN stages' : stages'[k].amount = S!Split(t.amount, t.count)[k]
      BY <1>5, <2>1, <2>2, <2>5, <3>1
    <3>3. ASSUME NEW v \in Requests, editing'[v].op = "create", editing'[v].next = Len(stages') + 1
          PROVE  editing'[v].for = t
      <4>1. CASE v = w
        BY <2>6, <2>7, <3>3, <4>1, NotWaiting
      <4>2. CASE v # w
        <5>1. PICK k \in S!Jobs : k = editing[v] /\ k = editing'[v] /\ k.op = "create"
          BY <2>7, <3>3, <4>2
        <5>2. PICK m \in Nat : m = k.next /\ m <= n + 1
          BY <1>5, <5>1, StageJobShapes DEF S!IInv, S!Founded
        <5>3. m = n + 2
          BY <2>5, <3>3, <5>1, <5>2
        <5>4. QED
          BY <5>2, <5>3
      <4>3. QED
        BY <4>1, <4>2
    <3>4. S!MadeFrom(t)'
      BY <1>4, <1>6, <2>1, <2>5, <3>2, <3>3 DEF S!MadeFrom, S!Leads
    <3>5. late \/ t = S!Terms(row)
      BY <1>2, <1>3 DEF S!Founded
    <3>6. late \/ Len(stages') = row.count \/ \E v \in Requests : S!Leads(editing[v])'
      <4>1. CASE next = c
        BY <1>4, <2>1, <2>5, <3>5, <4>1 DEF S!Terms
      <4>2. CASE next # c
        <5>1. jj.next = Len(stages') + 1
          BY <2>5, <2>6, <4>2
        <5>2. QED
          BY <2>6, <2>7, <4>2, <5>1 DEF S!Leads
      <4>3. QED
        BY <4>1, <4>2
    <3>7. QED
      BY <1>8, <3>4, <3>5, <3>6 DEF S!OneMaker
  <2>12. n + 1 \in S!Numbers /\ payments[n + 1] = 0
    <3>1. c <= S!Max(Counts) /\ S!Max(Counts) \in Nat
      BY <1>4, DealTypes, MostStages
    <3>2. n + 1 \in 1 .. S!Max(Counts)
      BY <1>6, <2>1, <3>1
    <3>3. n + 1 \in S!Numbers \ DOMAIN stages
      BY <1>5, <3>2 DEF S!Numbers
    <3>4. QED
      BY <3>3 DEF S!IInv, S!UnapprovedIsClear
  <2>13. S!UnapprovedIsClear'
    <3>1. ASSUME NEW i \in DOMAIN stages', ~stages'[i].approved PROVE S!Clear(i)
      <4>1. CASE i = n + 1
        BY <2>12, <4>1 DEF S!Clear
      <4>2. CASE i # n + 1
        BY <1>5, <2>5, <3>1, <4>2 DEF S!IInv, S!UnapprovedIsClear
      <4>3. QED
        BY <4>1, <4>2
    <3>2. \A i \in S!Numbers \ DOMAIN stages' : i \in S!Numbers \ DOMAIN stages
      BY <1>5, <2>5
    <3>3. QED
      BY <1>8, <2>9, <3>1, <3>2 DEF S!IInv, S!UnapprovedIsClear
  <2>14. S!Total(Worth(stages', payments)) = S!Total(Worth(stages, payments))
    <3>1. PICK f, g : f = Worth(stages, payments) /\ g = Worth(stages', payments)
      OBVIOUS
    <3>2. f \in [1 .. n -> Int] /\ g \in [1 .. n + 1 -> Int]
      <4>1. DOMAIN stages \subseteq S!Numbers /\ DOMAIN stages' \subseteq S!Numbers
        BY <1>5, <2>5, <2>12, StageNumbers
      <4>2. payments \in [S!Numbers -> Nat]
        BY DEF S!IInv, S!WellTyped
      <4>3. QED
        BY <1>5, <2>5, <3>1, <4>1, <4>2, WorthType
    <3>3. \A i \in 1 .. n : g[i] = f[i]
      BY <1>5, <2>5, <3>1 DEF Worth
    <3>4. g[n + 1] = 0
      <4>1. e.amount \in Int /\ 0 * e.amount = 0
        BY DEF S!Stage
      <4>2. QED
        BY <2>5, <2>12, <3>1, <4>1 DEF Worth
    <3>5. SumFunction(g) = SumFunction(f) + g[n + 1]
      BY <3>2, <3>3, SumAppended
    <3>6. SumFunction(f) \in Int
      BY <3>2, FS_Interval, SumOfIntegers
    <3>7. QED
      BY <3>1, <3>4, <3>5, <3>6, StageTotal
  <2>15. S!StagesArePaidOnce'
    <3>1. ASSUME NEW i \in DOMAIN stages', stages'[i].approved PROVE payments[i] > 0
      <4>1. i \in DOMAIN stages /\ stages[i].approved
        BY <1>5, <2>2, <2>5, <3>1
      <4>2. QED
        BY <4>1 DEF S!IInv, S!StagesArePaidOnce
    <3>2. QED
      BY <1>8, <2>14, <3>1 DEF S!IInv, S!StagesArePaidOnce, Worth
  <2>16. QED
    BY <2>8, <2>10, <2>11, <2>13, <2>15 DEF S!IInv
<1>11. QED
  BY <1>9, <1>10


\* What is saved keeps its terms, and leaves the draft only when they are complete.
LEMMA RowSaved ==
    ASSUME NEW r \in S!Rows, r.status = "pending_acceptance" => S!Ready(r)
    PROVE  /\ S!Saved(r) \in S!Rows /\ S!Terms(S!Saved(r)) = S!Terms(r)
           /\ S!Saved(r).total_paid = r.total_paid
           /\ r.status # "completed" => S!Saved(r).status # "completed"
           /\ S!Saved(r).status = "pending_acceptance" => S!Ready(S!Saved(r)) /\ S!Ready(r)
           /\ r.status # "draft" => S!Saved(r) = r
           /\ S!Saved(r).status # r.status => S!Ready(r)
<1>1. [r EXCEPT !.status = "pending_acceptance"] \in S!Rows
      /\ [r EXCEPT !.status = "pending_acceptance"].amount = r.amount
      /\ [r EXCEPT !.status = "pending_acceptance"].count = r.count
      /\ [r EXCEPT !.status = "pending_acceptance"].total_paid = r.total_paid
      /\ [r EXCEPT !.status = "pending_acceptance"].status = "pending_acceptance"
  BY DEF S!Rows
<1>2. CASE r.status = "draft" /\ S!Ready(r) /\ r.described
  BY <1>1, <1>2 DEF S!Saved, S!Terms, S!Ready
<1>3. CASE ~(r.status = "draft" /\ S!Ready(r) /\ r.described)
  <2>1. S!Saved(r) = r
    BY <1>3 DEF S!Saved
  <2>2. QED
    BY <2>1
<1>4. QED
  BY <1>2, <1>3

LEMMA DealSaved == ASSUME NEW r \in S!Rows, S!Ready(r) PROVE S!Terms(r) \in S!Deals
<1>1. r.amount \in Prices \cup {0} /\ r.count \in Counts \cup {0}
  BY DEF S!Rows
<1>2. r.amount # 0 /\ r.count # 0
  BY DEF S!Ready
<1>3. QED
  BY <1>1, <1>2 DEF S!Deals, S!Terms, S!Ready


\* The other requests still hold what they read, while the stages only become more.
LEMMA OtherStageRequestsStay ==
    ASSUME S!IInv, NEW v \in Requests, editing'[v] = editing[v],
           Len(stages') \in Nat, Len(stages) <= Len(stages'),
           DOMAIN stages \subseteq DOMAIN stages',
           \A k \in DOMAIN stages : stages'[k].amount = stages[k].amount,
           UNCHANGED <<payments, crossed>>,
           S!Creating => late' \/ (late' = late /\ S!Terms(row') = S!Terms(row))
    PROVE  S!Founded(editing[v])'
<1>1. PICK j \in S!Jobs : j = editing[v]
  BY DEF S!IInv, S!WellTyped
<1>2. S!Founded(j) /\ (j.op = "create" => j.next \in Nat)
  BY <1>1, StageJobShapes DEF S!IInv
<1>3. j.op = "create" => S!Creating
  BY <1>1 DEF S!Creating, S!InFlight
<1>4. j.op \in {"edit", "approve"} => (S!Clear(j.on) => S!Clear(j.on)')
  BY DEF S!Clear
<1>5. Len(stages) \in Nat
  BY StageNumbers
<1>6. S!Founded(j)'
  BY <1>2, <1>3, <1>4, <1>5, StageRequestStays
<1>7. QED
  BY <1>1, <1>6 DEF S!Founded

LEMMA ProposalsKeep == ASSUME S!IInv, NEW w \in Requests, S!CommitPropose(w) PROVE S!IInv'
<1>1. PICK j \in S!Jobs : j = editing[w] /\ j.op = "propose" /\ S!Founded(j)
  BY DEF S!IInv, S!WellTyped, S!CommitPropose, S!InFlight
<1>2. PICK r \in S!Rows : r = j.saves /\ r.status = "draft"
  BY <1>1, StageJobShapes DEF S!Founded
<1>3. PICK jj : jj = IF S!Ready(r) /\ stages = <<>>
                     THEN [op |-> "create", for |-> S!Terms(r), next |-> 1] ELSE S!Idle
  OBVIOUS
<1>4. /\ editing' = [editing EXCEPT ![w] = jj] /\ row' = S!Saved(r)
      /\ late' = (late \/ (S!Terms(r) # S!Terms(row) /\ (stages # <<>> \/ S!Creating)))
      /\ lost' = (lost \/ r.total_paid # row.total_paid)
      /\ stages' = stages /\ payments' = payments /\ aborted' = aborted /\ crossed' = crossed
  BY <1>1, <1>2, <1>3 DEF S!CommitPropose, S!SaveRow
<1>5. /\ row' \in S!Rows /\ S!Terms(row') = S!Terms(r) /\ row'.total_paid = r.total_paid
      /\ row'.status # "completed"
      /\ row'.status = "pending_acceptance" => S!Ready(row') /\ S!Ready(r)
  BY <1>2, <1>4, RowSaved
<1>6. jj \in S!Jobs /\ (stages # <<>> => jj = S!Idle)
      /\ (S!Ready(r) /\ stages = <<>> => jj.op = "create" /\ jj.for = S!Terms(r) /\ jj.next = 1)
      /\ (jj = S!Idle \/ (S!Ready(r) /\ stages = <<>>))
  <2>1. CASE S!Ready(r) /\ stages = <<>>
    <3>1. jj = [op |-> "create", for |-> S!Terms(r), next |-> 1]
      BY <1>3, <2>1
    <3>2. 1 \in Nat \ {0} /\ S!Terms(r) \in S!Deals
      BY <2>1, DealSaved
    <3>3. jj \in [op : {"create"}, for : S!Deals, next : Nat \ {0}]
      BY <3>1, <3>2
    <3>4. QED
      BY <2>1, <3>1, <3>3 DEF S!Jobs
  <2>2. CASE ~(S!Ready(r) /\ stages = <<>>)
    BY <1>3, <2>2, NotWaiting
  <2>3. QED
    BY <2>1, <2>2
<1>7. /\ editing' \in [Requests -> S!Jobs] /\ editing'[w] = jj
      /\ \A v \in Requests \ {w} : editing'[v] = editing[v]
  BY <1>4, <1>6 DEF S!IInv, S!WellTyped
<1>8. late' \in BOOLEAN /\ lost' \in BOOLEAN /\ aborted \in BOOLEAN
  BY <1>4 DEF S!IInv, S!WellTyped
<1>9. S!WellTyped'
  <2>1. stages' \in Seq(S!Stage) /\ payments' \in [S!Numbers -> Nat]
    BY <1>4 DEF S!IInv, S!WellTyped
  <2>2. QED
    BY <1>4, <1>5, <1>7, <1>8, <2>1 DEF S!WellTyped
<1>10. PICK n \in Nat : n = Len(stages) /\ (n = 0 <=> stages = <<>>)
  BY Entries DEF S!IInv, S!WellTyped
<1>11. ASSUME NEW v \in Requests PROVE S!Founded(editing[v])'
  <2>1. CASE v # w
    <3>1. S!Creating => late' \/ (late' = late /\ S!Terms(row') = S!Terms(row))
      BY <1>4, <1>5 DEF S!IInv, S!WellTyped
    <3>2. QED
      BY <1>4, <1>7, <1>10, <2>1, <3>1, OtherStageRequestsStay
  <2>2. CASE v = w /\ jj = S!Idle
    BY <1>7, <2>2 DEF S!Founded, S!Idle
  <2>3. CASE v = w /\ S!Ready(r) /\ stages = <<>>
    <3>1. PICK c \in Nat : c = S!Terms(r).count /\ c # 0
      BY <2>3, DealSaved, DealTypes
    <3>2. 1 <= c /\ 1 <= n + 1
      BY <3>1
    <3>3. QED
      BY <1>4, <1>5, <1>6, <1>7, <1>10, <2>3, <3>1, <3>2 DEF S!Founded
  <2>4. QED
    BY <1>6, <2>1, <2>2, <2>3
<1>12. S!OneMaker'
  <2>1. ASSUME NEW v \in Requests, stages # <<>>, S!Leads(editing[v])' PROVE S!Leads(editing[v]) /\ editing'[v] = editing[v]
    <3>1. v # w
      BY <1>6, <1>7, <2>1, NotWaiting DEF S!Leads
    <3>2. QED
      BY <1>4, <1>7, <2>1, <3>1 DEF S!Leads
  <2>2. ASSUME stages # <<>>
        PROVE  \E t \in S!Deals : S!MadeFrom(t)' /\ (late' \/ t = S!Terms(row'))
    <3>1. PICK t \in S!Deals : S!MadeFrom(t) /\ (late \/ t = S!Terms(row))
      BY <2>2 DEF S!IInv, S!OneMaker
    <3>2. S!MadeFrom(t)'
      BY <1>4, <2>1, <2>2, <3>1 DEF S!MadeFrom
    <3>3. QED
      BY <1>4, <1>5, <2>2, <3>1, <3>2
  <2>3. \/ late' \/ aborted'
        \/ stages' = <<>> /\ row'.status = "draft"
        \/ Len(stages') = row'.count
        \/ \E v \in Requests : S!Leads(editing[v])'
    <3>1. CASE stages = <<>> /\ row'.status = "draft"
      BY <1>4, <3>1
    <3>2. CASE stages = <<>> /\ row'.status # "draft"
      <4>1. S!Ready(r)
        <5>1. row'.status \in {"draft", "pending_acceptance", "completed"}
          BY <1>5 DEF S!Rows
        <5>2. QED
          BY <1>5, <3>2, <5>1
      <4>2. jj.op = "create" /\ jj.next = Len(stages') + 1
        BY <1>4, <1>6, <1>10, <3>2, <4>1
      <4>3. QED
        BY <1>7, <4>2 DEF S!Leads
    <3>3. CASE stages # <<>> /\ ~late' /\ ~aborted
      <4>1. ~late /\ S!Terms(r) = S!Terms(row)
        BY <1>4, <3>3
      <4>2. row'.count = row.count
        BY <1>5, <4>1 DEF S!Terms
      <4>3. Len(stages) = row.count \/ \E v \in Requests : S!Leads(editing[v])
        BY <3>3, <4>1 DEF S!IInv, S!OneMaker
      <4>4. ASSUME NEW v \in Requests, S!Leads(editing[v]) PROVE S!Leads(editing[v])'
        <5>1. v # w
          BY <1>1, <4>4 DEF S!Leads
        <5>2. QED
          BY <1>4, <1>7, <4>4, <5>1 DEF S!Leads
      <4>5. QED
        BY <1>4, <4>2, <4>3, <4>4
    <3>4. QED
      BY <1>4, <3>1, <3>2, <3>3
  <2>4. QED
    BY <1>4, <2>2, <2>3 DEF S!OneMaker
<1>13. S!UnapprovedIsClear'
  BY <1>4 DEF S!IInv, S!UnapprovedIsClear, S!Clear
<1>14. S!StagesArePaidOnce'
  BY <1>4, <1>5 DEF S!IInv, S!StagesArePaidOnce, S!Total
<1>15. QED
  BY <1>9, <1>11, <1>12, <1>13, <1>14 DEF S!IInv

LEMMA AcceptancesKeep == ASSUME S!IInv, NEW w \in Requests, S!CommitAccept(w) PROVE S!IInv'
<1>1. PICK j \in S!Jobs : j = editing[w] /\ j.op = "accept" /\ S!Founded(j)
  BY DEF S!IInv, S!WellTyped, S!CommitAccept, S!InFlight
<1>2. PICK r \in S!Rows : r = j.saves /\ r.status = "pending_acceptance" /\ S!Ready(r)
  BY <1>1, StageJobShapes DEF S!Founded
<1>3. PICK t \in S!Deals : t = S!Terms(r)
  BY <1>2, DealSaved
<1>4. /\ editing' = [editing EXCEPT ![w] = S!Idle] /\ row' = S!Saved(r)
      /\ late' = (late \/ (S!Terms(r) # S!Terms(row) /\ (stages # <<>> \/ S!Creating)))
      /\ lost' = (lost \/ r.total_paid # row.total_paid)
      /\ stages' = IF stages = <<>> THEN S!NewStages(t) ELSE stages
      /\ payments' = payments /\ aborted' = aborted /\ crossed' = crossed
  BY <1>1, <1>2, <1>3 DEF S!CommitAccept, S!SaveRow, S!Finish
<1>5. row' = r /\ S!Terms(row') = t
  BY <1>2, <1>3, <1>4, RowSaved
<1>6. /\ editing' \in [Requests -> S!Jobs] /\ editing'[w] = S!Idle
      /\ \A v \in Requests : editing'[v] = editing[v] \/ (v = w /\ editing'[v] = S!Idle)
      /\ \A v \in Requests \ {w} : editing'[v] = editing[v]
  BY <1>4, NotWaiting DEF S!IInv, S!WellTyped
<1>7. PICK c \in Nat : c = t.count /\ c # 0 /\ c = row'.count
  <2>1. t.count = row'.count
    BY <1>5 DEF S!Terms
  <2>2. QED
    BY <2>1, DealTypes
<1>8. PICK n \in Nat : n = Len(stages) /\ (n = 0 <=> stages = <<>>) /\ DOMAIN stages = 1 .. n
  BY Entries DEF S!IInv, S!WellTyped
<1>9. payments \in [S!Numbers -> Nat] /\ row.total_paid \in Int
  BY DEF S!IInv, S!WellTyped, S!Rows
<1>10. /\ stages' \in Seq(S!Stage) /\ Len(stages') \in Nat /\ n <= Len(stages')
       /\ DOMAIN stages \subseteq DOMAIN stages' /\ DOMAIN stages' \subseteq S!Numbers
       /\ \A k \in DOMAIN stages : stages'[k] = stages[k]
       /\ stages = <<>> => /\ Len(stages') = c /\ DOMAIN stages' = 1 .. c /\ stages' # <<>>
                           /\ \A k \in 1 .. c : /\ ~stages'[k].approved
                                               /\ stages'[k].amount = S!Split(t.amount, t.count)[k]
  <2>1. CASE stages = <<>>
    <3>1. stages' = S!NewStages(t)
      BY <1>4, <2>1
    <3>2. /\ stages' \in Seq(S!Stage) /\ Len(stages') = c
          /\ \A k \in 1 .. c : /\ ~stages'[k].approved
                              /\ stages'[k].amount = S!Split(t.amount, t.count)[k]
      BY <1>7, <3>1, NewStagesMade
    <3>3. DOMAIN stages' = 1 .. c /\ stages' # <<>>
      BY <1>7, <3>2, Entries
    <3>4. 1 .. c \subseteq S!Numbers
      <4>1. PICK m \in Nat : m = S!Max(Counts)
        BY MostStages
      <4>2. c <= m
        BY <1>7, <4>1, DealTypes
      <4>3. 1 .. c \subseteq 1 .. m
        BY <4>2
      <4>4. QED
        BY <4>1, <4>3 DEF S!Numbers
    <3>5. QED
      BY <1>8, <2>1, <3>2, <3>3, <3>4
  <2>2. CASE stages # <<>>
    BY <1>4, <1>8, <2>2, StageNumbers DEF S!IInv, S!WellTyped
  <2>3. QED
    BY <2>1, <2>2
<1>11. S!WellTyped'
  <2>1. late' \in BOOLEAN /\ lost' \in BOOLEAN /\ aborted' \in BOOLEAN
    BY <1>4 DEF S!IInv, S!WellTyped
  <2>2. QED
    BY <1>2, <1>4, <1>5, <1>6, <1>9, <1>10, <2>1 DEF S!WellTyped
<1>12. ASSUME NEW v \in Requests PROVE S!Founded(editing[v])'
  <2>1. CASE v # w
    <3>1. S!Creating => late' \/ (late' = late /\ S!Terms(row') = S!Terms(row))
      BY <1>3, <1>4, <1>5 DEF S!IInv, S!WellTyped
    <3>2. QED
      BY <1>4, <1>6, <1>8, <1>10, <2>1, <3>1, OtherStageRequestsStay
  <2>2. CASE v = w
    BY <1>6, <2>2 DEF S!Founded, S!Idle
  <2>3. QED
    BY <2>1, <2>2
<1>13. S!OneMaker'
  <2>1. CASE stages = <<>>
    <3>1. ASSUME NEW v \in Requests, S!Leads(editing[v])' PROVE FALSE
      <4>1. PICK k \in S!Jobs : k = editing[v] /\ k = editing'[v] /\ k.op = "create"
        BY <1>6, <3>1, NotWaiting DEF S!Leads
      <4>2. PICK m \in Nat : m = k.next /\ m <= n + 1
        BY <1>8, <4>1, StageJobShapes DEF S!IInv, S!Founded
      <4>3. m = c + 1
        BY <1>10, <2>1, <3>1, <4>1, <4>2 DEF S!Leads
      <4>4. QED
        BY <1>7, <1>8, <2>1, <4>2, <4>3
    <3>2. S!MadeFrom(t)'
      BY <1>7, <1>10, <2>1, <3>1 DEF S!MadeFrom
    <3>3. QED
      BY <1>5, <1>7, <1>10, <2>1, <3>2 DEF S!OneMaker
  <2>2. CASE stages # <<>>
    <3>1. stages' = stages
      BY <1>4, <2>2
    <3>2. \A v \in Requests : S!Leads(editing[v])' <=> S!Leads(editing[v])
      BY <1>1, <1>6, <3>1, NotWaiting DEF S!Leads
    <3>3. \A v \in Requests : S!Leads(editing[v])' => editing'[v] = editing[v]
      BY <1>6, NotWaiting DEF S!Leads
    <3>4. PICK u \in S!Deals : S!MadeFrom(u) /\ (late \/ u = S!Terms(row))
      BY <2>2 DEF S!IInv, S!OneMaker
    <3>5. S!MadeFrom(u)'
      BY <3>1, <3>2, <3>3, <3>4 DEF S!MadeFrom
    <3>6. late' \/ u = S!Terms(row')
      BY <1>3, <1>4, <1>5, <2>2, <3>4
    <3>7. \/ late' \/ aborted' \/ Len(stages') = row'.count
          \/ \E v \in Requests : S!Leads(editing[v])'
      <4>1. ASSUME ~late' PROVE ~late /\ row'.count = row.count
        BY <1>3, <1>4, <1>5, <2>2, <4>1 DEF S!Terms
      <4>2. late \/ aborted \/ Len(stages) = row.count \/ \E v \in Requests : S!Leads(editing[v])
        BY <2>2 DEF S!IInv, S!OneMaker
      <4>3. QED
        BY <1>4, <3>1, <3>2, <4>1, <4>2
    <3>8. QED
      BY <3>5, <3>6, <3>7 DEF S!OneMaker
  <2>3. QED
    BY <2>1, <2>2
<1>14. S!UnapprovedIsClear'
  <2>1. ASSUME NEW k \in DOMAIN stages', ~stages'[k].approved PROVE S!Clear(k)
    <3>1. CASE k \in DOMAIN stages
      BY <1>10, <2>1, <3>1 DEF S!IInv, S!UnapprovedIsClear
    <3>2. CASE k \notin DOMAIN stages
      BY <1>10, <3>2 DEF S!IInv, S!UnapprovedIsClear, S!Clear
    <3>3. QED
      BY <3>1, <3>2
  <2>2. \A k \in S!Numbers \ DOMAIN stages' : payments[k] = 0
    BY <1>10 DEF S!IInv, S!UnapprovedIsClear
  <2>3. QED
    BY <1>4, <2>1, <2>2 DEF S!UnapprovedIsClear, S!Clear
<1>15. S!StagesArePaidOnce'
  <2>1. S!Total(Worth(stages', payments)) = S!Total(Worth(stages, payments))
    <3>1. CASE stages = <<>>
      <4>1. \A k \in DOMAIN stages' \cup DOMAIN stages : payments[k] = 0
        BY <1>8, <1>10, <3>1 DEF S!IInv, S!UnapprovedIsClear
      <4>2. QED
        BY <1>9, <1>10, <4>1, NothingPaid DEF S!IInv, S!WellTyped
    <3>2. CASE stages # <<>>
      BY <1>4, <3>2
    <3>3. QED
      BY <3>1, <3>2
  <2>2. ASSUME NEW k \in DOMAIN stages', stages'[k].approved PROVE payments[k] > 0
    <3>1. stages # <<>>
      BY <1>10, <2>2
    <3>2. stages' = stages
      BY <1>4, <3>1
    <3>3. QED
      BY <2>2, <3>2 DEF S!IInv, S!StagesArePaidOnce
  <2>3. lost' \/ (row'.total_paid = row.total_paid /\ ~lost)
    BY <1>4, <1>5
  <2>4. QED
    BY <1>4, <2>1, <2>2, <2>3 DEF S!IInv, S!StagesArePaidOnce, Worth
<1>16. QED
  BY <1>11, <1>12, <1>13, <1>14, <1>15 DEF S!IInv


\* A request that fetches its rows holds what is there.
LEMMA StageRequestBegins ==
    ASSUME S!IInv, NEW w \in Requests, NEW j \in S!Jobs, S!Begin(w, j), S!Founded(j), j.op # "create"
    PROVE  S!IInv'
<1>1. /\ editing' = [editing EXCEPT ![w] = j] /\ editing[w] = S!Idle
      /\ UNCHANGED <<row, stages, payments, late, crossed, lost>> /\ aborted' = aborted
  BY DEF S!Begin, S!history
<1>2. ~S!Leads(j) /\ ~S!Leads(editing[w]) /\ aborted \in BOOLEAN
  BY <1>1, NotWaiting DEF S!Leads, S!IInv, S!WellTyped
<1>3. QED
  BY <1>1, <1>2, StageRequestMoves

LEMMA TermsFetched == ASSUME S!IInv, NEW w \in Requests, S!BeginPropose(w) PROVE S!IInv'
<1>1. PICK a \in Prices \cup {row.amount}, n \in Counts \cup {row.count}, d \in {row.described, TRUE} :
          S!Begin(w, [op |-> "propose",
                    saves |-> [row EXCEPT !.amount = a, !.count = n, !.described = d]])
  BY DEF S!BeginPropose
<1>2. row \in S!Rows /\ row.status = "draft"
  BY DEF S!BeginPropose, S!IInv, S!WellTyped
<1>3. a \in Prices \cup {0} /\ n \in Counts \cup {0} /\ d \in BOOLEAN
  BY <1>2 DEF S!Rows
<1>4. PICK r : r = [row EXCEPT !.amount = a, !.count = n, !.described = d]
  OBVIOUS
<1>5. r \in S!Rows /\ r.status = "draft"
  BY <1>2, <1>3, <1>4 DEF S!Rows
<1>6. PICK j : j = [op |-> "propose", saves |-> r]
  OBVIOUS
<1>7. j \in S!Jobs /\ j.op = "propose" /\ j.saves = r
  BY <1>5, <1>6 DEF S!Jobs
<1>8. S!Founded(j)
  BY <1>5, <1>7 DEF S!Founded
<1>9. S!Begin(w, j)
  BY <1>1, <1>4, <1>6
<1>10. QED
  BY <1>7, <1>8, <1>9, StageRequestBegins

LEMMA AcceptanceFetched == ASSUME S!IInv, NEW w \in Requests, S!BeginAccept(w) PROVE S!IInv'
<1>1. row \in S!Rows /\ row.status = "pending_acceptance" /\ S!Ready(row)
  BY DEF S!BeginAccept, S!IInv, S!WellTyped
<1>2. PICK j : j = [op |-> "accept", saves |-> row]
  OBVIOUS
<1>3. j \in S!Jobs /\ j.op = "accept" /\ j.saves = row
  BY <1>1, <1>2 DEF S!Jobs
<1>4. S!Founded(j)
  BY <1>1, <1>3 DEF S!Founded
<1>5. S!Begin(w, j)
  BY <1>2 DEF S!BeginAccept
<1>6. QED
  BY <1>3, <1>4, <1>5, StageRequestBegins

LEMMA StageFetched ==
    ASSUME S!IInv, NEW w \in Requests, NEW k \in DOMAIN stages, S!BeginEdit(w, k) \/ S!BeginApprove(w, k)
    PROVE  S!IInv'
<1>1. stages[k] \in S!Stage /\ k \in S!Numbers
  BY StageNumbers
<1>2. ~stages[k].approved /\ S!Clear(k)
  BY DEF S!BeginEdit, S!BeginApprove, S!Unpaid, S!IInv, S!UnapprovedIsClear
<1>3. CASE S!BeginEdit(w, k)
  <2>1. PICK j : j = [op |-> "edit", on |-> k, saves |-> stages[k]]
    OBVIOUS
  <2>2. j \in S!Jobs /\ j.op = "edit" /\ j.on = k /\ j.saves = stages[k]
    BY <1>1, <2>1 DEF S!Jobs
  <2>3. S!Founded(j)
    BY <1>2, <2>2 DEF S!Founded
  <2>4. S!Begin(w, j)
    BY <1>3, <2>1 DEF S!BeginEdit
  <2>5. QED
    BY <2>2, <2>3, <2>4, StageRequestBegins
<1>4. CASE S!BeginApprove(w, k)
  <2>1. PICK j : j = [op |-> "approve", on |-> k, total |-> row.total_paid]
    OBVIOUS
  <2>2. row.total_paid \in Int
    BY DEF S!IInv, S!WellTyped, S!Rows
  <2>3. j \in S!Jobs /\ j.op = "approve" /\ j.on = k
    BY <1>1, <2>1, <2>2 DEF S!Jobs
  <2>4. S!Founded(j)
    BY <1>2, <2>3 DEF S!Founded
  <2>5. S!Begin(w, j)
    BY <1>4, <2>1 DEF S!BeginApprove
  <2>6. QED
    BY <2>3, <2>4, <2>5, StageRequestBegins
<1>5. QED
  BY <1>3, <1>4

LEMMA AbandonsKeep == ASSUME S!IInv, NEW w \in Requests, S!Abandon(w) PROVE S!IInv'
<1>1. /\ editing' = [editing EXCEPT ![w] = S!Idle] /\ UNCHANGED <<row, stages, payments, late, crossed, lost>>
      /\ aborted' = (aborted \/ S!InFlight(w, "create"))
  BY DEF S!Abandon, S!Finish
<1>2. aborted' \in BOOLEAN /\ (aborted => aborted')
  BY <1>1 DEF S!IInv, S!WellTyped
<1>3. aborted' \/ ~S!Leads(editing[w])
  BY <1>1 DEF S!Leads, S!InFlight
<1>4. QED
  BY <1>1, <1>2, <1>3, NotWaiting, StageRequestMoves

LEMMA StagesStep == S!IInv /\ [S!Next]_(S!vars) => S!IInv'
<1> SUFFICES ASSUME S!IInv, [S!Next]_(S!vars) PROVE S!IInv'
  OBVIOUS
<1>1. CASE UNCHANGED S!vars
  <2>1. UNCHANGED <<row, stages, payments, editing, late, aborted, crossed, lost>>
    BY <1>1 DEF S!vars, S!history
  <2>2. QED
    BY <2>1 DEF S!IInv, S!WellTyped, S!Founded, S!OneMaker, S!MadeFrom, S!Leads, S!UnapprovedIsClear,
                S!StagesArePaidOnce, S!Clear, S!Total
<1>2. ASSUME NEW w \in Requests, S!BeginPropose(w) \/ S!BeginAccept(w) \/ S!Abandon(w) PROVE S!IInv'
  BY <1>2, TermsFetched, AcceptanceFetched, AbandonsKeep
<1>3. ASSUME NEW w \in Requests, S!CommitPropose(w) \/ S!InsertStage(w) \/ S!CommitAccept(w) PROVE S!IInv'
  BY <1>3, ProposalsKeep, StageInsertsKeep, AcceptancesKeep
<1>4. ASSUME NEW w \in Requests, S!CommitEdit(w) \/ S!CommitApprove(w) PROVE S!IInv'
  BY <1>4, StageEditsKeep, StageApprovalsKeep
<1>5. ASSUME NEW w \in Requests, NEW k \in DOMAIN stages, S!BeginEdit(w, k) \/ S!BeginApprove(w, k)
      PROVE  S!IInv'
  BY <1>5, StageFetched
<1>6. ASSUME NEW k \in DOMAIN stages, S!Submit(k) PROVE S!IInv'
  BY <1>6, StageSubmissionsKeep
<1>7. QED
  BY <1>1, <1>2, <1>3, <1>4, <1>5, <1>6 DEF S!Next

-----------------------------------------------------------------------------
\* The stages do not change while the contract's work goes on.
LEMMA StagesStart == WorkInit => S!IInv
BY StagesInit DEF WorkInit

LEMMA StageSteps == S!IInv /\ [WorkNext]_<<part, vars, stageVars>> => S!IInv'
<1>1. [WorkNext]_<<part, vars, stageVars>> => [S!Next]_(S!vars)
  BY DEF WorkNext, stageVars, S!vars, S!history
<1>2. QED
  BY <1>1, StagesStep

\* Whoever inserts the first stage makes the others from the terms it saved, and whatever
\* a request holds of an unapproved stage was not paid, or its payment overlapped it.
THEOREM StageInvariance == WorkSpec => []S!IInv
<1>1. WorkInit => S!IInv
  BY StagesStart
<1>2. S!IInv /\ [WorkNext]_<<part, vars, stageVars>> => S!IInv'
  BY StageSteps
<1>3. QED
  BY <1>1, <1>2, PTL DEF WorkSpec

\* Whatever requests race to create them and however the amount divides, the stages come
\* from one saved proposal and add up to it, and to the contract's terms unless these
\* changed later or the creation broke off (Contract._create_contract_stages).
THEOREM StagesAlwaysAddUp == WorkSpec => []StagesAddUp
<1>1. S!IInv => StagesAddUp
  BY StagesFounded DEF StagesAddUp
<1>2. QED
  BY <1>1, StageInvariance, PTL

\* A stage is paid again only by a request that overlapped its approval, an approved stage
\* was paid, and total_paid sums the payments unless one was saved from an older total
\* (ContractStage.approve_by_client, update_stage).
THEOREM StagesPaidOnce == WorkSpec => []StagesArePaidOnce
<1>1. S!IInv => StagesArePaidOnce
  BY DEF S!IInv, StagesArePaidOnce
<1>2. QED
  BY <1>1, StageInvariance, PTL
=============================================================================
