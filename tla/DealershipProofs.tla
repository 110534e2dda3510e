-------------------------- MODULE DealershipProofs --------------------------
(***************************************************************************)
(* Theorems about a dealership's recharges, cash-outs and settlements, for *)
(* any clients, guarantees, amounts, fees and idempotency keys, and any    *)
(* number of requests in flight.                                           *)
(***************************************************************************)
EXTENDS MCDealership, SumLemmas

-----------------------------------------------------------------------------
(* The sums over rows, as functions of the rows.                           *)

CreditsOf(rs) == [i \in DOMAIN rs |-> rs[i].credit]
PaidOf(cs) ==
    [i \in DOMAIN cs |-> IF cs[i].status = "completed" THEN cs[i].amount ELSE 0]
SettledOf(ss, direction) ==
    [i \in DOMAIN ss |->
        IF ss[i].status = "completed" /\ ss[i].direction = direction THEN ss[i].net ELSE 0]

LEMMA ExposureIsSummed ==
    NetExposure = SumFunction(CreditsOf(recharges)) - SumFunction(PaidOf(cashouts))
                    - SumFunction(SettledOf(settlements, "to platform"))
                    + SumFunction(SettledOf(settlements, "from platform"))
BY DEF NetExposure, Settled, Total, CreditsOf, PaidOf, SettledOf

LEMMA Entries ==
    ASSUME NEW D, NEW s \in Seq(D)
    PROVE  /\ Len(s) \in Nat /\ DOMAIN s = 1 .. Len(s) /\ IsFiniteSet(DOMAIN s)
           /\ \A i \in DOMAIN s : s[i] \in D
<1>1. Len(s) \in Nat /\ DOMAIN s = 1 .. Len(s) /\ \A i \in DOMAIN s : s[i] \in D
  OBVIOUS
<1>2. IsFiniteSet(DOMAIN s)
  BY <1>1, FS_Interval
<1>3. QED
  BY <1>1, <1>2

LEMMA Appended ==
    ASSUME NEW D, NEW s \in Seq(D), NEW e \in D
    PROVE  /\ Append(s, e) \in Seq(D)
           /\ Len(Append(s, e)) = Len(s) + 1
           /\ DOMAIN Append(s, e) = 1 .. Len(s) + 1
           /\ \A i \in 1 .. Len(s) : Append(s, e)[i] = s[i]
           /\ Append(s, e)[Len(s) + 1] = e
OBVIOUS

LEMMA OneMoreRow ==
    ASSUME NEW D, NEW s \in Seq(D), NEW e \in D
    PROVE  \E t \in Seq(D) :
              /\ t = Append(s, e) /\ DOMAIN s \subseteq DOMAIN t
              /\ \A i \in DOMAIN t : t[i] = e \/ (i \in DOMAIN s /\ t[i] = s[i])
<1>1. PICK n \in Nat : n = Len(s) /\ DOMAIN s = 1 .. n
  BY Entries
<1>2. PICK t : t = Append(s, e)
  OBVIOUS
<1>3. /\ t \in Seq(D) /\ DOMAIN t = 1 .. n + 1
      /\ (\A i \in 1 .. n : t[i] = s[i]) /\ t[n + 1] = e
  BY <1>1, <1>2, Appended
<1>4. \A i \in 1 .. n + 1 : i = n + 1 \/ i \in 1 .. n
  OBVIOUS
<1>5. 1 .. n \subseteq 1 .. n + 1
  OBVIOUS
<1>6. QED
  BY <1>1, <1>2, <1>3, <1>4, <1>5

LEMMA Replaced ==
    ASSUME NEW D, NEW s \in Seq(D), NEW i \in DOMAIN s, NEW e \in D
    PROVE  /\ [s EXCEPT ![i] = e] \in Seq(D)
           /\ DOMAIN [s EXCEPT ![i] = e] = DOMAIN s
           /\ \A k \in DOMAIN s : [s EXCEPT ![i] = e][k] = IF k = i THEN e ELSE s[k]
OBVIOUS

LEMMA CreditsTyped ==
    ASSUME NEW rs \in Seq(RechargeRow)
    PROVE  /\ CreditsOf(rs) \in [DOMAIN rs -> Int] /\ IsFiniteSet(DOMAIN rs)
           /\ SumFunction(CreditsOf(rs)) \in Int
<1>1. \A i \in DOMAIN rs : rs[i].credit \in Int
  <2>1. \A i \in DOMAIN rs : rs[i] \in RechargeRow
    BY Entries
  <2>2. QED
    BY <2>1 DEF RechargeRow
<1>2. CreditsOf(rs) \in [DOMAIN rs -> Int] /\ IsFiniteSet(DOMAIN rs)
  BY <1>1, Entries DEF CreditsOf
<1>3. QED
  BY <1>2, SumOfIntegers

LEMMA PaidTyped ==
    ASSUME NEW cs \in Seq(CashoutRow)
    PROVE  /\ PaidOf(cs) \in [DOMAIN cs -> Int] /\ IsFiniteSet(DOMAIN cs)
           /\ SumFunction(PaidOf(cs)) \in Int
<1>1. \A i \in DOMAIN cs : cs[i].amount \in Int
  <2>1. \A i \in DOMAIN cs : cs[i] \in CashoutRow
    BY Entries
  <2>2. QED
    BY <2>1 DEF CashoutRow
<1>2. PaidOf(cs) \in [DOMAIN cs -> Int] /\ IsFiniteSet(DOMAIN cs)
  BY <1>1, Entries DEF PaidOf
<1>3. QED
  BY <1>2, SumOfIntegers

LEMMA SettledTyped ==
    ASSUME NEW ss \in Seq(SettlementRow), NEW d
    PROVE  /\ SettledOf(ss, d) \in [DOMAIN ss -> Int] /\ IsFiniteSet(DOMAIN ss)
           /\ SumFunction(SettledOf(ss, d)) \in Int
<1>1. \A i \in DOMAIN ss : ss[i].net \in Int
  <2>1. \A i \in DOMAIN ss : ss[i] \in SettlementRow
    BY Entries
  <2>2. \A e \in SettlementRow : e.net \in Nat
    BY DEF SettlementRow
  <2>3. QED
    BY <2>1, <2>2
<1>2. SettledOf(ss, d) \in [DOMAIN ss -> Int] /\ IsFiniteSet(DOMAIN ss)
  BY <1>1, Entries DEF SettledOf
<1>3. QED
  BY <1>2, SumOfIntegers

LEMMA CreditAdded ==
    ASSUME NEW rs \in Seq(RechargeRow), NEW e \in RechargeRow
    PROVE  SumFunction(CreditsOf(Append(rs, e))) = SumFunction(CreditsOf(rs)) + e.credit
<1>1. PICK n \in Nat : n = Len(rs) /\ DOMAIN rs = 1 .. n
  BY Entries
<1>2. PICK f : f = CreditsOf(rs)
  OBVIOUS
<1>3. PICK g : g = CreditsOf(Append(rs, e))
  OBVIOUS
<1>4. f \in [1 .. n -> Int]
  BY <1>1, <1>2, CreditsTyped
<1>5. DOMAIN Append(rs, e) = 1 .. n + 1 /\ Append(rs, e) \in Seq(RechargeRow)
      /\ (\A i \in 1 .. n : Append(rs, e)[i] = rs[i]) /\ Append(rs, e)[n + 1] = e
  BY <1>1, Appended
<1>6. g \in [1 .. n + 1 -> Int]
  BY <1>3, <1>5, CreditsTyped
<1>7. \A i \in 1 .. n : g[i] = f[i]
  BY <1>1, <1>2, <1>3, <1>5 DEF CreditsOf
<1>8. g[n + 1] = e.credit
  BY <1>1, <1>3, <1>5 DEF CreditsOf
<1>9. SumFunction(g) = SumFunction(f) + g[n + 1]
  BY <1>4, <1>6, <1>7, SumAppended
<1>10. QED
  BY <1>2, <1>3, <1>8, <1>9

LEMMA CashoutAdded ==
    ASSUME NEW cs \in Seq(CashoutRow), NEW e \in CashoutRow, e.status # "completed"
    PROVE  SumFunction(PaidOf(Append(cs, e))) = SumFunction(PaidOf(cs))
<1>1. PICK n \in Nat : n = Len(cs) /\ DOMAIN cs = 1 .. n
  BY Entries
<1>2. PICK f : f = PaidOf(cs)
  OBVIOUS
<1>3. PICK g : g = PaidOf(Append(cs, e))
  OBVIOUS
<1>4. f \in [1 .. n -> Int]
  BY <1>1, <1>2, PaidTyped
<1>5. DOMAIN Append(cs, e) = 1 .. n + 1 /\ Append(cs, e) \in Seq(CashoutRow)
      /\ (\A i \in 1 .. n : Append(cs, e)[i] = cs[i]) /\ Append(cs, e)[n + 1] = e
  BY <1>1, Appended
<1>6. g \in [1 .. n + 1 -> Int]
  BY <1>3, <1>5, PaidTyped
<1>7. \A i \in 1 .. n : g[i] = f[i]
  BY <1>1, <1>2, <1>3, <1>5 DEF PaidOf
<1>8. g[n + 1] = 0
  BY <1>1, <1>3, <1>5 DEF PaidOf
<1>9. SumFunction(g) = SumFunction(f) + g[n + 1]
  BY <1>4, <1>6, <1>7, SumAppended
<1>10. SumFunction(f) \in Int
  BY <1>2, PaidTyped
<1>11. QED
  BY <1>2, <1>3, <1>8, <1>9, <1>10

LEMMA SettlementAdded ==
    ASSUME NEW ss \in Seq(SettlementRow), NEW e \in SettlementRow, e.status # "completed", NEW d
    PROVE  SumFunction(SettledOf(Append(ss, e), d)) = SumFunction(SettledOf(ss, d))
<1>1. PICK n \in Nat : n = Len(ss) /\ DOMAIN ss = 1 .. n
  BY Entries
<1>2. PICK f : f = SettledOf(ss, d)
  OBVIOUS
<1>3. PICK g : g = SettledOf(Append(ss, e), d)
  OBVIOUS
<1>4. f \in [1 .. n -> Int]
  BY <1>1, <1>2, SettledTyped
<1>5. DOMAIN Append(ss, e) = 1 .. n + 1 /\ Append(ss, e) \in Seq(SettlementRow)
      /\ (\A i \in 1 .. n : Append(ss, e)[i] = ss[i]) /\ Append(ss, e)[n + 1] = e
  BY <1>1, Appended
<1>6. g \in [1 .. n + 1 -> Int]
  BY <1>3, <1>5, SettledTyped
<1>7. \A i \in 1 .. n : g[i] = f[i]
  BY <1>1, <1>2, <1>3, <1>5 DEF SettledOf
<1>8. g[n + 1] = 0
  BY <1>1, <1>3, <1>5 DEF SettledOf
<1>9. SumFunction(g) = SumFunction(f) + g[n + 1]
  BY <1>4, <1>6, <1>7, SumAppended
<1>10. SumFunction(f) \in Int
  BY <1>2, SettledTyped
<1>11. QED
  BY <1>2, <1>3, <1>8, <1>9, <1>10

\* A cash-out that is completed counts for its amount, unless it did already.
LEMMA CashoutCompleted ==
    ASSUME NEW cs \in Seq(CashoutRow), NEW k \in DOMAIN cs, NEW e \in CashoutRow,
           e.status = "completed", e.amount = cs[k].amount
    PROVE  SumFunction(PaidOf([cs EXCEPT ![k] = e]))
             = SumFunction(PaidOf(cs)) + (IF cs[k].status = "completed" THEN 0 ELSE e.amount)
<1>1. PICK ds \in Seq(CashoutRow) : ds = [cs EXCEPT ![k] = e]
  BY Replaced
<1>2. DOMAIN ds = DOMAIN cs /\ \A i \in DOMAIN cs : ds[i] = IF i = k THEN e ELSE cs[i]
  BY <1>1, Replaced
<1>3. PICK f : f = PaidOf(cs)
  OBVIOUS
<1>4. PICK g : g = PaidOf(ds)
  OBVIOUS
<1>5. f \in [DOMAIN cs -> Int] /\ g \in [DOMAIN cs -> Int] /\ IsFiniteSet(DOMAIN cs)
  BY <1>2, <1>3, <1>4, PaidTyped, Entries
<1>6. \A i \in DOMAIN cs \ {k} : g[i] = f[i]
  BY <1>2, <1>3, <1>4 DEF PaidOf
<1>7. g[k] = e.amount /\ f[k] = IF cs[k].status = "completed" THEN e.amount ELSE 0
  BY <1>2, <1>3, <1>4 DEF PaidOf
<1>8. SumFunction(g) = SumFunction(f) + g[k] - f[k]
  BY <1>5, <1>6, SumStep
<1>9. SumFunction(f) \in Int /\ e.amount \in Int
  <2>1. SumFunction(f) \in Int
    BY <1>3, PaidTyped
  <2>2. QED
    BY <2>1 DEF CashoutRow
<1>10. QED
  BY <1>1, <1>3, <1>4, <1>7, <1>8, <1>9

\* Rows whose completions and amounts are the same have the same sum.
LEMMA CashoutsSame ==
    ASSUME NEW cs \in Seq(CashoutRow), NEW ds \in Seq(CashoutRow), DOMAIN ds = DOMAIN cs,
           \A i \in DOMAIN cs : /\ ds[i].amount = cs[i].amount
                                /\ ds[i].status = "completed" <=> cs[i].status = "completed"
    PROVE  SumFunction(PaidOf(ds)) = SumFunction(PaidOf(cs))
<1>1. PaidOf(ds) = PaidOf(cs)
  BY DEF PaidOf
<1>2. QED
  BY <1>1

LEMMA SettlementCompleted ==
    ASSUME NEW ss \in Seq(SettlementRow), NEW k \in DOMAIN ss, NEW e \in SettlementRow,
           e.status = "completed", e.net = ss[k].net, e.direction = ss[k].direction, NEW d
    PROVE  SumFunction(SettledOf([ss EXCEPT ![k] = e], d))
             = SumFunction(SettledOf(ss, d))
                 + (IF ss[k].status = "completed" \/ e.direction # d THEN 0 ELSE e.net)
<1>1. PICK ts \in Seq(SettlementRow) : ts = [ss EXCEPT ![k] = e]
  BY Replaced
<1>2. DOMAIN ts = DOMAIN ss /\ \A i \in DOMAIN ss : ts[i] = IF i = k THEN e ELSE ss[i]
  BY <1>1, Replaced
<1>3. PICK f : f = SettledOf(ss, d)
  OBVIOUS
<1>4. PICK g : g = SettledOf(ts, d)
  OBVIOUS
<1>5. f \in [DOMAIN ss -> Int] /\ g \in [DOMAIN ss -> Int] /\ IsFiniteSet(DOMAIN ss)
  BY <1>2, <1>3, <1>4, SettledTyped, Entries
<1>6. \A i \in DOMAIN ss \ {k} : g[i] = f[i]
  BY <1>2, <1>3, <1>4 DEF SettledOf
<1>7. /\ g[k] = IF e.direction = d THEN e.net ELSE 0
      /\ f[k] = IF ss[k].status = "completed" /\ e.direction = d THEN e.net ELSE 0
  BY <1>2, <1>3, <1>4 DEF SettledOf
<1>8. SumFunction(g) = SumFunction(f) + g[k] - f[k]
  BY <1>5, <1>6, SumStep
<1>9. SumFunction(f) \in Int /\ e.net \in Int
  <2>1. SumFunction(f) \in Int
    BY <1>3, SettledTyped
  <2>2. e.net \in Nat
    BY DEF SettlementRow
  <2>3. QED
    BY <2>1, <2>2
<1>10. QED
  BY <1>1, <1>3, <1>4, <1>7, <1>8, <1>9
-----------------------------------------------------------------------------
(* The types of the state.                                                 *)

LEMMA LimitType == Limit \in Nat
<1>1. IsFiniteSet({g \in Guarantees : guarantee[g] = "verified"})
  BY PartiesAssumption, FS_Subset
<1>2. PICK n \in Nat : n = Cardinality({g \in Guarantees : guarantee[g] = "verified"})
  BY <1>1, FS_CardinalityType
<1>3. GuaranteeLimit * n \in Nat
  BY <1>2, AmountsAssumption
<1>4. QED
  BY <1>2, <1>3 DEF Limit

LEMMA LimitTypeNext == Limit' \in Nat
<1>1. IsFiniteSet({g \in Guarantees : guarantee'[g] = "verified"})
  BY PartiesAssumption, FS_Subset
<1>2. PICK n \in Nat : n = Cardinality({g \in Guarantees : guarantee'[g] = "verified"})
  BY <1>1, FS_CardinalityType
<1>3. GuaranteeLimit * n \in Nat
  BY <1>2, AmountsAssumption
<1>4. QED
  BY <1>2, <1>3 DEF Limit

LEMMA ExposureType == ASSUME WellTyped PROVE NetExposure \in Int
<1>1. /\ SumFunction(CreditsOf(recharges)) \in Int /\ SumFunction(PaidOf(cashouts)) \in Int
      /\ \A d : SumFunction(SettledOf(settlements, d)) \in Int
  BY CreditsTyped, PaidTyped, SettledTyped DEF WellTyped
<1>2. \A a, b, c, d \in Int : a - b - c + d \in Int
  OBVIOUS
<1>3. QED
  BY <1>1, <1>2, ExposureIsSummed

LEMMA JobShapes ==
    ASSUME NEW j \in Jobs
    PROVE  /\ j.op \in {"recharge", "recharge checked"} =>
                 j.client \in Clients /\ j.key \in Keys /\ j.terms \in Charges
           /\ j.op = "recharge checked" => j.room \in Int /\ j.lock \in BOOLEAN
           /\ j.op \in {"cashout", "cashout checked"} => j.client \in Clients /\ j.amount \in Nat
           /\ j.op = "confirm" => j.cashout \in Nat /\ j.held \in BOOLEAN
           /\ j.op = "complete" => j.settlement \in Nat
<1>1. \/ j \in [op : {"recharge"}, client : Clients, key : Keys, terms : Charges]
      \/ j \in [op : {"recharge checked"}, client : Clients, key : Keys,
                terms : Charges, room : Int, lock : BOOLEAN]
      \/ j \in [op : {"cashout", "cashout checked"}, client : Clients, amount : Nat]
      \/ j \in [op : {"confirm"}, cashout : Nat, held : BOOLEAN]
      \/ j \in [op : {"complete"}, settlement : Nat]
      \/ j \in {Idle}
  BY DEF Jobs
<1>0. j \in {Idle} => j.op = "idle"
  BY DEF Idle
<1>2. /\ j.op \in {"recharge", "recharge checked"} =>
            j.client \in Clients /\ j.key \in Keys /\ j.terms \in Charges
      /\ j.op = "recharge checked" => j.room \in Int /\ j.lock \in BOOLEAN
  BY <1>0, <1>1
<1>3. /\ j.op \in {"cashout", "cashout checked"} => j.client \in Clients /\ j.amount \in Nat
      /\ j.op = "confirm" => j.cashout \in Nat /\ j.held \in BOOLEAN
      /\ j.op = "complete" => j.settlement \in Nat
  BY <1>0, <1>1
<1>4. QED
  BY <1>2, <1>3

LEMMA MaxOfTwo ==
    ASSUME NEW a \in Int, NEW b \in Int
    PROVE  Max({a, b}) \in {a, b} /\ a <= Max({a, b}) /\ b <= Max({a, b})
<1>1. \E x \in {a, b} : \A y \in {a, b} : x >= y
  OBVIOUS
<1>2. QED
  BY <1>1 DEF Max

LEMMA MinOfTwo == ASSUME NEW a \in Int, NEW b \in Int PROVE Min({a, b}) \in {a, b}
<1>1. \E x \in {a, b} : \A y \in {a, b} : x <= y
  OBVIOUS
<1>2. QED
  BY <1>1 DEF Min

LEMMA TermsTyped ==
    ASSUME NEW mode, NEW amount \in Int
    PROVE  Terms(mode, amount) \in Charges
<1>1. PICK p \in Int : p = Percent(amount)
  <2>1. PICK m \in Int : m = amount * FeePercent
    BY AmountsAssumption
  <2>2. (m + 50) \div 100 \in Int /\ -((50 - m) \div 100) \in Int
    BY <2>1
  <2>3. QED
    BY <2>1, <2>2 DEF Percent
<1>2. PICK fee \in Int : fee = Capped(p)
  <2>1. PICK high \in Int : high = Max({MinFee, p})
    BY <1>1, MaxOfTwo, AmountsAssumption
  <2>2. Min({MaxFee, high}) \in Int
    BY <2>1, MinOfTwo, AmountsAssumption
  <2>3. QED
    BY <2>1, <2>2 DEF Capped
<1>3. PICK rest \in Nat : rest = Max({0, amount - fee})
  <2>1. PICK d \in Int : d = amount - fee
    OBVIOUS
  <2>2. PICK m : m = Max({0, d}) /\ m \in {0, d} /\ 0 <= m
    BY MaxOfTwo
  <2>3. QED
    BY <2>1, <2>2
<1>4. Terms(mode, amount) = IF mode = "added_on_top"
                            THEN [cash |-> amount + fee, credit |-> amount, fee |-> fee]
                            ELSE [cash |-> amount, credit |-> rest, fee |-> fee]
  BY <1>1, <1>2, <1>3 DEF Terms
<1>5. CASE mode = "added_on_top"
  BY <1>4, <1>5 DEF Charges
<1>6. CASE mode # "added_on_top"
  BY <1>4, <1>6 DEF Charges
<1>7. QED
  BY <1>5, <1>6

-----------------------------------------------------------------------------
LEMMA FoundedStays ==
    ASSUME NEW j, Founded(j), DOMAIN cashouts \subseteq DOMAIN cashouts',
           DOMAIN settlements \subseteq DOMAIN settlements'
    PROVE  Founded(j)'
BY DEF Founded

LEMMA RequestsStay ==
    ASSUME IInv, NEW r \in Requests, NEW k \in Jobs, Founded(k), work' = [work EXCEPT ![r] = k],
           DOMAIN cashouts \subseteq DOMAIN cashouts',
           DOMAIN settlements \subseteq DOMAIN settlements'
    PROVE  work' \in [Requests -> Jobs] /\ RequestsFounded'
<1>1. work \in [Requests -> Jobs]
  BY DEF IInv, WellTyped
<1>2. work' \in [Requests -> Jobs] /\ \A q \in Requests : work'[q] = k \/ work'[q] = work[q]
  BY <1>1
<1>3. ASSUME NEW q \in Requests PROVE Founded(work[q])'
  <2>1. PICK j : j = work'[q]
    OBVIOUS
  <2>2. Founded(j)
    <3>1. j = k \/ j = work[q]
      BY <1>2, <2>1
    <3>2. Founded(work[q])
      BY DEF IInv, RequestsFounded
    <3>3. CASE j = k
      BY <3>3
    <3>4. CASE j = work[q]
      BY <3>2, <3>4
    <3>5. QED
      BY <3>1, <3>3, <3>4
  <2>3. Founded(j)'
    BY <2>2, FoundedStays
  <2>4. QED
    BY <2>1, <2>3 DEF Founded
<1>4. QED
  BY <1>2, <1>3 DEF RequestsFounded

LEMMA RequestsUntouched ==
    ASSUME IInv, work' = work, DOMAIN cashouts \subseteq DOMAIN cashouts',
           DOMAIN settlements \subseteq DOMAIN settlements'
    PROVE  work' \in [Requests -> Jobs] /\ RequestsFounded'
<1>1. ASSUME NEW q \in Requests PROVE Founded(work[q])'
  <2>1. PICK j : j = work[q] /\ j = work'[q]
    OBVIOUS
  <2>2. Founded(j)'
    BY <2>1, FoundedStays DEF IInv, RequestsFounded
  <2>3. QED
    BY <2>1, <2>2 DEF Founded
<1>2. QED
  BY <1>1 DEF RequestsFounded, IInv, WellTyped

LEMMA IdleFounded == Idle \in Jobs /\ Idle.op = "idle" /\ Founded(Idle)
BY DEF Founded, Idle, Jobs

\* The books and the limit when the exposure, the limit and the lock stay.
LEMMA BooksStay ==
    ASSUME IInv, NetExposure' = NetExposure, UNCHANGED <<wallet, ledger, recharges>>,
           excused \subseteq excused'
    PROVE  BooksAgree'
BY DEF IInv, BooksAgree, WalletsMatchLedger, LedgerMatchesExposure, RechargedOncePerKey

LEMMA LimitStays ==
    ASSUME IInv, NetExposure' = NetExposure, Limit' = Limit, profile'.locked = profile.locked,
           excused \subseteq excused'
    PROVE  LimitHolds'
BY DEF IInv, LimitHolds, ExposureWithinLimit, LockedAtLimit

LEMMA LimitFor ==
    ASSUME NEW n, n = NetExposure', NEW l, l = Limit',
           n <= l \/ "limit" \in excused',
           n < l \/ l = 0 \/ profile'.locked \/ excused' \intersect {"limit", "unlock"} # {}
    PROVE  LimitHolds'
BY DEF LimitHolds, ExposureWithinLimit, LockedAtLimit

\* Only what a request holds changes.
LEMMA ReadsKeep ==
    ASSUME IInv, NEW r \in Requests, NEW k \in Jobs, Founded(k), work' = [work EXCEPT ![r] = k],
           UNCHANGED <<profile, guarantee, wallet, rows, ledger, excused>>
    PROVE  IInv'
<1>1. UNCHANGED <<profile, guarantee, wallet, recharges, cashouts, settlements, ledger, excused>>
  BY DEF rows
<1>2. work' \in [Requests -> Jobs] /\ RequestsFounded'
  BY <1>1, RequestsStay
<1>3. NetExposure' = NetExposure /\ Limit' = Limit
  BY <1>1 DEF NetExposure, Settled, Total, Limit
<1>4. BooksAgree' /\ LimitHolds'
  BY <1>1, <1>3, BooksStay, LimitStays
<1>5. WellTyped' /\ ZeroMovesNothing'
  BY <1>1, <1>2 DEF IInv, WellTyped, ZeroMovesNothing
<1>6. QED
  BY <1>2, <1>4, <1>5 DEF IInv

LEMMA RollbacksKeep == ASSUME IInv, NEW r \in Requests, Rollback(r) PROVE IInv'
BY ReadsKeep, IdleFounded DEF Rollback
-----------------------------------------------------------------------------
(* Requests that read.                                                     *)

LEMMA FetchesKeep ==
    ASSUME IInv, NEW r \in Requests,
           \/ \E c \in Clients, mode \in {"added_on_top", "deducted_from_deposit"},
                 a \in RechargeAmounts, key \in Keys : BeginRecharge(r, c, mode, a, key)
           \/ \E c \in Clients, a \in CashoutAmounts : BeginCashout(r, c, a)
           \/ \E k \in DOMAIN cashouts : BeginConfirm(r, k)
           \/ \E s \in DOMAIN settlements : BeginComplete(r, s)
    PROVE  IInv'
<1>1. ASSUME NEW c \in Clients, NEW mode, NEW a \in RechargeAmounts, NEW key \in Keys,
             BeginRecharge(r, c, mode, a, key)
      PROVE  IInv'
  <2>1. PICK terms \in Charges : terms = Terms(mode, a)
    BY TermsTyped, AmountsAssumption
  <2> DEFINE k == [op |-> "recharge", client |-> c, key |-> key, terms |-> terms]
  <2>2. k \in Jobs /\ Founded(k)
    BY DEF Jobs, Founded
  <2>3. work' = [work EXCEPT ![r] = k]
        /\ UNCHANGED <<profile, guarantee, wallet, rows, ledger, excused>>
    BY <1>1, <2>1 DEF BeginRecharge
  <2> HIDE DEF k
  <2>4. QED
    BY <2>2, <2>3, ReadsKeep
<1>2. ASSUME NEW c \in Clients, NEW a \in CashoutAmounts, BeginCashout(r, c, a) PROVE IInv'
  <2> DEFINE k == [op |-> "cashout", client |-> c, amount |-> a]
  <2>1. a \in Nat
    BY AmountsAssumption
  <2>2. k \in Jobs /\ Founded(k)
    BY <2>1 DEF Jobs, Founded
  <2>3. work' = [work EXCEPT ![r] = k]
        /\ UNCHANGED <<profile, guarantee, wallet, rows, ledger, excused>>
    BY <1>2 DEF BeginCashout
  <2> HIDE DEF k
  <2>4. QED
    BY <2>2, <2>3, ReadsKeep
<1>3. ASSUME NEW i \in DOMAIN cashouts, BeginConfirm(r, i) PROVE IInv'
  <2> DEFINE k == [op |-> "confirm", cashout |-> i, held |-> profile.locked]
  <2>1. i \in Nat /\ profile.locked \in BOOLEAN
    <3>1. cashouts \in Seq(CashoutRow) /\ profile \in [operational : BOOLEAN, locked : BOOLEAN]
      BY DEF IInv, WellTyped
    <3>2. QED
      BY <3>1, Entries
  <2>2. k \in Jobs /\ Founded(k)
    BY <2>1 DEF Jobs, Founded
  <2>3. work' = [work EXCEPT ![r] = k]
        /\ UNCHANGED <<profile, guarantee, wallet, rows, ledger, excused>>
    BY <1>3 DEF BeginConfirm
  <2> HIDE DEF k
  <2>4. QED
    BY <2>2, <2>3, ReadsKeep
<1>4. ASSUME NEW s \in DOMAIN settlements, BeginComplete(r, s) PROVE IInv'
  <2> DEFINE k == [op |-> "complete", settlement |-> s]
  <2>1. s \in Nat
    <3>1. settlements \in Seq(SettlementRow)
      BY DEF IInv, WellTyped
    <3>2. QED
      BY <3>1, Entries
  <2>2. k \in Jobs /\ Founded(k)
    BY <2>1 DEF Jobs, Founded
  <2>3. work' = [work EXCEPT ![r] = k]
        /\ UNCHANGED <<profile, guarantee, wallet, rows, ledger, excused>>
    BY <1>4 DEF BeginComplete
  <2> HIDE DEF k
  <2>4. QED
    BY <2>2, <2>3, ReadsKeep
<1>5. QED
  BY <1>1, <1>2, <1>3, <1>4

LEMMA RechargesChecked == ASSUME IInv, NEW r \in Requests, CheckRecharge(r) PROVE IInv'
<1>1. PICK j \in Jobs : j = work[r] /\ j.op = "recharge"
  BY DEF IInv, WellTyped, CheckRecharge
<1>2. PICK c \in Clients : c = j.client
  BY <1>1, JobShapes
<1>3. PICK key \in Keys : key = j.key
  BY <1>1, JobShapes
<1>4. PICK terms \in Charges : terms = j.terms
  BY <1>1, JobShapes
<1>5. PICK n \in Int : n = NetExposure
  BY ExposureType DEF IInv
<1>6. PICK l \in Int : l = Limit
  BY LimitType
<1>7. PICK b \in BOOLEAN : b = ReachesLimit(terms.credit, n, l)
  BY Zenon DEF ReachesLimit
<1>8. PICK room \in Int : room = l - n
  OBVIOUS
<1> DEFINE k == [op |-> "recharge checked", client |-> c, key |-> key,
                 terms |-> terms, room |-> room, lock |-> b]
<1>9. CASE KeyFree(key) /\ Fits(terms.credit, n, l)
  <2>1. k \in Jobs
    BY DEF Jobs
  <2>2. terms.credit <= room /\ (room <= terms.credit => b)
    <3>1. terms.credit \in Int
      BY DEF Charges
    <3>2. terms.credit <= room
      BY <1>8, <1>9 DEF Fits
    <3>3. room <= terms.credit => b
      <4>1. PICK x \in Int : x = terms.credit
        BY <3>1
      <4>2. b <=> l <= 0 \/ n + x >= l
        BY <1>7, <4>1, Zenon DEF ReachesLimit
      <4>3. room <= x => n + x >= l
        BY <1>8
      <4>4. QED
        BY <4>1, <4>2, <4>3
    <3>4. QED
      BY <3>2, <3>3
  <2>3. Founded(k)
    BY <2>2 DEF Founded
  <2>4. work' = [work EXCEPT ![r] = k]
        /\ UNCHANGED <<profile, guarantee, wallet, rows, ledger, excused>>
    BY <1>1, <1>2, <1>3, <1>4, <1>5, <1>6, <1>7, <1>8, <1>9 DEF CheckRecharge
  <2> HIDE DEF k
  <2>5. QED
    BY <2>1, <2>3, <2>4, ReadsKeep
<1>10. CASE ~(KeyFree(key) /\ Fits(terms.credit, n, l))
  <2>1. work' = [work EXCEPT ![r] = Idle]
        /\ UNCHANGED <<profile, guarantee, wallet, rows, ledger, excused>>
    BY <1>1, <1>3, <1>4, <1>5, <1>6, <1>10 DEF CheckRecharge
  <2>2. QED
    BY <2>1, ReadsKeep, IdleFounded
<1>11. QED
  BY <1>9, <1>10

LEMMA CashoutsChecked == ASSUME IInv, NEW r \in Requests, CheckCashout(r) PROVE IInv'
<1>1. PICK j \in Jobs : j = work[r] /\ j.op = "cashout"
  BY DEF IInv, WellTyped, CheckCashout
<1>2. UNCHANGED <<profile, guarantee, wallet, rows, ledger, excused>>
  BY DEF CheckCashout
<1>3. CASE work' = [work EXCEPT ![r].op = "cashout checked"]
  <2>1. PICK k : k = [j EXCEPT !.op = "cashout checked"]
    OBVIOUS
  <2>2. j \in [op : {"cashout", "cashout checked"}, client : Clients, amount : Nat]
    <3>1. j \notin {Idle}
      BY <1>1 DEF Idle
    <3>2. QED
      BY <1>1, <3>1 DEF Jobs
  <2>3. k \in [op : {"cashout", "cashout checked"}, client : Clients, amount : Nat]
        /\ k.op = "cashout checked"
    BY <2>1, <2>2
  <2>4. k \in Jobs /\ Founded(k)
    BY <2>3 DEF Jobs, Founded
  <2>5. work' = [work EXCEPT ![r] = k]
    BY <1>1, <1>3, <2>1 DEF IInv, WellTyped
  <2>6. QED
    BY <1>2, <2>4, <2>5, ReadsKeep
<1>4. CASE work' = [work EXCEPT ![r] = Idle]
  BY <1>2, <1>4, ReadsKeep, IdleFounded
<1>5. QED
  BY <1>3, <1>4 DEF CheckCashout
-----------------------------------------------------------------------------
(* Requests that commit.                                                   *)

LEMMA RechargesKeep == ASSUME IInv, NEW r \in Requests, CommitRecharge(r) PROVE IInv'
<1>1. PICK j \in Jobs : j = work[r] /\ j.op = "recharge checked"
  BY DEF IInv, WellTyped, CommitRecharge
<1>2. PICK c \in Clients : c = j.client
  BY <1>1, JobShapes
<1>3. PICK x \in Int : x = j.terms.credit
  <2>1. j.terms \in Charges
    BY <1>1, JobShapes
  <2>2. QED
    BY <2>1 DEF Charges
<1>4. PICK e \in RechargeRow : e = [key |-> j.key, credit |-> x]
  <2>1. j.key \in Keys
    BY <1>1, JobShapes
  <2>2. QED
    BY <2>1 DEF RechargeRow
<1>5. /\ KeyFree(j.key) /\ recharges' = Append(recharges, e)
      /\ wallet' = [wallet EXCEPT ![c] = @ + x]
      /\ ledger' = [ledger EXCEPT !.recharged = @ + x]
      /\ work' = [work EXCEPT ![r] = Idle]
      /\ UNCHANGED <<guarantee, cashouts, settlements>>
  BY <1>1, <1>2, <1>3, <1>4 DEF CommitRecharge, Entered
<1>6. /\ profile' = [profile EXCEPT !.locked = @ \/ j.lock]
      /\ excused' = excused \union (IF Limit - NetExposure < j.room THEN {"limit"} ELSE {})
  BY <1>1 DEF CommitRecharge
<1>7. PICK n \in Int : n = NetExposure
  BY ExposureType DEF IInv
<1>8. PICK l \in Int : l = Limit /\ l = Limit'
  <2>1. Limit' = Limit
    BY <1>5 DEF Limit
  <2>2. QED
    BY <2>1, LimitType
<1>9. recharges \in Seq(RechargeRow) /\ wallet \in [Clients -> Int]
      /\ ledger \in [recharged : Int, paidOut : Int, settled : Int]
      /\ cashouts \in Seq(CashoutRow) /\ settlements \in Seq(SettlementRow)
      /\ profile \in [operational : BOOLEAN, locked : BOOLEAN]
  BY DEF IInv, WellTyped
<1>10. NetExposure' = n + x
  <2>1. PICK a \in Int : a = SumFunction(CreditsOf(recharges))
    BY <1>9, CreditsTyped
  <2>2. PICK b \in Int : b = SumFunction(PaidOf(cashouts))
    BY <1>9, PaidTyped
  <2>3. PICK p \in Int : p = SumFunction(SettledOf(settlements, "to platform"))
    BY <1>9, SettledTyped
  <2>4. PICK q \in Int : q = SumFunction(SettledOf(settlements, "from platform"))
    BY <1>9, SettledTyped
  <2>5. n = a - b - p + q
    BY <1>7, <2>1, <2>2, <2>3, <2>4, ExposureIsSummed
  <2>6. SumFunction(CreditsOf(recharges')) = a + x
    BY <1>4, <1>5, <1>9, <2>1, CreditAdded
  <2>7. NetExposure' = (a + x) - b - p + q
    BY <1>5, <2>2, <2>3, <2>4, <2>6 DEF NetExposure, Settled, Total, CreditsOf, PaidOf, SettledOf
  <2>8. QED
    BY <2>5, <2>7
<1>11. work' \in [Requests -> Jobs] /\ RequestsFounded'
  BY <1>5, RequestsStay, IdleFounded
<1>12. WellTyped'
  <2>1. recharges' \in Seq(RechargeRow)
    BY <1>5, <1>9, Appended
  <2>2. wallet' \in [Clients -> Nat]
    <3>1. wallet[c] + x >= 0
      BY <1>1, <1>2, <1>3 DEF CommitRecharge, Creditable, Storable
    <3>2. wallet \in [Clients -> Nat]
      BY DEF IInv, WellTyped
    <3>3. PICK y \in Nat : y = wallet[c] + x
      BY <3>1, <3>2
    <3>4. wallet' = [wallet EXCEPT ![c] = y]
      BY <1>5, <3>3
    <3>5. QED
      BY <3>2, <3>4
  <2>3. ledger' \in [recharged : Int, paidOut : Int, settled : Int]
    <3>1. PICK y \in Int : y = ledger.recharged + x
      BY <1>9
    <3>2. ledger' = [ledger EXCEPT !.recharged = y]
      BY <1>5, <3>1
    <3>3. QED
      BY <1>9, <3>2
  <2>4. profile' \in [operational : BOOLEAN, locked : BOOLEAN]
    <3>1. j.lock \in BOOLEAN
      BY <1>1, JobShapes
    <3>2. PICK locked \in BOOLEAN : locked = (profile.locked \/ j.lock)
      BY Zenon
    <3>3. profile' = [profile EXCEPT !.locked = locked]
      BY <1>6, <1>9, <3>2
    <3>4. QED
      BY <1>9, <3>3
  <2>5. QED
    BY <1>5, <1>11, <2>1, <2>2, <2>3, <2>4 DEF IInv, WellTyped
<1>13. BooksAgree'
  <2>1. PICK s \in Int : s = SumFunction(wallet)
    BY <1>9, SumOfIntegers, PartiesAssumption
  <2>3. SumFunction(wallet') = s + x
    <3>1. wallet \in [Clients -> Int]
      BY <1>9
    <3>2. SumFunction([wallet EXCEPT ![c] = @ + x]) = SumFunction(wallet) + x
      BY <3>1, SumIncreased, PartiesAssumption
    <3>3. QED
      BY <1>5, <2>1, <3>2
  <2>4. /\ ledger'.recharged = ledger.recharged + x /\ ledger'.paidOut = ledger.paidOut
        /\ ledger'.settled = ledger.settled
        /\ ledger.recharged \in Int /\ ledger.paidOut \in Int /\ ledger.settled \in Int
    BY <1>5, <1>9
  <2>5. WalletsMatchLedger'
    <3>1. PICK b \in Int : b = InitialBalance * Cardinality(Clients)
      BY AmountsAssumption, PartiesAssumption, FS_CardinalityType
    <3>2. s = b + ledger.recharged - ledger.paidOut
      BY <2>1, <3>1 DEF IInv, BooksAgree, WalletsMatchLedger
    <3>3. SumFunction(wallet') = b + ledger'.recharged - ledger'.paidOut
      BY <2>3, <2>4, <3>2
    <3>4. QED
      BY <3>1, <3>3 DEF WalletsMatchLedger
  <2>6. LedgerMatchesExposure'
    <3>1. ledger.recharged - ledger.paidOut + ledger.settled = n \/ "drift" \in excused
      BY <1>7 DEF IInv, BooksAgree, LedgerMatchesExposure
    <3>2. ledger'.recharged - ledger'.paidOut + ledger'.settled = n + x \/ "drift" \in excused'
      BY <1>6, <2>4, <3>1
    <3>3. QED
      BY <1>10, <3>2 DEF LedgerMatchesExposure
  <2>7. RechargedOncePerKey'
    <3>1. \A i, k \in DOMAIN recharges : recharges[i].key = recharges[k].key => i = k
      BY DEF IInv, BooksAgree, RechargedOncePerKey
    <3>2. \A i \in DOMAIN recharges : recharges[i].key # e.key
      BY <1>4, <1>5 DEF KeyFree
    <3>3. PICK m \in Nat : m = Len(recharges) /\ DOMAIN recharges = 1 .. m
      BY <1>9, Entries
    <3>4. /\ DOMAIN recharges' = 1 .. m + 1
          /\ \A i \in 1 .. m : recharges'[i] = recharges[i]
          /\ recharges'[m + 1] = e
      BY <1>5, <1>9, <3>3, Appended
    <3>5. ASSUME NEW i \in 1 .. m + 1, NEW k \in 1 .. m + 1, recharges'[i].key = recharges'[k].key
          PROVE  i = k
      <4>1. CASE i \in 1 .. m /\ k \in 1 .. m
        BY <3>1, <3>3, <3>4, <3>5, <4>1
      <4>2. CASE i = m + 1 /\ k \in 1 .. m
        BY <3>2, <3>3, <3>4, <3>5, <4>2
      <4>3. CASE i \in 1 .. m /\ k = m + 1
        BY <3>2, <3>3, <3>4, <3>5, <4>3
      <4>4. CASE i = m + 1 /\ k = m + 1
        BY <4>4
      <4>5. QED
        BY <4>1, <4>2, <4>3, <4>4
    <3>6. QED
      BY <3>4, <3>5 DEF RechargedOncePerKey
  <2>8. QED
    BY <2>5, <2>6, <2>7 DEF BooksAgree
<1>14. LimitHolds'
  <2>1. PICK room \in Int : room = j.room /\ x <= room /\ (room <= x => j.lock)
    <3>1. Founded(j)
      BY <1>1 DEF IInv, RequestsFounded
    <3>2. j.room \in Int
      BY <1>1, JobShapes
    <3>3. QED
      BY <1>1, <1>3, <3>1, <3>2 DEF Founded
  <2>2. CASE l - n < room
    <3>1. "limit" \in excused'
      BY <1>6, <1>7, <1>8, <2>1, <2>2
    <3>2. QED
      BY <3>1 DEF LimitHolds, ExposureWithinLimit, LockedAtLimit
  <2>3. CASE ~(l - n < room)
    <3>1. PICK m \in Int : m = n + x
      OBVIOUS
    <3>2. m <= l
      BY <2>1, <2>3, <3>1
    <3>3. m < l \/ profile'.locked
      <4>1. SUFFICES ASSUME ~(m < l) PROVE profile'.locked
        OBVIOUS
      <4>2. room <= x
        BY <2>1, <2>3, <3>1, <4>1
      <4>3. j.lock
        BY <2>1, <4>2
      <4>4. profile'.locked = (profile.locked \/ j.lock)
        BY <1>6, <1>9
      <4>5. QED
        BY <4>3, <4>4
    <3>4. m = NetExposure' /\ l = Limit'
      BY <1>8, <1>10, <3>1
    <3>5. QED
      BY <3>2, <3>3, <3>4, LimitFor
  <2>4. QED
    BY <2>2, <2>3
<1>15. ZeroMovesNothing'
  BY <1>5 DEF IInv, ZeroMovesNothing
<1>16. QED
  BY <1>11, <1>12, <1>13, <1>14, <1>15 DEF IInv

LEMMA ExposureNext ==
    NetExposure' = SumFunction(CreditsOf(recharges')) - SumFunction(PaidOf(cashouts'))
                     - SumFunction(SettledOf(settlements', "to platform"))
                     + SumFunction(SettledOf(settlements', "from platform"))
BY DEF NetExposure, Settled, Total, CreditsOf, PaidOf, SettledOf

\* Cash-outs are requested or run out: what was paid stays.
LEMMA CashoutRowsKeep ==
    ASSUME IInv, NEW cs \in Seq(CashoutRow), cashouts' = cs, DOMAIN cashouts \subseteq DOMAIN cs,
           SumFunction(PaidOf(cs)) = SumFunction(PaidOf(cashouts)),
           work' = work \/ \E r \in Requests : work' = [work EXCEPT ![r] = Idle],
           UNCHANGED <<profile, guarantee, wallet, recharges, settlements, ledger, excused>>
    PROVE  IInv'
<1>1. DOMAIN cashouts \subseteq DOMAIN cashouts' /\ DOMAIN settlements \subseteq DOMAIN settlements'
  OBVIOUS
<1>2. work' \in [Requests -> Jobs] /\ RequestsFounded'
  BY <1>1, RequestsStay, RequestsUntouched, IdleFounded
<1>3. NetExposure' = NetExposure
  BY ExposureIsSummed, ExposureNext
<1>4. Limit' = Limit
  BY DEF Limit
<1>5. BooksAgree' /\ LimitHolds'
  BY <1>3, <1>4, BooksStay, LimitStays
<1>6. WellTyped' /\ ZeroMovesNothing'
  BY <1>2 DEF IInv, WellTyped, ZeroMovesNothing
<1>7. QED
  BY <1>2, <1>5, <1>6 DEF IInv

LEMMA CashoutsKeep == ASSUME IInv, NEW r \in Requests, CommitCashout(r) PROVE IInv'
<1>1. PICK j \in Jobs : j = work[r] /\ j.op = "cashout checked"
  BY DEF IInv, WellTyped, CommitCashout
<1>2. PICK e \in CashoutRow : /\ e = [client |-> j.client, amount |-> j.amount,
                                      status |-> "code_issued", fresh |-> TRUE]
                              /\ e.status # "completed"
  <2>1. PICK c \in Clients : c = j.client
    BY <1>1, JobShapes
  <2>2. PICK a \in Nat : a = j.amount
    BY <1>1, JobShapes
  <2>3. PICK e : e = [client |-> c, amount |-> a, status |-> "code_issued", fresh |-> TRUE]
    OBVIOUS
  <2>4. e \in CashoutRow /\ e.status = "code_issued"
    BY <2>3 DEF CashoutRow
  <2>5. e.status # "completed"
    BY <2>4
  <2>6. QED
    BY <2>1, <2>2, <2>3, <2>4, <2>5
<1>3. /\ cashouts' = Append(cashouts, e) /\ work' = [work EXCEPT ![r] = Idle]
      /\ UNCHANGED <<profile, guarantee, wallet, recharges, settlements, ledger, excused>>
  BY <1>1, <1>2 DEF CommitCashout
<1>4. cashouts \in Seq(CashoutRow)
  BY DEF IInv, WellTyped
<1>5. PICK cs \in Seq(CashoutRow) : cs = Append(cashouts, e)
  BY <1>4, Appended
<1>6. DOMAIN cashouts \subseteq DOMAIN cs
  <2>1. PICK n \in Nat : n = Len(cashouts) /\ DOMAIN cashouts = 1 .. n
    BY <1>4, Entries
  <2>2. DOMAIN cs = 1 .. n + 1
    BY <1>4, <1>5, <2>1, Appended
  <2>3. QED
    BY <2>1, <2>2
<1>7. SumFunction(PaidOf(cs)) = SumFunction(PaidOf(cashouts))
  BY <1>2, <1>4, <1>5, CashoutAdded
<1>8. QED
  BY <1>3, <1>5, <1>6, <1>7, CashoutRowsKeep

LEMMA CodesKeep ==
    ASSUME IInv, ExpireCodes \/ \E k \in DOMAIN cashouts : CodeRunsOut(k) PROVE IInv'
<1>1. cashouts \in Seq(CashoutRow)
  BY DEF IInv, WellTyped
<1>2. CASE ExpireCodes
  <2> DEFINE late(c) == c.status = "code_issued" /\ ~c.fresh
             cs == [i \in DOMAIN cashouts |->
                       IF late(cashouts[i]) THEN [cashouts[i] EXCEPT !.status = "expired"]
                       ELSE cashouts[i]]
  <2>1. \A i \in DOMAIN cashouts : cashouts[i] \in CashoutRow
    BY <1>1, Entries
  <2>2. ASSUME NEW i \in DOMAIN cashouts
        PROVE  /\ cs[i] \in CashoutRow /\ cs[i].amount = cashouts[i].amount
               /\ cs[i].status = "completed" <=> cashouts[i].status = "completed"
    BY <2>1 DEF CashoutRow
  <2>3. DOMAIN cs = DOMAIN cashouts /\ cs \in Seq(CashoutRow)
    <3>1. PICK n \in Nat : n = Len(cashouts) /\ DOMAIN cashouts = 1 .. n
      BY <1>1, Entries
    <3>2. cs \in [1 .. n -> CashoutRow]
      BY <2>2, <3>1
    <3>3. QED
      BY <3>1, <3>2
  <2>4. /\ cashouts' = cs /\ work' = work
        /\ UNCHANGED <<profile, guarantee, wallet, recharges, settlements, ledger, excused>>
    BY <1>2 DEF ExpireCodes
  <2> HIDE DEF cs
  <2>5. SumFunction(PaidOf(cs)) = SumFunction(PaidOf(cashouts))
    BY <1>1, <2>2, <2>3, CashoutsSame
  <2>6. QED
    BY <2>3, <2>4, <2>5, CashoutRowsKeep
<1>3. ASSUME NEW k \in DOMAIN cashouts, CodeRunsOut(k) PROVE IInv'
  <2>1. PICK e : e = [cashouts[k] EXCEPT !.fresh = FALSE]
    OBVIOUS
  <2>2. e \in CashoutRow /\ e.amount = cashouts[k].amount /\ e.status = cashouts[k].status
    <3>1. cashouts[k] \in CashoutRow
      BY <1>1, Entries
    <3>2. QED
      BY <2>1, <3>1 DEF CashoutRow
  <2>3. PICK cs \in Seq(CashoutRow) : cs = [cashouts EXCEPT ![k] = e]
    BY <1>1, <2>2, Replaced
  <2>4. DOMAIN cs = DOMAIN cashouts
        /\ \A i \in DOMAIN cashouts : cs[i] = IF i = k THEN e ELSE cashouts[i]
    BY <1>1, <2>2, <2>3, Replaced
  <2>5. \A i \in DOMAIN cashouts : /\ cs[i].amount = cashouts[i].amount
                                   /\ cs[i].status = "completed" <=> cashouts[i].status = "completed"
    BY <2>2, <2>4
  <2>6. SumFunction(PaidOf(cs)) = SumFunction(PaidOf(cashouts))
    BY <1>1, <2>4, <2>5, CashoutsSame
  <2>7. /\ cashouts' = cs /\ work' = work
        /\ UNCHANGED <<profile, guarantee, wallet, recharges, settlements, ledger, excused>>
    BY <1>1, <1>3, <2>1, <2>3 DEF CodeRunsOut
  <2>8. QED
    BY <2>4, <2>6, <2>7, CashoutRowsKeep
<1>4. QED
  BY <1>2, <1>3

LEMMA PeriodType == ASSUME WellTyped PROVE PeriodNet \in Int
<1>1. SumFunction(CreditsOf(recharges)) \in Int /\ SumFunction(PaidOf(cashouts)) \in Int
  BY CreditsTyped, PaidTyped DEF WellTyped
<1>2. PeriodNet = SumFunction(CreditsOf(recharges)) - SumFunction(PaidOf(cashouts))
  BY DEF PeriodNet, Total, CreditsOf, PaidOf
<1>3. QED
  BY <1>1, <1>2

LEMMA SettlementsKeep == ASSUME IInv, GenerateSettlement PROVE IInv'
<1>1. PICK n \in Int : n = PeriodNet
  BY PeriodType DEF IInv
<1>2. PICK m \in Nat : m = Max({n, -n}) /\ (n = 0 => m = 0)
  <2>1. PICK o \in Int : o = -n
    OBVIOUS
  <2>2. Max({n, o}) \in {n, o} /\ n <= Max({n, o}) /\ o <= Max({n, o})
    BY MaxOfTwo
  <2>3. PICK x : x = Max({n, o})
    OBVIOUS
  <2>4. x \in Nat /\ (n = 0 => x = 0)
    BY <2>1, <2>2, <2>3
  <2>5. QED
    BY <2>1, <2>3, <2>4
<1>3. PICK d \in {"to platform", "from platform", "zero"} :
         /\ d = IF n > 0 THEN "to platform" ELSE IF n < 0 THEN "from platform" ELSE "zero"
         /\ d = "zero" => n = 0
  OBVIOUS
<1>4. PICK e \in SettlementRow : e = [status |-> "draft", net |-> m, direction |-> d]
  BY DEF SettlementRow
<1>5. /\ settlements' = Append(settlements, e) /\ work' = work
      /\ UNCHANGED <<profile, guarantee, wallet, recharges, cashouts, ledger, excused>>
  BY <1>1, <1>2, <1>3, <1>4 DEF GenerateSettlement
<1>6. settlements \in Seq(SettlementRow)
  BY DEF IInv, WellTyped
<1>7. PICK ss \in Seq(SettlementRow) :
         /\ ss = Append(settlements, e) /\ DOMAIN settlements \subseteq DOMAIN ss
         /\ \A i \in DOMAIN ss : ss[i] = e \/ (i \in DOMAIN settlements /\ ss[i] = settlements[i])
  BY <1>6, OneMoreRow
<1>8. settlements' = ss
  BY <1>5, <1>7
<1>9. DOMAIN cashouts \subseteq DOMAIN cashouts' /\ DOMAIN settlements \subseteq DOMAIN settlements'
  BY <1>5, <1>7, <1>8
<1>10. RequestsFounded'
  BY <1>5, <1>9, RequestsUntouched
<1>11. NetExposure' = NetExposure
  <2>1. e.status # "completed"
    BY <1>4
  <2>2. \A dir : SumFunction(SettledOf(settlements', dir)) = SumFunction(SettledOf(settlements, dir))
    BY <1>5, <1>6, <2>1, SettlementAdded
  <2>3. QED
    BY <1>5, <2>2, ExposureIsSummed, ExposureNext
<1>12. Limit' = Limit
  BY <1>5 DEF Limit
<1>13. BooksAgree' /\ LimitHolds'
  BY <1>5, <1>11, <1>12, BooksStay, LimitStays
<1>14. WellTyped'
  BY <1>5, <1>8 DEF IInv, WellTyped
<1>15. ZeroMovesNothing'
  <2>1. e.direction = "zero" => e.net = 0
    BY <1>2, <1>3, <1>4
  <2>2. \A i \in DOMAIN ss : ss[i].direction = "zero" => ss[i].net = 0
    BY <1>7, <2>1 DEF IInv, ZeroMovesNothing
  <2>3. QED
    BY <1>8, <2>2 DEF ZeroMovesNothing
<1>16. QED
  BY <1>10, <1>13, <1>14, <1>15 DEF IInv

\* The lock after a request that does not raise the exposure.
LEMMA LockKept ==
    ASSUME IInv, NEW n \in Int, n = NetExposure, NEW m \in Int, m = NetExposure', m <= n,
           Limit' = Limit, NEW held \in BOOLEAN,
           profile' = [profile EXCEPT !.locked = LockAfter(held, m)], excused \subseteq excused'
    PROVE  LimitHolds' /\ profile' \in [operational : BOOLEAN, locked : BOOLEAN]
<1>1. PICK l \in Int : l = Limit /\ l = Limit'
  BY LimitType
<1>2. profile \in [operational : BOOLEAN, locked : BOOLEAN]
  BY DEF IInv, WellTyped
<1>3. PICK b \in BOOLEAN : b = profile.locked
  BY <1>2
<1>4. PICK after \in BOOLEAN : after = LockAfter(held, m)
  <2>1. LockAfter(held, m) = IF held /\ l > 0 /\ m < l THEN FALSE ELSE b
    BY <1>1, <1>3 DEF LockAfter
  <2>2. LockAfter(held, m) \in BOOLEAN
    BY <2>1, Zenon
  <2>3. QED
    BY <2>2
<1>5. m < l \/ after = b
  <2>1. LockAfter(held, m) = IF held /\ l > 0 /\ m < l THEN FALSE ELSE b
    BY <1>1, <1>3 DEF LockAfter
  <2>2. QED
    BY <1>4, <2>1, Zenon
<1>6. profile' = [profile EXCEPT !.locked = after]
  BY <1>4
<1>7. profile' \in [operational : BOOLEAN, locked : BOOLEAN] /\ profile'.locked = after
  BY <1>2, <1>6
<1>8. n <= l \/ "limit" \in excused
  BY <1>1 DEF IInv, LimitHolds, ExposureWithinLimit
<1>9. n < l \/ l = 0 \/ b \/ excused \intersect {"limit", "unlock"} # {}
  BY <1>1, <1>3 DEF IInv, LimitHolds, LockedAtLimit
<1>10. m <= l \/ "limit" \in excused'
  BY <1>8
<1>11. m < l \/ l = 0 \/ profile'.locked \/ excused' \intersect {"limit", "unlock"} # {}
  <2>1. n < l => m < l
    OBVIOUS
  <2>2. after = b => (b => profile'.locked)
    BY <1>7
  <2>3. excused \intersect {"limit", "unlock"} # {} => excused' \intersect {"limit", "unlock"} # {}
    BY Zenon
  <2>4. QED
    BY <1>5, <1>9, <2>1, <2>2, <2>3, Zenon
<1>12. LimitHolds'
  BY <1>1, <1>10, <1>11, LimitFor
<1>13. QED
  BY <1>7, <1>12

\* What one wallet gains, the wallets gain together.
LEMMA WalletsTotal ==
    ASSUME wallet \in [Clients -> Int], NEW c \in Clients, NEW z \in Int
    PROVE  SumFunction([wallet EXCEPT ![c] = @ + z]) = SumFunction(wallet) + z
<1>1. IsFiniteSet(Clients)
  BY PartiesAssumption
<1> QED
  BY <1>1, SumIncreased

LEMMA ConfirmsKeep == ASSUME IInv, NEW r \in Requests, CommitConfirm(r) PROVE IInv'
<1>1. PICK j \in Jobs : j = work[r] /\ j.op = "confirm"
  BY DEF IInv, WellTyped, CommitConfirm
<1>2. PICK k \in DOMAIN cashouts : k = j.cashout
  BY <1>1 DEF IInv, RequestsFounded, Founded
<1>3. PICK held \in BOOLEAN : held = j.held
  BY <1>1, JobShapes
<1>4. /\ cashouts \in Seq(CashoutRow) /\ settlements \in Seq(SettlementRow)
      /\ recharges \in Seq(RechargeRow)
  BY DEF IInv, WellTyped
<1>5. wallet \in [Clients -> Int] /\ ledger \in [recharged : Int, paidOut : Int, settled : Int]
  BY DEF IInv, WellTyped
<1>6. PICK row \in CashoutRow : row = cashouts[k]
  BY <1>4, Entries
<1>7. PICK a \in Nat : a = row.amount
  BY DEF CashoutRow
<1>8. PICK c \in Clients : c = row.client
  BY DEF CashoutRow
<1>9. PICK d \in Nat : d = IF row.status = "completed" THEN 0 ELSE a
  OBVIOUS
<1>10. PICK e : e = [row EXCEPT !.status = "completed"]
  OBVIOUS
<1>11. e \in CashoutRow /\ e.amount = a /\ e.status = "completed"
  BY <1>7, <1>10 DEF CashoutRow
<1>12. PICK cs \in Seq(CashoutRow) : cs = [cashouts EXCEPT ![k] = e]
  BY <1>4, <1>11, Replaced
<1>13. DOMAIN cs = DOMAIN cashouts
  BY <1>4, <1>11, <1>12, Replaced
<1>14. PICK n \in Int : n = NetExposure
  BY ExposureType DEF IInv
<1>15. PICK m \in Int : m = n - d
  OBVIOUS
<1>16. /\ cashouts' = cs /\ work' = [work EXCEPT ![r] = Idle]
       /\ wallet' = [wallet EXCEPT ![c] = @ - a]
       /\ ledger' = [ledger EXCEPT !.paidOut = @ + a]
       /\ UNCHANGED <<guarantee, recharges, settlements>>
  BY <1>1, <1>2, <1>4, <1>6, <1>7, <1>8, <1>10, <1>12 DEF CommitConfirm
<1>17. /\ profile' = [profile EXCEPT !.locked = LockAfter(held, m)]
       /\ excused' = excused \union (IF row.status = "completed" THEN {"drift"} ELSE {})
  BY <1>1, <1>2, <1>3, <1>6, <1>7, <1>9, <1>14, <1>15 DEF CommitConfirm
<1>18. NetExposure' = m
  <2>1. PICK x \in Int : x = SumFunction(CreditsOf(recharges))
    BY <1>4, CreditsTyped
  <2>2. PICK b \in Int : b = SumFunction(PaidOf(cashouts))
    BY <1>4, PaidTyped
  <2>3. PICK p \in Int : p = SumFunction(SettledOf(settlements, "to platform"))
    BY <1>4, SettledTyped
  <2>4. PICK q \in Int : q = SumFunction(SettledOf(settlements, "from platform"))
    BY <1>4, SettledTyped
  <2>5. n = x - b - p + q
    BY <1>14, <2>1, <2>2, <2>3, <2>4, ExposureIsSummed
  <2>6. SumFunction(PaidOf(cs)) = b + d
    <3>1. SumFunction(PaidOf([cashouts EXCEPT ![k] = e]))
            = SumFunction(PaidOf(cashouts)) + (IF cashouts[k].status = "completed" THEN 0 ELSE e.amount)
      BY <1>4, <1>6, <1>7, <1>11, CashoutCompleted
    <3>2. QED
      BY <1>6, <1>9, <1>11, <1>12, <2>2, <3>1
  <2>7. NetExposure' = x - (b + d) - p + q
    BY <1>16, <2>1, <2>3, <2>4, <2>6, ExposureNext
  <2>8. QED
    BY <1>15, <2>5, <2>7
<1>19. work' \in [Requests -> Jobs] /\ RequestsFounded'
  BY <1>13, <1>16, RequestsStay, IdleFounded
<1>20. LimitHolds' /\ profile' \in [operational : BOOLEAN, locked : BOOLEAN]
  <2>1. m <= n
    BY <1>15
  <2>2. Limit' = Limit
    BY <1>16 DEF Limit
  <2>3. excused \subseteq excused'
    BY <1>17
  <2>4. QED
    BY <1>14, <1>17, <1>18, <2>1, <2>2, <2>3, LockKept
<1>21. WellTyped'
  <2>1. wallet' \in [Clients -> Nat]
    <3>1. wallet \in [Clients -> Nat]
      BY DEF IInv, WellTyped
    <3>2. a <= wallet[c]
      BY <1>1, <1>2, <1>6, <1>7, <1>8 DEF CommitConfirm, MayConfirm, Affordable
    <3>3. PICK y \in Nat : y = wallet[c] - a
      BY <3>1, <3>2
    <3>4. wallet' = [wallet EXCEPT ![c] = y]
      BY <1>16, <3>3
    <3>5. QED
      BY <3>1, <3>4
  <2>2. ledger' \in [recharged : Int, paidOut : Int, settled : Int]
    <3>1. PICK y \in Int : y = ledger.paidOut + a
      BY <1>5
    <3>2. ledger' = [ledger EXCEPT !.paidOut = y]
      BY <1>16, <3>1
    <3>3. QED
      BY <1>5, <3>2
  <2>3. QED
    BY <1>16, <1>19, <1>20, <2>1, <2>2 DEF IInv, WellTyped
<1>22. BooksAgree'
  <2>1. PICK s \in Int : s = SumFunction(wallet)
    BY <1>5, SumOfIntegers, PartiesAssumption
  <2>2. SumFunction(wallet') = s - a
    <3>1. PICK z \in Int : z = -a
      OBVIOUS
    <3>2. SumFunction([wallet EXCEPT ![c] = @ + z]) = SumFunction(wallet) + z
      BY <1>5, WalletsTotal
    <3>3. wallet' = [wallet EXCEPT ![c] = @ + z]
      BY <1>5, <1>16, <3>1
    <3>4. QED
      BY <2>1, <3>1, <3>2, <3>3
  <2>3. /\ ledger'.recharged = ledger.recharged /\ ledger'.paidOut = ledger.paidOut + a
        /\ ledger'.settled = ledger.settled
        /\ ledger.recharged \in Int /\ ledger.paidOut \in Int /\ ledger.settled \in Int
    BY <1>5, <1>16
  <2>4. WalletsMatchLedger'
    <3>1. PICK b \in Int : b = InitialBalance * Cardinality(Clients)
      BY AmountsAssumption, PartiesAssumption, FS_CardinalityType
    <3>2. s = b + ledger.recharged - ledger.paidOut
      BY <2>1, <3>1 DEF IInv, BooksAgree, WalletsMatchLedger
    <3>3. SumFunction(wallet') = b + ledger'.recharged - ledger'.paidOut
      BY <2>2, <2>3, <3>2
    <3>4. QED
      BY <3>1, <3>3 DEF WalletsMatchLedger
  <2>5. LedgerMatchesExposure'
    <3>1. ledger.recharged - ledger.paidOut + ledger.settled = n \/ "drift" \in excused
      BY <1>14 DEF IInv, BooksAgree, LedgerMatchesExposure
    <3>2. d = a \/ "drift" \in excused'
      BY <1>9, <1>17
    <3>3. ledger'.recharged - ledger'.paidOut + ledger'.settled = m \/ "drift" \in excused'
      BY <1>15, <1>17, <2>3, <3>1, <3>2
    <3>4. QED
      BY <1>18, <3>3 DEF LedgerMatchesExposure
  <2>6. RechargedOncePerKey'
    BY <1>16 DEF IInv, BooksAgree, RechargedOncePerKey
  <2>7. QED
    BY <2>4, <2>5, <2>6 DEF BooksAgree
<1>23. ZeroMovesNothing'
  BY <1>16 DEF IInv, ZeroMovesNothing
<1>24. QED
  BY <1>19, <1>20, <1>21, <1>22, <1>23 DEF IInv
LEMMA CompletionsKeep == ASSUME IInv, NEW r \in Requests, CommitComplete(r) PROVE IInv'
<1>1. PICK j \in Jobs : j = work[r] /\ j.op = "complete"
  BY DEF IInv, WellTyped, CommitComplete
<1>2. PICK k \in DOMAIN settlements : k = j.settlement
  BY <1>1 DEF IInv, RequestsFounded, Founded
<1>3. /\ cashouts \in Seq(CashoutRow) /\ settlements \in Seq(SettlementRow)
      /\ recharges \in Seq(RechargeRow)
  BY DEF IInv, WellTyped
<1>4. ledger \in [recharged : Int, paidOut : Int, settled : Int]
  BY DEF IInv, WellTyped
<1>5. PICK row \in SettlementRow : row = settlements[k]
  BY <1>3, Entries
<1>6. PICK a \in Nat : a = row.net
  BY DEF SettlementRow
<1>7. PICK dir : dir = row.direction /\ dir \in {"to platform", "from platform", "zero"}
  BY DEF SettlementRow
<1>8. dir = "zero" => a = 0
  BY <1>5, <1>6, <1>7 DEF IInv, ZeroMovesNothing
<1>9. PICK move \in Int : move = IF dir = "to platform" THEN -a ELSE a
  <2>1. PICK b \in Int : b = -a
    OBVIOUS
  <2>2. PICK move : move = IF dir = "to platform" THEN b ELSE a
    OBVIOUS
  <2>3. move \in Int
    <3>1. a \in Int
      OBVIOUS
    <3>2. QED
      BY <2>2, <3>1, Zenon
  <2>4. QED
    BY <2>1, <2>2, <2>3
<1>10. PICK d \in Int : d = IF row.status = "completed" THEN 0 ELSE move
  OBVIOUS
<1>11. PICK e : e = [row EXCEPT !.status = "completed"]
  OBVIOUS
<1>12. e \in SettlementRow /\ e.net = a /\ e.direction = dir /\ e.status = "completed"
  BY <1>6, <1>7, <1>11 DEF SettlementRow
<1>13. PICK ss \in Seq(SettlementRow) : ss = [settlements EXCEPT ![k] = e]
  BY <1>3, <1>12, Replaced
<1>14. DOMAIN ss = DOMAIN settlements
       /\ \A i \in DOMAIN settlements : ss[i] = IF i = k THEN e ELSE settlements[i]
  BY <1>3, <1>12, <1>13, Replaced
<1>15. PICK n \in Int : n = NetExposure
  BY ExposureType DEF IInv
<1>16. PICK m \in Int : m = n + d
  OBVIOUS
<1>17. /\ settlements' = ss /\ work' = [work EXCEPT ![r] = Idle]
       /\ ledger' = [ledger EXCEPT !.settled = @ + move]
       /\ UNCHANGED <<guarantee, wallet, recharges, cashouts>>
  BY <1>1, <1>2, <1>3, <1>5, <1>6, <1>7, <1>9, <1>11, <1>13 DEF CommitComplete
<1>18. profile' = [profile EXCEPT !.locked = LockAfter(profile.locked, m)]
  BY <1>1, <1>2, <1>5, <1>6, <1>7, <1>9, <1>10, <1>15, <1>16 DEF CommitComplete
<1>19. excused' = excused
         \union (IF row.status = "completed" THEN {"drift"} ELSE {})
         \union (IF dir = "from platform" THEN {"limit"} ELSE {})
  BY <1>1, <1>2, <1>5, <1>7 DEF CommitComplete
<1>20. NetExposure' = m
  <2>1. PICK x \in Int : x = SumFunction(CreditsOf(recharges))
    BY <1>3, CreditsTyped
  <2>2. PICK b \in Int : b = SumFunction(PaidOf(cashouts))
    BY <1>3, PaidTyped
  <2>3. PICK p \in Int : p = SumFunction(SettledOf(settlements, "to platform"))
    BY <1>3, SettledTyped
  <2>4. PICK q \in Int : q = SumFunction(SettledOf(settlements, "from platform"))
    BY <1>3, SettledTyped
  <2>5. n = x - b - p + q
    BY <1>15, <2>1, <2>2, <2>3, <2>4, ExposureIsSummed
  <2>6. ASSUME NEW to
        PROVE  SumFunction(SettledOf(ss, to)) = SumFunction(SettledOf(settlements, to))
                 + (IF row.status = "completed" \/ dir # to THEN 0 ELSE a)
    <3>0. e.net = settlements[k].net /\ e.direction = settlements[k].direction
      BY <1>5, <1>6, <1>7, <1>12
    <3>1. SumFunction(SettledOf([settlements EXCEPT ![k] = e], to))
            = SumFunction(SettledOf(settlements, to))
                + (IF settlements[k].status = "completed" \/ e.direction # to THEN 0 ELSE e.net)
      BY <1>3, <1>12, <3>0, SettlementCompleted
    <3>2. QED
      BY <1>5, <1>12, <1>13, <3>1
  <2>7. SumFunction(SettledOf(ss, "to platform"))
          = p + (IF row.status = "completed" \/ dir # "to platform" THEN 0 ELSE a)
    BY <2>3, <2>6
  <2>8. SumFunction(SettledOf(ss, "from platform"))
          = q + (IF row.status = "completed" \/ dir # "from platform" THEN 0 ELSE a)
    BY <2>4, <2>6
  <2>9. NetExposure' = x - b - SumFunction(SettledOf(ss, "to platform"))
                         + SumFunction(SettledOf(ss, "from platform"))
    BY <1>17, <2>1, <2>2, ExposureNext
  <2>10. PICK in \in Nat : in = IF row.status = "completed" \/ dir # "to platform" THEN 0 ELSE a
    OBVIOUS
  <2>11. PICK out \in Nat : out = IF row.status = "completed" \/ dir # "from platform" THEN 0 ELSE a
    OBVIOUS
  <2>12. d = out - in
    <3>1. CASE row.status = "completed"
      BY <1>10, <2>10, <2>11, <3>1
    <3>2. CASE row.status # "completed"
      <4>1. d = move
        BY <1>10, <3>2
      <4>2. CASE dir = "to platform"
        <5>1. move = -a /\ in = a /\ out = 0
          BY <1>9, <2>10, <2>11, <3>2, <4>2
        <5>2. QED
          BY <4>1, <5>1
      <4>3. CASE dir = "from platform"
        <5>1. move = a /\ in = 0 /\ out = a
          BY <1>9, <2>10, <2>11, <3>2, <4>3
        <5>2. QED
          BY <4>1, <5>1
      <4>4. CASE dir = "zero"
        <5>1. move = a /\ in = 0 /\ out = 0 /\ a = 0
          BY <1>8, <1>9, <2>10, <2>11, <3>2, <4>4
        <5>2. QED
          BY <4>1, <5>1
      <4>5. QED
        BY <1>7, <4>2, <4>3, <4>4
    <3>3. QED
      BY <3>1, <3>2
  <2>13. NetExposure' = x - b - (p + in) + (q + out)
    BY <2>7, <2>8, <2>9, <2>10, <2>11
  <2>14. QED
    BY <1>16, <2>5, <2>12, <2>13
<1>21. work' \in [Requests -> Jobs] /\ RequestsFounded'
  BY <1>14, <1>17, RequestsStay, IdleFounded
<1>22. LimitHolds' /\ profile' \in [operational : BOOLEAN, locked : BOOLEAN]
  <2>1. PICK held \in BOOLEAN : held = profile.locked
    BY DEF IInv, WellTyped
  <2>2. profile' \in [operational : BOOLEAN, locked : BOOLEAN]
    <3>1. PICK after \in BOOLEAN : after = LockAfter(held, m)
      <4>1. LockAfter(held, m) \in BOOLEAN
        BY <2>1, Zenon DEF LockAfter
      <4>2. QED
        BY <4>1
    <3>2. profile' = [profile EXCEPT !.locked = after]
      BY <1>18, <2>1, <3>1
    <3>3. QED
      BY <3>2 DEF IInv, WellTyped
  <2>3. CASE dir = "from platform"
    <3>1. "limit" \in excused'
      BY <1>19, <2>3
    <3>2. QED
      BY <2>2, <3>1 DEF LimitHolds, ExposureWithinLimit, LockedAtLimit
  <2>4. CASE dir # "from platform"
    <3>1. m <= n
      <4>1. move <= 0
        <5>1. CASE dir = "to platform"
          <6>1. move = -a
            BY <1>9, <5>1
          <6>2. QED
            BY <6>1
        <5>2. CASE dir = "zero"
          <6>1. move = a /\ a = 0
            BY <1>8, <1>9, <5>2
          <6>2. QED
            BY <6>1
        <5>3. QED
          BY <1>7, <2>4, <5>1, <5>2
      <4>2. d <= 0
        BY <1>10, <4>1
      <4>3. QED
        BY <1>16, <4>2
    <3>2. Limit' = Limit
      BY <1>17 DEF Limit
    <3>3. excused \subseteq excused'
      BY <1>19
    <3>4. profile' = [profile EXCEPT !.locked = LockAfter(held, m)]
      BY <1>18, <2>1
    <3>5. QED
      BY <1>15, <1>20, <3>1, <3>2, <3>3, <3>4, LockKept
  <2>5. QED
    BY <2>3, <2>4
<1>23. WellTyped'
  <2>1. ledger' \in [recharged : Int, paidOut : Int, settled : Int]
    <3>1. PICK y \in Int : y = ledger.settled + move
      BY <1>4
    <3>2. ledger' = [ledger EXCEPT !.settled = y]
      BY <1>17, <3>1
    <3>3. QED
      BY <1>4, <3>2
  <2>2. QED
    BY <1>17, <1>21, <1>22, <2>1 DEF IInv, WellTyped
<1>24. BooksAgree'
  <2>1. /\ ledger'.recharged = ledger.recharged /\ ledger'.paidOut = ledger.paidOut
        /\ ledger'.settled = ledger.settled + move
        /\ ledger.recharged \in Int /\ ledger.paidOut \in Int /\ ledger.settled \in Int
    BY <1>4, <1>17
  <2>2. WalletsMatchLedger'
    BY <1>17, <2>1 DEF IInv, BooksAgree, WalletsMatchLedger
  <2>3. LedgerMatchesExposure'
    <3>1. ledger.recharged - ledger.paidOut + ledger.settled = n \/ "drift" \in excused
      BY <1>15 DEF IInv, BooksAgree, LedgerMatchesExposure
    <3>2. d = move \/ "drift" \in excused'
      BY <1>10, <1>19
    <3>3. CASE "drift" \in excused'
      BY <3>3 DEF LedgerMatchesExposure
    <3>4. CASE "drift" \notin excused'
      <4>1. ledger.recharged - ledger.paidOut + ledger.settled = n /\ d = move
        BY <1>19, <3>1, <3>2, <3>4
      <4>2. ledger.recharged - ledger.paidOut + (ledger.settled + move) = m
        <5>1. PICK u \in Int, v \in Int, w \in Int :
                 u = ledger.recharged /\ v = ledger.paidOut /\ w = ledger.settled
          BY <2>1
        <5>2. u - v + w = n /\ d = move
          BY <4>1, <5>1
        <5>3. u - v + (w + move) = m
          BY <1>16, <5>2
        <5>4. QED
          BY <5>1, <5>3
      <4>3. QED
        BY <1>20, <2>1, <4>2 DEF LedgerMatchesExposure
    <3>5. QED
      BY <3>3, <3>4
  <2>4. RechargedOncePerKey'
    BY <1>17 DEF IInv, BooksAgree, RechargedOncePerKey
  <2>5. QED
    BY <2>2, <2>3, <2>4 DEF BooksAgree
<1>25. ZeroMovesNothing'
  <2>1. e.direction = "zero" => e.net = 0
    BY <1>8, <1>12
  <2>2. \A i \in DOMAIN ss : ss[i].direction = "zero" => ss[i].net = 0
    BY <1>14, <2>1 DEF IInv, ZeroMovesNothing
  <2>3. QED
    BY <1>17, <2>2 DEF ZeroMovesNothing
<1>26. QED
  BY <1>21, <1>22, <1>23, <1>24, <1>25 DEF IInv
-----------------------------------------------------------------------------
(* Administration.                                                         *)

LEMMA ProfilesKeep == ASSUME IInv, Approve \/ SuspendOrBlock \/ Unlock PROVE IInv'
<1>1. /\ UNCHANGED <<guarantee, wallet, recharges, cashouts, settlements, ledger, work>>
      /\ excused \subseteq excused'
      /\ profile'.locked = profile.locked \/ "unlock" \in excused'
      /\ profile' \in [operational : BOOLEAN, locked : BOOLEAN]
  <2>1. profile \in [operational : BOOLEAN, locked : BOOLEAN]
    BY DEF IInv, WellTyped
  <2>2. CASE Approve
    BY <2>1, <2>2 DEF Approve, SetProfile, rows
  <2>3. CASE SuspendOrBlock
    BY <2>1, <2>3 DEF SuspendOrBlock, SetProfile, rows
  <2>4. CASE Unlock
    BY <2>1, <2>4 DEF Unlock, SetProfile, rows
  <2>5. QED
    BY <2>2, <2>3, <2>4
<1>2. work' \in [Requests -> Jobs] /\ RequestsFounded'
  BY <1>1, RequestsUntouched
<1>3. WellTyped' /\ ZeroMovesNothing'
  BY <1>1, <1>2 DEF IInv, WellTyped, ZeroMovesNothing
<1>4. NetExposure' = NetExposure
  BY <1>1 DEF NetExposure, Settled, Total
<1>5. Limit' = Limit
  BY <1>1 DEF Limit
<1>6. BooksAgree'
  BY <1>1, <1>4, BooksStay
<1>7. LimitHolds'
  <2>1. CASE profile'.locked = profile.locked
    BY <1>1, <1>4, <1>5, <2>1, LimitStays
  <2>2. CASE "unlock" \in excused'
    BY <1>1, <1>4, <1>5, <2>2 DEF IInv, LimitHolds, ExposureWithinLimit, LockedAtLimit
  <2>3. QED
    BY <1>1, <2>1, <2>2
<1>8. QED
  BY <1>2, <1>3, <1>6, <1>7 DEF IInv

\* Another verified guarantee does not lower the limit.
LEMMA LimitGrows ==
    ASSUME NEW V, NEW W, IsFiniteSet(W), V \subseteq W
    PROVE  GuaranteeLimit * Cardinality(V) <= GuaranteeLimit * Cardinality(W)
<1>1. PICK v \in Nat, w \in Nat : v = Cardinality(V) /\ w = Cardinality(W) /\ v <= w
  BY FS_Subset, FS_CardinalityType
<1>2. PICK d \in Nat : w = v + d
  <2>1. PICK d \in Int : d = w - v
    OBVIOUS
  <2>2. d \in Nat /\ w = v + d
    BY <1>1, <2>1
  <2>3. QED
    BY <2>2
<1>3. PICK u \in Nat : u = GuaranteeLimit
  BY AmountsAssumption
<1>4. PICK x \in Nat, y \in Nat : x = u * v /\ y = u * d
  OBVIOUS
<1>5. u * w = x + y
  BY <1>2, <1>4
<1>6. QED
  BY <1>1, <1>3, <1>4, <1>5

LEMMA GuaranteesKeep ==
    ASSUME IInv, NEW g \in Guarantees,
           CreateGuarantee(g) \/ VerifyGuarantee(g) \/ RejectGuarantee(g)
    PROVE  IInv'
<1> DEFINE V == {h \in Guarantees : guarantee[h] = "verified"}
           W == {h \in Guarantees : guarantee'[h] = "verified"}
<1>1. guarantee \in [Guarantees -> {"none", "pending", "verified", "rejected"}]
  BY DEF IInv, WellTyped
<1>2. PICK status \in {"pending", "verified", "rejected"} :
         guarantee' = [guarantee EXCEPT ![g] = status]
  BY DEF CreateGuarantee, VerifyGuarantee, RejectGuarantee, SetGuarantee
<1>3. /\ UNCHANGED <<profile, wallet, recharges, cashouts, settlements, ledger, work>>
      /\ excused \subseteq excused'
  BY DEF CreateGuarantee, VerifyGuarantee, RejectGuarantee, SetGuarantee, rows
<1>4. V \subseteq W \/ "limit" \in excused'
  <2>1. CASE CreateGuarantee(g)
    BY <1>1, <2>1 DEF CreateGuarantee, SetGuarantee
  <2>2. CASE VerifyGuarantee(g)
    BY <1>1, <2>2 DEF VerifyGuarantee, SetGuarantee
  <2>3. CASE RejectGuarantee(g) /\ guarantee[g] = "verified"
    BY <2>3 DEF RejectGuarantee
  <2>4. CASE RejectGuarantee(g) /\ guarantee[g] # "verified"
    BY <1>1, <2>4 DEF RejectGuarantee, SetGuarantee
  <2>5. QED
    BY <2>1, <2>2, <2>3, <2>4
<1>5. work' \in [Requests -> Jobs] /\ RequestsFounded'
  BY <1>3, RequestsUntouched
<1>6. WellTyped' /\ ZeroMovesNothing'
  <2>1. guarantee' \in [Guarantees -> {"none", "pending", "verified", "rejected"}]
    BY <1>1, <1>2
  <2>2. QED
    BY <1>3, <1>5, <2>1 DEF IInv, WellTyped, ZeroMovesNothing
<1>7. NetExposure' = NetExposure
  BY <1>3 DEF NetExposure, Settled, Total
<1>8. BooksAgree'
  BY <1>3, <1>7, BooksStay
<1>9. LimitHolds'
  <2>1. CASE "limit" \in excused'
    BY <2>1 DEF LimitHolds, ExposureWithinLimit, LockedAtLimit
  <2>2. CASE V \subseteq W /\ "limit" \notin excused'
    <3>1. PICK n \in Int : n = NetExposure /\ n = NetExposure'
      BY <1>7, ExposureType DEF IInv
    <3>2. PICK l \in Nat : l = Limit
      BY LimitType
    <3>3. PICK m \in Nat : m = Limit'
      BY LimitTypeNext
    <3>4. l <= m
      <4>1. IsFiniteSet(W)
        BY PartiesAssumption, FS_Subset
      <4>2. GuaranteeLimit * Cardinality(V) <= GuaranteeLimit * Cardinality(W)
        BY <2>2, <4>1, LimitGrows
      <4>3. l = GuaranteeLimit * Cardinality(V) /\ m = GuaranteeLimit * Cardinality(W)
        BY <3>2, <3>3 DEF Limit
      <4>4. QED
        BY <4>2, <4>3
    <3>5. n <= l
      BY <1>3, <2>2, <3>1, <3>2 DEF IInv, LimitHolds, ExposureWithinLimit
    <3>6. n < l \/ l = 0 \/ profile'.locked \/ excused' \intersect {"limit", "unlock"} # {}
      BY <1>3, <3>1, <3>2 DEF IInv, LimitHolds, LockedAtLimit
    <3>7. n <= m /\ (n < l \/ l = 0 => n < m \/ m = 0)
      BY <3>4, <3>5
    <3>8. n < m \/ m = 0 \/ profile'.locked \/ excused' \intersect {"limit", "unlock"} # {}
      BY <3>6, <3>7
    <3>9. QED
      BY <3>1, <3>3, <3>7, <3>8, LimitFor
  <2>3. QED
    BY <1>4, <2>1, <2>2
<1>10. QED
  BY <1>5, <1>6, <1>8, <1>9 DEF IInv

-----------------------------------------------------------------------------
(* The invariant.                                                          *)

LEMMA NothingYet == ASSUME Init PROVE IInv
<1>1. WellTyped
  <2>1. Idle \in Jobs
    BY IdleFounded
  <2>2. << >> \in Seq(RechargeRow) /\ << >> \in Seq(CashoutRow) /\ << >> \in Seq(SettlementRow)
    OBVIOUS
  <2>3. wallet \in [Clients -> Nat]
    BY AmountsAssumption DEF Init
  <2>4. work \in [Requests -> Jobs]
    BY <2>1 DEF Init
  <2>5. QED
    BY <2>2, <2>3, <2>4 DEF Init, WellTyped
<1>2. RequestsFounded
  BY IdleFounded DEF Init, RequestsFounded
<1>3. ZeroMovesNothing
  BY DEF Init, ZeroMovesNothing
<1>4. NetExposure = 0
  <2>1. recharges = << >> /\ cashouts = << >> /\ settlements = << >>
    BY DEF Init
  <2>2. IsFiniteSet({})
    BY FS_EmptySet
  <2>3. SumFunction([i \in {} |-> 0]) = 0
    <3>1. [i \in {} |-> 0] \in [{} -> Nat]
      OBVIOUS
    <3>2. QED
      BY <2>2, <3>1, SumType
  <2>4. /\ CreditsOf(recharges) = [i \in {} |-> 0] /\ PaidOf(cashouts) = [i \in {} |-> 0]
        /\ \A d : SettledOf(settlements, d) = [i \in {} |-> 0]
    <3>1. DOMAIN << >> = {}
      OBVIOUS
    <3>2. QED
      BY <2>1, <3>1 DEF CreditsOf, PaidOf, SettledOf
  <2>5. /\ SumFunction(CreditsOf(recharges)) = 0 /\ SumFunction(PaidOf(cashouts)) = 0
        /\ SumFunction(SettledOf(settlements, "to platform")) = 0
        /\ SumFunction(SettledOf(settlements, "from platform")) = 0
    BY <2>3, <2>4
  <2>6. NetExposure = ((0 - 0) - 0) + 0
    BY <2>5, ExposureIsSummed
  <2>7. QED
    BY <2>6
<1>5. Limit = 0
  <2>1. {g \in Guarantees : guarantee[g] = "verified"} = {}
    BY DEF Init
  <2>2. Cardinality({g \in Guarantees : guarantee[g] = "verified"}) = 0
    BY <2>1, FS_EmptySet
  <2>3. GuaranteeLimit * 0 = 0
    BY AmountsAssumption
  <2>4. QED
    BY <2>2, <2>3 DEF Limit
<1>6. BooksAgree
  <2>1. SumFunction(wallet) = InitialBalance * Cardinality(Clients)
    BY SumConstant, AmountsAssumption, PartiesAssumption DEF Init
  <2>2. ledger.recharged = 0 /\ ledger.paidOut = 0 /\ ledger.settled = 0
    BY DEF Init
  <2>3. WalletsMatchLedger
    <3>1. PICK b \in Nat : b = Cardinality(Clients)
      BY PartiesAssumption, FS_CardinalityType
    <3>2. PICK a \in Nat : a = InitialBalance * b
      BY AmountsAssumption
    <3>3. QED
      BY <2>1, <2>2, <3>1, <3>2 DEF WalletsMatchLedger
  <2>4. LedgerMatchesExposure
    BY <1>4, <2>2 DEF LedgerMatchesExposure
  <2>5. RechargedOncePerKey
    BY DEF Init, RechargedOncePerKey
  <2>6. QED
    BY <2>3, <2>4, <2>5 DEF BooksAgree
<1>7. LimitHolds
  BY <1>4, <1>5 DEF LimitHolds, ExposureWithinLimit, LockedAtLimit
<1>8. QED
  BY <1>1, <1>2, <1>3, <1>6, <1>7 DEF IInv

LEMMA StutteringKeeps == ASSUME IInv, UNCHANGED vars PROVE IInv'
<1>1. UNCHANGED <<profile, guarantee, wallet, recharges, cashouts, settlements, ledger, work,
                  excused>>
  BY DEF vars, rows
<1>2. work' \in [Requests -> Jobs] /\ RequestsFounded'
  BY <1>1, RequestsUntouched
<1>3. WellTyped' /\ ZeroMovesNothing'
  BY <1>1, <1>2 DEF IInv, WellTyped, ZeroMovesNothing
<1>4. NetExposure' = NetExposure
  BY <1>1 DEF NetExposure, Settled, Total
<1>5. Limit' = Limit
  BY <1>1 DEF Limit
<1>6. BooksAgree' /\ LimitHolds'
  BY <1>1, <1>4, <1>5, BooksStay, LimitStays
<1>7. QED
  BY <1>2, <1>3, <1>6 DEF IInv

LEMMA StepsKeep == ASSUME IInv, Next PROVE IInv'
<1>1. ASSUME NEW r \in Requests, NEW c \in Clients,
             \/ \E mode \in {"added_on_top", "deducted_from_deposit"},
                   a \in RechargeAmounts, key \in Keys : BeginRecharge(r, c, mode, a, key)
             \/ \E a \in CashoutAmounts : BeginCashout(r, c, a)
      PROVE  IInv'
  BY <1>1, FetchesKeep
<1>2. ASSUME NEW r \in Requests,
             \/ \E k \in DOMAIN cashouts : BeginConfirm(r, k)
             \/ \E s \in DOMAIN settlements : BeginComplete(r, s)
      PROVE  IInv'
  BY <1>2, FetchesKeep
<1>3. ASSUME NEW r \in Requests,
             CheckRecharge(r) \/ CommitRecharge(r) \/ CheckCashout(r) \/ CommitCashout(r)
      PROVE  IInv'
  BY <1>3, RechargesChecked, RechargesKeep, CashoutsChecked, CashoutsKeep
<1>4. ASSUME NEW r \in Requests, RefuseRecharge(r) \/ RefuseConfirm(r) PROVE IInv'
  BY <1>4, RollbacksKeep DEF RefuseRecharge, RefuseConfirm
<1>5. ASSUME NEW r \in Requests, CommitConfirm(r) \/ CommitComplete(r) PROVE IInv'
  BY <1>5, ConfirmsKeep, CompletionsKeep
<1>6. ASSUME NEW g \in Guarantees,
             CreateGuarantee(g) \/ VerifyGuarantee(g) \/ RejectGuarantee(g)
      PROVE  IInv'
  BY <1>6, GuaranteesKeep
<1>7. QED
  BY <1>1, <1>2, <1>3, <1>4, <1>5, <1>6, CodesKeep, SettlementsKeep, ProfilesKeep DEF Next

\* What is proved of every step rests on this: the rows are typed, a request that
\* checked a recharge holds room for it, one that confirms or completes holds a row
\* that exists, and a settlement without a direction moves nothing (create_recharge,
\* confirm_cashout, complete_settlement and what their views fetch).
THEOREM Invariance == Spec => []IInv
<1>1. Init => IInv
  BY NothingYet
<1>2. IInv /\ [Next]_vars => IInv'
  BY StepsKeep, StutteringKeeps
<1>3. QED
  BY <1>1, <1>2, PTL DEF Spec

\* Wallets, ledger and rows tell of the same recharges and cash-outs and a key is
\* used once, whatever amounts and fees (create_recharge, confirm_cashout).
THEOREM BooksAlwaysAgree == Spec => []BooksAgree
<1>1. IInv => BooksAgree
  BY DEF IInv
<1>2. QED
  BY <1>1, Invariance, PTL

\* The exposure stays within the limit and reaching it locks, unless one of the
\* named exceptions happened (create_recharge, complete_settlement).
THEOREM LimitAlwaysHolds == Spec => []LimitHolds
<1>1. IInv => LimitHolds
  BY DEF IInv
<1>2. QED
  BY <1>1, Invariance, PTL

\* No wallet is overdrawn and every row keeps a known status, whatever amounts are
\* named, also negative ones, and however many cash-outs are pending against one
\* balance (Wallet.save, confirm_cashout's test under the wallet's lock).
THEOREM TypeCorrect == Spec => []TypeOK
<1>1. IInv => TypeOK
  <2>1. SUFFICES ASSUME IInv PROVE TypeOK
    OBVIOUS
  <2>2. cashouts \in Seq(CashoutRow) /\ settlements \in Seq(SettlementRow)
    BY <2>1 DEF IInv, WellTyped
  <2>3. \A i \in DOMAIN cashouts :
           cashouts[i].status \in {"code_issued", "completed", "expired"}
    <3>1. \A i \in DOMAIN cashouts : cashouts[i] \in CashoutRow
      BY <2>2, Entries
    <3>2. QED
      BY <3>1 DEF CashoutRow
  <2>4. \A i \in DOMAIN settlements :
           settlements[i].status \in {"draft", "completed"} /\ settlements[i].net \in Nat
    <3>1. \A i \in DOMAIN settlements : settlements[i] \in SettlementRow
      BY <2>2, Entries
    <3>2. QED
      BY <3>1 DEF SettlementRow
  <2>5. \A i \in DOMAIN recharges : recharges[i].credit \in Int
    <3>1. recharges \in Seq(RechargeRow)
      BY <2>1 DEF IInv, WellTyped
    <3>2. \A i \in DOMAIN recharges : recharges[i] \in RechargeRow
      BY <3>1, Entries
    <3>3. QED
      BY <3>2 DEF RechargeRow
  <2>6. QED
    BY <2>1, <2>3, <2>4, <2>5 DEF IInv, WellTyped, TypeOK
<1>2. QED
  BY <1>1, Invariance, PTL

=============================================================================
