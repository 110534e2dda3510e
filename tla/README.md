# Tiqani v3: a TLA+ model of the back end

Tiqani is a Django REST back end for service contracts between clients and
technicians: a client requests a service, a technician makes an offer, the
accepted offer becomes a contract, both sign it, its activation is charged, the
client funds it, the technician works, the client confirms, and the escrow is
settled to the technician's wallet, from which it is withdrawn. Disputes and
refunds cut across all of it; chat, reviews, notifications, accounts and
dealerships, where clients load and empty their wallets, stand around it.

The project models the components whose state can go wrong, with the
interleavings that the code's transactions really allow, checks them with TLC on
small instances and proves every safety property of the passing runs with TLAPS for
every instance.

## How the code runs, and what a step is

The server runs several gunicorn/daphne workers and Celery workers over
PostgreSQL at READ COMMITTED. `ATOMIC_REQUESTS` is not set, so a request is
usually

1. a view that fetches a row **without a lock and outside any transaction**
   (`_get_contract`, `get_object_or_404`), then
2. a service under `transaction.atomic` that tests *the object it was given*
   and writes.

Between the two, any other request may run. Such an endpoint is two actions:
`Begin<Op>(w)` (fetch, and the tests on the fetched object) and `Commit<Op>(w)`
(all the writes of the transaction). What the request remembers is kept beside the
database, in `req[w]` (`desk`, `work`, `job`, `held`, `request`, `call` where the
component has names of its own). A service that re-reads its row under
`select_for_update` before its tests (`settle_completed_contract`, every dispute
handler) is one action. `confirm_sandbox_payment` locks the intent but not the
contract, whose amount it copies into the escrow: it is two. A transaction
that reads and later writes without a lock, whose read another commit can overtake,
is split once more (`CheckSign`, `ReadVersion`, `CheckSave`). Four points decide what
is atomic:

* A test in the transaction on a *different* row (is the contract funded, does
  the attestation exist) is put at the commit if it can only become true and at
  the fetch if it can only become false: the last, respectively the first, moment
  the code can read it. This allows every outcome the code has and no more.
* `save()` without `update_fields` writes **every column of the fetched object**.
  The models keep the fetched object and write it back whole; most lost updates
  below come from it. A stale proposal or acceptance writes `status`, `agreed_amount`
  and `escrow_amount` of the contract, so it is in `ContractEscrow` as well as in
  `ContractSigning` and `Stages`.
* `Rollback(w)` / `Abandon(w)` is every way a transaction can end without effect: a
  wallet that is short of funds, a constraint violation, a worker that dies. It is
  enabled whenever a request is in flight.
* Two stage approvals of one contract serialise on the technician's wallet row,
  which both update, so the commit of a stage approval is one step.

`status` fields keep the literals of the code, including those that disagree with
each other (`pending` / `PENDING`, below).

## Inventory

For each component: state; operations; what is hard; what makes it correct; where
it is modelled.

| component | state and operations | what is hard | what makes it correct | module |
|---|---|---|---|---|
| servicerequest, contract: offers | `ServiceRequest`, `Offer`; answer, create, update, submit, withdraw, reject, accept | read, validate and save are separate statements; acceptance locks one row only | a contract per request, for an amount that was submitted, after the technician agreed | `Offers` |
| contract: proposal, acceptance, signatures | contract row with terms and flags, frozen version, signatures, one-time codes | whole-row saves, `Contract.save` moves the status by itself, two signatures miss each other | what is signed was accepted by both, in one version; finalization needs both | `ContractSigning` |
| contract: stages | `ContractStage` rows; created by a complete save, submitted, edited, approved | creation outside a transaction, at most once; whole-row edits over an approval | stages add up to the terms; each is paid once | `Stages`, `ContractEscrow` |
| contract: activation, cancellation, completion | contract row, attestation, completion requests | all act on a fetched contract; refunds of an amount read earlier; proposals and acceptances that save an old row over the escrow | charged once, no principal lost but by such a save, no work without funds | `ContractEscrow` |
| contract: milestones, deliverables, revisions, extensions | `ExecutionMilestone`, `DeliverableSubmission`, `RevisionRequest`, `TimeExtensionRequest` | numbers from a maximum read earlier; completion checked against milestones that change | numbering without gaps; completion covers what it was asked for | `Execution` |
| wallet: funding | `PaymentIntent`; create, confirm, decline, mark paid | a lock over no rows; a fetched intent; an amount that changed since | deposits back what the escrow pays | `ContractEscrow` |
| wallet: settlement, fees, reconciliation | breakdown, settlement, earnings, platform wallet; settle, reverse, reconcile | platform wallet written with and without a lock; two roundings; a net amount paid whatever the escrow holds | books agree; the report is balanced exactly when it should be | `ContractEscrow`, `Settlements` |
| wallet: withdrawals and balance | requests, wallet, its other writers, the sandbox gateway | stale staff requests; writers that do not lock | never negative, no payout without deduction, ledger explains the balance | `Withdrawals` |
| dispute: disputes, refunds, chargebacks | ten statuses, resolution, refund record, liability, chargeback | handlers run between fetch and commit of the contract's endpoints; an upheld chargeback finds its dispute unlocked; retries | refunds are backed and resolved; one resolution per dispute | `ContractDisputes`, `DisputeDesk` |
| row locks of all transactions | locks on contract, dispute, wallets, profiles, users, intents, chargebacks | opposite orders, joins that lock every row they read, shared locks of foreign keys | deadlocks only where the order is broken; requests end | `RowLocks` |
| dealership | profile, guarantees, recharges, cash-outs with a code, ledger, settlements | sums checked without a lock; amounts of either sign; statuses saved in a transaction that then raises | no wallet is overdrawn; wallets and ledger agree; the limit holds and locks | `Dealership` |
| chat | rooms, messages, unread counters, WebSocket consumer | two openings at once; a message between the steps of a read | counters match messages; one conversation per request | `Chat` |
| ratereview | reviews, votes, reports, moderation, snapshot and rate | counters read and saved; aggregates computed and then written | moderation stands; caches equal the aggregate | `Reviews` |
| notification | rows, keys, events after commit, a Celery task | caught failures inside the caller's transaction, or after it; redelivery; a recipient that is gone | notices follow commits, one row per key | `Notifications` |
| accounts, dashboard decisions | user and profile rows, codes, cooldown and login counters in the cache | whole-row saves over a decision; separate test and write; a completion that depends on today's date | decisions stand; codes serve once | `Profiles`, `Registration` |
| category; management commands; settings and infrastructure; dashboard lists | reference data, seed and QA scripts, configuration, aggregates | nothing interleaves | | not modelled |

Interactions: the contract row is written by finalization, funding, completion,
stages, settlement and disputes; a wallet by activation, stages, settlement,
disputes, withdrawals and dealerships; a dispute by its own handlers and by
chargebacks; an offer's acceptance creates the contract; every component inserts
notifications, most inside its transactions, some after them. All are writes to shared rows; there are no
callbacks except Celery tasks, `on_commit` events and model `save` hooks.

The hazards found in each component, with their lines, are in `PROJECT.json`.

## Modules

| module | models | composed with |
|---|---|---|
| `EscrowPromise` | what the payment endpoints promise: activate, fund, release, once each, in order | |
| `ContractEscrow` | the money of one contract from its draft to its settlement | instantiates `EscrowPromise` |
| `ContractDisputes` | disputes over that contract | extends `ContractEscrow` |
| `ContractSigning` | one contract from its draft to its activation | |
| `Stages`, `Execution` | the payment stages; the milestones, completion and extensions | `MCExecution` |
| `Offers`, `Chat`, `Reviews` | before, during and after a contract | `MCMarketplace` |
| `Withdrawals`, `Settlements` | one wallet; the amounts of two contracts and the platform | `MCWallets` |
| `DisputeDesk` | the records staff keep of disputes, and chargebacks | `MCDisputeDesk` |
| `Dealership` | one dealership | `MCDealership` |
| `RowLocks`, `Notifications` | what all components stand on | `MCPlatform` |
| `Profiles`, `Registration` | one account; one address | `MCAccounts` |
| `SumLemmas` | sums of functions over finite sets | |
| `ContractEscrowProofs` | theorems on the contract, its disputes and the desk | extends `MCDisputeDesk` |
| `ContractSigningProofs` | theorems | extends the component |
| `MarketplaceProofs`, `ExecutionProofs`, `WithdrawalsProofs`, `DealershipProofs` | theorems | extend the `MC` module of the components |
| `PlatformProofs` | theorems on what all stand on, and on accounts | extends `MCAccounts` |

`MCMarketplace`, `MCExecution`, `MCWallets`, `MCPlatform` and `MCAccounts` put two or
three components into one run. Their parts share no state, so a behaviour
exercises one of them (`part`) and the others keep their initial state: what is
checked is each part by itself, not their product. `MCAccounts` extends `MCPlatform`
and keeps that part still. `MCDisputeDesk` instantiates `DisputeDesk` beside
`ContractDisputes`: the two are different views of the same disputes.

### EscrowPromise and ContractEscrow

| variable | code |
|---|---|
| `status`, `agreed`, `escrow` | `Contract.status`, `agreed_amount`, `escrow_amount` |
| `staged`, `signed` | whether the stage rows exist; whether the second signature has found the first |
| `charges`, `principal` | `PlatformAttestation` rows, each one activation; what it took into escrow |
| `booked` | ESCROW transactions that brought money in |
| `lost`, `restored` | history: escrow that a save of a whole row, or a confirmation of a changed amount, wrote away; escrow that a save of an older row put back |
| `intent`, `deposits` | `PaymentIntent.status`, DEPOSIT transactions per intent |
| `completion` | `CompletionRequest.status` |
| `submitted`, `releases` | `ContractStage.completed_at`, RELEASE transactions per stage |
| `settlements`, `released` | completed `ContractSettlement` rows, their principal |
| `refunded` | REFUND transactions to the client |
| `req` | what each request in flight has fetched |

Actions are named after the services: `Begin/CommitPropose`, `Begin/CommitAccept`,
`Begin/CommitSign`, `Begin/CommitFinalize`, `Begin/CommitCreateIntent`,
`Begin/CommitConfirm`, `DeclinePayment`, `Begin/CommitMarkPaid`, `Begin/CommitActivate`, `Begin/CommitRequestCompletion`,
`Begin/CommitConfirmCompletion`, `Begin/CommitRejectCompletion`,
`Begin/CommitCancel`, `SubmitStage`, `Begin/CommitApproveStage`, `Settle`. Whether
the required milestones are approved is left open in the guards that ask for it:
every property holds whatever the milestones are (`Execution` models them). Who
accepted and signed what is left open too, and is in `ContractSigning`. Amounts are
whole units of any sign, since `ContractProposalSerializer` has no minimum.

`SaveRow` is `Contract.save` of the object that a proposal or an acceptance fetched:
status, amount and escrow of the fetched row replace what is stored, also after the
activation, the cancellation or the settlement. A proposal in flight since the draft so
erases the escrow of an activated contract (`escrow_amount` was 0 when it was fetched), and an
acceptance fetched after such a save can bring a copy of it back. `lost` and `restored` count what these saves did,
for the properties to say exactly what they leave intact. `MaxRewritten` bounds how often.

A contract starts as a draft without terms (`create_contract`) or, when it predates
electronic signing, `in_progress` with an amount and stages and unfunded: the tests and the
seed data build the second kind. `TypeOK`, `SettledOnce` and `PayoutsAreBacked` hold of both.

### ContractDisputes and DisputeDesk

`ContractDisputes` runs each dispute handler (one action: it locks its dispute)
between the fetch and the commit of the contract endpoints: a cancellation may have
read the escrow that a resolution then refunds. The technician's balance, from which
a refund after the settlement is taken, is bounded by what other contracts leave in
it, so the amount recovered is any amount up to the one entered.

`DisputeDesk` keeps the records: `dispute`, `resolutions`, `refund`, `liability`,
`chargeback`. Its contract only settles: `Settle` pays the technician the net amount that the
breakdown fixed (`TechnicianNet`), whatever refunds have left of the escrow (`Principal` at
the start), and clears the escrow; `Savings` is what the wallet held before. Actions are the endpoints (`Respond`,
`Cancel`, `StartReview`, `Propose`, `Reject`, `Resolve`, `RefundInFull`, `Close`,
`RejectChargeback`, `UpholdPartly`, ...). Three of them are several steps: the
sandbox confirmation of a refund and its retry, which save in statements of their
own, and `BeginUphold`/`CommitUphold`, which takes the dispute under review without
locking it. A refund fails only in the fixtures (`FailRefund`): no endpoint makes one
fail, and the retry endpoint exists for it. `MaxUpholds` bounds decisions, which the
code allows without end.

### ContractSigning

| variable | code |
|---|---|
| `contract` | `Contract.status`, the terms (amount, number of stages, description, deadline) and `client_accepted`, `technician_accepted` |
| `version` | the `canonical_snapshot` of `ContractVersion` 1, as the terms it was taken from |
| `signed` | per role, the version its `ContractSignature` belongs to |
| `codes` | the roles that have a valid unused `OTPVerification` |
| `attested` | `PlatformAttestation` rows |
| `accepted` | history: per role, the terms it has accepted |
| `req` | the contract object, and for a signing request the version and the other signature, that a request has read |

`CommitPropose` and `CommitAccept` replace the whole row by `Saved` of the fetched
object (`Contract.save` with no `update_fields`); freezing, signing, finalization and
cancellation write single columns. A signing request is three actions: the view's
fetch, the transaction's reads and its writes, because under READ COMMITTED two such
transactions can both read before either commits. `Incomplete` stands for any
proposal that lacks one of the four fields which `Contract.save` asks for. One-time
codes are issued by the account endpoints as well, so `IssueCode` has no guard.
Money is in `ContractEscrow`, where terms are an amount and acceptances are left open.

### Stages

`row` holds status, agreed amount, number of stages, whether there is a description,
and `total_paid`; `stages` the `ContractStage` rows in the order of their insertion.
`Split` is `_create_contract_stages` on decimals of two digits: equal shares rounded
half to even, the last stage takes the rest. A proposal that completes the terms commits and then
inserts the stages one by one (`InsertStage`): on that path there is no transaction
around them, so another proposal, another creation or a crash can come between. Edits
save the whole stage that was fetched; approvals pay, raise `total_paid` from a
contract read earlier, and complete the contract with the last stage. History
variables say which exception happened: `late` (terms changed after creation had
begun), `aborted` (creation broke off), `crossed` (a request held the stage
unapproved when it was approved), `lost` (`total_paid` saved from an older total).

### Execution

`milestone` (status, sequence, revision count), `versions` of its submissions,
`revisions`, `completions`, `extension`, and the contract's status. Sequence, version and
revision numbers are read and then inserted (`ReadSequence`, `ReadVersion`,
`ReadRevisionNumber`), with the unique constraints as guards. `Reorder` is one
transaction whose updates hold the rows. No endpoint takes a milestone out of DRAFT:
the milestones a contract starts with are `PENDING`, as the tests and fixtures build them.
`counted` and `reopened` are history: what a completion request found approved, and
approvals that another save has overwritten.

### Offers, Chat, Reviews

`Offers`: one request, its offers with amount and status. Answers to the request and
changes of an offer are fetch, clean and whole-row save; submission withdraws the
other submitted offers it sees and keeps those rows locked; acceptance locks its
offer and creates the contract. `undone` counts saves that overwrote an acceptance.

`Chat`: rooms of one client and one technician, counted messages, `unread` and
`lastRead` per participant. Opening looks and then inserts; reading takes the latest
message and then zeroes the counter; links and closings save fetched rows. `crossed`
and `reopened` name the overlaps.

`Reviews`: reviews of the contracts between two users with edits, votes, reports,
moderation, and the two caches. An aggregate is computed and stored in two steps.
The `excused` caches are those whose reviews changed in between, or which the legacy
endpoint did not recalculate.

### Withdrawals and Settlements

`Withdrawals`: one action pair per staff endpoint; `MayStart(op)` is the set of
statuses the endpoint tests for on the fetched row. Creation locks the wallet and is
one action. `UnlockedOps` names the writers that read the wallet without a lock and
write back the sum: stage release (technicians) and the activation fee (both
parties). Settlement credits and dispute reversals lock it.

`Settlements` computes in hundredths: the activation fee of both parties (rounded
half to even), commission and service fee of the breakdown (rounded half up), what the stage
approval, the settlement and a dispute resolution after it write to the two wallets,
the platform wallet, its transactions and the earnings, and what
`reconcile_contract` then reports. Activation, funding and stage approval read
balances and save them later; the others lock. One-stage contracts, whole hundredths
and whole percents; the statuses are `ContractEscrow`'s.

### Dealership

Recharges, cash-outs (code, confirmation, expiry), settlements, guarantees and the
financial lock of one dealership. `wallet`, `ledger` (sums by kind), the rows, and
`work`, what each request has read. A recharge may name an amount of either sign;
`Storable` is the test of `Wallet.save`, which fails a recharge that would leave a negative balance.
A limit of 0 is none (`Within`). `is_operational`'s flags are one Boolean, and all
happens in one day and period. `excused` names what may break a sum or a limit:
overlapping confirmations or recharges, a guarantee rejected later, an
administrator's unlock, a settlement that the platform paid.

### RowLocks and Notifications

`RowLocks` lists, for each transaction on one contract, the row locks it takes in
order and their mode (FOR UPDATE, a non-key UPDATE, the key-share lock of a foreign
key check), and runs them with PostgreSQL's conflict table and deadlock detection.
The settlement's `select_for_update().select_related(...)` has no `of=` and locks the contract,
both profiles and both users in its first statement. Foreign keys are deferred, so their
checks come at the commit. Waits for a row of a unique index, and transactions of other
contracts that share a wallet, are not modelled. What the transactions write is in the other modules.

`Notifications`: a plain change opens a transaction, inserts the rows of the users it
concerns, and commits or rolls back; an insert that fails is caught and leaves the transaction
broken. A detached change (`create_contract`, `update_contract_proposal`, messages) is
committed first and notified outside any transaction, where a caught failure, or a process that dies,
leaves it without its notice. A keyed change (a review) uses a key and a savepoint. Events leave at the
commit and may be lost. The Celery task is delivered at least once and retried up
to `MaxRetries`; its worker may crash `MaxCrashes` times; when a user it names is not found
(`FindNobody`) it makes no row and is acknowledged all the same.

### Profiles and Registration

`Profiles`: the user and profile row of one account, written by the endpoints of its
owner, the staff dashboard and the admin site, each from rows fetched earlier; a
request saves one row, then perhaps the other. `stale` marks that a save wrote over a
newer row. A client is complete only as an adult: `birthday` is the day a client turns 18, on which
nothing is saved (`TurnEighteen`). `Registration`: accounts registering with one address, codes, the
cooldown and the login counter, each tested and written separately. A code is made
and mailed (`SendCode`) before the cooldown is set (`SetCooldown`). `overlapped` names the
pairs of steps that met, and the resending that stopped between its two.

## Fairness

Most components have none: a client or staff member must act, so nothing must
happen. Three have:

* `DisputeDesk`: weak fairness of `Finishing(w)`. A request that has begun runs to
  its end in the worker that serves it; without it `RetriedRefundsEnd` says nothing.
* `RowLocks`: weak fairness of `Step(w)`. A statement that waits for a lock is woken
  when it is free, and PostgreSQL's detector fails one of the waiters in a cycle.
* `Notifications`: weak fairness of `TaskStep`. Celery workers run; an unacknowledged
  task is delivered again.

`RequestsEnd` is stated for the time when no more requests come: under load a
statement that wants a row for update may starve behind transactions that hold
key-share locks on it in turn.

`CHECK_DEADLOCK FALSE` is set in every run because the bounded rows are used up and
then no request is left to begin.

## Runs

| run | checks | instance |
|---|---|---|
| `signed` | `TypeOK`, `ChargedOnce`, `SettledEscrowStaysEmpty`, `WorkIsFunded`, `NoLostPrincipal`, `KeepsPromise` | 3 requests from the draft on, 1 intent, 1 completion request, 1 stage, amount 2 |
| `legacy` | `SettledOnce` | 2 requests, 2 intents, 1 completion request, 2 stages, contract starts in progress |
| `disputes` | `PrincipalSurvivesDisputes`, `PayoutsAreBacked` | 2 requests from the draft on, 1 completion request, 2 disputes, amounts 2 and -1, refunds of 0, 1, 3 |
| `signing` | `SignedTermsWereAccepted`, `SameVersionSigned`, `FinalizationIsSigned` | 3 requests, 2 terms |
| `execution` | `TypeOK`, `SubmissionsAreNumbered`, `CompletionCoversMilestones`; `StagesAddUp`, `StagesArePaidOnce` | 2 requests; 2 milestones, 1 extension, 2 submissions each; 2 stages of 5 or 7, 3 payments |
| `marketplace` | `ContractsFollowOffers`; `UnreadMatchesMessages`, `RoomsAreUnique`; `ReviewsAreKept`, `CachesMatchReviews` | 2 requests; 2 offers, 2 amounts; 2 rooms, 2 messages; 1 review, 2 voters, threshold 2 |
| `wallets` | `TypeOK`, `PayoutIsDeducted`, `LockedLedgerExplainsBalance`; `PlatformBooksAgree`, `ReconciliationIsExplained` | 2 withdrawals of 1 or 2 units, balance 3; 2 contracts of 0.25, rates 10, 10 and 5 percent |
| `dispute_desk` | `DeskMoneyAddsUp`, `ResolutionsAgree`, `RefundsAreResolved`, `RetriedRefundsEnd` | 2 disputes, 1 chargeback, 2 requests, amounts 1 and 3, escrow 2, net amount 1, savings 1 |
| `dealership` | `TypeOK`, `BooksAgree`, `LimitHolds` | 2 requests, 1 client, 1 guarantee of 2, 2 recharges of either sign, 1 cash-out, 1 settlement |
| `platform` | `DeadlocksAreOutOfOrder`, `NoticesAreFaithful`, `WorkEnds` | 3 transactions; 1 plain, 1 detached and 1 keyed change; the task with 2 retries, 2 crashes |
| `accounts` | `CompletenessIsCurrent`, `DecisionsStand`; `RulesHoldWithoutRaces` | 2 requests, 1 reset, a client turning 18; 2 registrations, 3 codes, limit 2 |
| `claims_double_release` | `NoDuplicateRelease`, refuted | 1 request, 1 stage |

### Bounds, and why they are enough

The hazards are races of two requests over one row, so two requests meet everywhere;
`signed` and `signing` have three, because there a third acts on what two have left (a
stale proposal, a stale acceptance and a signature), and three transactions can wait in a ring in `platform`. Data
sets are as small as the properties can tell apart:

* Two disputes are what the code wrongly allows. An amount of 2 with refunds of 1 and 3 gives partial,
  full and excessive ones, and -1 an amount that no endpoint refuses. Two intents are only
  possible for a legacy contract.
* `MaxRewritten = 2` lets a stale save take the whole escrow and another bring it back.
* Two stages distinguish the last from the others (`legacy`, `execution`); one is what it takes
  to pay a contract twice, by its stage and by its settlement (`signed`). `Prices` 5 and 7 are odd, so the shares are
  uneven; `Counts = {2}` although a contract may have up to five stages.
* Two withdrawals of different size against a balance that covers only some combinations.
* Two terms are what it takes for one proposal to replace another; two amounts the same for offers.
* `Agreed = 25` hundredths with rates 10, 10 and 5 make the roundings differ.
* A limit of 2 that one recharge reaches, and recharges of 2 and -1; one cash-out is enough for two requests
  to confirm it at once. The theorems have any number of them.
* `TechnicianNet = 1` of a principal of 2 leaves room for a refund that the settlement pays again.

Guards hold these bounds: `MaxCompletions`, `MaxRewritten`, `MaxSequence`, `MaxDeliveries` (rows of
one contract), `MaxPayments`, `MaxResolutions`, `MaxUpholds`, `MaxPayouts`, `MaxOther`,
`MaxRecharges`, `MaxCashouts`, `MaxSettlements` (money movements), `MaxContracts`, `MaxSaves`, `MaxRooms`,
`MaxMessages`, `MaxEdits`, `MaxPasswords`, `MaxFailures`, `MaxDeleted`, and the faults `MaxRetries`,
`MaxCrashes`. Of these, the retries of the notification task, the edits of a review and the
failed logins are limits of the code itself, at smaller numbers.

Symmetry is declared on sets that no action or invariant names, and only in runs without a
liveness property; `KeepsPromise` and `DecisionsStand` are action properties.

### What the passing runs show

Contract and money:

* `ChargedOnce`: racing finalizations pass the same status test, and only the
  OneToOne attestation of the frozen version stops the second charge.
* `SettledEscrowStaysEmpty`: late confirmations and cancellations never refill a
  settled signed contract; what it may hold is what a save of an older row put back. It rests on there being one intent, which finalization
  opens, and fails for a legacy contract, whose second intent refills the escrow.
* `SettledOnce`: even so, only one settlement is made.
* `WorkIsFunded`: no path, not even the rejection of a completion request of a canceled
  contract, gets around the funding check.
* `NoLostPrincipal`: stale cancellations may refund twice, but never lose principal. The only way to lose it
  is a proposal or an acceptance that was fetched before the activation and saved after, whose loss
  `lost` counts to the dinar, or a confirmation after such a save has changed the amount.
* `KeepsPromise`: the endpoints implement `EscrowPromise` under
  `charged <- charges > 0`, `funded <- Funded`, `released <- settlements > 0`.
* `PrincipalSurvivesDisputes`, `PayoutsAreBacked`: resolutions between fetch and commit
  neither lose nor create principal. The refunds of cancellations are not counted in `PayoutsAreBacked`: two stale
  ones exceed what is held.
* `StagesAddUp`: the stage rows add up to the terms, unless one of the named exceptions
  happened: the terms were changed later or the creation broke off. `StagesArePaidOnce`: a
  stage is paid twice only if a request held it unapproved while it was approved, and `total_paid`
  is the sum of the approved stages unless an older total was saved.
* `PayoutIsDeducted`: no stale staff request pays out what was not deducted.
* `LockedLedgerExplainsBalance`: in the part of the run whose writers all lock the wallet, no update is lost.
* `PlatformBooksAgree`: no balance is negative, and the platform's is what it counts as collected and the
  sum of its transactions, unless an activation saved a sum of a balance it had read before another
  credit. `ReconciliationIsExplained`: the report calls a settled contract balanced exactly when no
  stage approval has paid it too and disputes reversed as much as its activation had charged.

Agreement:

* `SignedTermsWereAccepted`: a proposal that is still in flight may put other terms over
  an accepted contract, but then without the acceptances; and an acceptance writes back the
  terms it accepted. The lost updates of the full-row saves are what keeps the flags honest: were
  only the flag written, terms could be signed that a party never accepted.
* `SameVersionSigned`: of two requests that find no version and create number 1, the unique
  constraint fails one, with its signature.
* `FinalizationIsSigned`: stale reads can only make a signature look missing, never present.
* `ContractsFollowOffers`: offers and contracts exist only for a request that the technician accepted, a
  contract is for an amount its offer was submitted with, and a second contract needs a save that
  overwrote the first acceptance.

Work:

* `SubmissionsAreNumbered`: versions have neither gaps nor repetitions, whoever reads the maximum at the
  same time (a number that is taken fails its request), and revision requests follow what was handed in.
* `CompletionCoversMilestones`: every milestone that completion was asked for is still approved,
  except where a save that had read it earlier overwrote the approval.

Disputes:

* `DeskMoneyAddsUp`: before the settlement every dinar is in escrow or back with the client. The settlement
  pays the net amount of the breakdown and so may pay again what a refund has taken, at most the whole escrow; refunds and
  chargebacks after it create nothing.
* `ResolutionsAgree`: resolutions agree with the status of their disputes, of which at most
  one is under review, so an upheld chargeback never finds two.
* `RefundsAreResolved`: money comes back to the client only with a refund record of at least that amount
  under a resolution of as much; neither chargebacks nor retries move any.
* `RetriedRefundsEnd`: a refund that a retry has set to processing does not stay there once its request ends.

Around the contract:

* `TypeOK` of the dealership: no client's wallet is overdrawn, by recharges of negative amounts either.
  `BooksAgree`, `LimitHolds`: wallets, transactions and rows of a dealership agree, and its exposure stays below
  the limit or it is locked, but for the overlaps that `excused` names.
* `UnreadMatchesMessages`, `RoomsAreUnique`: counters equal the messages after the last read
  one, a request has one conversation and a pair one active room, except after the overlaps `crossed` and `reopened`.
* `ReviewsAreKept`, `CachesMatchReviews`: no save undoes a moderation or an edit limit;
  both caches equal the aggregate of the published reviews when no aggregate was overtaken.
* `DeadlocksAreOutOfOrder`: transactions wait for each other in a cycle only where a finalization, a stage approval,
  a payment confirmation or marking, a rejected completion or an upheld chargeback takes part, or a settlement
  with a cancellation, a confirmed completion, or a withdrawal's request, review or payout: those
  reach the contract from the technician's profile, or a user from a row the settlement wants next, where the
  settlement's first statement goes from the contract to both. The others lock in one order. `WorkEnds`: once no new
  requests come, all end, and the notification task is acknowledged or has used its retries.
* `NoticesAreFaithful`: a notice exists only of a committed change, a key has one row, events
  follow rows, a plain change has all its notices or none (a failed insert undoes the caller's transaction), a
  detached one at most its one, and the task is acknowledged without a row only when a user it names is gone.
* `CompletenessIsCurrent`: `is_complete` says whether the required fields are filled in and a client is adult, except
  between or after only one of the two saves of a request, after a stale save, and after staff edited the
  user; a client who has turned 18 is incomplete until the next save.
  `DecisionsStand`: a reset password, a deactivation or an approval is changed only by another decision of
  its kind, or by a whole-row save that had fetched the account before.
* `RulesHoldWithoutRaces`: codes serve once, the cooldown and the login limit hold, and an
  address has one account, as long as the named steps of two requests do not meet.

Properties that name their exceptions are meant to be read both ways: without the
overlap the rule holds, and the exception list is exactly what the code leaves open.

### Finding

| run | statement | what happens |
|---|---|---|
| `claims_double_release` | wallet/reconciliation_services.py:151, no duplicate release | stage approval leaves the escrow in place; the settlement releases it again |

### Other disagreements met while modelling

Each follows from the modelled definitions or from reading the code; no run is kept for them.

Contract and signing:

* Two cancellations that both fetched the contract each refund its escrow (docs/contract.md:275);
  rejecting a pending completion request makes a canceled contract active (docs/contract.md:215).
* Two signatures committed at once each find the other missing, and signing again returns early: the
  contract stays in `pending_signatures` with both (docs/ELECTRONIC_CONTRACTS.md:18-19).
* A proposal or acceptance fetched before a cancellation, a signature or the activation puts
  the old status back (docs/ELECTRONIC_CONTRACTS.md:12-24 has no way back), with the old amount and escrow:
  the escrow of an activated contract is erased, and one that was settled may hold a copy again.
* A proposal may name an amount of any sign (contract/serializers.py:352); an activation and a confirmation
  then write a negative escrow.
* Terms that change after freezing give no new version (docs/ELECTRONIC_CONTRACTS.md:86).
* Stages are not renewed by a later proposal, and exist before a description does; tiny amounts over
  five stages give a negative last stage (docs/contract.md:245, docs/CONTRACTS.md:308-315). The stage
  endpoints do not ask for the contract's status.
* `TimeExtensionRequest.clean` never finds another pending request: `self.pk` is a UUID default,
  so `not self.pk` is false (contract/models.py:1005).
* Nothing resolves a `RevisionRequest`, so one revision blocks completion for good (contract/models.py:592).
* A revision request that fetched the milestone before its approval overwrites it
  (contract/tests/test_execution_revisions.py:101 tests the sequential case).
* A save that fetched an offer before its acceptance overwrites the acceptance, after which it or
  another offer can be accepted: two contracts of one request (contract/offer_services.py:133).

Money:

* A payment confirmed after the cancellation fills the escrow of a canceled contract; no
  endpoint takes it out.
* Finalization holds escrow while its intent is pending (docs/ESCROW_FOUNDATION.md:17-18).
* `mark_payment_intent_paid` tests the fetched intent and may deposit again what a sandbox
  confirmation has paid (docs/PAYMENT_STATE_MACHINE.md:19); two create-intent requests on a legacy contract insert
  one intent each (docs/PAYMENTS_API.md:17).
* The settlement compares completion requests with `pending` where rows hold `PENDING`, and finds none.
* A process and a confirm request that both fetched the approved withdrawal each deduct it
  (wallet/services.py:359), two confirmations both call the gateway, and a cancellation fetched before
  the processing cancels a deducted request.
* Funding sets the escrow without debiting the client's wallet; the client's service fee is never debited.
* Activation fees and the settlement's commission are both credited to the platform, so
  reconciliation reports `PLATFORM_CREDIT_MISMATCH` for every activated contract.
* A reversal is capped by the balance, the earnings are reversed by the amount named; the reversed
  platform fee goes to nobody. A settlement's idempotency key is looked up across contracts.
* Fees are rounded half up (wallet/services.py:22), the activation fee half to even.

Disputes:

* `is_financially_restricted` (dispute/services.py:111) has no caller: a contract under dispute is settled.
* A dispute with a proposed resolution does not count as active; when it is mediated again, two are.
* After a partial refund the settlement pays the full net amount of the breakdown (wallet/settlement_services.py:149).
* A shortfall at a refund becomes a liability only by a separate staff action, where
  docs/FINANCIAL_LIABILITY.md has it created with the dispute.

Around the contract:

* A recharge may name a negative amount, which takes money from the client's wallet (dealership/serializers.py:151).
* Dealership statuses saved just before an exception (expired, cancelled codes) are rolled back with it;
  a cash-out confirmed twice at once deducts twice; one period can be settled twice;
  expired guarantees still count; the limits of docs/DEALERSHIP_WORKFLOW.md:84-91 and 442-446 can be
  passed by two recharges at once.
* Two openings at once make two active rooms (docs/CHAT_WORKFLOW.md:27); linking a room
  takes it from its previous request; the WebSocket consumer accepts messages into a closed room (docs/CHAT_WORKFLOW.md:42).
* The `unverify` moderation has no effect; the legacy review endpoint skips the dispute check and the recalculation.
* A contract, a proposal or a message can be stored without its notice (contract/services.py:343-376);
  a task whose recipient is gone ends in silence (notification/tasks.py:62).
* `is_complete` of a client who was a minor at the last save is not renewed on the 18th birthday (accounts/models.py:296).
* `mark_unread` sends no event; a key whose row was cleaned up notifies again; a plain insert that
  fails is swallowed but leaves the caller's transaction broken, which then rolls back.
* E-mail addresses are not unique in the database; `cache.ttl` does not exist on Django's own caches
  (accounts/views.py:54); technician_views.py:219 uses `profile.images`, the relation is
  `portfolio_images`; `is_active` false means both unverified and deactivated.

## Proofs

TLAPS proves, for all values of the constants that satisfy the named assumptions and
without any bound on requests, rows or steps:

| module | theorems | of |
|---|---|---|
| `ContractEscrowProofs` | `TypeCorrect`, `SettlesOnce`; from a draft `ActivationChargedOnce`, `SettlementEmptiesEscrow`, `PrincipalIsKept`, `WorkOnlyWhenFunded`, `Refinement` of `EscrowPromise` | `ContractEscrow` |
| | `PrincipalSurvives` (from a draft), `PayoutsBacked` | `ContractDisputes` |
| | `DeskMoney`, `ResolutionsAgreeAlways`, `RefundsResolved` | `DisputeDesk` |
| `ContractSigningProofs` | `TypeCorrect`, `SignedTermsAccepted`, `OneVersionSigned`, `FinalizationSigned` | `ContractSigning` |
| `ExecutionProofs` | `TypeCorrect`, `AlwaysNumbered`, `CompletionIsCovered` | `Execution` |
| | `StagesAlwaysAddUp`, `StagesPaidOnce` | `Stages` |
| `MarketplaceProofs` | `ContractsFollow`; `UnreadCountsMatch`, `RoomsUnique`; `ReviewsKept`, `CachesMatch` | `Offers`, `Chat`, `Reviews` |
| `WithdrawalsProofs` | `TypeCorrect`, `PayoutsAreDeducted`, `LockedLedger` | `Withdrawals` |
| | `PlatformBooks`, `ReportsExplained` | `Settlements` |
| `DealershipProofs` | `TypeCorrect`, `BooksAlwaysAgree`, `LimitAlwaysHolds` | `Dealership` |
| `PlatformProofs` | `DeadlocksOutOfOrder`; `NoticesFaithful` | `RowLocks`, `Notifications` |
| | `CompletenessFollows`, `DecisionsOnlyDecided`; `RulesWithoutRaces` | `Profiles`, `Registration` |

A theorem from a draft assumes `StartStatus = "draft"`: a contract that predates
signing may already have been paid any number of times.

### Assumptions

Bounds are natural numbers, and markers such as `Incomplete`, `NoVersion`, `NoAmount` and `NoRequest`
are none of the values they stand apart from. A change that happens once is not one that may be repeated
(`ChangesAssumption`), and codes are not the names of requests (`CodesAssumption`). Sets over which the model counts or sums are finite:
intents, withdrawals, agreements, clients, guarantees, workers, contracts, voters. Amounts are
numbers with the sign that the code tests: withdrawals are
positive, a refund runs only for a positive amount (dispute/services.py:487). Where the code tests
nothing, no sign is assumed:

* the agreed amount of a contract in `ContractEscrow` is any integer but 0, which counts as none. `Settlements`
  has positive ones: its `Agreed` is a hypothesis of its theorems, not a test of the code.
* the net amount of the breakdown in `DisputeDesk` is any integer; the desk starts with an escrow that is not negative.
* the amount of a dealership's recharge, a guarantee's worth and the fee's settings are any integers, in all
  three theorems.
* the commission rate is any natural number, since `PlatformFeeConfig` tests only its sign.
  `ReconciliationIsExplained` holds for all rates; `PlatformBooks`, which includes that no balance is
  negative, has the hypothesis that the rate is at most 100 percent. Above it a
  settlement charges the technician more than the contract is worth.
* the prices and the fees named in a reversal are any integers. `TermsAssumption` adds that the
  number of stages of a contract has a largest value.

### Why they hold

Hardly any property is inductive, since a commit acts on a fetch made earlier. Each component's `IInv`,
in its module under "Why they hold", adds what a request in flight may hold:

* `ContractEscrow`: before the activation is charged no request can have read escrow
  (`NothingBeforeCharge`), the activation opens the only intent (`OneIntent`), a confirmation in flight holds
  the lock of an intent that is not paid (`LockHolds`), completion requests
  exist on funded contracts only (`CompletionIsFunded`, `SettledIsFunded`), and the amount a
  cancellation will refund keeps the principal accounted for (`CancelCoversPrincipal`). A resolution
  between the fetch and the commit of a cancellation only lowers the escrow, so the same invariant
  carries `PrincipalSurvives`. A stale save moves what it takes or gives from `escrow` to `lost` or from
  `restored`, so every sum keeps its terms. `PayoutsBacked` has no hypothesis: from a draft it rests on `IInv`, and
  of a contract that predates signing on nobody ever proposing, accepting, signing or finalizing it (`Unsigned`).
* `ContractSigning`: every contract object, stored or held by a request, is *honest* (`RowsAreHonest`):
  it carries only acceptances of its own terms and waits for signatures only with both; a stale
  save writes back something that was true when it was read and, since acceptances, the version and
  signatures only grow, still is.
* `Execution`: a draft is only edited (`DraftOnlyEdited`); what a request has read of submissions,
  revisions and completions is still there (`StillThere`); what was found approved stays so or is
  reopened (`ApprovalsKept`).
* `Stages`: whoever inserts the first stage makes the others, unless it is stopped (`OneMaker`), from terms
  that were saved (`Founded`); a stage that any request holds unapproved was not paid, or its payment
  crossed the request (`UnapprovedIsClear`). That a split adds up to its amount is a lemma for every
  amount and number of stages.
* `Offers`: until an acceptance is overwritten its offer accounts for its contract
  (`ContractsCounted`); a submission holds the rows it withdraws alone (`LocksHold`).
  `Chat`: no two rooms for one request, and no two active ones unless one was reopened (`RequestsApart`,
  `ActiveApart`). `Reviews`: the votes and reports stored cover those counted and those about to be, also in
  the rows that edits will write back (`CountsCovered`); a report that will not set the flag was
  made of a review that has it (`FlagsSeen`); an aggregate in flight is current unless what it is
  written to is excused (`TalliesCurrent`).
* `Withdrawals`: a fee in flight was covered by the balance it read (`FeeWasCovered`), and a confirmation
  or retry in flight deducts or acts on a deducted request (`PayoutInFlightIsDeducted`). `LockedLedger`
  adds that no unlocked writer is in flight.
* `Settlements`: both fees fit into the balances an activation has read (`Covered`); the books that it
  has read agreed (`InBalance`); the credits of a contract are its activation's, its settlement's and
  the losses, and its releases and earnings are those of its settlement, its stage or both (`Explained`).
* `DisputeDesk`: the money adds up (`MoneyAddsUp`), one dispute of a contract waits for a decision (`OneBeforeDecision`); a refund record is
  not removed under the request that confirms or retries it (`RefundsStay`).
* `Dealership`: a checked recharge fits the room there was, and rows are never deleted (`Founded`). The wallet
  stays a natural number by `Storable` and by the test under its lock.
* `RowLocks`: the locks that a transaction asks for outside the exceptions have growing `Rank`s, so
  each transaction of a cycle waits for a row that ranks above all those it holds, and the one that waits for
  the highest row waits for a transaction that must wait for a higher one. Two orders are needed: with a settlement
  in the cycle, and so without those it crosses, the technician ranks after the contract, otherwise before it. Users are held
  exclusively only by a settlement that holds the contract too (`Compatible`).
* `Notifications`: the transaction of a plain change is the only one of that change, which is not
  committed, and never goes on without its row (`PlainIsAlone`); who notifies after a commit is
  the only one to do so (`AfterwardsIsAlone`); who has inserted a key has it alone
  (`InsertedIsAlone`); at every point of the task, a crash lost at most one acknowledgement (`RowsExplained`).
* `Profiles`: requests are made by who may make them, and what a client's request holds is the profile of
  a client (`RequestsFit`). Completeness needs no more: a save of the whole profile recomputes it
  from a user that is current unless `stale` says otherwise, and the partial saves leave its columns alone. A
  birthday changes only clients who are turning 18.
* `Registration`: as long as no steps overlapped, what a request has read is still so: the address is free
  (`EmailStillFree`), the code unused (`CodesStillUnused`), the cooldown over or one code mailed (`CooldownStillOver`), the
  counter what was read (`CounterStillRead`); and the rows it refers to are never removed (`RowsExist`).

`SumLemmas` has what these need about sums: a sum over a finite set follows its definition, does not
depend on an order, and changes by what one value changes. An induction schema is out of
the prover's reach, so the facts about every finite set or number are shown by a least
counterexample.

The proofs have one step per action; the refinement maps each step of `Next` to an action of
`EscrowPromise` or a stutter under the invariant. The inductive invariants were checked by TLC before
they were proved, and since they are proved, no run repeats them.

### Model-checked only

Liveness (`RetriedRefundsEnd`, `WorkEnds`) stays with TLC, since the prover has no ENABLED. The finding's
`NoDuplicateRelease` is refuted by its run. All other properties of the runs are stated by a theorem.

## Plan

What is left to model, if a run can be spared: the composition of `ContractSigning` and `ContractEscrow` at
`pending_finalization` under an abstract contract life; an accepted offer's contract as a second
initial state of `ContractSigning`; the guarantee and threshold alerts of dealerships.

## Not modelled, and why

* Text, files, PDF rendering, public verification pages, translations, serializers, filters and lists
  move no state the properties speak of. Permissions are the callers' identity: an endpoint is
  available to whoever may call it.
* `category` is reference data edited by administrators; the dashboard's aggregates only read.
* Management commands seed fixtures, run QA scenarios sequentially and clean up: each is a script of
  one process that runs against an otherwise idle database.
* Settings, middleware, health checks and deployment files are configuration.
* Alerts of the dealerships (thresholds, guarantees about to expire), e-mail delivery and notification
  preferences only choose which messages are sent.
* PostgreSQL's guarantees (row locks, unique constraints, rollback, deadlock detection), the cache,
  Celery's redelivery and the channel layer are taken as their documentation gives them, and marked external
  in `PROJECT.json`.

The components are listed as partly modelled because of those exclusions: their file, text and list
operations, and administrative edits of single fields, are left out.
