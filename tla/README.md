# A TLA+ model of daymat-back

daymat-back is the server of a B2B marketplace: a NestJS application over Prisma and MongoDB, one
Node.js process by default, with an in-process cache. There are no locks, almost no transactions and
no automated tests, so what the handlers do to shared rows when they overlap, fail half-way or are
called in an unexpected order is decided by their code alone. That is what the modules here model.

A handler is an `async` function. Between two of its `await`s nothing else runs in the process;
at each `await` any other handler may run, the process may die, and the awaited write may fail. So a
*step* of a model is the code between two awaits that touch shared state, a Prisma `$transaction` or
a single Prisma call is one step, and every read is separate from the write that relies on it.

## Inventory

| Part of the system | State it keeps | Operations | What is hard | Model |
|---|---|---|---|---|
| Credit: purchases and receipts (`src/credit`, `src/arm-admin/arm`) | `Credit` and `CreditRequest` rows, the gateway's session | `initiatePurchase`, `verifyPayment`, `initiateManualPurchase`, `approvePayment`, `rejectPayment` | callbacks late, repeated, out of order; an unanswered gateway; two reviewers of one receipt; a crash between the gateway and the database | `CreditPurchase`, `CreditLedger` |
| Credit: spending (`src/ad`, `src/match`, `src/catalog/catalog-member.service.ts`, `src/arm-admin/ad`) | the wallet, `connectionRequestLog`, `matchRevealLog`, interactions | `bump`, `extend`, `trackInteraction`, `approveAd`, `revealContact`, the connection-request gate | balance and quota are read, checked and written in separate awaits; services are charged before they are delivered | `CreditSpend` |
| Referral settlement (`settleReferrerEarnings`) | shares in `connectionRequestLog`, reward rows | settle | two settlements of the same rows; a crash between the reward and the marks; fractions | `ReferralSettlement` |
| List cache (`src/common/services/cache.helper.ts`) | values under epoch keys, the re-warm registry and its locks | `wrap`, `bust`, re-warm | a bust between the query and the store; a bust during a re-warm | `EpochCache` |
| Inquiries, offers, proformas (`src/inquiry`, `src/proforma`) | `Inquiry`, items, offers, members, `Proforma` | create, offer, decide, withdraw, finalize, issue, confirm, reject, cancel | decisions that check a status and then write by id; the deal's records change one by one | `InquiryDeal` |
| Market membership (`src/arm`, `src/arm-admin/members`, `src/arm-admin/catalogs`) | membership requests, leave requests, members, catalog memberships | request, withdraw, decide, join, leave, add, pause, remove, publish, appoint | thirty handlers of the manager, the member and the seller write one row, each with its own order of row, ads and request | `MarketMembership` |
| Ad publication (`src/common/services/catalog-publish.service.ts`, `src/ad`) | `adPublication` stamps per market | stamp, unstamp, publish, withdraw, pause | publication has to follow membership, and to respect what the seller withdrew | `MarketMembership` |
| Customers of a catalog (`src/catalog/catalog-member.service.ts`, the members part of `src/inquiry/inquiry.service.ts`) | the customer lane, its assigned seller, `InquiryMember` rows | join, add, approve, confirm, decline, remove, assign; invite and request a supplier, decide | two copies of one relation, each updated by the other's handlers; a seller removed while he is assigned | `CatalogCustomers` |
| Catalog team (`src/catalog/catalog-member.service.ts`, `src/business`) | seller, supplier and service lanes of the same member row, the business's team | join, invite, approve, reject, accept, decline, remove, leave, promote, demote; add and remove in the business | who has to answer a pending lane is told from a note that outlives it; two teams kept in step by separate writes | `CatalogTeam` |
| Authentication (`src/auth`) | users with their token version, reset codes, tokens | register, login, log out, change and reset the password, accept a token | the version that ends the sessions is computed from an earlier read; a code is found, and spent later | `Sessions` |
| Catalogs, businesses, brands | rows with unique names and slugs | create, rename, close | uniqueness checked before the write | closing a catalog in `MarketMembership` |
| Files (`src/file`, `src/file-old`) | objects in S3, file rows | upload, attach, delete | two stores, no transaction | not modelled |
| Ad import, notifications, settings, locations, units, activities, product references, contacts, feedback, platform administration, scripts | single rows | create, read, edit | nothing that several steps could break | not modelled |

Paths in this file are relative to the repository; TypeScript sources lie under `src/` of it.

## How the parts interact

Everything meets in the database. A purchase that `CreditPurchase` credits is the `Purchase` action
of `CreditSpend`, the only source of its wallet beside the signup gift. `addCustomer`, the supplier
requests of `CatalogCustomers` and the partner invitations of `CatalogTeam` send a connection request, which is the kind `connection` of
`CreditSpend`; its logged share is what `LogRequest` of `ReferralSettlement` begins with. `CatalogCustomers` and `CatalogTeam`
are lanes of one `CatalogMember` row that write different fields; the first sees of the second who sells
(`sells`). `InquiryDeal` and `CatalogCustomers` share the inquiry row: who may offer on a buying arm is decided by the
second, what becomes of the offers by the first. A catalog that `MarketMembership` links to a market is the same catalog, but
none of the handlers of a lane reads the market's row. The list handlers read through `EpochCache`, and the handlers that
change those rows bust it. Every handler but those of `Sessions` runs for a user whose token `Accepted` let through.

The interfaces are that narrow (a number of credits, a boolean, a version), so the modules are checked separately.
Three of them put several services together that write the same rows: `MarketMembership` the membership, the
requests and the publication service; `CatalogCustomers` the catalog's and the inquiries' services; `CatalogTeam` the
catalog's and the businesses'. The two ways to buy credit are composed by refinement: both implement `CreditLedger`.

## Modules

Each component has a module with the specification and its properties, an `MC` module that gives
the constants values and defines symmetry, and a `Proofs` module. The two ways credit comes in, `CreditPurchase` and
`ReferralSettlement`, share `CreditIncomeProofs`; that module extends both, so the names of the second's type invariant,
initial states, steps and specification begin with `Referral`.

**`CreditPurchase`** (`credit.service.ts`, `arm-admin.service.ts`). `row` is the status of the `Credit`
row `initiatePurchase` creates, `deposit` counts the further rows `verifyPayment` creates,
`session` is the gateway's own record (external), `sent` the redirects the browser may deliver at any time and any
number of times. A `verifyPayment` call is `FindTransaction`, then `MarkFailed` or `AskGateway` and
`CommitVerified`, `RecordRefusal` or the error of an unreachable gateway; `cbPc` says where a call stands. `Gateways` are merchant
accounts: a purchase is opened on whichever its arm configures (`createGateway`), and asked about on the one the constructor built, which knows no
other account's sessions, also at the same provider (`Known`). Of a session that was confirmed before, one provider says so again and the others refuse
(`Confirms`, `Refuses`: both are possible). `lost` are the purchases whose confirmation never reached the commit. A
receipt goes through `ReadPending` and the transaction of `approvePayment` or the update of
`rejectPayment`, by admins of the receipt's arm.

**`CreditSpend`** (`ad.service.ts`, `match.service.ts`, `catalog-member.service.ts`, `credit.service.ts`). A call of
any of the paid handlers goes from its checks to `CheckBalance`, `Charge`, `LogRequest` and
`Serve`, in the order its handler has them, with `ThrowAfterCharge` where an await may fail. `wallet`
is what `getUserBalance` answers, so a charge that is written `pending` leaves it alone. The free requests are counted over one market; the code
does it for each market by itself.

**`EpochCache`** (`cache.helper.ts`). `wrap` is `StartWrap` and the four `ReadStep`s (make an epoch, look up,
query, store), a changing handler is `Change`, `DelEpoch` and `ScheduleRewarm`, a
re-warm is its four `WarmStep`s under the lock of its key. The data is its version.

**`InquiryDeal`** (`inquiry.service.ts`, `proforma.service.ts`). The statuses of one inquiry, its
offers and their pro-formas. Every handler with a check is a read and one or two writes; `Cut` ends a call between its writes, which is a
crash or a failed write; one that ends before its first write is a call not made. `DecideOffer` and `Remove` are one step each, because what
they check cannot change under them. A pro-forma is sent for an accepted offer, or for the inquiry itself (`NoOffer`).

**`CatalogCustomers`** (`catalog-member.service.ts`, `inquiry.service.ts`, `business.service.ts`).
`customer`, `via` and `assigned` are the customer lane of a buyer's row, `supplier`, `supVia` and
`supUser` the `InquiryMember` row of the catalog in a buying arm, `sells` the active seller lanes. The handlers of a lane
end in a mirror (`MirrorLook`, `MirrorPut`) over some of the arms of the lane's business (`ArmsOf`, `KeptBy`), the handlers of an arm in `FindLane` and
`Sync`, or in `Ask` and `Lower` when an invitation is refused; `ReadRemoval`, `Collect`, `Unassign` and `Unsell`
are the removal of a seller.

**`CatalogTeam`** (`catalog-member.service.ts`, `business.service.ts`). One person's `lane`, `via` and `source` per
lane, his `role` in the catalog and whether he is `inTeam` of the business. A handler is a read (`ReadJoin`, `ReadInvite`,
`ReadApprove`, ...) and a write; `addMember` and `removeMember` of the business go on to a look and a write on the lane
(`LookBeforeAdd`, `WriteAdd`, `LookBeforeDrop`, `WriteDrop`).

**`MarketMembership`** (`membership-request.service.ts`, `leave-request.service.ts`, `members.service.ts`,
`arm-admin-catalogs.service.ts`, `arm.service.ts`, `catalog-publish.service.ts`, `ad.service.ts`, `catalog.service.ts`).
One user in one market. `row` is his `ArmMembership`, `requests` the pending requests, `pub` and `optOut` the
`AdPublication` rows of his ads. A call is the list of steps it has still to take (`todo`): a handler that reads the row begins with
the list its conditions give, for instance `admit`, `openAds`, `stamp`, `put`, `settle` for an approved seller. So every
handler has its own order of row, ads and request, and they share the steps the code shares (`stampCatalogAds` is
`Stamp`, which chooses, and `Put`, its transaction).

**`ReferralSettlement`** (`settleReferrerEarnings` and its caller in `catalog-member.service.ts`). `log` are the shares of one
inviter, `paid` the whole credits of his reward rows; a request is `LogRequest`, `ReadUnpaid`, `CreateReward`, `MarkSettled`.

**`Sessions`** (`auth.service.ts`, `jwt.strategy.ts`). `version` is the user's `tokenVersion`, `tokens` those handed out, with
the era they belong to: `era` counts the calls that were to end all sessions. `codes` are the rows of
`verificationCode`. `ReadRow` and `WriteLogout`, `WriteChange` or `SetPassword` lie an await apart, often a password hash.

**`CreditLedger`** is what buying credit promises and no code: money becomes final, and final money is credited in the step
that shows it; what is shown may be taken back, the credit not. `CreditPurchase` instantiates it twice,
as `Online` (a source is a purchase: final once the gateway has confirmed its payment, shown while its row is `success`, credited once
it has a deposit row) and as `Manual` (a source is a receipt: final once handed in, shown while `approved`, credited once deposited).

### Abstractions

* Contents are versions or revisions (`db`, `terms`), amounts are small numbers, users and rows are model values.
* Histories the code does not keep are variables of the models, never read by a guard that stands for code: `accepted`
  (the terms an offer was accepted with), `agreed` (which side asked for or accepted a tie), `overtaken` (a
  re-warm a bust passed by), `disturbed` (objects on which two calls overlapped or a call ended between its writes),
  `word` (who asked for a lane or agreed to it), `lost`, `mishap`, `era`, `raced`, `uses`, `charged` and `charges`.
* The catalog's side of `CatalogCustomers` is any user responsible for the catalog. A buyer is responsible for
  one business. The mirror takes the ten newest arms of the lane's business that are not archived; which these are is left open, so it covers any subset of them. `removeSeller` of a seller still invited is not modelled, nor is `status` of the row, which no handler of a lane takes from
  `active` (`hasAnyActiveLane` counts it).
* `CreditSpend` has today's reveals and the last ten seconds' interactions only; `Midnight` and
  `WindowPasses` empty them at any moment, also in the middle of a call.
* `MarketMembership` leaves out the kind of market and its owner's other members; that the market is private is left open, so both
  doors are open. Of the removal of a market, of the role of a member and of `pausePublication` see below.
* `CatalogTeam` leaves out the row's own `status` for the same reason as `CatalogCustomers`, and what a connection request costs.
* `ReferralSettlement` counts in parts of a credit (`Unit`). The code adds floating-point numbers, so a sum in the model may come out anywhere
  within `Err` parts of the true one for each row in it, each time it is made (`Payables`, `Coverings`). With the default tenth, ten shares come to
  0.9999999999999999 and pay nothing, and twenty pay two credits and mark nineteen rows; both are among the outcomes.
* `Sessions` is about one account. Which password is given is left out: a wrong one ends the call where it is compared.
* `EpochCache` is one namespace over the in-process store, the default. It drops a value as soon as nobody can look up its epoch any more;
  the code leaves it to its time to live.

## What is checked

| Run | Instance | What it shows |
|---|---|---|
| `purchase` | 2 purchases, 2 gateway accounts, 2 concurrent callbacks, 2 receipts: one reviewed by `a1` and `a2`, one by `a3` alone | `NoOrphanCallback`, `ConfirmedIsDeposited` for online purchases; `OneDepositPerReviewer`, `ReceiptCreditMatchesDecision` for receipts; `OnlineIsLedger` and `ManualIsLedger`: both implement `CreditLedger` |
| `purchase_credited_twice` | 1 purchase, 1 callback | **violated**: `PurchaseCreditedOnce` |
| `spend` | 2 calls of any of the seven kinds on one wallet | `FreeRequestsFirst`; `OverdraftIsBounded`: the debt is at most the cost of all calls but one; `QuotasKept`: the same of free requests, daily reveals and clicks |
| `referral` | 2 requests at once, 5 in all, shares of 1/3 and 1/2 of a credit, sums off by up to 1/24 for each row | `MarkedWasPaid`, `OverpaidBelowAShare`, `NoCreditLeftWaiting` |
| `referral_overpaid` | 1 request at a time, shares of 3/4 | **violated**: `RemainderIsCarried` |
| `list_cache` | 2 keys (one kept warm), 1 reader, 1 changing handler | `FreshUnlessOvertaken`; `EventuallyCurrent` (liveness) |
| `rewarm_overtaken` | the same, one key | **violated**: `FreshAfterBust` |
| `deal` | 1 offer, 1 pro-forma that is sent for the offer or for the inquiry, 2 concurrent calls | `DealRestsOnAcceptance`, `AcceptedAsRead`, `ArchivedIsSettled`, `ConfirmedIsRecorded`, `CounterNeverOverstates`, `DecidedOnce` |
| `catalog_customers` | 1 buyer with 1 buying arm, a catalog with its owner and 2 sellers, 2 concurrent calls | `BuyerAgreed`, `SupplierAgreed`, `RemovedIsUnassigned`, `RemovalUnassigns`, `AssigneeSells` |
| `catalog_team` | the seller and the supplier lane, 2 catalogs of the person, 2 concurrent calls | `CatalogAgreed`, `LeaverDoesNotSell`, `RefusalIsRecognised` |
| `market` | 2 catalogs with an ad each, up to 3 requests, 4 calls of which 2 at once | `WithdrawnStaysOff`, `PendingIsBounded`, `BoardFollowsTheSeller`, `ApprovalHolds` |
| `sessions` | 2 calls of any kind, 2 reset codes, sessions ended 3 times | `SessionsEnd`, `SessionsLast`, `CodeIsSpent` |

The type invariants are all theorems; `list_cache` checks its `TypeOK` and `referral` its `ReferralTypeOK` as well, because they say
more than ranges: each key is remembered once and no more than the cap of them, and who pays holds rows that make a credit.
Deadlock is checked in `spend` and `sessions`, which never stop: a call may always throw, and a user always log in. The other
runs say `CHECK_DEADLOCK FALSE`, because the bounds stop a model that the program would
carry on: a state without a successor is one where every counter is at its bound.

### Bounds

* `MaxDeposits` 1: `FindTransaction` looks at no status, so a callback delivered again after the deposit does what one does that found
  the row before it; with two callbacks at once both deposit. Nothing in `verifyPayment` looks at deposits.
* `MaxBalance` 3 with costs of 1 and 2: a wallet can be empty, short by one, exact and more than enough. The quotas
  (1 free request, 1 free reveal, at most 2 a day) are small enough to be passed within `MaxServices` and `MaxReveals`. The quotas of
  the program are constants, so nothing depends on the numbers. Three calls on one wallet were run with the kinds `extend` and `connection`
  and add nothing; that the bounds hold for any number is proved.
* `Unit` 24 with shares of 8 and 12 parts and `Err` 1: shares that divide the credit, whose sums the error takes just below it or leaves above, and mixtures
  that do not divide it. Five requests fill up to two whole credits and leave some of the next. Any shares and errors are covered by the proofs.
* `RewarmCap` is 1 where the code has 30: with two keys one is pushed out. `MaxVersion` 2 gives the two busts a re-warm
  has to lie between; `MaxLocal` 2 limits expiries of the epoch and restarts.
* `MaxTerms` 1, `MaxDrift` 1 and `MaxSent` 1: one edit, one repeated withdrawal, one pro-forma at a time (of two kinds); that two do each other nothing is part of the proofs. Two calls are enough for each pair of
  handlers to interleave.
* `MaxDisturbed` 0 in `catalog_customers` and `market`, 1 in `catalog_team`: no call begins once two calls about the same thing have overlapped or one has ended
  between two of its writes; those that overlap run to their end. `BuyerAgreed`, which makes no exception for what is disturbed, and the invariants of
  `CatalogTeam` and `WithdrawnStaysOff` are proved without the bound. With one seller and no such bound `catalog_customers` passes too (1.4 million states), and
  so does `FreshUnlessOvertaken` with two readers of one key (2.5 million); both take longer than the runs kept here.
* `MaxCalls` 4 and `MaxBeside` 3 in `market`: three calls begin while another runs, one more only alone. Four are the longest
  story a property tells: admitted, on the board, left, added again. A withdrawal and an edit of an ad are single writes and not
  counted. `Requests` 3: two to join and one to leave, or the reverse; a closed one is taken up again.
* `MaxEra` 3: sessions end three times, so a version can be overwritten and the same version reached twice. Tokens
  are a set, so no number of logins needs a bound.

### Exceptions a property makes

Most handlers check a status and write by id, so two of them at once can always break what one of them alone keeps. Where that
is so the property says it: `disturbed` is the smallest set of objects it gives up, and it does not heal. `ReceiptCreditMatchesDecision` is for
receipts with one reviewer, `FreshUnlessOvertaken` for values whose re-warm no bust overtook, `SessionsEnd` and `SessionsLast` while no
version was written over one that had not been read, `OverpaidBelowAShare` where settlements neither overlapped nor stopped half way, `NoCreditLeftWaiting` where
none stopped, `ConfirmedIsDeposited` for payments whose confirmation was not lost. That each exception is
needed was seen by dropping it: TLC then finds the interleaving (two reviewers who both read `pending`; a pro-forma confirmed
while it is cancelled; an offer made while its inquiry is finalized). So these properties say nothing of the overlaps and crashes they except, which
"Where code and comments disagree" lists; `BuyerAgreed`, `SupplierAgreed`, `PendingIsBounded`, `DealRestsOnAcceptance`, `MarkedWasPaid`,
`OnlineIsLedger`, `ManualIsLedger`, those of `CreditSpend` and `CodeIsSpent` except no overlap. `BoardFollowsTheSeller` names the handlers that do not keep it.

### Fairness

Only `FairSpec` of `EpochCache` states fairness: a reader or a re-warm that has begun goes on
(`ReadStep`, `WarmStep`: an event loop runs every continuation whose promise settles, and a query that fails settles as
well), and every stored value expires (`Expire`: all values are stored with a time to live). A handler that changed data need not reach its bust,
nobody need ask, and an epoch need not expire. No liveness is claimed elsewhere: whether a callback comes, a payment is
retried or an invitation answered depends on users and gateways.

## What is proved

The proofs hold for all values of the constants the assumptions of the modules allow: any number of
concurrent calls (finitely many in `MarketMembership`, which assumes it), any bound. The assumptions on constants say that sets that stand for different things are different, that a bound is a number
and, in two theorems, what is stated there.

| Theorem | Establishes | Along |
|---|---|---|
| `TypeCorrect` (of `CreditIncomeProofs` and of `EpochCacheProofs`), `SpendTypeCorrect`, `DealTypeCorrect`, `CustomersTypeCorrect`, `TeamTypeCorrect`, `MarketTypeCorrect`, `ReferralTypeCorrect`, `SessionsTypeCorrect` | the type invariant of each module | `TypeOK` itself; for the registry of `EpochCache` with what `RemoveFirst` leaves of a sequence without repetitions (`RemoveFirstIs`); for `ReferralSettlement` with `SettledTyped`, which bounds the sums; for `MarketMembership` with `Formed`: the steps a call has left come in an order a handler gives them, so `put` follows `stamp` |
| `OnlineImplementsLedger`, `ManualImplementsLedger` | `OnlineIsLedger`, `ManualIsLedger`: every step of `CreditPurchase` is a step of `CreditLedger` or leaves it alone | `OnlineInv` and, for receipts, `HeldIsSubmitted`: who holds a receipt holds one that was handed in |
| `DepositsAreBacked` | `CreditLedger`'s `Backed`, of purchases and of receipts | the two refinements: it is shown of the ledger alone |
| `CreditIsBacked`, `SettlesAtOnce`, `ApprovalDeposits` | `CreditOnlyAfterPayment` and `SettledTogether`, `DepositFollowsApproval` | `OnlineInv`: a callback past the gateway's answer is about a final payment (`ConfirmedIsFinal`), which is why the stale read of the row does no harm |
| `CallbackFindsRow` | `NoOrphanCallback` | whoever was sent to the gateway has a stored reference |
| `ConfirmedPaymentIsDeposited` | `ConfirmedIsDeposited` | the property is inductive with `TypeOK`: a callback that has the confirmation stays on its way to the commit until it deposits or is cut off, and then the purchase is in `lost` |
| `ReviewerDepositsOnce` | `OneDepositPerReviewer` | `ReceiptInv`: a deposit lies behind its reviewer (`DepositIsBehind`) |
| `SoleReviewerIsExact` | `ReceiptCreditMatchesDecision` | `SoleInv`: what a sole reviewer holds is still pending (`HeldIsPending`) |
| `NobodyPaysForFreeRequests` | `FreeRequestsFirst` | the property is inductive with `FreeInv`: a call past the count found the quota used up, and the log only grows, so it still is when the call charges and logs |
| `DebtIsBounded` | `OverdraftIsBounded`, for finitely many calls | `DebtInv`: while calls are past their check, the wallet covers one of them, less the dearest cost for every call that is not |
| `QuotasAreLimited` | `QuotasKept`, for finitely many calls | `QuotaInv`: what is counted, and the calls that have passed the count and not written, together stay within the limit and the calls beside |
| `OneCallIsExact` | where no two calls spend from one wallet at once: no debt, and no free request, metered reveal or click beyond its limit (`WithinLimits`) | `AloneInv`: what a call has checked still holds when it relies on it (`ChecksHold`) |
| `WrapIsFresh` | `FreshUnlessOvertaken` | `CacheInv`: epochs are numbered (`Numbers`), one that is numbered and not yet set is known to nobody else (`PendingIsPrivate`), and no value under an epoch is older than the last bust of a reader who can find it (`Fresh`) |
| `BustCatchesUp` | when the namespace was busted after the last change and no re-warm was overtaken, all that a reader can be given is current (`CaughtUp`) | `CacheInv`, and `Seen`: no version is known that the database has not had |
| `CaughtUpStays` | the safety half of `EventuallyCurrent`: no step brings anything stale back before the data changes again | `CacheInv` |
| `SharesAreBacked` | `MarkedWasPaid` | `Backed`: what is marked, and what each settlement that has paid has still to mark, is paid for together |
| `OverpaidIsBounded` | `OverpaidBelowAShare` | `OneSettles` (without a mishap one settlement is under way, over rows that are not settled) and `PaidAsMarked`: the rewards exceed what is marked, or about to be, by less than a share each |
| `LittleIsLeftWaiting` | `NoCreditLeftWaiting` | `Awaited`: while more than that waits, a request is still to look or a settlement has read all of it |
| `NoDealUnaccepted` | `DealRestsOnAcceptance` | `Backed`: a call between its check and its write was checked against an accepted offer |
| `DecisionStands` | `DecidedOnce` | `Overlap` (two calls on an object have disturbed it) and `DecisionReadHolds` |
| `AcceptanceFreezes` | `AcceptedAsRead` | `Overlap` and `OfferReadHolds` |
| `FinalizeSettles` | `ArchivedIsSettled` | `Overlap` and `InquiryReadHolds` |
| `ConfirmationRecords` | `ConfirmedIsRecorded` | `Recorded`, with `Backed` and `OfferIsFresh`: an offer is created once and has no past |
| `CounterIsHonest` | `CounterNeverOverstates`, for finitely many offers and calls | `CounterHolds`: every increment made or on its way stands for an offer that stands, is being withdrawn or is disturbed |
| `BuyerConsents`, `SuppliersConsented` | `BuyerAgreed`, `SupplierAgreed` | `Consent`: every call that will make a lane active, every lane and every arm's row of a kind that only the buyer can cause has his agreement |
| `FormerCustomerHasNoSeller`, `RemovalLeavesNobody`, `AssigneesSell` | `RemovedIsUnassigned`, `RemovalUnassigns`, `AssigneeSells` | `Serving`: `Overlap`; what a call found still holds for users nobody disturbed (`Found`: its seller still sells, a removal has every customer of its seller in `todo`) |
| `MembersAreAgreed`, `RefusalsAreRecognised`, `LeaversAreTakenOff` | `CatalogAgreed`, `RefusalIsRecognised`, `LeaverDoesNotSell` | `Inv`: `Overlap`, what a call found still holds on a lane nobody disturbed (`Founded`), what a note in `via` says of the lane (`Standing`), and who sells by the team though he is out of it is about to be taken off (`TeamStanding`) |
| `WithdrawalHolds` | `WithdrawnStaysOff` | `Chosen`: what a call is about to publish was not withdrawn when it chose it, or is disturbed |
| `RequestsAreBounded` | `PendingIsBounded`, for finitely many calls | `Bounded`: the pending requests and the calls about to make one are together no more than the calls, because a call asks only when none is pending |
| `BoardIsTheSellers`, `DecisionHolds` | `BoardFollowsTheSeller`, `ApprovalHolds` | `Sound`: two calls are about the same thing only if it is disturbed (`Apart`); the steps a call has left are ones a handler leaves, and it holds what they write (`Planned`); and what its next step relies on is still so (`Relies`: the row links the catalog it stamps, the board is clear before a removal is written, the row says what the request asked for) |
| `SessionsAreEnded`, `SessionsAreKept` | `SessionsEnd`, `SessionsLast` | `VersionCounts`: while no version was lost, the row's version is the number of times all sessions were to end, and so is the one in each token and with each call that signs |
| `OneCallEndsSessions` | where the calls of an account follow one another, exactly the tokens since the last of them that ends sessions are accepted | `RowsFresh`: a call that writes a version holds the one that is there |
| `CodesAreSpent` | `CodeIsSpent`, for finitely many calls | `CodeCounts`: an open code was never used, and its uses and the calls that hold it are at most as many as there are calls |

`DebtIsBounded` and `QuotasAreLimited` say what overlapping calls can do; `OneCallIsExact` says that it takes an overlap, and
`OneCallEndsSessions` the same of the exception `SessionsEnd` and `SessionsLast` make. Their hypothesis is about the constant `Calls` (one
slot for each wallet, one slot at all): it restricts how requests arrive and none of the errors and crashes.

TLC checks each of these invariants on the instance of its run as well (for `CacheInv` with the quantifier over `Nat` bounded).

The shares of `ReferralSettlement` are summed with a fold over a set, and `MarkSettled` takes rows while the amount lasts. What the sums do when a row is
added, marked or taken is shown in `CreditIncomeProofs` by well-foundedness instead of an induction rule: a set of counterexamples
among the subsets of a finite set, or among the lengths of a log, would have a smallest one (`SmallestSet`), and there is none.

Only model-checked: `EventuallyCurrent`, which is liveness under fairness (what can be proved of it is `CaughtUpStays`); and the three
violated properties, which are false.

## Where code and comments disagree

Three disagreements have a run, listed above as violated: a verified purchase is credited by two rows
(`src/credit/credit.service.ts:141`); shares that do not add up to whole credits are paid again with the next settlement
(`src/catalog/catalog-member.service.ts:288`); a re-warm a bust overtakes stores the old value under
the new epoch (`src/common/services/cache.helper.ts:133`).

Met while modelling and without a run of their own.

Credit:

* The charge of a bump and of a reveal is written with the status of a new row, `pending` (`credit.service.ts:240` and `:247`), so `getUserBalance` never counts it.
  The signup gift is `pending` as well (`auth.service.ts:258`, promised by the repository's `README.md:10`).
* `verifyPayment`: a late NOK overwrites `success` (`credit.service.ts:107`, deposits stay); a payment over a gateway other than the
  default account is refused (`:132`, comment at `:556`), and one whose confirmation got lost on the way back is refused by two of the three providers
  when it is asked for again.
* Two reviewers of one receipt both decide it (`arm-admin.service.ts:231`).
* A balance is checked and charged in separate awaits (`ad.service.ts:936` and `:940`), and so are the daily reveals (`match.service.ts:282`).
* `addCustomer` charges a connection request before it refuses a business without a responsible user
  (`catalog-member.service.ts:2552`, comment at `:2547`).
* Shares are added up as floating-point numbers and rounded down (`catalog-member.service.ts:287`), so ten shares of the default tenth pay nothing until the next one comes.
* `settleReferrerEarnings` rewards and marks in separate writes (`catalog-member.service.ts:281-323`, comment at `:274`): two at once pay twice.
  When it throws, the sender's request fails though it was charged and logged.

Inquiries and customers:

* An inquiry closed out of the archive keeps its outcome, and opening it then does not clear it (`inquiry.service.ts:699`).
* An offer is withdrawn after its owner decided it (`inquiry.service.ts:1087`, comment at `:1053`), and each repetition takes one from the counter (`:1142`);
  `finalize` that ends after its first write is refused on retry (`:798`).
* A pro-forma may be confirmed while it is cancelled (`proforma.service.ts:282`, comment at `:277`). One sent for an inquiry without an offer
  (`:82`) rests on no acceptance, whatever the status of the inquiry.
* A buyer confirms his own request (`catalog-member.service.ts:2626`, comment at `:490`); a pending customer keeps a seller who
  has been removed (comment at `:2005`); a lane and its row in a buying arm do drift apart (comment at `:2637`).
* `declineCustomer` reads the business without its id (`catalog-member.service.ts:2659`), so the mirror its comment at `:2671` promises never runs: the buyer's refusal stays
  on the catalog's side. The mirror of the other handlers (`:510`) passes over arms that are archived, of another business of the buyer, or not among the ten newest.
* `business.service.ts:781` ends seller lanes without taking the sellers from their customers, and without the guard on admins.

Catalog teams:

* A manager can approve his own invitation of a seller, a supplier or a service (`approveSeller` and its siblings, comment at `catalog-member.service.ts:1681`).
* `joinCoop` leaves `sellerVia` as it was (`:1306`), so who was invited once, and refused or removed since, asks again and accepts
  himself (`acceptSellerInvite`, `:1844`; the comment at `:1240` has all requests wait for the manager). `CatalogAgreed` makes this exception and no other.
* An invitation of a partner for another catalog of the same owner overwrites the lane in use. The row's status never leaves `active`, so someone whose
  lanes have all ended can be made an admin. So can someone whose invitation is open: if he then refuses it, `removeSeller` answers `IS_ADMIN` (`:2014`), although the comment
  at `:2005` has a refused invitation removed, until his role is taken. The team's synchronisation invites again who declined, though the comment at `business.service.ts:749`
  says that his answer is respected.

Markets:

* A seller whom the manager paused publishes himself again (`arm.service.ts:1203` and `:1206`, `prisma/schema.prisma:595`). Pausing a seller as a
  buyer (`setBuyerPaused`) leaves his ads on the board, though the schema says the same there.
* The board is read from the publications alone (`ad.service.ts:640-684`). `decideRequest` does not look at the catalog's status, nor take off the ads of a catalog linked
  before; `removeBuyer` of one who also sells leaves his ads on the board (`arm-admin-catalogs.service.ts:994-1007`); a manager who resumes or activates a catalog does not look at the
  membership's status. These are the exceptions `BoardFollowsTheSeller` names. Switching `publishToMarket` of an ad off and on (`ad.service.ts:388`) hides and shows what is published, in
  these states too. Changing the category of an ad publishes what was unpublished or paused. Closing a catalog
  (`catalog.service.ts:655`) makes the row of a market's own owner `inactive` too. The approval of a request to join as a buyer clears `selfRemovedCatalog` as well (`membership-request.service.ts:415`), so that a manager
  may add the seller who had taken himself out, which `leave-request.service.ts:24` leaves to him. A buyer's approval after a ban
  activates a seller's published row without stamping its ads.
* A slug of a market is compared with those of markets only (`arm.service.ts:44`), although the slug space is global (`catalog.service.ts:71`, `inquiry.service.ts:176`);
  the other creations look in all collections first and write later (`inquiry.service.ts:204`).

Sessions:

* Logging out and changing or resetting the password compute the new version from an earlier read. Where two overlap, a token from between them, or
  the other's, may stay accepted, though the comment at `auth.controller.ts:140` has all tokens end. `raced` marks these.

## Plan

Done, in this order: `CreditPurchase`, `CreditSpend`, `EpochCache`, `InquiryDeal`, `CatalogCustomers`, then `MarketMembership` with the publications,
`CreditLedger` and its two refinements, `ReferralSettlement`, `CatalogTeam`, `Sessions`; the proofs of the debt, of the quotas and of the new
modules; then the proofs of `ReferralSettlement`, of the whole of `EpochCache` but its liveness, and of what one call at a time cannot break. What is left: `CatalogTeam` and `CatalogCustomers` in one module, as a seller whom the business's team takes off keeps his
customers, which neither sees alone.

## Not modelled

Ad import parses spreadsheets and writes as ad creation does; notifications are best-effort push after the fact; settings,
locations, units, activities, product references, contacts, feedback and platform administration edit single rows; seeds and
migrations run by hand outside the process; rankings, reports and searches only read. Files (`src/file`, `src/file-old`) write one row beside one
call of the object store, and nothing else reads whether both happened. Slugs and names are one lookup and one write each; a model
would repeat the two lines, so the disagreement found is only described above.

Of the modelled services these operations are left out: `updateMemberRole`, `hardDelete` and `deleteArm`, `pausePublication` and
`resumePublication`, `approveMember` and `rejectMember` (no route reaches them) of the markets; `setSellerRegion`, `setSellerRole` and the display flags of the catalogs; items and
publication of inquiries; an ad's own fields; the profile and its cache, and the retry of a colliding referral code, of accounts.

Most of the repository's lines are data (`prisma/data`, some 170000 lines of activities and industries) and read-only
queries and response shaping, for which there is nothing to check; the services that change shared state are the part the models cover.
The gateways, MongoDB, Redis and S3 are external.
