--------------------------- MODULE CreditPurchase ---------------------------
(***************************************************************************)
(* Buying credit.  An online purchase is three independent HTTP calls: the *)
(* user's POST /credit/purchase (initiatePurchase), the payment the user   *)
(* makes at the gateway, and the gateway's callback (verifyPayment), which *)
(* the browser may deliver late, twice, or out of order.  A manual         *)
(* purchase is a receipt (a CreditRequest) that arm admins approve or      *)
(* reject.  Every handler is cut at its awaits: a step is the code between *)
(* two of them, and a database transaction is one step.                    *)
(*                                                                         *)
(* The Credit table is abstracted to what getUserBalance can tell apart:   *)
(* the status of the row initiatePurchase creates, and the number of       *)
(* deposit rows (always created with status 'success') that point at a     *)
(* purchase or at a receipt.  All the rows of one purchase carry the same  *)
(* creditCount, so counting rows counts credit.                            *)
(***************************************************************************)
EXTENDS Integers, FiniteSets

CONSTANTS
    Purchases,       \* online purchases
    Receipts,        \* manual receipts
    Gateways,        \* merchant accounts at payment providers, the arms' own among them
    DefaultGateway,  \* the account CreditService takes from its configuration
    Callbacks,       \* slots for concurrent verifyPayment calls
    Reviewers,       \* arm admins' browser tabs: each waits for its answer
    ReviewersOf,     \* ... those of the arm a receipt was sent to
    MaxDeposits      \* bound: a paid callback is delivered again only below it

ASSUME GatewayAssumption == DefaultGateway \in Gateways
ASSUME ReviewersAssumption == ReviewersOf \in [Receipts -> SUBSET Reviewers]
ASSUME BoundAssumption == MaxDeposits \in Nat

None == "none"

ASSUME NoneAssumption == None \notin Purchases /\ None \notin Receipts

VARIABLES
    initiate,  \* where initiatePurchase of each purchase stands
    gateway,   \* the gateway initiatePurchase chose
    row,       \* status of the Credit row initiatePurchase creates
    ref,       \* is the gateway's authority stored in relatedEntityType?
    session,   \* the payment session at the gateway (external)
    sent,      \* callbacks the gateway has sent the browser to, never lost
    deposit,   \* deposit rows verifyPayment created for each purchase
    cbPc,      \* where the verifyPayment call in each slot stands
    cbOf,      \* ... and the purchase it found
    lost,      \* purchases whose confirmation at the gateway never reached the commit
    receipt,   \* status of each CreditRequest
    review,    \* the receipt each reviewer read as 'pending' and is deciding
    credited   \* deposit rows per receipt, by the reviewer who made them

onlineVars == <<initiate, gateway, row, ref, session, sent, deposit, cbPc, cbOf, lost>>
manualVars == <<receipt, review, credited>>
vars == <<onlineVars, manualVars>>

RowStatus == {None, "pending", "success", "failed"}
ReceiptStatus == {None, "pending", "approved", "rejected"}

TypeOK ==
    /\ initiate \in [Purchases -> {"new", "created", "opened", "answered", "threw"}]
    /\ gateway \in [Purchases -> Gateways]
    /\ row \in [Purchases -> RowStatus]
    /\ ref \in [Purchases -> BOOLEAN]
    /\ session \in [Purchases -> {None, "open", "cancelled", "paid", "verified", "reversed"}]
    /\ sent \subseteq Purchases \X {"OK", "NOK", "blank"}
    /\ deposit \in [Purchases -> Nat]
    /\ cbPc \in [Callbacks -> {"idle", "ask", "cancel", "confirmed", "refused", "unreachable"}]
    /\ cbOf \in [Callbacks -> Purchases \union {None}]
    /\ \A c \in Callbacks : cbPc[c] # "idle" => cbOf[c] \in Purchases
    /\ lost \subseteq Purchases
    /\ receipt \in [Receipts -> ReceiptStatus]
    /\ review \in [Reviewers -> Receipts \union {None}]
    /\ credited \in [Receipts -> [Reviewers -> Nat]]

Init ==
    /\ initiate = [p \in Purchases |-> "new"]
    /\ gateway = [p \in Purchases |-> DefaultGateway]
    /\ row = [p \in Purchases |-> None]
    /\ ref = [p \in Purchases |-> FALSE]
    /\ session = [p \in Purchases |-> None]
    /\ sent = {}
    /\ deposit = [p \in Purchases |-> 0]
    /\ cbPc = [c \in Callbacks |-> "idle"]
    /\ cbOf = [c \in Callbacks |-> None]
    /\ lost = {}
    /\ receipt = [r \in Receipts |-> None]
    /\ review = [a \in Reviewers |-> None]
    /\ credited = [r \in Receipts |-> [a \in Reviewers |-> 0]]

-----------------------------------------------------------------------------
(* initiatePurchase *)

\* The arm's configuration and the caller's choice pick a gateway, and the
\* row is created with status 'pending'.
CreateRow(p, g) ==
    /\ initiate[p] = "new"
    /\ initiate' = [initiate EXCEPT ![p] = "created"]
    /\ gateway' = [gateway EXCEPT ![p] = g]
    /\ row' = [row EXCEPT ![p] = "pending"]
    /\ UNCHANGED <<ref, session, sent, deposit, cbPc, cbOf, lost, manualVars>>

\* The gateway opens a session; its authority is in the handler's hands only.
OpenSession(p) ==
    /\ initiate[p] = "created"
    /\ initiate' = [initiate EXCEPT ![p] = "opened"]
    /\ session' = [session EXCEPT ![p] = "open"]
    /\ UNCHANGED <<gateway, row, ref, sent, deposit, cbPc, cbOf, lost, manualVars>>

\* The arm has no valid key, the gateway refuses, or the update that would
\* store the authority fails: the handler throws and the row stays 'pending'.
ThrowInitiate(p) ==
    /\ initiate[p] \in {"created", "opened"}
    /\ initiate' = [initiate EXCEPT ![p] = "threw"]
    /\ UNCHANGED <<gateway, row, ref, session, sent, deposit, cbPc, cbOf, lost, manualVars>>

\* Mutant: the payment URL is returned before the authority is stored.
AnswerWithoutReference(p) ==
    /\ initiate[p] = "opened"
    /\ initiate' = [initiate EXCEPT ![p] = "answered"]
    /\ UNCHANGED <<gateway, row, ref, session, sent, deposit, cbPc, cbOf, lost, manualVars>>

\* The authority is stored in relatedEntityType and the payment URL returned.
StoreReference(p) ==
    /\ initiate[p] = "opened"
    /\ initiate' = [initiate EXCEPT ![p] = "answered"]
    /\ ref' = [ref EXCEPT ![p] = TRUE]
    /\ UNCHANGED <<gateway, row, session, sent, deposit, cbPc, cbOf, lost, manualVars>>

-----------------------------------------------------------------------------
(* The user at the gateway: code outside src/ *)

\* One session takes several tries: a cancelled one may be followed by a paid
\* one, and the browser may deliver the callback of either at any time after.
Pay(p) ==
    /\ initiate[p] = "answered"
    /\ session[p] \in {"open", "cancelled"}
    /\ session' = [session EXCEPT ![p] = "paid"]
    /\ sent' = sent \union {<<p, "OK">>}
    /\ UNCHANGED <<initiate, gateway, row, ref, deposit, cbPc, cbOf, lost, manualVars>>

\* A gateway may report a cancelled try without a status.
Cancel(p, status) ==
    /\ initiate[p] = "answered"
    /\ session[p] = "open"
    /\ session' = [session EXCEPT ![p] = "cancelled"]
    /\ sent' = sent \union {<<p, status>>}
    /\ UNCHANGED <<initiate, gateway, row, ref, deposit, cbPc, cbOf, lost, manualVars>>

\* The gateway returns the money of a payment the shop does not confirm in time.
Reverse(p) ==
    /\ session[p] = "paid"
    /\ session' = [session EXCEPT ![p] = "reversed"]
    /\ UNCHANGED <<initiate, gateway, row, ref, sent, deposit, cbPc, cbOf, lost, manualVars>>

-----------------------------------------------------------------------------
(* verifyPayment, one call per slot *)

\* A delivery of a callback finds the row by its authority; without one the
\* call answers "transaction not found" and changes nothing.  The controller
\* takes a missing status for a successful one.
FindTransaction(c, p, status) ==
    /\ cbPc[c] = "idle"
    /\ <<p, status>> \in sent
    /\ ref[p]
    /\ status = "NOK" \/ deposit[p] < MaxDeposits
    /\ cbOf' = [cbOf EXCEPT ![c] = p]
    /\ cbPc' = [cbPc EXCEPT ![c] = IF status = "NOK" THEN "cancel" ELSE "ask"]
    /\ UNCHANGED <<initiate, gateway, row, ref, session, sent, deposit, lost, manualVars>>

\* The slot's call returns.
Return(c) ==
    /\ cbPc' = [cbPc EXCEPT ![c] = "idle"]
    /\ cbOf' = [cbOf EXCEPT ![c] = None]

\* The callback says the user cancelled: the status is overwritten, whatever
\* it was.
MarkFailed(c) ==
    /\ cbPc[c] = "cancel"
    /\ row' = [row EXCEPT ![cbOf[c]] = "failed"]
    /\ Return(c)
    /\ UNCHANGED <<initiate, gateway, ref, session, sent, deposit, lost, manualVars>>

\* verifyPayment asks the account of the configuration.  It holds the session only
\* if initiatePurchase opened it there: the arms' accounts and the sandbox one that
\* getDefaultGateway gives a purchase without an arm are others.
Known(p) == gateway[p] = DefaultGateway

\* A payment that was made is confirmed; one confirmed before is confirmed again by
\* Zarinpal (code 101) ...
Confirms(p) == Known(p) /\ session[p] \in {"paid", "verified"}

\* ... and refused by Parsian and RayanPay, as is whatever is not a payment.
Refuses(p) == ~Known(p) \/ session[p] # "paid"

\* The await on the gateway.  A confirmed payment is final there; the answer,
\* of either kind, may be lost, and the gateway class turns that error into an
\* unsuccessful result.
AskGateway(c) ==
    /\ cbPc[c] = "ask"
    /\ \/ /\ Confirms(cbOf[c])
          /\ session' = [session EXCEPT ![cbOf[c]] = "verified"]
          /\ \/ cbPc' = [cbPc EXCEPT ![c] = "confirmed"] /\ UNCHANGED lost
             \/ /\ cbPc' = [cbPc EXCEPT ![c] = "unreachable"]
                /\ lost' = IF session[cbOf[c]] = "paid" THEN lost \union {cbOf[c]} ELSE lost
       \/ /\ Refuses(cbOf[c])
          /\ cbPc' = [cbPc EXCEPT ![c] = "refused"]
          /\ UNCHANGED <<session, lost>>
       \/ /\ cbPc' = [cbPc EXCEPT ![c] = "unreachable"]
          /\ UNCHANGED <<session, lost>>
    /\ UNCHANGED <<initiate, gateway, row, ref, sent, deposit, cbOf, manualVars>>

\* Mutant: the deposit row is left out of the transaction.
CommitStatusOnly(c) ==
    /\ cbPc[c] = "confirmed"
    /\ row' = [row EXCEPT ![cbOf[c]] = "success"]
    /\ Return(c)
    /\ UNCHANGED <<initiate, gateway, ref, session, sent, deposit, lost, manualVars>>

\* Mutant: a row that a late callback has marked 'failed' is left as it is.
CommitUnlessFailed(c) ==
    /\ cbPc[c] = "confirmed"
    /\ IF row[cbOf[c]] = "failed"
       THEN UNCHANGED <<row, deposit>>
       ELSE /\ row' = [row EXCEPT ![cbOf[c]] = "success"]
            /\ deposit' = [deposit EXCEPT ![cbOf[c]] = @ + 1]
    /\ Return(c)
    /\ UNCHANGED <<initiate, gateway, ref, session, sent, lost, manualVars>>

\* The transaction: the row becomes 'success' and a deposit row is created.
CommitVerified(c) ==
    /\ cbPc[c] = "confirmed"
    /\ row' = [row EXCEPT ![cbOf[c]] = "success"]
    /\ deposit' = [deposit EXCEPT ![cbOf[c]] = @ + 1]
    /\ Return(c)
    /\ UNCHANGED <<initiate, gateway, ref, session, sent, lost, manualVars>>

\* A refused or unanswered verification only writes metadata.
RecordRefusal(c) ==
    /\ cbPc[c] \in {"refused", "unreachable"}
    /\ Return(c)
    /\ UNCHANGED <<initiate, gateway, row, ref, session, sent, deposit, lost, manualVars>>

\* The purchases of these calls, if the gateway has just confirmed them.
CutOff(calls) == {cbOf[c] : c \in {d \in calls : cbPc[d] = "confirmed"}}

\* The database refuses a write (a write conflict, a lost connection): the
\* handler throws and nothing of it is stored.
ThrowVerify(c) ==
    /\ cbPc[c] # "idle"
    /\ lost' = lost \union CutOff({c})
    /\ Return(c)
    /\ UNCHANGED <<initiate, gateway, row, ref, session, sent, deposit, manualVars>>

-----------------------------------------------------------------------------
(* Manual receipts *)

\* initiateManualPurchase: only a request is created, no credit.
SubmitReceipt(r) ==
    /\ receipt[r] = None
    /\ receipt' = [receipt EXCEPT ![r] = "pending"]
    /\ UNCHANGED <<review, credited, onlineVars>>

\* Mutant: the receipt is looked up without status: 'pending'.
ReadAnyReceipt(a, r) ==
    /\ review[a] = None
    /\ a \in ReviewersOf[r]
    /\ receipt[r] # None
    /\ review' = [review EXCEPT ![a] = r]
    /\ UNCHANGED <<receipt, credited, onlineVars>>

\* The findFirst at the head of approvePayment and of rejectPayment: a pending
\* receipt of the admin's own arm.
ReadPending(a, r) ==
    /\ review[a] = None
    /\ a \in ReviewersOf[r]
    /\ receipt[r] = "pending"
    /\ review' = [review EXCEPT ![a] = r]
    /\ UNCHANGED <<receipt, credited, onlineVars>>

\* Mutant: the status update is left out of approvePayment's transaction.
ApproveWithoutStatus(a) ==
    /\ review[a] # None
    /\ credited' = [credited EXCEPT ![review[a]][a] = @ + 1]
    /\ review' = [review EXCEPT ![a] = None]
    /\ UNCHANGED <<receipt, onlineVars>>

\* Mutant: the deposit is left out of approvePayment's transaction.
ApproveWithoutDeposit(a) ==
    /\ review[a] # None
    /\ receipt' = [receipt EXCEPT ![review[a]] = "approved"]
    /\ review' = [review EXCEPT ![a] = None]
    /\ UNCHANGED <<credited, onlineVars>>

\* approvePayment's transaction updates by id, not by id and status.
ApprovePayment(a) ==
    /\ review[a] # None
    /\ receipt' = [receipt EXCEPT ![review[a]] = "approved"]
    /\ credited' = [credited EXCEPT ![review[a]][a] = @ + 1]
    /\ review' = [review EXCEPT ![a] = None]
    /\ UNCHANGED onlineVars

\* rejectPayment's update, by id as well.
RejectPayment(a) ==
    /\ review[a] # None
    /\ receipt' = [receipt EXCEPT ![review[a]] = "rejected"]
    /\ review' = [review EXCEPT ![a] = None]
    /\ UNCHANGED <<credited, onlineVars>>

\* The update or the transaction fails: nothing of it is stored.
ThrowReview(a) ==
    /\ review[a] # None
    /\ review' = [review EXCEPT ![a] = None]
    /\ UNCHANGED <<receipt, credited, onlineVars>>

-----------------------------------------------------------------------------
\* The process dies: every handler in flight is gone, the database stays.
Restart ==
    /\ initiate' = [p \in Purchases |->
                      IF initiate[p] \in {"created", "opened"} THEN "threw" ELSE initiate[p]]
    /\ cbPc' = [c \in Callbacks |-> "idle"]
    /\ cbOf' = [c \in Callbacks |-> None]
    /\ lost' = lost \union CutOff(Callbacks)
    /\ review' = [a \in Reviewers |-> None]
    /\ UNCHANGED <<gateway, row, ref, session, sent, deposit, receipt, credited>>

Next ==
    \/ \E p \in Purchases :
           \/ \E g \in Gateways : CreateRow(p, g)
           \/ OpenSession(p)
           \/ ThrowInitiate(p)
           \/ StoreReference(p)
           \/ Pay(p)
           \/ \E status \in {"NOK", "blank"} : Cancel(p, status)
           \/ Reverse(p)
    \/ \E c \in Callbacks :
           \/ \E p \in Purchases, status \in {"OK", "NOK", "blank"} : FindTransaction(c, p, status)
           \/ MarkFailed(c)
           \/ AskGateway(c)
           \/ CommitVerified(c)
           \/ RecordRefusal(c)
           \/ ThrowVerify(c)
    \/ \E r \in Receipts : SubmitReceipt(r)
    \/ \E a \in Reviewers :
           \/ \E r \in Receipts : ReadPending(a, r)
           \/ ApprovePayment(a)
           \/ RejectPayment(a)
           \/ ThrowReview(a)
    \/ Restart

Spec == Init /\ [][Next]_vars

-----------------------------------------------------------------------------
(* Online purchases *)

\* What getUserBalance counts for a purchase: the row itself once it is
\* 'success', and the deposit rows.
CreditedRows(p) == deposit[p] + IF row[p] = "success" THEN 1 ELSE 0

\* No credit is granted for money the arm did not get: whatever callbacks
\* arrive, however late, verifyPayment commits only a payment the gateway has
\* made final, never a cancelled try or one already returned.
CreditOnlyAfterPayment ==
    \A p \in Purchases : CreditedRows(p) > 0 => session[p] = "verified"

\* A purchase shown as 'success' has its deposit row: verifyPayment writes the
\* two together, so a crash or an interleaved callback never separates them.
SettledTogether ==
    \A p \in Purchases : row[p] = "success" => deposit[p] > 0

\* Whatever callback the gateway sends, verifyPayment finds the row it is
\* about: initiatePurchase stores the authority before it hands out the URL.
NoOrphanCallback ==
    \A call \in sent : ref[call[1]]

\* Whoever paid over the account verifyPayment asks has his credit or is about to get
\* it, once the gateway has taken the payment for good: neither a callback of an
\* earlier, cancelled try that comes late and marks the row 'failed', nor a second
\* callback that is refused, costs him the deposit.  Only an answer that gets lost, or
\* a call cut off between the answer and the commit, does (lost).
ConfirmedIsDeposited ==
    \A p \in Purchases \ lost :
        session[p] = "verified" /\ deposit[p] = 0 =>
            \E c \in Callbacks : cbPc[c] = "confirmed" /\ cbOf[c] = p

\* A purchase is credited once, however often its callback is delivered.
PurchaseCreditedOnce == \A p \in Purchases : CreditedRows(p) <= 1

-----------------------------------------------------------------------------
(* Manual receipts *)

\* One reviewer never deposits the same receipt twice, through any number of
\* reads, decisions by others and restarts in between.
OneDepositPerReviewer ==
    \A r \in Receipts, a \in Reviewers : credited[r][a] <= 1

\* A receipt no review has decided carries no deposit, and one that was
\* approved carries at least one: approvePayment writes both or neither.
DepositFollowsApproval ==
    \A r \in Receipts :
        /\ receipt[r] \in {None, "pending"} => \A a \in Reviewers : credited[r][a] = 0
        /\ receipt[r] = "approved" => \E a \in Reviewers : credited[r][a] > 0

Sole(r) == \A a, b \in ReviewersOf[r] : a = b

\* The deposits of a receipt agree with its final status where one reviewer works
\* at a time: exactly one when it is approved, none when it is not.  (With two,
\* both may read it as pending and both decide it.)
ReceiptCreditMatchesDecision ==
    \A r \in Receipts : Sole(r) =>
        IF receipt[r] = "approved"
        THEN \E a \in Reviewers : /\ credited[r][a] = 1
                                 /\ \A b \in Reviewers \ {a} : credited[r][b] = 0
        ELSE \A a \in Reviewers : credited[r][a] = 0

\* What the proof of CreditOnlyAfterPayment rests on: a verifyPayment call that
\* is past the gateway's answer speaks of a payment that is final there, and
\* initiatePurchase opens one session per purchase.
ConfirmedIsFinal ==
    /\ \A c \in Callbacks : cbPc[c] = "confirmed" => session[cbOf[c]] = "verified"
    /\ \A p \in Purchases : initiate[p] \in {"new", "created"} => session[p] = None

\* What the proof of OneDepositPerReviewer rests on: a reviewer who has made a
\* deposit no longer holds the receipt, and cannot read it as pending again.
DepositIsBehind ==
    \A r \in Receipts, a \in Reviewers :
        credited[r][a] > 0 => receipt[r] \in {"approved", "rejected"} /\ review[a] # r

\* What the proof of ReceiptCreditMatchesDecision rests on: the receipt a sole
\* reviewer is deciding is still pending, and nobody else has it.
HeldIsPending ==
    /\ \A a \in Reviewers :
           review[a] # None =>
               /\ a \in ReviewersOf[review[a]]
               /\ Sole(review[a]) => receipt[review[a]] = "pending"
    /\ \A r \in Receipts, a \in Reviewers : credited[r][a] > 0 => a \in ReviewersOf[r]

-----------------------------------------------------------------------------
(* What both ways of buying implement *)

\* Online purchases: the money is final when the gateway has confirmed it.
Online == INSTANCE CreditLedger WITH
    Sources  <- Purchases,
    final    <- {p \in Purchases : session[p] = "verified"},
    shown    <- {p \in Purchases : row[p] = "success"},
    credited <- {p \in Purchases : deposit[p] > 0}

\* Receipts: what counts is that one was handed in.
Manual == INSTANCE CreditLedger WITH
    Sources  <- Receipts,
    final    <- {r \in Receipts : receipt[r] # None},
    shown    <- {r \in Receipts : receipt[r] = "approved"},
    credited <- {r \in Receipts : \E a \in Reviewers : credited[r][a] > 0}

\* initiatePurchase and verifyPayment, through late, repeated and lost callbacks and
\* crashes, do nothing but settle final payments, status and deposit in one step, and
\* never take a deposit back.
OnlineIsLedger == Online!Spec

\* initiateManualPurchase, approvePayment and rejectPayment keep the same promise,
\* with any number of reviewers deciding one receipt at once.
ManualIsLedger == Manual!Spec
====
