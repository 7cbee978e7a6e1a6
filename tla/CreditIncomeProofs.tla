------------------------ MODULE CreditIncomeProofs ------------------------
(***************************************************************************)
(* Proofs about the two ways credit comes in: what a user buys             *)
(* (CreditPurchase, for every number of purchases, receipts, gateways,     *)
(* callback slots and reviewers), and what an inviter earns                *)
(* (ReferralSettlement, for every number of concurrent requests, every     *)
(* unit, every share and every rounding error).  The two share no state:   *)
(* each theorem is about the specification it names.                       *)
(***************************************************************************)
EXTENDS CreditPurchase, ReferralSettlement, FiniteSetTheorems, WellFoundedInduction, TLAPS

\* The type invariant of buying credit: initiatePurchase, verifyPayment and the
\* review handlers keep every variable in its range.
THEOREM TypeCorrect == Spec => []TypeOK
<1>1. Init => TypeOK
  BY GatewayAssumption DEF Init, TypeOK, RowStatus, ReceiptStatus
<1>2. TypeOK /\ [Next]_vars => TypeOK'
  <2> SUFFICES ASSUME TypeOK, [Next]_vars PROVE TypeOK'
    OBVIOUS
  <2> USE DEF TypeOK, RowStatus, ReceiptStatus
  <2>1. ASSUME NEW p \in Purchases, NEW g \in Gateways, CreateRow(p, g) PROVE TypeOK'
    BY <2>1 DEF CreateRow, manualVars
  <2>2. ASSUME NEW p \in Purchases, OpenSession(p) PROVE TypeOK'
    BY <2>2 DEF OpenSession, manualVars
  <2>3. ASSUME NEW p \in Purchases, ThrowInitiate(p) PROVE TypeOK'
    BY <2>3 DEF ThrowInitiate, manualVars
  <2>4. ASSUME NEW p \in Purchases, StoreReference(p) PROVE TypeOK'
    BY <2>4 DEF StoreReference, manualVars
  <2>5. ASSUME NEW p \in Purchases, Pay(p) PROVE TypeOK'
    BY <2>5 DEF Pay, manualVars
  <2>6. ASSUME NEW p \in Purchases, NEW status \in {"NOK", "blank"}, Cancel(p, status)
        PROVE TypeOK'
    BY <2>6 DEF Cancel, manualVars
  <2>7. ASSUME NEW p \in Purchases, Reverse(p) PROVE TypeOK'
    BY <2>7 DEF Reverse, manualVars
  <2>8. ASSUME NEW c \in Callbacks, NEW p \in Purchases, NEW status \in {"OK", "NOK", "blank"},
               FindTransaction(c, p, status)
        PROVE TypeOK'
    BY <2>8 DEF FindTransaction, manualVars
  <2>9. ASSUME NEW c \in Callbacks, MarkFailed(c) PROVE TypeOK'
    BY <2>9 DEF MarkFailed, Return, manualVars
  <2>10. ASSUME NEW c \in Callbacks, AskGateway(c) PROVE TypeOK'
    <3>1. cbOf[c] \in Purchases /\ cbPc[c] = "ask"
      BY <2>10 DEF AskGateway
    <3>2. session' \in [Purchases -> {None, "open", "cancelled", "paid", "verified", "reversed"}]
      BY <2>10, <3>1 DEF AskGateway
    <3>3. \E answer \in {"confirmed", "refused", "unreachable"} :
             cbPc' = [cbPc EXCEPT ![c] = answer]
      BY <2>10 DEF AskGateway
    <3>4. UNCHANGED <<initiate, gateway, row, ref, sent, deposit, cbOf, receipt, review, credited>>
      BY <2>10 DEF AskGateway, manualVars
    <3>5. lost' \subseteq Purchases
      BY <2>10, <3>1 DEF AskGateway
    <3> QED
      BY <3>1, <3>2, <3>3, <3>4, <3>5
  <2>11. ASSUME NEW c \in Callbacks, CommitVerified(c) PROVE TypeOK'
    <3>1. /\ cbOf[c] \in Purchases
          /\ deposit[cbOf[c]] + 1 \in Nat
      BY <2>11 DEF CommitVerified
    <3>2. deposit' \in [Purchases -> Nat]
      BY <2>11, <3>1 DEF CommitVerified
    <3> QED
      BY <2>11, <3>1, <3>2 DEF CommitVerified, Return, manualVars
  <2>12. ASSUME NEW c \in Callbacks, RecordRefusal(c) PROVE TypeOK'
    BY <2>12 DEF RecordRefusal, Return, manualVars
  <2>13. ASSUME NEW c \in Callbacks, ThrowVerify(c) PROVE TypeOK'
    BY <2>13 DEF ThrowVerify, CutOff, Return, manualVars
  <2>14. ASSUME NEW r \in Receipts, SubmitReceipt(r) PROVE TypeOK'
    BY <2>14 DEF SubmitReceipt, onlineVars
  <2>15. ASSUME NEW a \in Reviewers, NEW r \in Receipts, ReadPending(a, r) PROVE TypeOK'
    BY <2>15 DEF ReadPending, onlineVars
  <2>16. ASSUME NEW a \in Reviewers, ApprovePayment(a) PROVE TypeOK'
    <3>1. PICK r \in Receipts : review[a] = r
      BY <2>16 DEF ApprovePayment
    <3>2. credited' = [credited EXCEPT ![r] = [credited[r] EXCEPT ![a] = credited[r][a] + 1]]
      BY <2>16, <3>1 DEF ApprovePayment
    <3>3. credited' \in [Receipts -> [Reviewers -> Nat]]
      BY <3>2
    <3> QED
      BY <2>16, <3>3 DEF ApprovePayment, onlineVars
  <2>17. ASSUME NEW a \in Reviewers, RejectPayment(a) PROVE TypeOK'
    BY <2>17 DEF RejectPayment, onlineVars
  <2>18. ASSUME NEW a \in Reviewers, ThrowReview(a) PROVE TypeOK'
    BY <2>18 DEF ThrowReview, onlineVars
  <2>19. ASSUME Restart PROVE TypeOK'
    BY <2>19 DEF Restart, CutOff
  <2>20. ASSUME UNCHANGED vars PROVE TypeOK'
    BY <2>20 DEF vars, onlineVars, manualVars
  <2> QED
    BY <2>1, <2>2, <2>3, <2>4, <2>5, <2>6, <2>7, <2>8, <2>9, <2>10, <2>11, <2>12,
       <2>13, <2>14, <2>15, <2>16, <2>17, <2>18, <2>19, <2>20 DEF Next
<1> QED
  BY <1>1, <1>2, PTL DEF Spec

-----------------------------------------------------------------------------
(* Online purchases *)

\* Inductive for the online purchases.  ConfirmedIsFinal is the strengthening:
\* CreditOnlyAfterPayment alone does not say why a commit finds a final payment.
OnlineInv == TypeOK /\ ConfirmedIsFinal /\ CreditOnlyAfterPayment /\ SettledTogether

LEMMA OnlineInit == Init => OnlineInv
<1> USE GatewayAssumption DEF Init
<1>1. Init => TypeOK
  BY DEF TypeOK, RowStatus, ReceiptStatus
<1>2. Init => ConfirmedIsFinal
  BY DEF ConfirmedIsFinal
<1>3. Init => CreditOnlyAfterPayment /\ SettledTogether
  BY DEF CreditOnlyAfterPayment, SettledTogether, CreditedRows, None
<1> QED
  BY <1>1, <1>2, <1>3 DEF OnlineInv

LEMMA OnlineStep == OnlineInv /\ TypeOK' /\ [Next]_vars => OnlineInv'
<1> SUFFICES ASSUME OnlineInv, TypeOK', [Next]_vars
             PROVE (ConfirmedIsFinal /\ CreditOnlyAfterPayment /\ SettledTogether)'
  BY DEF OnlineInv
<1> USE DEF OnlineInv, ConfirmedIsFinal, CreditOnlyAfterPayment, SettledTogether, CreditedRows
<1>1. CASE /\ UNCHANGED <<cbPc, cbOf, row, deposit>>
           /\ \A p \in Purchases : initiate'[p] \in {"new", "created"}
                                  => initiate[p] = initiate'[p] /\ session'[p] = session[p]
           /\ \A p \in Purchases : session[p] = "verified" => session'[p] = "verified"
  BY <1>1 DEF TypeOK
<1>2. ASSUME NEW p \in Purchases, NEW g \in Gateways, CreateRow(p, g)
      PROVE (ConfirmedIsFinal /\ CreditOnlyAfterPayment /\ SettledTogether)'
  BY <1>2 DEF CreateRow, TypeOK
<1>3. ASSUME NEW p \in Purchases,
             \/ OpenSession(p)
             \/ ThrowInitiate(p)
             \/ StoreReference(p)
             \/ Pay(p)
             \/ \E status \in {"NOK", "blank"} : Cancel(p, status)
             \/ Reverse(p)
      PROVE (ConfirmedIsFinal /\ CreditOnlyAfterPayment /\ SettledTogether)'
  <2>1. UNCHANGED <<cbPc, cbOf, row, deposit>>
    BY <1>3 DEF OpenSession, ThrowInitiate, StoreReference, Pay, Cancel, Reverse
  <2>2. CASE OpenSession(p)
    BY <1>1, <2>1, <2>2 DEF OpenSession, TypeOK, None
  <2>3. CASE ThrowInitiate(p) \/ StoreReference(p)
    BY <1>1, <2>1, <2>3 DEF ThrowInitiate, StoreReference, TypeOK
  <2>4. CASE Pay(p) \/ (\E status \in {"NOK", "blank"} : Cancel(p, status)) \/ Reverse(p)
    <3>1. \E s : s \in {"paid", "cancelled", "reversed"} /\ session' = [session EXCEPT ![p] = s]
      BY <2>4 DEF Pay, Cancel, Reverse
    <3>2. session[p] \notin {None, "verified"} \/ initiate[p] = "answered"
      BY <2>4 DEF Pay, Cancel, Reverse, None
    <3>3. session[p] # "verified" /\ UNCHANGED initiate
      BY <2>4 DEF Pay, Cancel, Reverse
    <3> QED
      BY <1>1, <2>1, <3>1, <3>2, <3>3 DEF TypeOK
  <2> QED
    BY <1>3, <2>2, <2>3, <2>4
<1>4. ASSUME NEW c \in Callbacks, NEW p \in Purchases, NEW status \in {"OK", "NOK", "blank"},
             FindTransaction(c, p, status)
      PROVE (ConfirmedIsFinal /\ CreditOnlyAfterPayment /\ SettledTogether)'
  BY <1>4 DEF FindTransaction, TypeOK
<1>5. ASSUME NEW c \in Callbacks, MarkFailed(c)
      PROVE (ConfirmedIsFinal /\ CreditOnlyAfterPayment /\ SettledTogether)'
  BY <1>5 DEF MarkFailed, Return, TypeOK
<1>6. ASSUME NEW c \in Callbacks, AskGateway(c)
      PROVE (ConfirmedIsFinal /\ CreditOnlyAfterPayment /\ SettledTogether)'
  <2>1. cbOf[c] \in Purchases /\ UNCHANGED <<initiate, row, deposit, cbOf>>
    BY <1>6 DEF AskGateway, TypeOK
  <2>2. CASE Confirms(cbOf[c])
    <3>1. session' \in {session, [session EXCEPT ![cbOf[c]] = "verified"]}
      BY <1>6 DEF AskGateway
    <3>2. \/ \E answer \in {"refused", "unreachable"} : cbPc' = [cbPc EXCEPT ![c] = answer]
          \/ cbPc' = [cbPc EXCEPT ![c] = "confirmed"] /\ session'[cbOf[c]] = "verified"
      BY <1>6, <2>1, <2>2 DEF AskGateway, TypeOK
    <3>3. initiate[cbOf[c]] \notin {"new", "created"}
      BY <2>1, <2>2 DEF Confirms, None
    <3>4. /\ \A p \in Purchases : session[p] = "verified" => session'[p] = "verified"
          /\ \A p \in Purchases : p # cbOf[c] => session'[p] = session[p]
      BY <2>1, <3>1 DEF TypeOK
    <3>5. ConfirmedIsFinal'
      BY <2>1, <3>2, <3>3, <3>4 DEF TypeOK
    <3>6. (CreditOnlyAfterPayment /\ SettledTogether)'
      BY <2>1, <3>4 DEF TypeOK
    <3> QED
      BY <3>5, <3>6
  <2>3. CASE ~Confirms(cbOf[c])
    <3>1. /\ UNCHANGED session
          /\ \E answer \in {"refused", "unreachable"} : cbPc' = [cbPc EXCEPT ![c] = answer]
      BY <1>6, <2>3 DEF AskGateway
    <3> QED
      BY <2>1, <3>1 DEF TypeOK
  <2> QED
    BY <2>2, <2>3
<1>7. ASSUME NEW c \in Callbacks, CommitVerified(c)
      PROVE (ConfirmedIsFinal /\ CreditOnlyAfterPayment /\ SettledTogether)'
  <2>1. cbOf[c] \in Purchases /\ session[cbOf[c]] = "verified"
    BY <1>7 DEF CommitVerified, TypeOK
  <2>2. ConfirmedIsFinal'
    BY <1>7 DEF CommitVerified, Return, TypeOK
  <2>3. CreditOnlyAfterPayment'
    BY <1>7, <2>1 DEF CommitVerified, TypeOK
  <2>4. SettledTogether'
    BY <1>7, <2>1 DEF CommitVerified, TypeOK
  <2> QED
    BY <2>2, <2>3, <2>4
<1>8. ASSUME NEW c \in Callbacks, RecordRefusal(c) \/ ThrowVerify(c)
      PROVE (ConfirmedIsFinal /\ CreditOnlyAfterPayment /\ SettledTogether)'
  BY <1>8 DEF RecordRefusal, ThrowVerify, Return, TypeOK
<1>9. ASSUME \/ \E r \in Receipts : SubmitReceipt(r)
             \/ \E a \in Reviewers, r \in Receipts : ReadPending(a, r)
             \/ \E a \in Reviewers : ApprovePayment(a) \/ RejectPayment(a) \/ ThrowReview(a)
             \/ UNCHANGED vars
      PROVE (ConfirmedIsFinal /\ CreditOnlyAfterPayment /\ SettledTogether)'
  BY <1>1, <1>9 DEF SubmitReceipt, ReadPending, ApprovePayment, RejectPayment, ThrowReview,
                    vars, onlineVars
<1>10. ASSUME Restart
       PROVE (ConfirmedIsFinal /\ CreditOnlyAfterPayment /\ SettledTogether)'
  BY <1>10 DEF Restart, TypeOK
<1> QED
  BY <1>2, <1>3, <1>4, <1>5, <1>6, <1>7, <1>8, <1>9, <1>10 DEF Next

\* verifyPayment grants no credit for a purchase whose payment is not final at
\* the gateway, and never shows a purchase as 'success' without its deposit,
\* for every number of concurrent, late, repeated and crashed callbacks.
THEOREM CreditIsBacked == Spec => [](CreditOnlyAfterPayment /\ SettledTogether)
<1>1. OnlineInv => CreditOnlyAfterPayment /\ SettledTogether
  BY DEF OnlineInv
<1> QED
  BY OnlineInit, OnlineStep, TypeCorrect, <1>1, PTL DEF Spec

\* However callbacks of one purchase come late, twice or in the wrong order, and whatever
\* else verifyPayment is called for meanwhile, a payment the gateway has taken for good is
\* deposited or has a call on its way to the commit, unless its confirmation was lost.
THEOREM ConfirmedPaymentIsDeposited == Spec => []ConfirmedIsDeposited
<1> DEFINE Awaited(p) == \E c \in Callbacks : cbPc[c] = "confirmed" /\ cbOf[c] = p
<1>1. Init => ConfirmedIsDeposited
  BY DEF Init, ConfirmedIsDeposited, None
<1>2. TypeOK /\ ConfirmedIsDeposited /\ [Next]_vars => ConfirmedIsDeposited'
  <2> SUFFICES ASSUME TypeOK, ConfirmedIsDeposited, [Next]_vars,
                      NEW p \in Purchases, p \notin lost',
                      session'[p] = "verified", deposit'[p] = 0
               PROVE Awaited(p)'
    BY DEF ConfirmedIsDeposited
  <2>0. p \notin lost /\ session[p] = "verified" /\ deposit[p] = 0 => Awaited(p)
    BY DEF ConfirmedIsDeposited
  <2>1. ASSUME UNCHANGED <<deposit, cbPc, cbOf, lost>>, session[p] = "verified"
        PROVE Awaited(p)'
    BY <2>0, <2>1
  <2>2. ASSUME NEW q \in Purchases,
               \/ \E g \in Gateways : CreateRow(q, g)
               \/ OpenSession(q)
               \/ ThrowInitiate(q)
               \/ StoreReference(q)
               \/ Pay(q)
               \/ \E status \in {"NOK", "blank"} : Cancel(q, status)
               \/ Reverse(q)
        PROVE Awaited(p)'
    <3>1. UNCHANGED <<deposit, cbPc, cbOf, lost>>
      BY <2>2 DEF CreateRow, OpenSession, ThrowInitiate, StoreReference, Pay, Cancel, Reverse
    <3>2. \/ UNCHANGED session
          \/ \E x \in {"open", "paid", "cancelled", "reversed"} :
                session' = [session EXCEPT ![q] = x]
      BY <2>2 DEF CreateRow, OpenSession, ThrowInitiate, StoreReference, Pay, Cancel, Reverse
    <3> QED
      BY <2>1, <3>1, <3>2 DEF TypeOK
  <2>3. ASSUME NEW c \in Callbacks, NEW x, cbPc[c] # "confirmed" \/ cbOf[c] # p,
               UNCHANGED <<session, deposit, lost>>,
               cbPc' = [cbPc EXCEPT ![c] = x],
               \A d \in Callbacks \ {c} : cbOf'[d] = cbOf[d]
        PROVE Awaited(p)'
    <3>1. PICK d \in Callbacks : cbPc[d] = "confirmed" /\ cbOf[d] = p
      BY <2>0, <2>3
    <3>2. cbPc'[d] = "confirmed" /\ cbOf'[d] = p
      BY <2>3, <3>1 DEF TypeOK
    <3> QED
      BY <3>2
  <2>4. ASSUME NEW c \in Callbacks, NEW q \in Purchases, NEW status \in {"OK", "NOK", "blank"},
               FindTransaction(c, q, status)
        PROVE Awaited(p)'
    BY <2>3, <2>4 DEF FindTransaction, TypeOK
  <2>5. ASSUME NEW c \in Callbacks, MarkFailed(c) \/ RecordRefusal(c) PROVE Awaited(p)'
    BY <2>3, <2>5 DEF MarkFailed, RecordRefusal, Return, TypeOK
  <2>6. ASSUME NEW c \in Callbacks, ThrowVerify(c) PROVE Awaited(p)'
    <3>1. cbPc[c] # "confirmed" \/ cbOf[c] # p
      BY <2>6 DEF ThrowVerify, CutOff
    <3>2. p \notin lost /\ UNCHANGED <<session, deposit>>
      BY <2>6 DEF ThrowVerify
    <3>3. PICK d \in Callbacks : cbPc[d] = "confirmed" /\ cbOf[d] = p
      BY <2>0, <3>2
    <3>4. cbPc'[d] = "confirmed" /\ cbOf'[d] = p
      BY <2>6, <3>1, <3>3 DEF ThrowVerify, Return, TypeOK
    <3> QED
      BY <3>4
  <2>7. ASSUME NEW c \in Callbacks, AskGateway(c) PROVE Awaited(p)'
    <3>1. cbPc[c] = "ask" /\ UNCHANGED <<deposit, cbOf>>
      BY <2>7 DEF AskGateway
    <3>2. CASE UNCHANGED <<session, lost>> /\ \E x : cbPc' = [cbPc EXCEPT ![c] = x]
      BY <2>3, <3>1, <3>2
    <3>3. CASE /\ session' = [session EXCEPT ![cbOf[c]] = "verified"]
               /\ UNCHANGED lost
               /\ cbPc' = [cbPc EXCEPT ![c] = "confirmed"]
      <4>1. CASE cbOf[c] = p
        BY <3>1, <3>3, <4>1 DEF TypeOK
      <4>2. CASE cbOf[c] # p
        <5>1. session[p] = "verified"
          BY <3>3, <4>2 DEF TypeOK
        <5>2. PICK d \in Callbacks : cbPc[d] = "confirmed" /\ cbOf[d] = p
          BY <2>0, <3>1, <3>3, <5>1
        <5>3. cbPc'[d] = "confirmed" /\ cbOf'[d] = p
          BY <3>1, <3>3, <5>2 DEF TypeOK
        <5> QED
          BY <5>3
      <4> QED
        BY <4>1, <4>2
    <3>4. CASE /\ Confirms(cbOf[c])
               /\ session' = [session EXCEPT ![cbOf[c]] = "verified"]
               /\ cbPc' = [cbPc EXCEPT ![c] = "unreachable"]
               /\ lost' = IF session[cbOf[c]] = "paid" THEN lost \union {cbOf[c]} ELSE lost
      <4>1. session[p] = "verified"
        BY <3>4 DEF Confirms, TypeOK
      <4>2. PICK d \in Callbacks : cbPc[d] = "confirmed" /\ cbOf[d] = p
        BY <2>0, <3>1, <3>4, <4>1
      <4>3. cbPc'[d] = "confirmed" /\ cbOf'[d] = p
        BY <3>1, <3>4, <4>2 DEF TypeOK
      <4> QED
        BY <4>3
    <3>5. \/ /\ Confirms(cbOf[c])
             /\ session' = [session EXCEPT ![cbOf[c]] = "verified"]
             /\ \/ cbPc' = [cbPc EXCEPT ![c] = "confirmed"] /\ UNCHANGED lost
                \/ /\ cbPc' = [cbPc EXCEPT ![c] = "unreachable"]
                   /\ lost' = IF session[cbOf[c]] = "paid" THEN lost \union {cbOf[c]} ELSE lost
          \/ UNCHANGED <<session, lost>> /\ \E x : cbPc' = [cbPc EXCEPT ![c] = x]
      BY <2>7 DEF AskGateway
    <3> QED
      BY <3>2, <3>3, <3>4, <3>5
  <2>8. ASSUME NEW c \in Callbacks, CommitVerified(c) PROVE Awaited(p)'
    <3>1. cbOf[c] # p
      BY <2>8 DEF CommitVerified, TypeOK
    <3>2. p \notin lost /\ session[p] = "verified" /\ deposit[p] = 0
      BY <2>8, <3>1 DEF CommitVerified, TypeOK
    <3>3. PICK d \in Callbacks : cbPc[d] = "confirmed" /\ cbOf[d] = p
      BY <2>0, <3>2
    <3>4. cbPc'[d] = "confirmed" /\ cbOf'[d] = p
      BY <2>8, <3>1, <3>3 DEF CommitVerified, Return, TypeOK
    <3> QED
      BY <3>4
  <2>9. ASSUME \/ \E r \in Receipts : SubmitReceipt(r)
               \/ \E a \in Reviewers : \/ \E r \in Receipts : ReadPending(a, r)
                                       \/ ApprovePayment(a)
                                       \/ RejectPayment(a)
                                       \/ ThrowReview(a)
               \/ UNCHANGED vars
        PROVE Awaited(p)'
    BY <2>1, <2>9 DEF SubmitReceipt, ReadPending, ApprovePayment, RejectPayment, ThrowReview,
                      vars, onlineVars
  <2>10. ASSUME Restart PROVE Awaited(p)'
    BY <2>0, <2>10 DEF Restart, CutOff
  <2> HIDE DEF Awaited
  <2> QED
    BY <2>2, <2>4, <2>5, <2>6, <2>7, <2>8, <2>9, <2>10 DEF Next
<1> QED
  BY <1>1, <1>2, TypeCorrect, PTL DEF Spec

-----------------------------------------------------------------------------
(* Manual receipts *)

\* Inductive for the receipts.  OneDepositPerReviewer alone does not exclude a
\* reviewer who has deposited and still holds the receipt; DepositIsBehind does.
ReceiptInv == TypeOK /\ OneDepositPerReviewer /\ DepositIsBehind

LEMMA OnlineStepsLeaveReceipts ==
    /\ \A p \in Purchases :
          \/ \E g \in Gateways : CreateRow(p, g)
          \/ OpenSession(p)
          \/ ThrowInitiate(p)
          \/ StoreReference(p)
          \/ Pay(p)
          \/ \E status \in {"NOK", "blank"} : Cancel(p, status)
          \/ Reverse(p)
          => UNCHANGED manualVars
    /\ \A c \in Callbacks :
          \/ \E p \in Purchases, status \in {"OK", "NOK", "blank"} : FindTransaction(c, p, status)
          \/ MarkFailed(c)
          \/ AskGateway(c)
          \/ CommitVerified(c)
          \/ RecordRefusal(c)
          \/ ThrowVerify(c)
          => UNCHANGED manualVars
BY DEF CreateRow, OpenSession, ThrowInitiate, StoreReference, Pay, Cancel, Reverse,
       FindTransaction, MarkFailed, AskGateway, CommitVerified, RecordRefusal, ThrowVerify

LEMMA ReceiptInit == Init => OneDepositPerReviewer /\ DepositIsBehind
BY DEF Init, OneDepositPerReviewer, DepositIsBehind

LEMMA ReceiptStep == ReceiptInv /\ [Next]_vars => (OneDepositPerReviewer /\ DepositIsBehind)'
<1> SUFFICES ASSUME ReceiptInv, [Next]_vars
             PROVE (OneDepositPerReviewer /\ DepositIsBehind)'
  OBVIOUS
<1> USE DEF ReceiptInv, OneDepositPerReviewer, DepositIsBehind
<1>1. CASE UNCHANGED manualVars
  BY <1>1 DEF manualVars
<1>2. ASSUME NEW r \in Receipts, SubmitReceipt(r)
      PROVE (OneDepositPerReviewer /\ DepositIsBehind)'
  BY <1>2 DEF SubmitReceipt, TypeOK, None
<1>3. ASSUME NEW a \in Reviewers, NEW r \in Receipts, ReadPending(a, r)
      PROVE (OneDepositPerReviewer /\ DepositIsBehind)'
  BY <1>3 DEF ReadPending, TypeOK
<1>4. ASSUME NEW a \in Reviewers, ApprovePayment(a)
      PROVE (OneDepositPerReviewer /\ DepositIsBehind)'
  <2>1. PICK r \in Receipts : review[a] = r
    BY <1>4 DEF ApprovePayment, TypeOK
  <2>2. credited[r][a] = 0
    BY <2>1 DEF TypeOK
  <2>3. /\ credited'[r][a] = 1
        /\ \A q \in Receipts, b \in Reviewers :
              q # r \/ b # a => credited'[q][b] = credited[q][b]
    BY <1>4, <2>1, <2>2 DEF ApprovePayment, TypeOK
  <2>4. /\ receipt' = [receipt EXCEPT ![r] = "approved"]
        /\ review' = [review EXCEPT ![a] = None]
    BY <1>4, <2>1 DEF ApprovePayment
  <2>5. OneDepositPerReviewer'
    BY <2>3
  <2>6. ASSUME NEW q \in Receipts, NEW b \in Reviewers, credited'[q][b] > 0
        PROVE receipt'[q] \in {"approved", "rejected"} /\ review'[b] # q
    <3>1. CASE q = r /\ b = a
      BY <2>4, <3>1, NoneAssumption DEF TypeOK
    <3>2. CASE q # r \/ b # a
      <4>1. receipt[q] \in {"approved", "rejected"} /\ review[b] # q
        BY <2>3, <2>6, <3>2
      <4> QED
        BY <2>4, <4>1, NoneAssumption DEF TypeOK
    <3> QED
      BY <3>1, <3>2
  <2> QED
    BY <2>5, <2>6
<1>5. ASSUME NEW a \in Reviewers, RejectPayment(a)
      PROVE (OneDepositPerReviewer /\ DepositIsBehind)'
  BY <1>5, NoneAssumption DEF RejectPayment, TypeOK
<1>6. ASSUME NEW a \in Reviewers, ThrowReview(a)
      PROVE (OneDepositPerReviewer /\ DepositIsBehind)'
  BY <1>6, NoneAssumption DEF ThrowReview, TypeOK
<1>7. CASE Restart
  BY <1>7, NoneAssumption DEF Restart, TypeOK
<1> QED
  BY <1>1, <1>2, <1>3, <1>4, <1>5, <1>6, <1>7, OnlineStepsLeaveReceipts DEF Next, vars

\* However approvals, rejections and restarts interleave, one reviewer deposits
\* the credit of a receipt at most once.
THEOREM ReviewerDepositsOnce == Spec => []OneDepositPerReviewer
<1> QED
  BY ReceiptInit, ReceiptStep, TypeCorrect, PTL DEF Spec, ReceiptInv

\* Inductive for the receipts a sole reviewer decides.
SoleInv == ReceiptInv /\ ReceiptCreditMatchesDecision /\ HeldIsPending

LEMMA SoleStep == SoleInv /\ [Next]_vars => (ReceiptCreditMatchesDecision /\ HeldIsPending)'
<1> SUFFICES ASSUME SoleInv, [Next]_vars
             PROVE (ReceiptCreditMatchesDecision /\ HeldIsPending)'
  OBVIOUS
<1> USE ReviewersAssumption DEF SoleInv, ReceiptInv, ReceiptCreditMatchesDecision, HeldIsPending
<1>1. CASE UNCHANGED manualVars
  BY <1>1 DEF manualVars
<1>2. ASSUME NEW r \in Receipts, SubmitReceipt(r)
      PROVE (ReceiptCreditMatchesDecision /\ HeldIsPending)'
  <2>1. Sole(r) => \A a \in Reviewers : credited[r][a] = 0
    BY <1>2 DEF SubmitReceipt, None
  <2> QED
    BY <1>2, <2>1, NoneAssumption DEF SubmitReceipt, TypeOK
<1>3. ASSUME NEW a \in Reviewers, NEW r \in Receipts, ReadPending(a, r)
      PROVE (ReceiptCreditMatchesDecision /\ HeldIsPending)'
  BY <1>3 DEF ReadPending, TypeOK
<1>4. ASSUME NEW a \in Reviewers, ApprovePayment(a) \/ RejectPayment(a)
      PROVE (ReceiptCreditMatchesDecision /\ HeldIsPending)'
  <2>1. PICK r \in Receipts : review[a] = r
    BY <1>4 DEF ApprovePayment, RejectPayment, TypeOK
  <2>2. /\ a \in ReviewersOf[r]
        /\ credited[r][a] = 0
        /\ Sole(r) => receipt[r] = "pending" /\ \A b \in Reviewers : credited[r][b] = 0
    BY <2>1, NoneAssumption DEF DepositIsBehind, TypeOK
  <2>3. /\ review' = [review EXCEPT ![a] = None]
        /\ \A b \in Reviewers : review'[b] # None => b # a /\ review'[b] = review[b]
    BY <1>4 DEF ApprovePayment, RejectPayment, TypeOK
  <2>4. \A b \in Reviewers : Sole(r) /\ review'[b] # None => review'[b] # r
    BY <2>1, <2>2, <2>3, NoneAssumption DEF Sole
  <2>5. CASE RejectPayment(a)
    <3>1. receipt' = [receipt EXCEPT ![r] = "rejected"] /\ UNCHANGED credited
      BY <2>1, <2>5 DEF RejectPayment
    <3>2. HeldIsPending'
      BY <2>3, <2>4, <3>1 DEF TypeOK
    <3> QED
      BY <2>2, <3>1, <3>2 DEF TypeOK
  <2>6. CASE ApprovePayment(a)
    <3>1. /\ receipt' = [receipt EXCEPT ![r] = "approved"]
          /\ credited'[r][a] = 1
          /\ \A b \in Reviewers : b # a => credited'[r][b] = credited[r][b]
          /\ \A q \in Receipts : q # r => credited'[q] = credited[q]
      BY <2>1, <2>2, <2>6 DEF ApprovePayment, TypeOK
    <3>2. receipt'[r] = "approved" /\ \A q \in Receipts : q # r => receipt'[q] = receipt[q]
      BY <3>1 DEF TypeOK
    <3>3. ASSUME NEW q \in Receipts, NEW b \in Reviewers, credited'[q][b] > 0
          PROVE b \in ReviewersOf[q]
      <4>1. CASE q = r /\ b = a
        BY <2>2, <4>1
      <4>2. CASE ~(q = r /\ b = a)
        <5>1. credited'[q][b] = credited[q][b]
          BY <3>1, <4>2
        <5> QED
          BY <3>3, <5>1
      <4> QED
        BY <4>1, <4>2
    <3>4. \A b \in Reviewers : review'[b] # None =>
             /\ b \in ReviewersOf[review'[b]]
             /\ Sole(review'[b]) => receipt'[review'[b]] = "pending"
      BY <2>3, <2>4, <3>2 DEF TypeOK
    <3>5. HeldIsPending'
      BY <3>3, <3>4 DEF Sole
    <3>6. ReceiptCreditMatchesDecision'
      BY <2>2, <3>1, <3>2 DEF Sole
    <3> QED
      BY <3>5, <3>6
  <2> QED
    BY <1>4, <2>5, <2>6
<1>5. ASSUME NEW a \in Reviewers, ThrowReview(a)
      PROVE (ReceiptCreditMatchesDecision /\ HeldIsPending)'
  BY <1>5 DEF ThrowReview, TypeOK
<1>6. CASE Restart
  BY <1>6 DEF Restart, TypeOK
<1> QED
  BY <1>1, <1>2, <1>3, <1>4, <1>5, <1>6, OnlineStepsLeaveReceipts DEF Next, vars

\* The deposits of a receipt whose arm has one reviewer at work agree with its
\* decision: exactly one when it is approved, none when it is rejected.
THEOREM SoleReviewerIsExact == Spec => []ReceiptCreditMatchesDecision
<1>1. Init => ReceiptCreditMatchesDecision /\ HeldIsPending
  BY DEF Init, ReceiptCreditMatchesDecision, HeldIsPending, None
<1> QED
  BY <1>1, ReceiptInit, ReceiptStep, SoleStep, TypeCorrect, PTL DEF Spec, SoleInv, ReceiptInv

-----------------------------------------------------------------------------
(* Corollaries, and the rest of the invariants *)

\* A purchase shown as 'success' has its deposit row, whatever callbacks verifyPayment is
\* handling at the same time and wherever one of them is cut off.
THEOREM SettlesAtOnce == Spec => []SettledTogether
<1>1. CreditOnlyAfterPayment /\ SettledTogether => SettledTogether
  OBVIOUS
<1> QED
  BY <1>1, CreditIsBacked, PTL

\* A receipt nobody decided gave no credit and an approved one did, whoever else
\* decides it and wherever approvePayment is cut off.
THEOREM ApprovalDeposits == Spec => []DepositFollowsApproval
<1> DEFINE ApprovedHasDeposit ==
               \A r \in Receipts : receipt[r] = "approved" => \E a \in Reviewers : credited[r][a] > 0
           I == ReceiptInv /\ ApprovedHasDeposit
<1>1. Init => ApprovedHasDeposit
  BY DEF Init, None
<1>2. I /\ TypeOK' /\ [Next]_vars => ApprovedHasDeposit'
  <2> SUFFICES ASSUME I, TypeOK', [Next]_vars PROVE ApprovedHasDeposit'
    OBVIOUS
  <2> USE DEF ReceiptInv
  <2>1. CASE UNCHANGED manualVars
    BY <2>1 DEF manualVars
  <2>2. CASE \E r \in Receipts : SubmitReceipt(r) \/ \E a \in Reviewers : ReadPending(a, r)
    BY <2>2 DEF SubmitReceipt, ReadPending, TypeOK
  <2>3. ASSUME NEW a \in Reviewers, ApprovePayment(a) PROVE ApprovedHasDeposit'
    <3>1. PICK r \in Receipts : review[a] = r
      BY <2>3 DEF ApprovePayment, TypeOK
    <3>2. /\ receipt' = [receipt EXCEPT ![r] = "approved"]
          /\ credited'[r][a] = credited[r][a] + 1 /\ credited[r][a] \in Nat
          /\ \A q \in Receipts \ {r} : credited'[q] = credited[q]
      BY <2>3, <3>1 DEF ApprovePayment, TypeOK
    <3> QED
      BY <3>2 DEF TypeOK
  <2>4. ASSUME NEW a \in Reviewers, RejectPayment(a) \/ ThrowReview(a) PROVE ApprovedHasDeposit'
    BY <2>4 DEF RejectPayment, ThrowReview, TypeOK
  <2>5. CASE Restart
    BY <2>5 DEF Restart
  <2> QED
    BY <2>1, <2>2, <2>3, <2>4, <2>5, OnlineStepsLeaveReceipts DEF Next, vars
<1>3. I => DepositFollowsApproval
  BY DEF ReceiptInv, DepositIsBehind, DepositFollowsApproval, TypeOK, None
<1> HIDE DEF ApprovedHasDeposit
<1> QED
  BY <1>1, <1>2, <1>3, ReceiptInit, ReceiptStep, TypeCorrect, PTL DEF Spec, ReceiptInv

\* The gateway's callback always finds its row: the URL the user pays at is handed out
\* only once the authority is stored.
THEOREM CallbackFindsRow == Spec => []NoOrphanCallback
<1> DEFINE I == NoOrphanCallback /\ \A p \in Purchases : initiate[p] = "answered" => ref[p]
<1>1. Init => I
  BY DEF Init, NoOrphanCallback
<1>2. I /\ TypeOK /\ [Next]_vars => I'
  <2> SUFFICES ASSUME I, TypeOK, [Next]_vars PROVE I'
    OBVIOUS
  <2> USE DEF NoOrphanCallback
  <2>1. CASE UNCHANGED <<initiate, ref, sent>>
    BY <2>1
  <2>2. ASSUME NEW p \in Purchases,
               \/ \E g \in Gateways : CreateRow(p, g)
               \/ OpenSession(p)
               \/ ThrowInitiate(p)
        PROVE  I'
    BY <2>2 DEF CreateRow, OpenSession, ThrowInitiate, TypeOK
  <2>3. ASSUME NEW p \in Purchases, StoreReference(p) PROVE I'
    <3>1. \A q \in Purchases : ref[q] => ref'[q]
      BY <2>3 DEF StoreReference, TypeOK
    <3>2. sent' = sent /\ \A call \in sent : call[1] \in Purchases
      BY <2>3 DEF StoreReference, TypeOK
    <3> QED
      BY <2>3, <3>1, <3>2 DEF StoreReference, TypeOK
  <2>4. ASSUME NEW p \in Purchases,
               Pay(p) \/ \E status \in {"NOK", "blank"} : Cancel(p, status)
        PROVE  I'
    BY <2>4 DEF Pay, Cancel
  <2>5. ASSUME \/ \E p \in Purchases : Reverse(p)
               \/ \E c \in Callbacks :
                     \/ \E p \in Purchases, status \in {"OK", "NOK", "blank"} : FindTransaction(c, p, status)
                     \/ MarkFailed(c) \/ AskGateway(c) \/ CommitVerified(c)
                     \/ RecordRefusal(c) \/ ThrowVerify(c)
               \/ \E r \in Receipts : SubmitReceipt(r)
               \/ \E a \in Reviewers : \/ \E r \in Receipts : ReadPending(a, r)
                                       \/ ApprovePayment(a) \/ RejectPayment(a) \/ ThrowReview(a)
               \/ UNCHANGED vars
        PROVE  UNCHANGED <<initiate, ref, sent>>
    BY <2>5 DEF Reverse, FindTransaction, MarkFailed, AskGateway, CommitVerified, RecordRefusal,
                ThrowVerify, SubmitReceipt, ReadPending, ApprovePayment, RejectPayment,
                ThrowReview, onlineVars, vars
  <2>6. CASE Restart
    BY <2>6 DEF Restart, TypeOK
  <2> QED
    BY <2>1, <2>2, <2>3, <2>4, <2>5, <2>6 DEF Next
<1>3. I => NoOrphanCallback
  OBVIOUS
<1> HIDE DEF I
<1> QED
  BY <1>1, <1>2, <1>3, TypeCorrect, PTL DEF Spec

-----------------------------------------------------------------------------
(* Both ways of buying implement the ledger *)

\* The step lemma of the online refinement: AskGateway finalizes, CommitVerified grants,
\* MarkFailed denies, and every other step stutters.
LEMMA OnlineSimulates == OnlineInv /\ TypeOK' /\ [Next]_vars => [Online!Next]_(Online!vars)
<1> SUFFICES ASSUME OnlineInv, TypeOK', [Next]_vars PROVE [Online!Next]_(Online!vars)
  OBVIOUS
<1> DEFINE F == {p \in Purchases : session[p] = "verified"}
           S == {p \in Purchases : row[p] = "success"}
           C == {p \in Purchases : deposit[p] > 0}
<1> USE DEF OnlineInv, Online!Next, Online!vars
<1>1. CASE F' = F /\ S' = S /\ C' = C
  BY <1>1
<1>2. CASE \E p \in Purchases : F' = F \union {p} /\ S' = S /\ C' = C
  BY <1>1, <1>2 DEF Online!Finalize
<1>3. CASE \E p \in F : F' = F /\ S' = S \union {p} /\ C' = C \union {p}
  BY <1>3 DEF Online!Grant
<1>4. CASE \E p \in Purchases : F' = F /\ S' = S \ {p} /\ C' = C
  BY <1>1, <1>4 DEF Online!Deny
<1>5. ASSUME NEW p \in Purchases, NEW g \in Gateways, CreateRow(p, g)
      PROVE [Online!Next]_(Online!vars)
  <2>1. F' = F /\ C' = C
    BY <1>5 DEF CreateRow
  <2>2. S' = S \ {p}
    BY <1>5 DEF CreateRow, TypeOK
  <2> QED
    BY <1>4, <2>1, <2>2
<1>6. ASSUME NEW p \in Purchases,
             \/ OpenSession(p)
             \/ Pay(p)
             \/ \E status \in {"NOK", "blank"} : Cancel(p, status)
             \/ Reverse(p)
      PROVE [Online!Next]_(Online!vars)
  <2>1. S' = S /\ C' = C
    BY <1>6 DEF OpenSession, Pay, Cancel, Reverse
  <2>2. session[p] # "verified"
    BY <1>6 DEF OpenSession, Pay, Cancel, Reverse, ConfirmedIsFinal, None
  <2>3. \E s \in {"open", "paid", "cancelled", "reversed"} : session' = [session EXCEPT ![p] = s]
    BY <1>6 DEF OpenSession, Pay, Cancel, Reverse
  <2>4. F' = F
    BY <2>2, <2>3 DEF TypeOK
  <2> QED
    BY <1>1, <2>1, <2>4
<1>7. ASSUME NEW c \in Callbacks, MarkFailed(c) PROVE [Online!Next]_(Online!vars)
  <2>1. cbOf[c] \in Purchases /\ F' = F /\ C' = C
    BY <1>7 DEF MarkFailed, TypeOK
  <2>2. S' = S \ {cbOf[c]}
    BY <1>7, <2>1 DEF MarkFailed, TypeOK
  <2> QED
    BY <1>4, <2>1, <2>2
<1>8. ASSUME NEW c \in Callbacks, AskGateway(c) PROVE [Online!Next]_(Online!vars)
  <2>1. cbOf[c] \in Purchases /\ S' = S /\ C' = C
    BY <1>8 DEF AskGateway, TypeOK
  <2>2. session' = session \/ session' = [session EXCEPT ![cbOf[c]] = "verified"]
    BY <1>8 DEF AskGateway
  <2>3. F' = F \/ F' = F \union {cbOf[c]}
    BY <2>1, <2>2 DEF TypeOK
  <2> QED
    BY <1>1, <1>2, <2>1, <2>3
<1>9. ASSUME NEW c \in Callbacks, CommitVerified(c) PROVE [Online!Next]_(Online!vars)
  <2>1. cbOf[c] \in F /\ F' = F
    BY <1>9 DEF CommitVerified, ConfirmedIsFinal, TypeOK
  <2>2. S' = S \union {cbOf[c]}
    BY <1>9, <2>1 DEF CommitVerified, TypeOK
  <2>3. C' = C \union {cbOf[c]}
    BY <1>9, <2>1 DEF CommitVerified, TypeOK
  <2> QED
    BY <1>3, <2>1, <2>2, <2>3
<1>10. ASSUME \/ \E p \in Purchases : ThrowInitiate(p) \/ StoreReference(p)
              \/ \E c \in Callbacks :
                    \/ \E p \in Purchases, status \in {"OK", "NOK", "blank"} :
                          FindTransaction(c, p, status)
                    \/ RecordRefusal(c)
                    \/ ThrowVerify(c)
              \/ \E r \in Receipts : SubmitReceipt(r)
              \/ \E a \in Reviewers : \/ \E r \in Receipts : ReadPending(a, r)
                                      \/ ApprovePayment(a) \/ RejectPayment(a) \/ ThrowReview(a)
              \/ Restart
              \/ UNCHANGED vars
       PROVE [Online!Next]_(Online!vars)
  <2>1. UNCHANGED <<session, row, deposit>>
    BY <1>10 DEF ThrowInitiate, StoreReference, FindTransaction, RecordRefusal, ThrowVerify,
                 SubmitReceipt, ReadPending, ApprovePayment, RejectPayment, ThrowReview,
                 Restart, onlineVars, vars
  <2> QED
    BY <1>1, <2>1
<1> QED
  BY <1>5, <1>6, <1>7, <1>8, <1>9, <1>10 DEF Next

\* Online purchases implement the ledger: initiatePurchase and verifyPayment only ever
\* settle money the gateway has made final, status and deposit at once, and never take
\* a deposit back, for any number of late, repeated, lost and crashed callbacks.
THEOREM OnlineImplementsLedger == Spec => OnlineIsLedger
<1>1. Init => Online!Init
  BY DEF Init, Online!Init, None
<1> QED
  BY <1>1, OnlineInit, OnlineStep, OnlineSimulates, TypeCorrect, PTL
     DEF Spec, OnlineIsLedger, Online!Spec

\* A receipt a reviewer holds was handed in: what makes a late decision a step of the ledger.
HeldIsSubmitted == \A a \in Reviewers : review[a] # None => receipt[review[a]] # None

ManualInv == ReceiptInv /\ HeldIsSubmitted

LEMMA HeldStep == ManualInv /\ [Next]_vars => HeldIsSubmitted'
<1> SUFFICES ASSUME ManualInv, [Next]_vars PROVE HeldIsSubmitted'
  OBVIOUS
<1> USE NoneAssumption DEF ManualInv, ReceiptInv, HeldIsSubmitted
<1>1. CASE UNCHANGED manualVars
  BY <1>1 DEF manualVars
<1>2. ASSUME NEW r \in Receipts, SubmitReceipt(r) PROVE HeldIsSubmitted'
  BY <1>2 DEF SubmitReceipt, TypeOK, None
<1>3. ASSUME NEW a \in Reviewers, NEW r \in Receipts, ReadPending(a, r) PROVE HeldIsSubmitted'
  BY <1>3 DEF ReadPending, TypeOK, None
<1>4. ASSUME NEW a \in Reviewers, ApprovePayment(a) \/ RejectPayment(a) \/ ThrowReview(a)
      PROVE HeldIsSubmitted'
  BY <1>4 DEF ApprovePayment, RejectPayment, ThrowReview, TypeOK, None
<1>5. CASE Restart
  BY <1>5 DEF Restart
<1> QED
  BY <1>1, <1>2, <1>3, <1>4, <1>5, OnlineStepsLeaveReceipts DEF Next, vars

\* The step lemma of the receipts' refinement: SubmitReceipt finalizes, ApprovePayment
\* grants, RejectPayment denies, and every other step stutters.
LEMMA ManualSimulates == ManualInv /\ [Next]_vars => [Manual!Next]_(Manual!vars)
<1> SUFFICES ASSUME ManualInv, [Next]_vars PROVE [Manual!Next]_(Manual!vars)
  OBVIOUS
<1> DEFINE F == {r \in Receipts : receipt[r] # None}
           S == {r \in Receipts : receipt[r] = "approved"}
           C == {r \in Receipts : \E a \in Reviewers : credited[r][a] > 0}
<1> USE DEF ManualInv, ReceiptInv, HeldIsSubmitted, Manual!Next, Manual!vars
<1>1. CASE F' = F /\ S' = S /\ C' = C
  BY <1>1
<1>2. CASE \E r \in Receipts : F' = F \union {r} /\ S' = S /\ C' = C
  BY <1>1, <1>2 DEF Manual!Finalize
<1>3. CASE \E r \in F : F' = F /\ S' = S \union {r} /\ C' = C \union {r}
  BY <1>3 DEF Manual!Grant
<1>4. CASE \E r \in Receipts : F' = F /\ S' = S \ {r} /\ C' = C
  BY <1>1, <1>4 DEF Manual!Deny
<1>5. ASSUME NEW r \in Receipts, SubmitReceipt(r) PROVE [Manual!Next]_(Manual!vars)
  <2>1. F' = F \union {r}
    BY <1>5 DEF SubmitReceipt, TypeOK, None
  <2>2. S' = S /\ C' = C
    BY <1>5 DEF SubmitReceipt, TypeOK, None
  <2> QED
    BY <1>2, <2>1, <2>2
<1>6. ASSUME NEW a \in Reviewers, ApprovePayment(a) PROVE [Manual!Next]_(Manual!vars)
  <2>1. PICK r \in Receipts : review[a] = r
    BY <1>6 DEF ApprovePayment, TypeOK
  <2>2. /\ receipt' = [receipt EXCEPT ![r] = "approved"]
        /\ credited'[r][a] = credited[r][a] + 1 /\ credited[r][a] \in Nat
        /\ \A q \in Receipts \ {r} : credited'[q] = credited[q]
    BY <1>6, <2>1 DEF ApprovePayment, TypeOK
  <2>3. receipt[r] # None
    BY <2>1, NoneAssumption
  <2>4. r \in F /\ F' = F
    BY <2>2, <2>3 DEF TypeOK, None
  <2>5. S' = S \union {r}
    BY <2>2 DEF TypeOK
  <2>6. credited'[r][a] > 0
    BY <2>2
  <2>7. C' = C \union {r}
    BY <2>2, <2>6
  <2> QED
    BY <1>3, <2>4, <2>5, <2>7
<1>7. ASSUME NEW a \in Reviewers, RejectPayment(a) PROVE [Manual!Next]_(Manual!vars)
  <2>1. PICK r \in Receipts : review[a] = r
    BY <1>7 DEF RejectPayment, TypeOK
  <2>2. receipt' = [receipt EXCEPT ![r] = "rejected"] /\ C' = C
    BY <1>7, <2>1 DEF RejectPayment
  <2>3. receipt[r] # None
    BY <2>1, NoneAssumption
  <2>4. F' = F
    BY <2>2, <2>3 DEF TypeOK, None
  <2>5. S' = S \ {r}
    BY <2>2 DEF TypeOK
  <2> QED
    BY <1>4, <2>2, <2>4, <2>5
<1>8. CASE UNCHANGED <<receipt, credited>>
  BY <1>1, <1>8
<1>9. ASSUME \/ \E a \in Reviewers : ThrowReview(a) \/ \E r \in Receipts : ReadPending(a, r)
             \/ Restart
             \/ UNCHANGED vars
      PROVE  UNCHANGED <<receipt, credited>>
  BY <1>9 DEF ThrowReview, ReadPending, Restart, manualVars, vars
<1>10. UNCHANGED manualVars => UNCHANGED <<receipt, credited>>
  BY DEF manualVars
<1> QED
  BY <1>5, <1>6, <1>7, <1>8, <1>9, <1>10, OnlineStepsLeaveReceipts DEF Next

\* Receipts implement the ledger too: a receipt is credited only after it was handed in,
\* in one step with its approval, and a late rejection never takes the deposit back,
\* for any number of admins deciding the same receipts.
THEOREM ManualImplementsLedger == Spec => ManualIsLedger
<1>1. Init => Manual!Init /\ HeldIsSubmitted
  BY DEF Init, Manual!Init, HeldIsSubmitted, None
<1> QED
  BY <1>1, ReceiptInit, ReceiptStep, HeldStep, ManualSimulates, TypeCorrect, PTL
     DEF Spec, ManualIsLedger, Manual!Spec, ReceiptInv, ManualInv

\* What the ledger promises of its states, for the deposits of both ways: a purchase or a
\* receipt that is shown as paid for has given its credit, and only one whose money is
\* final has, whatever late refusal or rejection has changed what is shown of it.
THEOREM DepositsAreBacked == Spec => [](Online!Backed /\ Manual!Backed)
<1>1. /\ Online!Init => Online!Backed
      /\ Manual!Init => Manual!Backed
  BY DEF Online!Init, Online!Backed, Manual!Init, Manual!Backed
<1>2. Online!Backed /\ [Online!Next]_(Online!vars) => Online!Backed'
  BY DEF Online!Backed, Online!Next, Online!vars, Online!Finalize, Online!Grant, Online!Deny
<1>3. Manual!Backed /\ [Manual!Next]_(Manual!vars) => Manual!Backed'
  BY DEF Manual!Backed, Manual!Next, Manual!vars, Manual!Finalize, Manual!Grant, Manual!Deny
<1>4. Online!Spec => []Online!Backed
  BY <1>1, <1>2, PTL DEF Online!Spec
<1>5. Manual!Spec => []Manual!Backed
  BY <1>1, <1>3, PTL DEF Manual!Spec
<1>6. Spec => Online!Spec /\ Manual!Spec
  BY OnlineImplementsLedger, ManualImplementsLedger DEF OnlineIsLedger, ManualIsLedger
<1> QED
  BY <1>4, <1>5, <1>6, PTL

-----------------------------------------------------------------------------
(* Sums over finite sets.  SumFunctionOnSet is a fold: a function on the subsets of    *)
(* the set that CHOOSE picks.  What it adds up to is shown by induction on the set, in    *)
(* the form of a smallest counterexample: a set of subsets of a finite set has a      *)
(* minimal member, because strict inclusion is well-founded on finite sets.           *)

\* Among subsets of a finite set there is always one with no other below it.
LEMMA SmallestSet ==
    ASSUME NEW S, IsFiniteSet(S), NEW F, F \subseteq SUBSET S, F # {}
    PROVE  \E T \in F : \A U \in F : U \subseteq T => U = T
<1>1. IsWellFoundedOn(StrictSubsetOrdering(S), FiniteSubsetsOf(S))
  BY FS_StrictSubsetOrderingWellFounded
<1>2. F \subseteq FiniteSubsetsOf(S)
  BY FS_Subset DEF FiniteSubsetsOf
<1>3. PICK T \in F : \A U \in F : ~(<<U, T>> \in StrictSubsetOrdering(S))
  BY <1>1, <1>2, WFMin
<1>4. ASSUME NEW U \in F, U \subseteq T, U # T PROVE FALSE
  BY <1>3, <1>4 DEF StrictSubsetOrdering
<1> QED
  BY <1>4

\* The sum of the weights w of the members of S.
Sum(w, S) == SumFunctionOnSet(w, S)
\* The library's fold with its parts named: the element it takes out next, what it
\* says of one set, that a function says it of every subset, and the function it uses.
Picked(S) == CHOOSE x \in S : TRUE
Body(w, f, s) == IF s = {} THEN 0 ELSE w[Picked(s)] + f[s \ {Picked(s)}]
IsFold(w, S, f) == f = [s \in SUBSET S |-> Body(w, f, s)]
Fold(w, S) == CHOOSE f : IsFold(w, S, f)

\* The sum is the fold, taken at the whole set.
LEMMA SumIsFold == ASSUME NEW w, NEW S PROVE Sum(w, S) = Fold(w, S)[S]
BY DEF Sum, SumFunctionOnSet, FoldFunctionOnSet, MapThenFoldSet, Fold, IsFold, Body, Picked

\* A fold is determined: two functions that satisfy its equation agree on every subset.
LEMMA FoldUnique ==
    ASSUME NEW w, NEW S, IsFiniteSet(S), NEW f, NEW g, IsFold(w, S, f), IsFold(w, S, g),
           NEW T \in SUBSET S
    PROVE  f[T] = g[T]
<1> DEFINE F == {s \in SUBSET S : f[s] # g[s]}
<1> SUFFICES ASSUME F # {} PROVE FALSE
  OBVIOUS
<1>1. PICK s \in F : \A U \in F : U \subseteq s => U = s
  <2> HIDE DEF F
  <2>1. F \subseteq SUBSET S
    BY DEF F
  <2> QED
    BY <2>1, SmallestSet
<1>2. f[s] = Body(w, f, s) /\ g[s] = Body(w, g, s)
  BY DEF IsFold
<1>3. s # {}
  BY <1>2 DEF Body
<1>4. Picked(s) \in s
  BY <1>3 DEF Picked
<1>5. f[s \ {Picked(s)}] = g[s \ {Picked(s)}]
  BY <1>1, <1>4
<1> QED
  BY <1>2, <1>5 DEF Body

\* So any function that satisfies the equation computes the sum.
LEMMA FoldIs ==
    ASSUME NEW w, NEW S, IsFiniteSet(S), NEW f, IsFold(w, S, f)
    PROVE  Sum(w, S) = f[S]
<1>1. IsFold(w, S, Fold(w, S))
  BY DEF Fold
<1>2. S \in SUBSET S
  OBVIOUS
<1>3. Fold(w, S)[S] = f[S]
  BY <1>1, <1>2, FoldUnique
<1> QED
  BY <1>3, SumIsFold

\* The recursive equation a sum is expected to satisfy.
Unfolds(w, s) == Sum(w, s) = IF s = {} THEN 0 ELSE w[Picked(s)] + Sum(w, s \ {Picked(s)})

\* It does, for every finite set: the sums of the smaller sets, glued together, are a fold.
LEMMA FoldStep ==
    ASSUME NEW w, NEW S, IsFiniteSet(S)
    PROVE  Unfolds(w, S)
<1> DEFINE F == {s \in SUBSET S : ~Unfolds(w, s)}
<1> SUFFICES ASSUME F # {} PROVE FALSE
  OBVIOUS
<1>1. PICK T \in F : \A U \in F : U \subseteq T => U = T
  <2> HIDE DEF F
  <2>1. F \subseteq SUBSET S
    BY DEF F
  <2> QED
    BY <2>1, SmallestSet
<1>2. \A s \in SUBSET T : s # T => Unfolds(w, s)
  BY <1>1
<1> DEFINE top == IF T = {} THEN 0 ELSE w[Picked(T)] + Sum(w, T \ {Picked(T)})
           f == [s \in SUBSET T |-> IF s = T THEN top ELSE Sum(w, s)]
<1>3. ASSUME NEW s \in SUBSET T PROVE f[s] = Body(w, f, s)
  <2>1. CASE s = {}
    <3>1. CASE T = {}
      BY <2>1, <3>1 DEF Body
    <3>2. CASE T # {}
      BY <1>2, <2>1, <3>2 DEF Body, Unfolds
    <3> QED
      BY <3>1, <3>2
  <2>2. CASE s # {}
    <3>1. Picked(s) \in s
      BY <2>2 DEF Picked
    <3>2. s \ {Picked(s)} # T /\ s \ {Picked(s)} \in SUBSET T
      BY <3>1
    <3>3. f[s \ {Picked(s)}] = Sum(w, s \ {Picked(s)})
      BY <3>2
    <3>4. CASE s = T
      BY <2>2, <3>3, <3>4 DEF Body
    <3>5. CASE s # T
      <4>1. f[s] = Sum(w, s)
        BY <3>5
      <4>2. Unfolds(w, s)
        BY <1>2, <3>5
      <4> QED
        BY <2>2, <3>3, <4>1, <4>2 DEF Body, Unfolds
    <3> QED
      BY <3>4, <3>5
  <2> QED
    BY <2>1, <2>2
<1>4. IsFold(w, T, f)
  <2>1. f = [s \in SUBSET T |-> f[s]]
    OBVIOUS
  <2> HIDE DEF f
  <2> QED
    BY <1>3, <2>1 DEF IsFold
<1>5. IsFiniteSet(T)
  BY FS_Subset
<1>6. Sum(w, T) = f[T]
  <2> HIDE DEF f
  <2> QED
    BY <1>4, <1>5, FoldIs
<1>7. Unfolds(w, T)
  BY <1>6 DEF Unfolds
<1> QED
  BY <1>7

\* Nothing adds up to nothing.
LEMMA SumOfNone == ASSUME NEW w PROVE Sum(w, {}) = 0
<1>1. Unfolds(w, {})
  BY FoldStep, FS_EmptySet
<1> QED
  BY <1>1 DEF Unfolds

\* The shares of these rows are natural numbers.
Natural(w, S) == \A i \in S : w[i] \in Nat

\* Then so is their sum.
LEMMA SumType ==
    ASSUME NEW w, NEW S, IsFiniteSet(S), Natural(w, S)
    PROVE  Sum(w, S) \in Nat
<1> DEFINE F == {s \in SUBSET S : Sum(w, s) \notin Nat}
<1> SUFFICES ASSUME F # {} PROVE FALSE
  OBVIOUS
<1>1. PICK T \in F : \A U \in F : U \subseteq T => U = T
  <2> HIDE DEF F
  <2>1. F \subseteq SUBSET S
    BY DEF F
  <2> QED
    BY <2>1, SmallestSet
<1>2. Unfolds(w, T)
  BY FoldStep, FS_Subset
<1>3. T # {}
  BY <1>2 DEF Unfolds
<1>4. Picked(T) \in T
  BY <1>3 DEF Picked
<1>5. Sum(w, T \ {Picked(T)}) \in Nat /\ w[Picked(T)] \in Nat
  BY <1>1, <1>4 DEF Natural
<1> QED
  BY <1>2, <1>3, <1>5 DEF Unfolds

\* Any member may be taken out first, not only the one the fold picks.
LEMMA SumTakes ==
    ASSUME NEW w, NEW S, IsFiniteSet(S), Natural(w, S), NEW x \in S
    PROVE  Sum(w, S) = w[x] + Sum(w, S \ {x})
<1> DEFINE F == {s \in SUBSET S : \E y \in s : Sum(w, s) # w[y] + Sum(w, s \ {y})}
<1> SUFFICES ASSUME F # {} PROVE FALSE
  OBVIOUS
<1>1. PICK T \in F : \A U \in F : U \subseteq T => U = T
  <2> HIDE DEF F
  <2>1. F \subseteq SUBSET S
    BY DEF F
  <2> QED
    BY <2>1, SmallestSet
<1>2. PICK y \in T : Sum(w, T) # w[y] + Sum(w, T \ {y})
  OBVIOUS
<1>3. Unfolds(w, T)
  BY FoldStep, FS_Subset
<1>4. PICK z \in T : Sum(w, T) = w[z] + Sum(w, T \ {z})
  <2>1. Picked(T) \in T
    BY <1>2 DEF Picked
  <2> QED
    BY <1>2, <1>3, <2>1 DEF Unfolds
<1>6. y # z
  BY <1>2, <1>4
<1>7. Sum(w, T \ {z}) = w[y] + Sum(w, (T \ {z}) \ {y})
  <2>1. y \in T \ {z} /\ T \ {z} \in SUBSET S /\ T \ {z} # T
    BY <1>4, <1>6
  <2>2. T \ {z} \notin F
    <3> HIDE DEF F
    <3> QED
      BY <1>1, <2>1
  <2> QED
    BY <2>1, <2>2
<1>8. Sum(w, T \ {y}) = w[z] + Sum(w, (T \ {y}) \ {z})
  <2>1. z \in T \ {y} /\ T \ {y} \in SUBSET S /\ T \ {y} # T
    BY <1>2, <1>4, <1>6
  <2>2. T \ {y} \notin F
    <3> HIDE DEF F
    <3> QED
      BY <1>1, <2>1
  <2> QED
    BY <2>1, <2>2
<1>9. (T \ {y}) \ {z} = (T \ {z}) \ {y}
  OBVIOUS
<1>10. /\ w[y] \in Nat /\ w[z] \in Nat
       /\ Sum(w, (T \ {y}) \ {z}) \in Nat
  <2>1. IsFiniteSet((T \ {y}) \ {z}) /\ Natural(w, (T \ {y}) \ {z})
    BY FS_Subset DEF Natural
  <2> QED
    BY <1>2, <1>4, <2>1, SumType DEF Natural
<1>11. Sum(w, T) = w[y] + Sum(w, T \ {y})
  <2> DEFINE rest == Sum(w, (T \ {z}) \ {y})
  <2>1. Sum(w, T) = w[z] + (w[y] + rest)
    BY <1>4, <1>7
  <2>2. Sum(w, T \ {y}) = w[z] + rest
    BY <1>8, <1>9
  <2>3. rest \in Nat
    BY <1>9, <1>10
  <2> HIDE DEF rest, F
  <2> QED
    BY <1>10, <2>1, <2>2, <2>3
<1> QED
  BY <1>2, <1>11

\* A row more adds its share.
LEMMA SumAdds ==
    ASSUME NEW w, NEW S, IsFiniteSet(S), NEW x, x \notin S, Natural(w, S \union {x})
    PROVE  Sum(w, S \union {x}) = Sum(w, S) + w[x]
<1>1. IsFiniteSet(S \union {x})
  BY FS_AddElement
<1>2. (S \union {x}) \ {x} = S
  OBVIOUS
<1>3. Sum(w, S \union {x}) = w[x] + Sum(w, S)
  BY <1>1, <1>2, SumTakes
<1>4. Sum(w, S) \in Nat /\ w[x] \in Nat
  BY SumType DEF Natural
<1> QED
  BY <1>3, <1>4

\* A sum depends on nothing but the shares of its rows.
LEMMA SumSame ==
    ASSUME NEW w, NEW v, NEW S, IsFiniteSet(S), \A i \in S : w[i] = v[i]
    PROVE  Sum(w, S) = Sum(v, S)
<1> DEFINE F == {s \in SUBSET S : Sum(w, s) # Sum(v, s)}
<1> SUFFICES ASSUME F # {} PROVE FALSE
  OBVIOUS
<1>1. PICK T \in F : \A U \in F : U \subseteq T => U = T
  <2> HIDE DEF F
  <2>1. F \subseteq SUBSET S
    BY DEF F
  <2> QED
    BY <2>1, SmallestSet
<1>2. Unfolds(w, T) /\ Unfolds(v, T)
  BY FoldStep, FS_Subset
<1>3. T # {}
  BY <1>2 DEF Unfolds
<1>4. Picked(T) \in T
  BY <1>3 DEF Picked
<1>5. Sum(w, T \ {Picked(T)}) = Sum(v, T \ {Picked(T)})
  BY <1>1, <1>4
<1> QED
  BY <1>2, <1>4, <1>5 DEF Unfolds

\* Sums of disjoint sets of rows add up.
LEMMA SumUnion ==
    ASSUME NEW w, NEW A, NEW B, IsFiniteSet(A), IsFiniteSet(B), A \intersect B = {},
           Natural(w, A), Natural(w, B)
    PROVE  Sum(w, A \union B) = Sum(w, A) + Sum(w, B)
<1> DEFINE F == {b \in SUBSET B : Sum(w, A \union b) # Sum(w, A) + Sum(w, b)}
<1> SUFFICES ASSUME F # {} PROVE FALSE
  OBVIOUS
<1>1. PICK T \in F : \A U \in F : U \subseteq T => U = T
  <2> HIDE DEF F
  <2>1. F \subseteq SUBSET B
    BY DEF F
  <2> QED
    BY <2>1, SmallestSet
<1>2. Sum(w, A) \in Nat
  BY SumType
<1>3. T # {}
  <2>1. A \union {} = A
    OBVIOUS
  <2>2. Sum(w, {}) = 0
    BY SumOfNone
  <2>3. {} \notin F
    BY <1>2, <2>1, <2>2
  <2> QED
    BY <2>3
<1>4. PICK x \in T : TRUE
  BY <1>3
<1>5. /\ T \ {x} \in SUBSET B /\ T \ {x} # T /\ x \in B /\ x \notin A
      /\ x \notin T \ {x} /\ x \notin A \union (T \ {x})
  BY <1>4
<1>6. Sum(w, A \union (T \ {x})) = Sum(w, A) + Sum(w, T \ {x})
  BY <1>1, <1>5
<1>7. /\ IsFiniteSet(T \ {x}) /\ IsFiniteSet(A \union (T \ {x}))
      /\ Natural(w, T) /\ Natural(w, A \union T) /\ Natural(w, T \ {x})
  BY <1>5, FS_Subset, FS_Union DEF Natural
<1>8. T = (T \ {x}) \union {x} /\ A \union T = (A \union (T \ {x})) \union {x}
  BY <1>4
<1>9. Sum(w, T) = Sum(w, T \ {x}) + w[x]
  BY <1>5, <1>7, <1>8, SumAdds
<1>10. Sum(w, A \union T) = Sum(w, A \union (T \ {x})) + w[x]
  BY <1>5, <1>7, <1>8, SumAdds
<1>11. Sum(w, T \ {x}) \in Nat /\ w[x] \in Nat
  BY <1>4, <1>7, SumType DEF Natural
<1>12. Sum(w, A \union T) = Sum(w, A) + Sum(w, T)
  <2> HIDE DEF F
  <2> QED
    BY <1>2, <1>6, <1>9, <1>10, <1>11
<1> QED
  BY <1>12

\* Fewer rows are worth no more.
LEMMA SumMonotone ==
    ASSUME NEW w, NEW B, IsFiniteSet(B), Natural(w, B), NEW A \in SUBSET B
    PROVE  Sum(w, A) <= Sum(w, B)
<1>1. /\ IsFiniteSet(A) /\ IsFiniteSet(B \ A) /\ Natural(w, A) /\ Natural(w, B \ A)
      /\ A \intersect (B \ A) = {} /\ A \union (B \ A) = B
  BY FS_Subset DEF Natural
<1>2. Sum(w, B) = Sum(w, A) + Sum(w, B \ A)
  BY <1>1, SumUnion
<1>3. Sum(w, A) \in Nat /\ Sum(w, B \ A) \in Nat
  BY <1>1, SumType
<1> QED
  BY <1>2, <1>3

\* Sets of rows that overlap are worth no more together than one after the other.
LEMMA SumUnionAtMost ==
    ASSUME NEW w, NEW A, NEW B, IsFiniteSet(A), IsFiniteSet(B), Natural(w, A), Natural(w, B)
    PROVE  Sum(w, A \union B) <= Sum(w, A) + Sum(w, B)
<1>1. /\ IsFiniteSet(B \ A) /\ Natural(w, B \ A)
      /\ A \intersect (B \ A) = {} /\ A \union (B \ A) = A \union B
  BY FS_Subset DEF Natural
<1>2. Sum(w, A \union B) = Sum(w, A) + Sum(w, B \ A)
  BY <1>1, SumUnion
<1>3. Sum(w, B \ A) <= Sum(w, B)
  BY SumMonotone
<1>4. Sum(w, A) \in Nat /\ Sum(w, B) \in Nat /\ Sum(w, B \ A) \in Nat
  BY <1>1, SumType
<1> QED
  BY <1>2, <1>3, <1>4

\* Sums of weights that add up member by member add up.
LEMMA SumOfSums ==
    ASSUME NEW S, IsFiniteSet(S), NEW w, NEW v, NEW u, Natural(w, S), Natural(v, S),
           \A i \in S : u[i] = w[i] + v[i]
    PROVE  Sum(u, S) = Sum(w, S) + Sum(v, S)
<1> DEFINE F == {s \in SUBSET S : Sum(u, s) # Sum(w, s) + Sum(v, s)}
<1> SUFFICES ASSUME F # {} PROVE FALSE
  OBVIOUS
<1>1. PICK T \in F : \A U \in F : U \subseteq T => U = T
  <2> HIDE DEF F
  <2>1. F \subseteq SUBSET S
    BY DEF F
  <2> QED
    BY <2>1, SmallestSet
<1>2. Unfolds(w, T) /\ Unfolds(v, T) /\ Unfolds(u, T)
  BY FoldStep, FS_Subset
<1>3. T # {}
  BY <1>2 DEF Unfolds
<1> DEFINE x == Picked(T)
           rest == T \ {x}
<1>4. x \in T /\ x \in S
  BY <1>3 DEF Picked
<1>5. Sum(u, rest) = Sum(w, rest) + Sum(v, rest)
  BY <1>1, <1>4
<1>6. /\ Sum(w, T) = w[x] + Sum(w, rest)
      /\ Sum(v, T) = v[x] + Sum(v, rest)
      /\ Sum(u, T) = w[x] + v[x] + Sum(u, rest)
  BY <1>2, <1>3, <1>4 DEF Unfolds
<1>7. w[x] \in Nat /\ v[x] \in Nat /\ Sum(w, rest) \in Nat /\ Sum(v, rest) \in Nat
  BY <1>4, FS_Subset, SumType DEF Natural
<1>8. Sum(u, T) = Sum(w, T) + Sum(v, T)
  <2> HIDE DEF F, x, rest
  <2> QED
    BY <1>5, <1>6, <1>7
<1> QED
  BY <1>8

-----------------------------------------------------------------------------
(* Arithmetic, and the rows a settlement marks. *)

\* Rounding down to a multiple of b loses less than b.
LEMMA Division ==
    ASSUME NEW a \in Nat, NEW b \in Nat \ {0}
    PROVE  /\ a \div b \in Nat
           /\ (a \div b) * b \in Nat
           /\ (a \div b) * b <= a
           /\ a < (a \div b) * b + b
<1>1. a \div b \in Nat
  OBVIOUS
<1>2. (a \div b) * b <= a
  OBVIOUS
<1>3. a < (a \div b) * b + b
  OBVIOUS
<1> QED
  BY <1>1, <1>2, <1>3

\* More credits are more parts.
LEMMA MoreUnits == ASSUME NEW a \in Nat, NEW b \in Nat, a <= b PROVE a * Unit <= b * Unit
BY UnitAssumption

\* Any rows have a first one: < is well-founded on the naturals.
LEMMA FirstOne ==
    ASSUME NEW S, S # {}, \A i \in S : i \in Nat
    PROVE  \E m \in S : \A i \in S : m <= i
<1>1. PICK m \in S : \A i \in S : ~(<<i, m>> \in OpToRel(<, Nat))
  BY NatLessThanWellFounded, WFMin
<1>2. \A i \in S : ~(i < m)
  BY <1>1 DEF OpToRel
<1> QED
  BY <1>2

\* A row of connectionRequestLog.
Row == [share : Shares, settled : BOOLEAN]

\* Shared, of any log l and not only of the current one; Low, Real and High are what its
\* rows are worth at least, exactly and at most, and Slack is the error of each.
SharedIn(l, e) == [i \in DOMAIN l |-> l[i].share + e]
Low(l) == SharedIn(l, -Err)
Real(l) == SharedIn(l, 0)
High(l) == SharedIn(l, Err)
Slack(l) == [i \in DOMAIN l |-> Err]

\* What the sum lemmas ask for holds of any rows of a log.
LEMMA RowsNatural ==
    ASSUME NEW l \in Seq(Row), NEW rows \in SUBSET DOMAIN l
    PROVE  /\ IsFiniteSet(rows) /\ \A i \in rows : i \in Nat
           /\ Natural(Low(l), rows) /\ Natural(Real(l), rows)
           /\ Natural(High(l), rows) /\ Natural(Slack(l), rows)
           /\ \A i \in rows : /\ Real(l)[i] = Low(l)[i] + Slack(l)[i]
                              /\ High(l)[i] = Real(l)[i] + Slack(l)[i]
                              /\ High(l)[i] <= MaxShare + Err
                              /\ Slack(l)[i] = Err
<1>1. DOMAIN l = 1..Len(l) /\ Len(l) \in Nat
  OBVIOUS
<1>2. IsFiniteSet(DOMAIN l)
  BY <1>1, FS_Interval
<1>3. IsFiniteSet(rows) /\ \A i \in rows : i \in Nat
  BY <1>1, <1>2, FS_Subset
<1>4. ASSUME NEW i \in rows
      PROVE  /\ i \in DOMAIN l
             /\ l[i].share \in Nat /\ Err < l[i].share /\ l[i].share <= MaxShare
  <2>1. i \in 1..Len(l)
    BY <1>1
  <2>2. l[i] \in Row
    BY <2>1
  <2>3. l[i].share \in Shares
    BY <2>2 DEF Row
  <2>4. Err \in Nat /\ MaxShare \in Nat /\ l[i].share \in (Err + 1) .. MaxShare
    BY <2>3, SharesAssumption
  <2> QED
    BY <2>4
<1>5. ASSUME NEW i \in rows
      PROVE  /\ Low(l)[i] = l[i].share - Err /\ Real(l)[i] = l[i].share
             /\ High(l)[i] = l[i].share + Err /\ Slack(l)[i] = Err
  BY <1>4, SharesAssumption DEF Low, Real, High, Slack, SharedIn
<1> QED
  BY <1>3, <1>4, <1>5, SharesAssumption DEF Natural

\* So a sum lies as far below the most as it lies above the least.
LEMMA Sums ==
    ASSUME NEW l \in Seq(Row), NEW rows \in SUBSET DOMAIN l
    PROVE  /\ Sum(Low(l), rows) \in Nat /\ Sum(Real(l), rows) \in Nat
           /\ Sum(High(l), rows) \in Nat /\ Sum(Slack(l), rows) \in Nat
           /\ Sum(Real(l), rows) = Sum(Low(l), rows) + Sum(Slack(l), rows)
           /\ Sum(High(l), rows) = Sum(Real(l), rows) + Sum(Slack(l), rows)
<1>1. /\ IsFiniteSet(rows)
      /\ Natural(Low(l), rows) /\ Natural(Real(l), rows)
      /\ Natural(High(l), rows) /\ Natural(Slack(l), rows)
      /\ \A i \in rows : Real(l)[i] = Low(l)[i] + Slack(l)[i]
      /\ \A i \in rows : High(l)[i] = Real(l)[i] + Slack(l)[i]
  BY RowsNatural
<1>2. /\ Sum(Low(l), rows) \in Nat /\ Sum(Real(l), rows) \in Nat
      /\ Sum(High(l), rows) \in Nat /\ Sum(Slack(l), rows) \in Nat
  BY <1>1, SumType
<1>3. Sum(Real(l), rows) = Sum(Low(l), rows) + Sum(Slack(l), rows)
  BY <1>1, SumOfSums
<1>4. Sum(High(l), rows) = Sum(Real(l), rows) + Sum(Slack(l), rows)
  BY <1>1, SumOfSums
<1> QED
  BY <1>2, <1>3, <1>4

\* What the code may make of some rows, and which of them it may then mark.
PayablesIn(l, rows) == (Sum(Low(l), rows) \div Unit) .. (Sum(High(l), rows) \div Unit)
CoveringsIn(l, rows, whole) ==
    {oldest \in {UpTo(rows, i) : i \in 0 .. Len(l)} :
        /\ Sum(Low(l), oldest) <= whole * Unit
        /\ \A i \in rows \ oldest : Sum(High(l), UpTo(rows, i)) > whole * Unit}

\* What is paid lies between the sums, up to a credit.
LEMMA PayableFacts ==
    ASSUME NEW l \in Seq(Row), NEW rows \in SUBSET DOMAIN l, NEW whole \in PayablesIn(l, rows)
    PROVE  /\ whole \in Nat /\ whole * Unit \in Nat
           /\ whole * Unit <= Sum(High(l), rows)
           /\ Sum(Low(l), rows) < whole * Unit + Unit
<1> DEFINE a == Sum(Low(l), rows)
           b == Sum(High(l), rows)
<1>1. a \in Nat /\ b \in Nat
  BY Sums
<1>2. whole \in (a \div Unit) .. (b \div Unit)
  BY DEF PayablesIn
<1> HIDE DEF a, b
<1>3. /\ a \div Unit \in Nat /\ (a \div Unit) * Unit \in Nat /\ a < (a \div Unit) * Unit + Unit
      /\ b \div Unit \in Nat /\ (b \div Unit) * Unit \in Nat /\ (b \div Unit) * Unit <= b
  BY <1>1, Division, UnitAssumption
<1>4. whole \in Nat /\ a \div Unit <= whole /\ whole <= b \div Unit
  BY <1>2, <1>3
<1>5. (a \div Unit) * Unit <= whole * Unit /\ whole * Unit <= (b \div Unit) * Unit
  BY <1>3, <1>4, MoreUnits
<1>6. whole * Unit \in Nat
  BY <1>4, UnitAssumption
<1>7. whole * Unit <= b /\ a < whole * Unit + Unit
  BY <1>1, <1>3, <1>5, <1>6, UnitAssumption
<1> QED
  BY <1>4, <1>6, <1>7 DEF a, b

\* The rows that are marked are all, or one more would be too much.
LEMMA CoveringFacts ==
    ASSUME NEW l \in Seq(Row), NEW rows \in SUBSET DOMAIN l, NEW whole \in Nat,
           NEW p \in CoveringsIn(l, rows, whole)
    PROVE  /\ p \in SUBSET rows /\ Sum(Low(l), p) <= whole * Unit
           /\ p = rows \/ whole * Unit < Sum(High(l), p) + (MaxShare + Err)
<1>1. PICK k \in 0 .. Len(l) : p = UpTo(rows, k)
  BY DEF CoveringsIn
<1>2. /\ Sum(Low(l), p) <= whole * Unit
      /\ \A i \in rows \ p : Sum(High(l), UpTo(rows, i)) > whole * Unit
  BY DEF CoveringsIn
<1>3. p \in SUBSET rows /\ p \in SUBSET DOMAIN l
  BY <1>1 DEF UpTo
<1>4. ASSUME p # rows PROVE whole * Unit < Sum(High(l), p) + (MaxShare + Err)
  <2>1. rows \ p # {} /\ \A i \in rows \ p : i \in Nat
    BY <1>3, <1>4, RowsNatural
  <2>2. PICK m \in rows \ p : \A i \in rows \ p : m <= i
    BY <2>1, FirstOne
  <2>3. p \union {m} \in SUBSET DOMAIN l /\ m \notin p
    BY <1>3, <2>2
  <2>4. UpTo(rows, m) \subseteq p \union {m} /\ UpTo(rows, m) \in SUBSET DOMAIN l
    <3>1. \A j \in rows : j \in Nat
      BY RowsNatural
    <3> QED
      BY <2>2, <3>1 DEF UpTo
  <2>5. Sum(High(l), UpTo(rows, m)) <= Sum(High(l), p \union {m})
    BY <2>3, <2>4, RowsNatural, SumMonotone
  <2>6. Sum(High(l), p \union {m}) = Sum(High(l), p) + High(l)[m]
    BY <1>3, <2>3, RowsNatural, SumAdds
  <2>7. High(l)[m] \in Nat /\ High(l)[m] <= MaxShare + Err
    BY <2>3, RowsNatural DEF Natural
  <2>8. whole * Unit < Sum(High(l), UpTo(rows, m))
    BY <1>2, <2>2
  <2>9. /\ Sum(High(l), p) \in Nat /\ Sum(High(l), UpTo(rows, m)) \in Nat
        /\ whole * Unit \in Nat /\ MaxShare + Err \in Nat
    BY <1>3, <2>4, Sums, UnitAssumption, SharesAssumption
  <2> QED
    BY <2>5, <2>6, <2>7, <2>8, <2>9
<1> QED
  BY <1>2, <1>3, <1>4

\* A settlement pays less than a share more than it marks.
LEMMA OverpaidLittle ==
    ASSUME NEW l \in Seq(Row), NEW rows \in SUBSET DOMAIN l, NEW whole \in PayablesIn(l, rows),
           NEW p \in CoveringsIn(l, rows, whole)
    PROVE  whole * Unit <= Sum(High(l), p) + (MaxShare + Err)
<1>1. /\ whole \in Nat /\ whole * Unit \in Nat
      /\ whole * Unit <= Sum(High(l), rows)
  BY PayableFacts
<1>2. p \in SUBSET rows /\ (p = rows \/ whole * Unit < Sum(High(l), p) + (MaxShare + Err))
  BY <1>1, CoveringFacts
<1>3. Sum(High(l), p) \in Nat /\ Sum(High(l), rows) \in Nat /\ MaxShare + Err \in Nat
  BY <1>2, Sums, SharesAssumption
<1> QED
  BY <1>1, <1>2, <1>3

\* What it leaves of the rows it read is below a credit and a share, up to rounding.
LEMMA RestIsLittle ==
    ASSUME NEW l \in Seq(Row), NEW rows \in SUBSET DOMAIN l, NEW whole \in PayablesIn(l, rows),
           NEW p \in CoveringsIn(l, rows, whole)
    PROVE  Sum(Real(l), rows \ p) < Unit + MaxShare + 2 * Sum(Slack(l), DOMAIN l)
<1> DEFINE r == rows \ p
<1>1. whole \in Nat /\ whole * Unit \in Nat /\ Sum(Low(l), rows) < whole * Unit + Unit
  BY PayableFacts
<1>2. p \in SUBSET rows /\ (p = rows \/ whole * Unit < Sum(High(l), p) + (MaxShare + Err))
  BY <1>1, CoveringFacts
<1>3. /\ p \in SUBSET DOMAIN l /\ r \in SUBSET DOMAIN l
      /\ p \union r = rows /\ p \intersect r = {} /\ rows \union DOMAIN l = DOMAIN l
  BY <1>2
<1>4. CASE r = {}
  <2>1. Sum(Real(l), r) = 0
    BY <1>4, SumOfNone
  <2>2. Sum(Slack(l), DOMAIN l) \in Nat
    BY Sums
  <2> QED
    BY <2>1, <2>2, UnitAssumption, SharesAssumption
<1>5. CASE r # {}
  <2>1. PICK i \in r : TRUE
    BY <1>5
  <2>2. p # rows
    BY <1>2, <2>1
  <2> HIDE DEF r
  <2>3. /\ IsFiniteSet(p) /\ IsFiniteSet(r) /\ IsFiniteSet(rows) /\ IsFiniteSet(DOMAIN l)
        /\ Natural(Low(l), p) /\ Natural(Low(l), r)
        /\ Natural(Slack(l), p) /\ Natural(Slack(l), r) /\ Natural(Slack(l), DOMAIN l)
        /\ Slack(l)[i] = Err
    BY <1>3, <2>1, RowsNatural
  <2>4. Sum(Low(l), rows) = Sum(Low(l), p) + Sum(Low(l), r)
    BY <1>3, <2>3, SumUnion
  <2>5. Sum(Slack(l), rows) = Sum(Slack(l), p) + Sum(Slack(l), r)
    BY <1>3, <2>3, SumUnion
  <2>6. Sum(Slack(l), rows) <= Sum(Slack(l), DOMAIN l)
    BY <2>3, SumMonotone
  <2>7. Err <= Sum(Slack(l), r)
    <3>1. Sum(Slack(l), r) = Slack(l)[i] + Sum(Slack(l), r \ {i})
      BY <2>1, <2>3, SumTakes
    <3>2. Sum(Slack(l), r \ {i}) \in Nat
      <4>1. r \ {i} \in SUBSET DOMAIN l
        BY <1>3
      <4> QED
        BY <4>1, Sums
    <3> QED
      BY <2>3, <3>1, <3>2, SharesAssumption
  <2>8. /\ Sum(Low(l), p) \in Nat /\ Sum(Low(l), r) \in Nat
        /\ Sum(Slack(l), p) \in Nat /\ Sum(Slack(l), r) \in Nat
        /\ Sum(Slack(l), rows) \in Nat /\ Sum(Slack(l), DOMAIN l) \in Nat
        /\ Sum(High(l), p) = Sum(Low(l), p) + 2 * Sum(Slack(l), p)
        /\ Sum(Real(l), r) = Sum(Low(l), r) + Sum(Slack(l), r)
    BY <1>3, Sums
  <2>9. whole * Unit < Sum(High(l), p) + (MaxShare + Err)
    BY <1>2, <2>2
  <2>10. Sum(Low(l), p) + Sum(Low(l), r) < whole * Unit + Unit
    BY <1>1, <2>4
  <2>11. Sum(Slack(l), p) + Sum(Slack(l), r) <= Sum(Slack(l), DOMAIN l)
    BY <2>5, <2>6
  <2>12. /\ Unit \in Nat /\ MaxShare \in Nat /\ Err \in Nat
         /\ whole * Unit < Sum(Low(l), p) + 2 * Sum(Slack(l), p) + MaxShare + Err
    BY <1>1, <2>8, <2>9, UnitAssumption, SharesAssumption
  <2> DEFINE a == Sum(Low(l), p)
             b == Sum(Low(l), r)
             s == Sum(Slack(l), p)
             t == Sum(Slack(l), r)
             z == Sum(Slack(l), DOMAIN l)
             w == whole * Unit
  <2>13. /\ a \in Nat /\ b \in Nat /\ s \in Nat /\ t \in Nat /\ z \in Nat /\ w \in Nat
         /\ w < a + 2 * s + MaxShare + Err /\ a + b < w + Unit /\ Err <= t /\ s + t <= z
    BY <1>1, <2>7, <2>8, <2>10, <2>11, <2>12
  <2>14. Sum(Real(l), r) = b + t
    BY <2>8
  <2> HIDE DEF a, b, s, t, z, w
  <2>15. b + t < Unit + MaxShare + 2 * z
    BY <2>12, <2>13
  <2> QED
    BY <2>14, <2>15 DEF r, z
<1> QED
  BY <1>4, <1>5 DEF r

-----------------------------------------------------------------------------
(* The steps of the settlement. *)

\* The operators of the specification are those of this module, at the current log.
LEMMA TotalIsSum ==
    \A rows : /\ Total(rows) = Sum(Real(log), rows)
              /\ Least(rows) = Sum(Low(log), rows) /\ Most(rows) = Sum(High(log), rows)
BY DEF Total, Least, Most, Sum, Shared, SharedIn, Real, Low, High

\* The same for what a settlement pays, and for the rows it marks.
LEMMA CoveringsAre ==
    /\ \A rows : Payables(rows) = PayablesIn(log, rows)
    /\ \A rows, whole : Coverings(rows, whole) = CoveringsIn(log, rows, whole)
<1>1. \A rows : Least(rows) = Sum(Low(log), rows) /\ Most(rows) = Sum(High(log), rows)
  BY TotalIsSum
<1>2. \A rows, i : Most(UpTo(rows, i)) = Sum(High(log), UpTo(rows, i))
  BY <1>1
<1>3. \A rows : Payables(rows) = PayablesIn(log, rows)
  BY <1>1 DEF Payables, PayablesIn
<1>4. ASSUME NEW rows, NEW whole
      PROVE  Coverings(rows, whole) = CoveringsIn(log, rows, whole)
  BY <1>1, <1>2 DEF Coverings, CoveringsIn, Prefixes
<1> QED
  BY <1>3, <1>4

\* ReferralTypeOK over Sum, which says of the next state what it says of this one.
SettledTyped ==
    /\ log \in Seq(Row)
    /\ rewards \in Nat /\ paid \in Nat
    /\ pc \in [Calls -> {"idle", "logged", "pay", "mark"}]
    /\ unpaid \in [Calls -> SUBSET DOMAIN log]
    /\ payable \in [Calls -> Nat]
    /\ \A c \in Calls : IF pc[c] \in {"pay", "mark"}
                        THEN payable[c] \in PayablesIn(log, unpaid[c]) \ {0}
                        ELSE unpaid[c] = {} /\ payable[c] = 0
    /\ mishap \subseteq {"overlap", "unmarked", "unread"}

\* The log grows and rows are marked; no share ever changes.
KeepsShares(l, m) ==
    DOMAIN l \subseteq DOMAIN m /\ \A i \in DOMAIN l : m[i].share = l[i].share

\* So no sum over rows that were there changes.
LEMMA SumKept ==
    ASSUME NEW l \in Seq(Row), NEW m \in Seq(Row), KeepsShares(l, m), NEW rows \in SUBSET DOMAIN l
    PROVE  /\ Sum(Low(m), rows) = Sum(Low(l), rows)
           /\ Sum(Real(m), rows) = Sum(Real(l), rows)
           /\ Sum(High(m), rows) = Sum(High(l), rows)
           /\ PayablesIn(m, rows) = PayablesIn(l, rows)
<1>1. \A i \in rows : /\ Low(l)[i] = Low(m)[i] /\ Real(l)[i] = Real(m)[i]
                      /\ High(l)[i] = High(m)[i]
  BY DEF KeepsShares, Low, Real, High, SharedIn
<1>2. IsFiniteSet(rows)
  BY RowsNatural
<1>3. Sum(Low(l), rows) = Sum(Low(m), rows)
  BY <1>1, <1>2, SumSame
<1>4. Sum(Real(l), rows) = Sum(Real(m), rows)
  BY <1>1, <1>2, SumSame
<1>5. Sum(High(l), rows) = Sum(High(m), rows)
  BY <1>1, <1>2, SumSame
<1> QED
  BY <1>3, <1>4, <1>5 DEF PayablesIn

\* A new request adds one row, unsettled.
LEMMA LogFacts ==
    ASSUME log \in Seq(Row), NEW c \in Calls, NEW s \in Shares, LogRequest(c, s)
    PROVE  /\ log' \in Seq(Row) /\ KeepsShares(log, log')
           /\ Settled' = Settled
           /\ \E n : DOMAIN log' = DOMAIN log \union {n} /\ n \notin DOMAIN log
<1> DEFINE new == [share |-> s, settled |-> FALSE]
<1>1. new \in Row /\ ~new.settled
  BY DEF Row
<1>2. log' = Append(log, new) /\ Len(log) \in Nat
  BY DEF LogRequest
<1> HIDE DEF new
<1>3. /\ log' \in Seq(Row) /\ DOMAIN log = 1..Len(log) /\ DOMAIN log' = 1..(Len(log) + 1)
      /\ \A i \in 1..Len(log) : log'[i] = log[i]
      /\ log'[Len(log) + 1] = new
  BY <1>1, <1>2
<1>4. KeepsShares(log, log')
  BY <1>2, <1>3 DEF KeepsShares
<1>5. DOMAIN log' = DOMAIN log \union {Len(log) + 1} /\ Len(log) + 1 \notin DOMAIN log
  BY <1>2, <1>3
<1>6. Settled' = Settled
  BY <1>1, <1>2, <1>3, <1>5 DEF Settled
<1> QED
  BY <1>3, <1>4, <1>5, <1>6

\* Marking settles the covered rows and leaves the others as they were.
LEMMA MarkFacts ==
    ASSUME log \in Seq(Row), NEW c \in Calls, MarkSettled(c)
    PROVE  /\ log' \in Seq(Row) /\ KeepsShares(log, log') /\ DOMAIN log' = DOMAIN log
           /\ \E covered \in CoveringsIn(log, unpaid[c], payable[c]) :
                 Settled' = Settled \union (DOMAIN log \intersect covered)
<1>1. PICK covered \in CoveringsIn(log, unpaid[c], payable[c]) :
           log' = [i \in DOMAIN log |-> [log[i] EXCEPT !.settled = log[i].settled \/ i \in covered]]
  BY CoveringsAre DEF MarkSettled
<1>2. DOMAIN log = 1..Len(log) /\ Len(log) \in Nat
  OBVIOUS
<1>3. ASSUME NEW i \in DOMAIN log
      PROVE  /\ log'[i] \in Row /\ log'[i].share = log[i].share
             /\ log'[i].settled <=> log[i].settled \/ i \in covered
  <2>1. log[i] \in Row
    BY <1>2
  <2>2. log'[i] = [log[i] EXCEPT !.settled = log[i].settled \/ i \in covered]
    BY <1>1
  <2>3. (log[i].settled \/ i \in covered) \in BOOLEAN
    OBVIOUS
  <2> QED
    BY <2>1, <2>2, <2>3 DEF Row
<1>4. DOMAIN log' = DOMAIN log
  BY <1>1
<1>5. log' \in Seq(Row)
  <2>1. log' \in [1..Len(log) -> Row]
    BY <1>1, <1>2, <1>3
  <2> QED
    BY <1>2, <2>1
<1>6. KeepsShares(log, log')
  BY <1>3, <1>4 DEF KeepsShares
<1>7. Settled' = Settled \union (DOMAIN log \intersect covered)
  BY <1>3, <1>4 DEF Settled
<1> QED
  BY <1>4, <1>5, <1>6, <1>7

\* A settlement that reads finds every unsettled row, and makes whole credits of them or
\* returns.
LEMMA ReadFacts ==
    ASSUME SettledTyped, NEW c \in Calls, ReadUnpaid(c)
    PROVE  /\ log' = log /\ rewards' = rewards /\ paid' = paid /\ Unsettled \in SUBSET DOMAIN log
           /\ \A d \in Calls \ {c} : /\ pc'[d] = pc[d] /\ unpaid'[d] = unpaid[d]
                                     /\ payable'[d] = payable[d]
           /\ mishap \subseteq mishap' /\ mishap' \subseteq mishap \union {"overlap"}
           /\ pc[c] = "logged"
           /\ \/ /\ pc' = [pc EXCEPT ![c] = "pay"]
                 /\ unpaid' = [unpaid EXCEPT ![c] = Unsettled]
                 /\ \E whole \in PayablesIn(log, Unsettled) \ {0} :
                       payable' = [payable EXCEPT ![c] = whole]
                 /\ Settling # {} => "overlap" \in mishap'
              \/ /\ pc' = [pc EXCEPT ![c] = "idle"] /\ unpaid' = unpaid /\ payable' = payable
                 /\ Sum(Low(log), Unsettled) < Unit
<1>1. Unsettled \in SUBSET DOMAIN log /\ log \in Seq(Row)
  BY DEF Unsettled, SettledTyped
<1>2. PICK whole \in PayablesIn(log, Unsettled) :
         IF Owes(whole)
         THEN /\ pc' = [pc EXCEPT ![c] = "pay"]
              /\ unpaid' = [unpaid EXCEPT ![c] = Unsettled]
              /\ payable' = [payable EXCEPT ![c] = whole]
              /\ mishap' = IF Settling = {} THEN mishap ELSE mishap \union {"overlap"}
         ELSE /\ pc' = [pc EXCEPT ![c] = "idle"]
              /\ UNCHANGED <<unpaid, payable, mishap>>
  BY CoveringsAre DEF ReadUnpaid, Found
<1>3. log' = log /\ rewards' = rewards /\ paid' = paid /\ pc[c] = "logged"
  BY DEF ReadUnpaid
<1>4. whole \in Nat /\ Sum(Low(log), Unsettled) < whole * Unit + Unit
  BY <1>1, PayableFacts
<1>5. CASE whole >= 1
  BY <1>1, <1>2, <1>3, <1>4, <1>5 DEF Owes, SettledTyped
<1>6. CASE ~(whole >= 1)
  <2>1. whole * Unit = 0
    BY <1>4, <1>6, UnitAssumption
  <2>2. Sum(Low(log), Unsettled) < Unit
    BY <1>4, <2>1, UnitAssumption
  <2> QED
    BY <1>1, <1>2, <1>3, <1>6, <2>2 DEF Owes, SettledTyped
<1> QED
  BY <1>4, <1>5, <1>6

\* No step takes a row away or changes its share.
LEMMA StepKeeps ==
    ASSUME SettledTyped, [ReferralNext]_referralVars
    PROVE  log' \in Seq(Row) /\ KeepsShares(log, log')
<1>1. CASE \E c \in Calls, s \in Shares : LogRequest(c, s)
  BY <1>1, LogFacts DEF SettledTyped
<1>2. CASE \E c \in Calls : MarkSettled(c)
  BY <1>2, MarkFacts DEF SettledTyped
<1>3. CASE log' = log
  BY <1>3 DEF SettledTyped, KeepsShares
<1> QED
  BY <1>1, <1>2, <1>3 DEF ReferralNext, referralVars, ReadUnpaid, CreateReward, Throw, LoseSettlements

\* Every step keeps the types.
LEMMA SettledTypedStep == SettledTyped /\ [ReferralNext]_referralVars => SettledTyped'
<1> SUFFICES ASSUME SettledTyped, [ReferralNext]_referralVars PROVE SettledTyped'
  OBVIOUS
<1>1. log' \in Seq(Row) /\ KeepsShares(log, log') /\ DOMAIN log \subseteq DOMAIN log'
  BY StepKeeps DEF KeepsShares
<1>2. \A rows \in SUBSET DOMAIN log : PayablesIn(log', rows) = PayablesIn(log, rows)
  BY <1>1, SumKept DEF SettledTyped
<1>3. \A c \in Calls : unpaid[c] \in SUBSET DOMAIN log /\ unpaid[c] \in SUBSET DOMAIN log'
  BY <1>1 DEF SettledTyped
<1>4. \A c \in Calls : PayablesIn(log', unpaid[c]) = PayablesIn(log, unpaid[c])
  BY <1>2, <1>3
<1> USE <1>1, <1>3, <1>4 DEF SettledTyped
<1>5. ASSUME NEW c \in Calls, NEW s \in Shares, LogRequest(c, s) PROVE SettledTyped'
  BY <1>5 DEF LogRequest
<1>6. ASSUME NEW c \in Calls, ReadUnpaid(c) PROVE SettledTyped'
  <2>1. log' = log /\ rewards' = rewards /\ paid' = paid /\ Unsettled \in SUBSET DOMAIN log
    BY <1>6, ReadFacts
  <2>2. mishap' \subseteq {"overlap", "unmarked", "unread"}
    BY <1>6, ReadFacts
  <2>3. CASE /\ pc' = [pc EXCEPT ![c] = "pay"]
             /\ unpaid' = [unpaid EXCEPT ![c] = Unsettled]
             /\ \E whole \in PayablesIn(log, Unsettled) \ {0} :
                   payable' = [payable EXCEPT ![c] = whole]
    <3>1. PICK whole \in PayablesIn(log, Unsettled) \ {0} :
             payable' = [payable EXCEPT ![c] = whole]
      BY <2>3
    <3>2. whole \in Nat
      BY <2>1, PayableFacts
    <3> QED
      BY <2>1, <2>2, <2>3, <3>1, <3>2
  <2>4. CASE pc' = [pc EXCEPT ![c] = "idle"] /\ unpaid' = unpaid /\ payable' = payable
    <3>1. pc[c] = "logged"
      BY <1>6, ReadFacts
    <3> QED
      BY <2>1, <2>2, <2>4, <3>1
  <2> QED
    BY <1>6, <2>3, <2>4, ReadFacts
<1>7. ASSUME NEW c \in Calls, CreateReward(c) PROVE SettledTyped'
  <2>1. paid' \in Nat /\ rewards' \in Nat
    BY <1>7 DEF CreateReward
  <2> QED
    BY <1>7, <2>1 DEF CreateReward
<1>8. ASSUME NEW c \in Calls, MarkSettled(c) PROVE SettledTyped'
  BY <1>8 DEF MarkSettled, EndRequest
<1>9. ASSUME NEW c \in Calls, Throw(c) PROVE SettledTyped'
  BY <1>9 DEF Throw, EndRequest, LeftBy
<1>10. ASSUME LoseSettlements PROVE SettledTyped'
  BY <1>10 DEF LoseSettlements, LeftBy
<1>11. ASSUME UNCHANGED referralVars PROVE SettledTyped'
  BY <1>11 DEF referralVars
<1> QED
  BY <1>5, <1>6, <1>7, <1>8, <1>9, <1>10, <1>11 DEF ReferralNext

\* The type invariant of the settlements: a settlement that is under way holds rows of the
\* log and an amount they may come to, a credit or more, and a slot that is not settling
\* holds none, whichever awaits of settleReferrerEarnings other requests, errors and crashes
\* come between.
THEOREM ReferralTypeCorrect == ReferralSpec => []ReferralTypeOK
<1>1. ReferralInit => SettledTyped
  BY UnitAssumption DEF ReferralInit, SettledTyped
<1>2. SettledTyped => ReferralTypeOK
  BY CoveringsAre DEF SettledTyped, ReferralTypeOK, Row
<1> QED
  BY <1>1, <1>2, SettledTypedStep, PTL DEF ReferralSpec

-----------------------------------------------------------------------------
\* A settlement that has paid and not marked yet.
Marking == {c \in Calls : pc[c] = "mark"}

\* What each of them is still to mark, at most.
Due == [c \in Calls |-> payable[c] * Unit]

\* What is marked and what is being marked was paid.
Backed ==
    /\ IsFiniteSet(Marking)
    /\ Sum(Low(log), Settled) + Sum(Due, Marking) <= paid * Unit

\* What is due is a natural number of parts.
LEMMA DueNatural == SettledTyped => \A calls \in SUBSET Calls : Natural(Due, calls)
BY UnitAssumption DEF SettledTyped, Natural, Due

\* Paying credits pays their parts.
LEMMA PayUnits == ASSUME NEW a \in Nat, NEW b \in Nat PROVE (a + b) * Unit = a * Unit + b * Unit
BY UnitAssumption

\* A step that leaves what is marked and who is marking as it was, or less.
LEMMA BackedKept ==
    ASSUME SettledTyped, SettledTyped', Backed, KeepsShares(log, log'),
           Settled' = Settled, paid' = paid, Marking' \subseteq Marking,
           \A c \in Marking' : payable'[c] = payable[c]
    PROVE  Backed'
<1>1. IsFiniteSet(Marking) /\ IsFiniteSet(Marking') /\ Marking \subseteq Calls
  BY FS_Subset DEF Backed, Marking
<1>2. Sum(Low(log'), Settled) = Sum(Low(log), Settled)
  BY SumKept DEF SettledTyped, Settled
<1>3. \A c \in Marking' : Due'[c] = Due[c]
  BY <1>1 DEF Due
<1>4. Sum(Due', Marking') = Sum(Due, Marking')
  BY <1>1, <1>3, SumSame
<1>5. Sum(Due, Marking') <= Sum(Due, Marking)
  BY <1>1, DueNatural, SumMonotone
<1>6. Sum(Due, Marking') \in Nat /\ Sum(Due, Marking) \in Nat /\ Sum(Low(log), Settled) \in Nat
  BY <1>1, DueNatural, SumType, Sums DEF SettledTyped, Settled
<1>7. paid * Unit \in Nat
  BY UnitAssumption DEF SettledTyped
<1>8. Sum(Low(log), Settled) + Sum(Due, Marking') <= paid * Unit
  BY <1>5, <1>6, <1>7 DEF Backed
<1> QED
  BY <1>1, <1>2, <1>4, <1>8 DEF Backed

\* Every step keeps the marks backed: a reward is created before its rows are marked, and
\* rows that two settlements mark are counted once where both have paid.
LEMMA BackedStep == SettledTyped /\ SettledTyped' /\ Backed /\ [ReferralNext]_referralVars => Backed'
<1> SUFFICES ASSUME SettledTyped, SettledTyped', Backed, [ReferralNext]_referralVars PROVE Backed'
  OBVIOUS
<1>1. KeepsShares(log, log')
  BY StepKeeps
<1>2. pc \in [Calls -> {"idle", "logged", "pay", "mark"}]
  BY DEF SettledTyped
<1>3. log' = log => Settled' = Settled
  BY DEF Settled
<1>4. ASSUME NEW c \in Calls, NEW s \in Shares, LogRequest(c, s) PROVE Backed'
  <2>1. Settled' = Settled
    BY <1>4, LogFacts DEF SettledTyped
  <2>2. paid' = paid /\ payable' = payable /\ Marking' \subseteq Marking
    BY <1>2, <1>4 DEF LogRequest, Marking
  <2> QED
    BY <1>1, <2>1, <2>2, BackedKept
<1>5. ASSUME NEW c \in Calls, ReadUnpaid(c) PROVE Backed'
  <2>1. paid' = paid /\ Settled' = Settled /\ pc[c] = "logged"
    BY <1>3, <1>5 DEF ReadUnpaid
  <2>2. Marking' \subseteq Marking /\ c \notin Marking
    BY <1>2, <1>5 DEF ReadUnpaid, Marking
  <2>3. \A d \in Marking' : payable'[d] = payable[d]
    <3>1. \A d \in Calls \ {c} : payable'[d] = payable[d]
      BY <1>5 DEF ReadUnpaid, SettledTyped
    <3> QED
      BY <2>2, <3>1 DEF Marking
  <2> QED
    BY <1>1, <2>1, <2>2, <2>3, BackedKept
<1>6. ASSUME NEW c \in Calls, CreateReward(c) PROVE Backed'
  <2> DEFINE pays == payable[c]
  <2>1. /\ log' = log /\ payable' = payable /\ Due' = Due /\ Settled' = Settled
        /\ c \notin Marking /\ Marking' = Marking \union {c}
    BY <1>2, <1>6 DEF CreateReward, Marking, Due, Settled
  <2>2. paid' = paid + pays
    BY <1>6 DEF CreateReward
  <2>3. pays \in Nat /\ paid \in Nat
    BY DEF SettledTyped
  <2>4. pays * Unit = Due[c]
    BY DEF Due
  <2> HIDE DEF pays
  <2>5. paid' * Unit = paid * Unit + Due[c]
    BY <2>2, <2>3, <2>4, PayUnits
  <2>6. IsFiniteSet(Marking) /\ IsFiniteSet(Marking')
    BY <2>1, FS_AddElement DEF Backed
  <2>7. Natural(Due, Marking) /\ Natural(Due, Marking \union {c})
    BY DueNatural DEF Marking
  <2>8. Sum(Due, Marking') = Sum(Due, Marking) + Due[c]
    BY <2>1, <2>6, <2>7, SumAdds
  <2>9. Sum(Due, Marking) \in Nat /\ Due[c] \in Nat /\ Sum(Low(log), Settled) \in Nat
    BY <2>6, <2>7, SumType, Sums DEF Natural, Settled, SettledTyped
  <2>10. paid * Unit \in Nat
    BY <2>3, UnitAssumption
  <2>11. Sum(Low(log), Settled) + (Sum(Due, Marking) + Due[c]) <= paid * Unit + Due[c]
    BY <2>9, <2>10 DEF Backed
  <2> QED
    BY <2>1, <2>5, <2>6, <2>8, <2>11 DEF Backed
<1>7. ASSUME NEW c \in Calls, MarkSettled(c) PROVE Backed'
  <2> DEFINE rest == Marking \ {c}
  <2>0. PICK covered \in CoveringsIn(log, unpaid[c], payable[c]) :
           Settled' = Settled \union (DOMAIN log \intersect covered)
    BY <1>7, MarkFacts DEF SettledTyped
  <2>1. /\ log \in Seq(Row) /\ log' \in Seq(Row) /\ unpaid[c] \in SUBSET DOMAIN log
        /\ covered \in SUBSET DOMAIN log /\ Settled \in SUBSET DOMAIN log
    BY CoveringFacts DEF SettledTyped, Settled
  <2>2. Settled' = Settled \union covered /\ DOMAIN log' = DOMAIN log
    BY <1>7, <2>0, <2>1, MarkFacts
  <2>3. /\ c \in Marking /\ Marking' = rest /\ paid' = paid
        /\ \A d \in rest : payable'[d] = payable[d]
    BY <1>2, <1>7 DEF MarkSettled, EndRequest, Marking, SettledTyped
  <2>4. Sum(Low(log), covered) <= Due[c]
    <3>1. payable[c] \in Nat
      BY DEF SettledTyped
    <3>2. Sum(Low(log), covered) <= payable[c] * Unit
      BY <2>0, <2>1, <3>1, CoveringFacts
    <3> QED
      BY <3>2 DEF Due
  <2>5. IsFiniteSet(Marking) /\ IsFiniteSet(rest) /\ Natural(Due, Marking) /\ Natural(Due, rest)
    BY DueNatural, FS_Subset DEF Backed, Marking
  <2>6. Sum(Due, Marking) = Due[c] + Sum(Due, rest)
    BY <2>3, <2>5, SumTakes
  <2>7. Sum(Due', rest) = Sum(Due, rest)
    <3>1. \A d \in rest : Due'[d] = Due[d]
      BY <2>3 DEF Due, Marking
    <3> QED
      BY <2>5, <3>1, SumSame
  <2>8. Sum(Low(log'), Settled \union covered) = Sum(Low(log), Settled \union covered)
    BY <1>1, <2>1, SumKept
  <2>9. Sum(Low(log), Settled \union covered) <= Sum(Low(log), Settled) + Sum(Low(log), covered)
    BY <2>1, RowsNatural, SumUnionAtMost
  <2>10. /\ Sum(Low(log), Settled) \in Nat /\ Sum(Low(log), covered) \in Nat
         /\ Sum(Low(log), Settled \union covered) \in Nat
         /\ Due[c] \in Nat /\ Sum(Due, rest) \in Nat
    <3>1. Settled \union covered \in SUBSET DOMAIN log
      BY <2>1
    <3> QED
      BY <2>1, <2>3, <2>5, <3>1, Sums, SumType DEF Natural
  <2>11. paid * Unit \in Nat
    BY UnitAssumption DEF SettledTyped
  <2>12. Sum(Low(log), Settled \union covered) + Sum(Due, rest) <= paid * Unit
    <3>1. Sum(Low(log), Settled) + (Due[c] + Sum(Due, rest)) <= paid * Unit
      BY <2>6 DEF Backed
    <3> HIDE DEF rest
    <3> QED
      BY <2>4, <2>9, <2>10, <2>11, <3>1
  <2> QED
    BY <2>2, <2>3, <2>5, <2>7, <2>8, <2>12 DEF Backed
<1>8. ASSUME NEW c \in Calls, Throw(c) PROVE Backed'
  <2>1. paid' = paid /\ Settled' = Settled /\ Marking' \subseteq Marking /\ c \notin Marking'
    BY <1>2, <1>3, <1>8 DEF Throw, EndRequest, Marking
  <2>2. \A d \in Marking' : payable'[d] = payable[d]
    <3>1. \A d \in Calls \ {c} : payable'[d] = payable[d]
      BY <1>8 DEF Throw, EndRequest, SettledTyped
    <3> QED
      BY <2>1, <3>1 DEF Marking
  <2> QED
    BY <1>1, <2>1, <2>2, BackedKept
<1>9. ASSUME LoseSettlements PROVE Backed'
  <2>1. paid' = paid /\ Settled' = Settled /\ Marking' = {}
    BY <1>3, <1>9 DEF LoseSettlements, Marking
  <2> QED
    BY <1>1, <2>1, BackedKept
<1>10. ASSUME UNCHANGED referralVars PROVE Backed'
  <2>1. paid' = paid /\ Settled' = Settled /\ Marking' = Marking /\ payable' = payable
    BY <1>3, <1>10 DEF referralVars, Marking
  <2> QED
    BY <1>1, <2>1, BackedKept
<1> QED
  BY <1>4, <1>5, <1>6, <1>7, <1>8, <1>9, <1>10 DEF ReferralNext

\* The inviter never loses a share to more than rounding: the rows settleReferrerEarnings has
\* marked are worth no more than the rewards it has created, for any shares and any error of
\* adding them, through overlapping settlements, failed calls and crashes.
THEOREM SharesAreBacked == ReferralSpec => []MarkedWasPaid
<1>1. ReferralInit => SettledTyped
  BY UnitAssumption DEF ReferralInit, SettledTyped
<1>2. ReferralInit => Backed
  <2> SUFFICES ASSUME ReferralInit PROVE Backed
    OBVIOUS
  <2>1. Marking = {} /\ Settled = {} /\ paid = 0
    BY DEF ReferralInit, Marking, Settled
  <2>2. Sum(Low(log), Settled) = 0 /\ Sum(Due, Marking) = 0
    BY <2>1, SumOfNone
  <2> QED
    BY <2>1, <2>2, FS_EmptySet, UnitAssumption DEF Backed
<1>3. SettledTyped /\ Backed => MarkedWasPaid
  <2> SUFFICES ASSUME SettledTyped, Backed PROVE MarkedWasPaid
    OBVIOUS
  <2>1. Sum(Due, Marking) \in Nat /\ Sum(Low(log), Settled) \in Nat /\ paid * Unit \in Nat
    BY DueNatural, SumType, Sums, UnitAssumption DEF Backed, Marking, Settled, SettledTyped
  <2>2. Least(Settled) = Sum(Low(log), Settled)
    BY TotalIsSum
  <2> QED
    BY <2>1, <2>2 DEF Backed, MarkedWasPaid
<1> QED
  BY <1>1, <1>2, <1>3, SettledTypedStep, BackedStep, PTL DEF ReferralSpec

-----------------------------------------------------------------------------
(* How much is paid too often, and how much is left waiting. *)

\* What a settlement may pay more than it marks.
Excess == MaxShare + Err

\* While no settlement overlapped with another or was left after paying, one at most
\* is under way, and nobody else marks the rows it read.
OneSettles ==
    mishap \subseteq {"unread"} =>
        /\ \A c, d \in Settling : c = d
        /\ \A c \in Settling : unpaid[c] \intersect Settled = {}

\* ... and then the rewards exceed what is marked, or about to be, by less than a share each.
PaidAsMarked ==
    mishap \subseteq {"unread"} =>
        /\ Marking = {} => paid * Unit <= Sum(High(log), Settled) + rewards * Excess
        /\ \A c \in Marking : paid * Unit + Excess <=
              Sum(High(log), Settled) + rewards * Excess + payable[c] * Unit

\* Every step that goes well keeps the settlements apart.
LEMMA OneSettlesStep ==
    SettledTyped /\ OneSettles /\ [ReferralNext]_referralVars => OneSettles'
<1> SUFFICES ASSUME SettledTyped, OneSettles, [ReferralNext]_referralVars, mishap' \subseteq {"unread"}
             PROVE  /\ \A c, d \in Settling' : c = d
                    /\ \A c \in Settling' : unpaid'[c] \intersect Settled' = {}
  BY DEF OneSettles
<1> DEFINE Goal == /\ \A c, d \in Settling' : c = d
                   /\ \A c \in Settling' : unpaid'[c] \intersect Settled' = {}
<1>1. pc \in [Calls -> {"idle", "logged", "pay", "mark"}] /\ unpaid \in [Calls -> SUBSET DOMAIN log]
  BY DEF SettledTyped
<1>2. mishap \subseteq mishap'
  BY DEF ReferralNext, referralVars, LogRequest, ReadUnpaid, CreateReward, MarkSettled, Throw, LoseSettlements
<1>3. /\ \A c, d \in Settling : c = d
      /\ \A c \in Settling : unpaid[c] \intersect Settled = {}
  BY <1>2 DEF OneSettles
<1>4. log' = log => Settled' = Settled
  BY DEF Settled
<1>5. ASSUME Settling' \subseteq Settling, Settled' = Settled, \A c \in Settling' : unpaid'[c] = unpaid[c]
      PROVE  Goal
  BY <1>3, <1>5
<1>6. ASSUME NEW c \in Calls, NEW s \in Shares, LogRequest(c, s) PROVE Goal
  <2>1. Settled' = Settled
    BY <1>6, LogFacts DEF SettledTyped
  <2>2. unpaid' = unpaid /\ Settling' \subseteq Settling
    BY <1>1, <1>6 DEF LogRequest, Settling
  <2> QED
    BY <1>5, <2>1, <2>2
<1>7. ASSUME NEW c \in Calls, ReadUnpaid(c) PROVE Goal
  <2>1. Settled' = Settled /\ \A d \in Calls \ {c} : pc'[d] = pc[d] /\ unpaid'[d] = unpaid[d]
    BY <1>4, <1>7, ReadFacts
  <2>2. CASE /\ pc' = [pc EXCEPT ![c] = "pay"]
             /\ unpaid' = [unpaid EXCEPT ![c] = Unsettled]
             /\ Settling # {} => "overlap" \in mishap'
    <3>1. Settling = {}
      BY <2>2
    <3>2. Settling' = {c} /\ unpaid'[c] = Unsettled
      BY <1>1, <2>2, <3>1 DEF Settling
    <3> QED
      BY <2>1, <3>2 DEF Unsettled
  <2>3. CASE pc' = [pc EXCEPT ![c] = "idle"] /\ unpaid' = unpaid
    <3>1. Settling' \subseteq Settling
      BY <1>1, <2>3 DEF Settling
    <3> QED
      BY <1>5, <2>1, <2>3, <3>1
  <2> QED
    BY <1>7, <2>2, <2>3, ReadFacts
<1>8. ASSUME NEW c \in Calls, CreateReward(c) PROVE Goal
  <2>1. Settled' = Settled /\ unpaid' = unpaid /\ Settling' \subseteq Settling
    BY <1>1, <1>4, <1>8 DEF CreateReward, Settling
  <2> QED
    BY <1>5, <2>1
<1>9. ASSUME NEW c \in Calls, MarkSettled(c) PROVE Goal
  <2>1. c \in Settling
    BY <1>9 DEF MarkSettled, Settling
  <2>2. Settling' = {}
    BY <1>1, <1>3, <1>9, <2>1 DEF MarkSettled, EndRequest, Settling
  <2> QED
    BY <2>2
<1>10. ASSUME NEW c \in Calls, Throw(c) PROVE Goal
  <2>1. Settled' = Settled /\ Settling' \subseteq Settling /\ c \notin Settling'
    BY <1>1, <1>4, <1>10 DEF Throw, EndRequest, Settling
  <2>2. \A d \in Calls \ {c} : unpaid'[d] = unpaid[d]
    BY <1>1, <1>10 DEF Throw, EndRequest
  <2>3. \A d \in Settling' : unpaid'[d] = unpaid[d]
    BY <2>1, <2>2 DEF Settling
  <2> QED
    BY <1>5, <2>1, <2>3
<1>11. ASSUME LoseSettlements PROVE Goal
  <2>1. Settling' = {}
    BY <1>11 DEF LoseSettlements, Settling
  <2> QED
    BY <2>1
<1>12. ASSUME UNCHANGED referralVars PROVE Goal
  <2>1. Settled' = Settled /\ unpaid' = unpaid /\ Settling' = Settling
    BY <1>4, <1>12 DEF referralVars, Settling
  <2> QED
    BY <1>5, <2>1
<1> QED
  BY <1>6, <1>7, <1>8, <1>9, <1>10, <1>11, <1>12 DEF ReferralNext

\* ... and the reward rows in step with the marks.
LEMMA PaidAsMarkedStep ==
    SettledTyped /\ SettledTyped' /\ OneSettles /\ PaidAsMarked /\ [ReferralNext]_referralVars
        => PaidAsMarked'
<1> DEFINE Goal == /\ Marking' = {} => paid' * Unit <= Sum(High(log'), Settled') + rewards' * Excess
                   /\ \A c \in Marking' : paid' * Unit + Excess <=
                         Sum(High(log'), Settled') + rewards' * Excess + payable'[c] * Unit
<1> SUFFICES ASSUME SettledTyped, SettledTyped', OneSettles, PaidAsMarked, [ReferralNext]_referralVars,
                    mishap' \subseteq {"unread"}
             PROVE  Goal
  BY DEF PaidAsMarked, Excess
<1>1. /\ pc \in [Calls -> {"idle", "logged", "pay", "mark"}]
      /\ unpaid \in [Calls -> SUBSET DOMAIN log] /\ payable \in [Calls -> Nat]
  BY DEF SettledTyped
<1>2. mishap \subseteq mishap'
  BY DEF ReferralNext, referralVars, LogRequest, ReadUnpaid, CreateReward, MarkSettled, Throw, LoseSettlements
<1>3. KeepsShares(log, log') /\ log \in Seq(Row) /\ log' \in Seq(Row)
  BY StepKeeps DEF SettledTyped
<1>4. /\ Marking = {} => paid * Unit <= Sum(High(log), Settled) + rewards * Excess
      /\ \A c \in Marking : paid * Unit + Excess <=
            Sum(High(log), Settled) + rewards * Excess + payable[c] * Unit
  BY <1>2 DEF PaidAsMarked
<1>5. /\ \A c, d \in Settling : c = d
      /\ \A c \in Settling : unpaid[c] \intersect Settled = {}
  BY <1>2 DEF OneSettles
<1>6. log' = log => Settled' = Settled
  BY DEF Settled
<1>7. Marking \subseteq Settling /\ Marking \subseteq Calls
  BY DEF Marking, Settling
<1>8. Sum(High(log'), Settled) = Sum(High(log), Settled)
  BY <1>3, SumKept DEF Settled
<1>9. ASSUME Marking' = Marking, Settled' = Settled, paid' = paid, rewards' = rewards,
             \A c \in Marking : payable'[c] = payable[c]
      PROVE  Goal
  BY <1>4, <1>8, <1>9
<1>10. ASSUME NEW c \in Calls, NEW s \in Shares, LogRequest(c, s) PROVE Goal
  <2>1. Settled' = Settled
    BY <1>3, <1>10, LogFacts
  <2>2. payable' = payable /\ paid' = paid /\ rewards' = rewards /\ Marking' = Marking
    BY <1>1, <1>10 DEF LogRequest, Marking
  <2> QED
    BY <1>9, <2>1, <2>2
<1>11. ASSUME NEW c \in Calls, ReadUnpaid(c) PROVE Goal
  <2>1. Settled' = Settled /\ paid' = paid /\ rewards' = rewards
    BY <1>6, <1>11, ReadFacts
  <2>2. Marking' = Marking /\ c \notin Marking
    BY <1>1, <1>11, ReadFacts DEF Marking
  <2>3. \A d \in Calls \ {c} : payable'[d] = payable[d]
    BY <1>11, ReadFacts
  <2> QED
    BY <1>7, <1>9, <2>1, <2>2, <2>3
<1>12. ASSUME NEW c \in Calls, CreateReward(c) PROVE Goal
  <2>1. c \in Settling /\ c \notin Marking
    BY <1>12 DEF CreateReward, Settling, Marking
  <2>2. Marking = {}
    BY <1>5, <1>7, <2>1
  <2>3. Marking' = {c} /\ log' = log /\ payable' = payable /\ Settled' = Settled
    BY <1>1, <1>6, <1>12, <2>2 DEF CreateReward, Marking
  <2>4. paid' = paid + payable[c] /\ rewards' = rewards + 1
    BY <1>12 DEF CreateReward
  <2>5. payable[c] \in Nat /\ paid \in Nat /\ rewards \in Nat /\ Excess \in Nat
    BY SharesAssumption DEF SettledTyped, Excess
  <2>6. paid' * Unit = paid * Unit + payable[c] * Unit
    BY <2>4, <2>5, PayUnits
  <2>7. rewards' * Excess = rewards * Excess + Excess
    BY <2>4, <2>5
  <2>8. /\ paid * Unit \in Nat /\ payable[c] * Unit \in Nat
        /\ rewards * Excess \in Nat /\ Sum(High(log), Settled) \in Nat
    BY <1>3, <2>5, UnitAssumption, Sums DEF Settled
  <2>9. paid * Unit <= Sum(High(log), Settled) + rewards * Excess
    BY <1>4, <2>2
  <2>10. paid' * Unit + Excess <=
            Sum(High(log), Settled) + rewards' * Excess + payable[c] * Unit
    BY <2>5, <2>6, <2>7, <2>8, <2>9
  <2> QED
    BY <2>3, <2>10
<1>13. ASSUME NEW c \in Calls, MarkSettled(c) PROVE Goal
  <2>1. c \in Settling /\ c \in Marking
    BY <1>13 DEF MarkSettled, Settling, Marking
  <2>2. Marking' = {} /\ paid' = paid /\ rewards' = rewards
    BY <1>1, <1>5, <1>7, <1>13, <2>1 DEF MarkSettled, EndRequest, Marking
  <2>3. PICK covered \in CoveringsIn(log, unpaid[c], payable[c]) :
           Settled' = Settled \union (DOMAIN log \intersect covered)
    BY <1>3, <1>13, MarkFacts
  <2>4. /\ payable[c] \in PayablesIn(log, unpaid[c]) /\ unpaid[c] \in SUBSET DOMAIN log
        /\ payable[c] \in Nat
    BY <2>1 DEF SettledTyped, Settling
  <2>5. payable[c] * Unit <= Sum(High(log), covered) + Excess
    BY <1>3, <2>3, <2>4, OverpaidLittle DEF Excess
  <2>6. covered \in SUBSET unpaid[c] /\ covered \in SUBSET DOMAIN log
    BY <1>3, <2>3, <2>4, CoveringFacts
  <2>7. /\ Settled \intersect covered = {} /\ Settled \in SUBSET DOMAIN log
        /\ Settled' = Settled \union covered
    BY <1>5, <2>1, <2>3, <2>6 DEF Settled
  <2>8. Sum(High(log), Settled \union covered) = Sum(High(log), Settled) + Sum(High(log), covered)
    BY <1>3, <2>6, <2>7, RowsNatural, SumUnion
  <2>9. Sum(High(log'), Settled \union covered) = Sum(High(log), Settled \union covered)
    BY <1>3, <2>6, <2>7, SumKept
  <2>10. paid * Unit + Excess <= Sum(High(log), Settled) + rewards * Excess + payable[c] * Unit
    BY <1>4, <2>1
  <2>11. /\ paid * Unit \in Nat /\ payable[c] * Unit \in Nat
         /\ rewards * Excess \in Nat /\ Excess \in Nat
         /\ Sum(High(log), Settled) \in Nat /\ Sum(High(log), covered) \in Nat
    BY <1>3, <2>4, <2>6, <2>7, UnitAssumption, SharesAssumption, Sums DEF SettledTyped, Excess
  <2>12. paid * Unit <= Sum(High(log), Settled) + Sum(High(log), covered) + rewards * Excess
    BY <2>5, <2>10, <2>11
  <2> QED
    BY <2>2, <2>7, <2>8, <2>9, <2>12
<1>14. ASSUME NEW c \in Calls, Throw(c) PROVE Goal
  <2>1. pc[c] # "mark"
    BY <1>14 DEF Throw, LeftBy
  <2>2. Settled' = Settled /\ paid' = paid /\ rewards' = rewards /\ Marking' = Marking /\ c \notin Marking
    BY <1>1, <1>6, <1>14, <2>1 DEF Throw, EndRequest, Marking
  <2>3. \A d \in Calls \ {c} : payable'[d] = payable[d]
    BY <1>1, <1>14 DEF Throw, EndRequest
  <2> QED
    BY <1>7, <1>9, <2>2, <2>3
<1>15. ASSUME LoseSettlements PROVE Goal
  <2>1. Marking = {}
    BY <1>15 DEF LoseSettlements, LeftBy, Marking
  <2>2. Settled' = Settled /\ paid' = paid /\ rewards' = rewards /\ Marking' = {}
    BY <1>6, <1>15 DEF LoseSettlements, Marking
  <2> QED
    BY <1>9, <2>1, <2>2
<1>16. ASSUME UNCHANGED referralVars PROVE Goal
  <2>1. /\ Settled' = Settled /\ payable' = payable /\ paid' = paid /\ rewards' = rewards
        /\ Marking' = Marking
    BY <1>6, <1>16 DEF referralVars, Marking
  <2> QED
    BY <1>9, <2>1
<1> QED
  BY <1>10, <1>11, <1>12, <1>13, <1>14, <1>15, <1>16 DEF ReferralNext

\* What is paid too often is bounded: while settlements neither overlap nor stop half way,
\* each reward settleReferrerEarnings creates exceeds the rows it marks by less than one
\* share, for any shares and any error of adding them, whenever nobody is settling.
THEOREM OverpaidIsBounded == ReferralSpec => []OverpaidBelowAShare
<1>1. ReferralInit => SettledTyped
  BY UnitAssumption DEF ReferralInit, SettledTyped
<1>2. ReferralInit => OneSettles
  BY DEF ReferralInit, OneSettles, Settling
<1>3. ReferralInit => PaidAsMarked
  <2> SUFFICES ASSUME ReferralInit PROVE PaidAsMarked
    OBVIOUS
  <2>1. Marking = {} /\ Settled = {} /\ paid = 0 /\ rewards = 0
    BY DEF ReferralInit, Marking, Settled
  <2>2. Sum(High(log), Settled) = 0
    BY <2>1, SumOfNone
  <2>3. paid * Unit = 0 /\ rewards * Excess = 0
    BY <2>1, UnitAssumption, SharesAssumption DEF Excess
  <2> QED
    BY <2>1, <2>2, <2>3 DEF PaidAsMarked
<1>4. PaidAsMarked => OverpaidBelowAShare
  <2> SUFFICES ASSUME PaidAsMarked, Quiet, mishap \subseteq {"unread"}
               PROVE  paid * Unit <= Most(Settled) + rewards * (MaxShare + Err)
    BY DEF OverpaidBelowAShare
  <2>1. Marking = {}
    BY DEF Quiet, Marking
  <2> QED
    BY <2>1, TotalIsSum DEF PaidAsMarked, Excess
<1> QED
  BY <1>1, <1>2, <1>3, <1>4, SettledTypedStep, OneSettlesStep, PaidAsMarkedStep, PTL DEF ReferralSpec

\* What may be left waiting: below a credit and a share, up to the error of all rows.
Bound(l) == Unit + MaxShare + 2 * Sum(Slack(l), DOMAIN l)

\* It only grows with the log.
LEMMA BoundGrows ==
    ASSUME NEW l \in Seq(Row), NEW m \in Seq(Row), KeepsShares(l, m)
    PROVE  Bound(l) \in Nat /\ Bound(m) \in Nat /\ Bound(l) <= Bound(m)
<1>1. DOMAIN l \in SUBSET DOMAIN m
  BY DEF KeepsShares
<1>2. Sum(Slack(m), DOMAIN l) <= Sum(Slack(m), DOMAIN m)
  BY <1>1, RowsNatural, SumMonotone
<1>3. Sum(Slack(l), DOMAIN l) = Sum(Slack(m), DOMAIN l)
  <2>1. \A i \in DOMAIN l : Slack(l)[i] = Slack(m)[i]
    BY <1>1 DEF Slack
  <2>2. IsFiniteSet(DOMAIN l)
    BY RowsNatural
  <2> QED
    BY <2>1, <2>2, SumSame
<1>4. Sum(Slack(l), DOMAIN l) \in Nat /\ Sum(Slack(m), DOMAIN m) \in Nat
  BY Sums
<1> QED
  BY <1>2, <1>3, <1>4, UnitAssumption, SharesAssumption DEF Bound

\* While no settlement failed and the process lived, somebody is still to look, or the
\* rest is that little, or one settlement has read all of it.
Awaited ==
    mishap \subseteq {"overlap"} =>
        \/ \E c \in Calls : pc[c] = "logged"
        \/ Sum(Real(log), Unsettled) < Bound(log)
        \/ \E c \in Settling : Unsettled \subseteq unpaid[c]

\* Every step that goes well leaves somebody to look, or nothing to look for.
LEMMA AwaitedStep ==
    SettledTyped /\ SettledTyped' /\ Awaited /\ [ReferralNext]_referralVars => Awaited'
<1> DEFINE Goal == \/ \E c \in Calls : pc'[c] = "logged"
                   \/ Sum(Real(log'), Unsettled') < Bound(log')
                   \/ \E c \in Settling' : Unsettled' \subseteq unpaid'[c]
<1> SUFFICES ASSUME SettledTyped, SettledTyped', Awaited, [ReferralNext]_referralVars,
                    mishap' \subseteq {"overlap"}
             PROVE  Goal
  BY DEF Awaited
<1>1. pc \in [Calls -> {"idle", "logged", "pay", "mark"}] /\ unpaid \in [Calls -> SUBSET DOMAIN log]
  BY DEF SettledTyped
<1>2. mishap \subseteq mishap'
  BY DEF ReferralNext, referralVars, LogRequest, ReadUnpaid, CreateReward, MarkSettled, Throw, LoseSettlements
<1>3. log \in Seq(Row) /\ log' \in Seq(Row) /\ KeepsShares(log, log')
  BY StepKeeps DEF SettledTyped
<1>4. Bound(log) \in Nat /\ Bound(log') \in Nat /\ Bound(log) <= Bound(log')
  BY <1>3, BoundGrows
<1>5. \/ \E c \in Calls : pc[c] = "logged"
      \/ Sum(Real(log), Unsettled) < Bound(log)
      \/ \E c \in Settling : Unsettled \subseteq unpaid[c]
  BY <1>2 DEF Awaited
<1>6. log' = log => Unsettled' = Unsettled
  BY DEF Unsettled, Settled
<1>7. ASSUME NEW c \in Calls, NEW s \in Shares, LogRequest(c, s) PROVE Goal
  <2>1. pc'[c] = "logged"
    BY <1>1, <1>7 DEF LogRequest
  <2> QED
    BY <2>1
<1>8. ASSUME NEW c \in Calls, ReadUnpaid(c) PROVE Goal
  <2>1. log' = log /\ Unsettled' = Unsettled /\ Unsettled \in SUBSET DOMAIN log
    BY <1>6, <1>8, ReadFacts
  <2>2. CASE pc' = [pc EXCEPT ![c] = "pay"] /\ unpaid' = [unpaid EXCEPT ![c] = Unsettled]
    <3>1. c \in Settling' /\ unpaid'[c] = Unsettled
      BY <1>1, <2>2 DEF Settling
    <3> QED
      BY <2>1, <3>1
  <2>3. CASE Sum(Low(log), Unsettled) < Unit
    <3>1. /\ Sum(Real(log), Unsettled) = Sum(Low(log), Unsettled) + Sum(Slack(log), Unsettled)
          /\ Sum(Low(log), Unsettled) \in Nat /\ Sum(Slack(log), Unsettled) \in Nat
          /\ Sum(Slack(log), DOMAIN log) \in Nat
      BY <1>3, <2>1, Sums
    <3>2. Sum(Slack(log), Unsettled) <= Sum(Slack(log), DOMAIN log)
      BY <1>3, <2>1, RowsNatural, SumMonotone
    <3>3. Sum(Real(log), Unsettled) < Bound(log)
      BY <2>3, <3>1, <3>2, UnitAssumption, SharesAssumption DEF Bound
    <3> QED
      BY <2>1, <3>3
  <2> QED
    BY <1>8, <2>2, <2>3, ReadFacts
<1>9. ASSUME NEW c \in Calls, CreateReward(c) PROVE Goal
  <2>1. log' = log /\ unpaid' = unpaid /\ Unsettled' = Unsettled /\ Settling' = Settling
    BY <1>1, <1>6, <1>9 DEF CreateReward, Settling
  <2>2. \A d \in Calls : pc[d] = "logged" => pc'[d] = "logged"
    BY <1>1, <1>9 DEF CreateReward
  <2> QED
    BY <1>5, <2>1, <2>2
<1>10. ASSUME NEW c \in Calls, MarkSettled(c) PROVE Goal
  <2>0. PICK covered \in CoveringsIn(log, unpaid[c], payable[c]) :
           Settled' = Settled \union (DOMAIN log \intersect covered)
    BY <1>3, <1>10, MarkFacts
  <2>1. /\ payable[c] \in PayablesIn(log, unpaid[c])
        /\ covered \in SUBSET unpaid[c] /\ covered \in SUBSET DOMAIN log
    <3>1. payable[c] \in PayablesIn(log, unpaid[c]) /\ payable[c] \in Nat
      BY <1>10 DEF SettledTyped, MarkSettled
    <3> QED
      BY <1>1, <1>3, <2>0, <3>1, CoveringFacts
  <2>2. Unsettled' = Unsettled \ covered /\ Unsettled \in SUBSET DOMAIN log
    BY <1>3, <1>10, <2>0, <2>1, MarkFacts DEF Unsettled
  <2>3. \A d \in Calls \ {c} : pc'[d] = pc[d] /\ unpaid'[d] = unpaid[d]
    BY <1>1, <1>10 DEF MarkSettled, EndRequest
  <2>4. pc[c] = "mark"
    BY <1>10 DEF MarkSettled
  <2>5. Sum(Real(log), unpaid[c] \ covered) < Bound(log)
    BY <1>1, <1>3, <2>0, <2>1, RestIsLittle DEF Bound
  <2>6. \A rows \in SUBSET DOMAIN log :
           Sum(Real(log'), rows) = Sum(Real(log), rows) /\ Sum(Real(log), rows) \in Nat
    BY <1>3, SumKept, Sums
  <2>7. Unsettled' \in SUBSET DOMAIN log
    BY <2>2
  <2>8. ASSUME NEW rows \in SUBSET DOMAIN log, Sum(Real(log), rows) < Bound(log),
               Unsettled' \subseteq rows
        PROVE  Sum(Real(log'), Unsettled') < Bound(log')
    <3>1. Sum(Real(log), Unsettled') <= Sum(Real(log), rows)
      BY <1>3, <2>7, <2>8, RowsNatural, SumMonotone
    <3>2. Sum(Real(log), Unsettled') < Bound(log')
      BY <1>4, <2>6, <2>7, <2>8, <3>1
    <3> QED
      BY <2>6, <2>7, <3>2
  <2>9. CASE \E d \in Calls : pc[d] = "logged"
    BY <2>3, <2>4, <2>9
  <2>10. CASE Sum(Real(log), Unsettled) < Bound(log)
    BY <2>2, <2>8, <2>10
  <2>11. ASSUME NEW d \in Settling, Unsettled \subseteq unpaid[d] PROVE Goal
    <3>1. CASE d = c
      <4>1. Unsettled' \subseteq unpaid[c] \ covered /\ unpaid[c] \ covered \in SUBSET DOMAIN log
        BY <1>1, <2>2, <2>11, <3>1
      <4> QED
        BY <2>5, <2>8, <4>1
    <3>2. CASE d # c
      <4>1. d \in Settling' /\ unpaid'[d] = unpaid[d]
        BY <2>3, <2>11, <3>2 DEF Settling
      <4> QED
        BY <2>2, <2>11, <4>1
    <3> QED
      BY <3>1, <3>2
  <2> QED
    BY <1>5, <2>9, <2>10, <2>11
<1>11. ASSUME NEW c \in Calls, Throw(c) PROVE FALSE
  BY <1>11 DEF Throw, LeftBy
<1>12. ASSUME LoseSettlements PROVE FALSE
  BY <1>12 DEF LoseSettlements, LeftBy
<1>13. ASSUME UNCHANGED referralVars PROVE Goal
  <2>1. pc' = pc /\ log' = log /\ unpaid' = unpaid /\ Unsettled' = Unsettled /\ Settling' = Settling
    BY <1>6, <1>13 DEF referralVars, Settling
  <2> QED
    BY <1>5, <2>1
<1> QED
  BY <1>7, <1>8, <1>9, <1>10, <1>11, <1>12, <1>13 DEF ReferralNext

\* No whole credit is forgotten: while no settlement fails, the last request to read has
\* seen the rows of all others, so when all requests have returned the unsettled rows of the
\* inviter make less than a credit and a share, up to what adding all rows may be off by.
THEOREM LittleIsLeftWaiting == ReferralSpec => []NoCreditLeftWaiting
<1>1. ReferralInit => SettledTyped
  BY UnitAssumption DEF ReferralInit, SettledTyped
<1>2. ReferralInit => Awaited
  <2> SUFFICES ASSUME ReferralInit PROVE Sum(Real(log), Unsettled) < Bound(log)
    BY DEF Awaited
  <2>1. Unsettled = {} /\ log \in Seq(Row) /\ KeepsShares(log, log)
    BY DEF ReferralInit, Unsettled, KeepsShares
  <2>2. Sum(Real(log), Unsettled) = 0
    BY <2>1, SumOfNone
  <2>3. Sum(Slack(log), DOMAIN log) \in Nat
    BY <2>1, Sums
  <2> QED
    BY <2>2, <2>3, UnitAssumption, SharesAssumption DEF Bound
<1>3. SettledTyped /\ Awaited => NoCreditLeftWaiting
  <2> SUFFICES ASSUME SettledTyped, Awaited, Quiet, mishap \subseteq {"overlap"}
               PROVE  Total(Unsettled) < Unit + MaxShare + Drift(DOMAIN log)
    BY DEF NoCreditLeftWaiting
  <2>1. Settling = {} /\ ~\E c \in Calls : pc[c] = "logged"
    BY DEF Quiet, Settling
  <2>2. Total(Unsettled) < Bound(log)
    BY <2>1, TotalIsSum DEF Awaited
  <2>3. Drift(DOMAIN log) = 2 * Sum(Slack(log), DOMAIN log)
    <3>1. log \in Seq(Row) /\ DOMAIN log \in SUBSET DOMAIN log
      BY DEF SettledTyped
    <3>2. /\ Most(DOMAIN log) = Sum(Low(log), DOMAIN log) + 2 * Sum(Slack(log), DOMAIN log)
          /\ Least(DOMAIN log) = Sum(Low(log), DOMAIN log)
          /\ Sum(Low(log), DOMAIN log) \in Nat /\ Sum(Slack(log), DOMAIN log) \in Nat
      BY <3>1, Sums, TotalIsSum
    <3> QED
      BY <3>2 DEF Drift
  <2> QED
    BY <2>2, <2>3 DEF Bound
<1> QED
  BY <1>1, <1>2, <1>3, SettledTypedStep, AwaitedStep, PTL DEF ReferralSpec
=============================================================================
