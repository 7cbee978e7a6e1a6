------------------------- MODULE InquiryDealProofs -------------------------
(***************************************************************************)
(* Proofs about InquiryDeal, for every number of offers, pro-formas and    *)
(* concurrent calls.                                                       *)
(***************************************************************************)
EXTENDS InquiryDeal, FiniteSetTheorems, TLAPS

CallType == [at : {"idle"} \union OnInquiry \union OnOffer \union OnProforma,
             on : Objects, arg : Args]

\* Begin leaves every call well formed.
LEMMA BeginTyped ==
    ASSUME TypeOK, NEW c \in Calls, NEW k \in CallType, WellFormed(k), NEW xs,
           Begin(c, k.at, k.on, k.arg, xs), xs \subseteq Objects
    PROVE /\ call' \in [Calls -> CallType]
          /\ \A d \in Calls : WellFormed(call'[d])
          /\ disturbed' \subseteq Objects
<1>1. [at |-> k.at, on |-> k.on, arg |-> k.arg] = k
  BY DEF CallType
<1>2. call' = [call EXCEPT ![c] = k] /\ disturbed' = disturbed \union (xs \intersect Busy)
  BY <1>1 DEF Begin, Meet
<1>3. call \in [Calls -> CallType] /\ \A d \in Calls : WellFormed(call[d])
  BY DEF TypeOK, CallType
<1>4. disturbed \subseteq Objects
  BY DEF TypeOK
<1> QED
  BY <1>2, <1>3, <1>4

\* The type invariant of the deal.
THEOREM DealTypeCorrect == Spec => []TypeOK
<1>1. Init => TypeOK
  BY TermsAssumption
     DEF Init, TypeOK, Idle, Objects, WellFormed, OnInquiry, OnOffer, OnProforma, Args,
         InquiryStatus, OfferStatus, ProformaStatus, NeverAccepted
<1>2. TypeOK /\ [Next]_vars => TypeOK'
  <2> SUFFICES ASSUME TypeOK, [Next]_vars PROVE TypeOK'
    OBVIOUS
  <2> USE TermsAssumption, OfferOfAssumption
          DEF inquiryVars, offerVars, InquiryStatus, OfferStatus, ProformaStatus
  <2> DEFINE CallsTyped == /\ call \in [Calls -> CallType]
                           /\ \A c \in Calls : WellFormed(call[c])
                           /\ disturbed \subseteq Objects
  <2>0. CallsTyped
    BY DEF TypeOK, CallType
  <2>1. \A c \in Calls : call[c] \in CallType /\ WellFormed(call[c])
    BY <2>0
  <2>2. ASSUME NEW c \in Calls, NEW step \in {"rejectPending", "write", "count", "markSold"},
               Go(c, step), WellFormed([call[c] EXCEPT !.at = step])
        PROVE CallsTyped'
    <3>1. [call[c] EXCEPT !.at = step] \in CallType
      BY <2>1 DEF CallType, OnInquiry, OnOffer, OnProforma
    <3>2. call' = [call EXCEPT ![c] = [call[c] EXCEPT !.at = step]]
      BY <2>2 DEF Go
    <3> QED
      BY <2>0, <2>2, <3>1, <3>2 DEF Go
  <2>3. ASSUME NEW c \in Calls, call' = [call EXCEPT ![c] = Idle], disturbed' \subseteq Objects
        PROVE CallsTyped'
    <3>1. Idle \in CallType /\ WellFormed(Idle)
      BY DEF Idle, CallType, Args, WellFormed, OnOffer, OnProforma, OnInquiry, Objects
    <3> QED
      BY <2>0, <2>3, <3>1
  <2>4. ASSUME NEW c \in Calls, Done(c) PROVE CallsTyped'
    BY <2>0, <2>3, <2>4 DEF Done
  <2>5. ASSUME NEW c \in Calls, NEW step, NEW x \in Objects, NEW a \in Args, NEW xs,
               Begin(c, step, x, a, xs), xs \subseteq Objects,
               step \in OnInquiry \union OnOffer \union OnProforma,
               WellFormed([at |-> step, on |-> x, arg |-> a])
        PROVE CallsTyped'
    <3> DEFINE k == [at |-> step, on |-> x, arg |-> a]
    <3>1. k \in CallType /\ k.at = step /\ k.on = x /\ k.arg = a
      BY <2>5 DEF CallType
    <3> HIDE DEF k
    <3> QED
      BY <2>5, <3>1, BeginTyped DEF k
  <2>6. ASSUME NEW c \in Calls, NEW step, NEW gone, NotFound(c, step, gone) PROVE TypeOK'
    BY <2>4, <2>6 DEF NotFound, TypeOK, CallType
  <2>7. ASSUME NEW c \in Calls, Inquiring(c) PROVE TypeOK'
    <3>1. ASSUME NEW result \in {"succeeded", "failed"}, ReadFinalize(c, result) PROVE TypeOK'
      <4>1. CallsTyped'
        BY <3>1, <2>5 DEF ReadFinalize, Objects, Args, OnInquiry, OnOffer, OnProforma, WellFormed
      <4> QED
        BY <3>1, <4>1 DEF ReadFinalize, TypeOK, CallType
    <3>2. ASSUME NEW status \in {"none", "open", "closed"}, ReadUpdate(c, status) PROVE TypeOK'
      <4>1. CallsTyped'
        BY <3>2, <2>5 DEF ReadUpdate, Objects, Args, OnInquiry, OnOffer, OnProforma, WellFormed
      <4> QED
        BY <3>2, <4>1 DEF ReadUpdate, TypeOK, CallType
    <3>3. CASE Archive(c)
      <4>1. CASE NotFound(c, "archive", inquiry = "deleted")
        BY <4>1, <2>6
      <4>2. CASE ~ NotFound(c, "archive", inquiry = "deleted")
        <5>1. CallsTyped'
          BY <3>3, <4>2, <2>2 DEF Archive, WellFormed, OnOffer, OnProforma
        <5>2. call[c].arg \in {"succeeded", "failed"}
          BY <3>3, <4>2, <2>1 DEF Archive, At, WellFormed
        <5> QED
          BY <3>3, <4>2, <5>1, <5>2 DEF Archive, TypeOK, CallType
      <4> QED
        BY <4>1, <4>2
    <3>4. CASE Reopen(c)
      <4>1. CASE NotFound(c, "reopen", inquiry = "deleted")
        BY <4>1, <2>6
      <4>2. CASE ~ NotFound(c, "reopen", inquiry = "deleted")
        <5>1. call[c].arg = "open"
          BY <3>4, <4>2, <2>1 DEF Reopen, At, WellFormed
        <5>2. CallsTyped'
          BY <3>4, <4>2, <5>1, <2>2 DEF Reopen, WellFormed, OnOffer, OnProforma
        <5> QED
          BY <3>4, <4>2, <5>2 DEF Reopen, TypeOK, CallType
      <4> QED
        BY <4>1, <4>2
    <3>5. CASE WriteUpdate(c)
      <4>1. CASE NotFound(c, "write", inquiry = "deleted")
        BY <4>1, <2>6
      <4>2. CASE ~ NotFound(c, "write", inquiry = "deleted")
        <5>1. call[c].arg \in {"none", "open", "closed"}
          BY <3>5, <4>2, <2>1 DEF WriteUpdate, At, WellFormed
        <5>2. CallsTyped'
          BY <3>5, <4>2, <2>4 DEF WriteUpdate
        <5> QED
          BY <3>5, <4>2, <5>1, <5>2 DEF WriteUpdate, TypeOK, CallType
      <4> QED
        BY <4>1, <4>2
    <3>6. CASE RejectPending(c)
      <4>1. CallsTyped'
        BY <3>6, <2>4 DEF RejectPending
      <4> QED
        BY <3>6, <4>1 DEF RejectPending, TypeOK, CallType
    <3> QED
      BY <2>7, <3>1, <3>2, <3>3, <3>4, <3>5, <3>6 DEF Inquiring
  <2>8. ASSUME NEW c \in Calls, Offering(c) PROVE TypeOK'
    <3>1. ASSUME NEW o \in Offers, ReadAddOffer(c, o) PROVE TypeOK'
      <4>1. CallsTyped'
        BY <3>1, <2>5 DEF ReadAddOffer, Objects, Args, OnInquiry, OnOffer, OnProforma, WellFormed
      <4> QED
        BY <3>1, <4>1 DEF ReadAddOffer, TypeOK, CallType
    <3>2. ASSUME NEW o \in Offers, Withdraw(c, o) PROVE TypeOK'
      <4>1. CallsTyped'
        BY <3>2, <2>5 DEF Withdraw, Objects, Args, OnInquiry, OnOffer, OnProforma, WellFormed
      <4> QED
        BY <3>2, <4>1 DEF Withdraw, TypeOK, CallType
    <3>3. ASSUME NEW o \in Offers, ReadEdit(c, o) PROVE TypeOK'
      <4>1. CallsTyped'
        <5>1. o \in Objects /\ {o} \subseteq Objects /\ "none" \in Args
          BY DEF Objects, Args
        <5>2. WellFormed([at |-> "edit", on |-> o, arg |-> "none"])
          BY DEF WellFormed, OnOffer, OnProforma
        <5>3. Begin(c, "edit", o, "none", {o}) /\ "edit" \in OnOffer
          BY <3>3 DEF ReadEdit, OnOffer
        <5> QED
          BY <5>1, <5>2, <5>3, <2>5
      <4> QED
        BY <3>3, <4>1 DEF ReadEdit, TypeOK, CallType
    <3>4. ASSUME NEW o \in Offers, NEW result \in {"sold", "not_sold"}, ReadSale(c, o, result)
          PROVE TypeOK'
      <4>1. CallsTyped'
        BY <3>4, <2>5 DEF ReadSale, Objects, Args, OnInquiry, OnOffer, OnProforma, WellFormed
      <4> QED
        BY <3>4, <4>1 DEF ReadSale, TypeOK, CallType
    <3>5. CASE CreateOffer(c)
      <4>1. call[c].on \in Offers
        BY <3>5, <2>1 DEF CreateOffer, At, WellFormed, OnOffer
      <4>2. CallsTyped'
        BY <3>5, <4>1, <2>2 DEF CreateOffer, WellFormed, OnProforma
      <4> QED
        BY <3>5, <4>1, <4>2 DEF CreateOffer, TypeOK, CallType
    <3>6. CASE CountOffer(c)
      <4>1. CASE NotFound(c, "count", inquiry = "deleted")
        BY <4>1, <2>6
      <4>2. CASE ~ NotFound(c, "count", inquiry = "deleted")
        <5>1. CallsTyped'
          BY <3>6, <4>2, <2>4 DEF CountOffer
        <5> QED
          BY <3>6, <4>2, <5>1 DEF CountOffer, TypeOK, CallType
      <4> QED
        BY <4>1, <4>2
    <3>7. CASE UncountOffer(c)
      <4>1. CASE NotFound(c, "uncount", inquiry = "deleted")
        BY <4>1, <2>6
      <4>2. CASE ~ NotFound(c, "uncount", inquiry = "deleted")
        <5>1. CallsTyped'
          BY <3>7, <4>2, <2>4 DEF UncountOffer
        <5> QED
          BY <3>7, <4>2, <5>1 DEF UncountOffer, TypeOK, CallType
      <4> QED
        BY <4>1, <4>2
    <3>8. CASE WriteEdit(c)
      <4>1. CASE NotFound(c, "edit", offer[call[c].on] = "none")
        BY <4>1, <2>6
      <4>2. CASE ~ NotFound(c, "edit", offer[call[c].on] = "none")
        <5>1. call[c].on \in Offers
          BY <3>8, <4>2, <2>1 DEF WriteEdit, At, WellFormed, OnOffer
        <5>2. CallsTyped'
          BY <3>8, <4>2, <2>4 DEF WriteEdit
        <5> QED
          BY <3>8, <4>2, <5>1, <5>2 DEF WriteEdit, TypeOK, CallType
      <4> QED
        BY <4>1, <4>2
    <3>9. CASE WriteSale(c)
      <4>1. CASE NotFound(c, "sale", offer[call[c].on] = "none")
        BY <4>1, <2>6
      <4>2. CASE ~ NotFound(c, "sale", offer[call[c].on] = "none")
        <5>1. call[c].arg \in {"sold", "not_sold"}
          BY <3>9, <4>2, <2>1 DEF WriteSale, At, WellFormed
        <5>2. CallsTyped'
          BY <3>9, <4>2, <2>4 DEF WriteSale
        <5> QED
          BY <3>9, <4>2, <5>1, <5>2 DEF WriteSale, TypeOK, CallType
      <4> QED
        BY <4>1, <4>2
    <3> QED
      BY <2>8, <3>1, <3>2, <3>3, <3>4, <3>5, <3>6, <3>7, <3>8, <3>9 DEF Offering
  <2>9. ASSUME NEW c \in Calls, Invoicing(c) PROVE TypeOK'
    <3>1. ASSUME NEW p \in Proformas, ReadIssue(c, p) PROVE TypeOK'
      <4>1. CallsTyped'
        <5>1. p \in Objects /\ {} \subseteq Objects /\ "none" \in Args
          BY DEF Objects, Args
        <5>2. WellFormed([at |-> "issue", on |-> p, arg |-> "none"])
          BY DEF WellFormed, OnOffer, OnProforma
        <5>3. Begin(c, "issue", p, "none", {}) /\ "issue" \in OnProforma
          BY <3>1 DEF ReadIssue, OnProforma
        <5> QED
          BY <5>1, <5>2, <5>3, <2>5
      <4> QED
        BY <3>1, <4>1 DEF ReadIssue, TypeOK, CallType
    <3>2. ASSUME NEW p \in Proformas, NEW verdict \in Decided, ReadDecision(c, p, verdict)
          PROVE TypeOK'
      <4>1. CallsTyped'
        BY <3>2, <2>5
           DEF ReadDecision, Objects, Args, Decided, OnInquiry, OnOffer, OnProforma, WellFormed
      <4> QED
        BY <3>2, <4>1 DEF ReadDecision, TypeOK, CallType
    <3>3. CASE CreateProforma(c)
      <4>1. CallsTyped'
        BY <3>3, <2>4 DEF CreateProforma
      <4> QED
        BY <3>3, <4>1 DEF CreateProforma, TypeOK, CallType
    <3>4. CASE WriteDecision(c)
      <4>1. call[c].on \in Proformas /\ call[c].arg \in Decided
        BY <3>4, <2>1 DEF WriteDecision, At, WellFormed, OnProforma
      <4>2. CallsTyped'
        BY <3>4, <4>1, <2>2, <2>4 DEF WriteDecision, WellFormed, OnOffer
      <4> QED
        BY <3>4, <4>1, <4>2 DEF WriteDecision, TypeOK, CallType, Decided
    <3>5. CASE MarkSold(c)
      <4>1. OfferOf[call[c].on] \in Offers
        BY <3>5, <2>1 DEF MarkSold, At, WellFormed, Offered
      <4>2. CallsTyped'
        BY <3>5, <2>4 DEF MarkSold
      <4> QED
        BY <3>5, <4>1, <4>2 DEF MarkSold, Sold, TypeOK, CallType
    <3> QED
      BY <2>9, <3>1, <3>2, <3>3, <3>4, <3>5 DEF Invoicing
  <2>10. ASSUME NEW c \in Calls, Cut(c) PROVE TypeOK'
    <3>1. Touched(c) \subseteq Objects
      BY <2>1 DEF Touched, Objects, WellFormed
    <3>2. CallsTyped'
      BY <2>0, <2>3, <2>10, <3>1 DEF Cut
    <3> QED
      BY <2>10, <3>2 DEF Cut, TypeOK, CallType
  <2>11. ASSUME NEW o \in Offers, NEW verdict \in {"accepted", "rejected"}, DecideOffer(o, verdict)
         PROVE TypeOK'
    BY <2>11 DEF DecideOffer, Meet, TypeOK, Objects
  <2>12. ASSUME Remove PROVE TypeOK'
    BY <2>12 DEF Remove, Meet, TypeOK, Objects
  <2>13. ASSUME UNCHANGED vars PROVE TypeOK'
    BY <2>13 DEF vars, TypeOK
  <2> QED
    BY <2>7, <2>8, <2>9, <2>10, <2>11, <2>12, <2>13 DEF Next
<1> QED
  BY <1>1, <1>2, PTL DEF Spec

-----------------------------------------------------------------------------
(* What two calls share is disturbed *)

Overlap ==
    \A c, d \in Calls : c # d => Touched(c) \intersect Touched(d) \subseteq disturbed

\* A step changes one call at most; what it newly works on is disturbed if
\* another call works on it, and nothing stops being disturbed.
StepOf(c) ==
    /\ \A d \in Calls \ {c} : call'[d] = call[d]
    /\ disturbed \subseteq disturbed'
    /\ \A d \in Calls \ {c} : (Touched(c)' \ Touched(c)) \intersect Touched(d) \subseteq disturbed'

LEMMA BeginIsStep ==
    ASSUME TypeOK, NEW c \in Calls, NEW step, NEW x, NEW a, NEW xs, Begin(c, step, x, a, xs),
           \A y : /\ y \in (IF step \in OnInquiry THEN {Inquiry} ELSE {})
                             \union (IF step \in OnOffer \union OnProforma THEN {x} ELSE {})
                  /\ y \in Busy
                  => y \in xs
    PROVE StepOf(c)
<1>1. call' = [call EXCEPT ![c] = [at |-> step, on |-> x, arg |-> a]]
  BY DEF Begin
<1>2. \A d \in Calls \ {c} : call'[d] = call[d]
  BY <1>1 DEF TypeOK
<1>3. call'[c].at = step /\ call'[c].on = x
  BY <1>1 DEF TypeOK
<1>4. Touched(c)' = (IF step \in OnInquiry THEN {Inquiry} ELSE {})
                      \union (IF step \in OnOffer \union OnProforma THEN {x} ELSE {})
  BY <1>3 DEF Touched
<1>5. disturbed' = disturbed \union (xs \intersect Busy)
  BY DEF Begin, Meet
<1>6. \A d \in Calls : Touched(d) \subseteq Busy
  BY DEF Busy
<1> QED
  BY <1>2, <1>4, <1>5, <1>6 DEF StepOf

LEMMA GoIsStep ==
    ASSUME TypeOK, NEW c \in Calls, NEW from, NEW to, At(c, from), Go(c, to),
           <<from, to>> \in {<<"archive", "rejectPending">>, <<"reopen", "write">>,
                             <<"create", "count">>, <<"decide", "markSold">>}
    PROVE StepOf(c)
<1>1. call' = [call EXCEPT ![c].at = to] /\ UNCHANGED disturbed
  BY DEF Go
<1>2. \A d \in Calls \ {c} : call'[d] = call[d]
  BY <1>1 DEF TypeOK
<1>3. call'[c].at = to /\ call'[c].on = call[c].on
  BY <1>1 DEF TypeOK
<1>4. Touched(c)' = Touched(c)
  BY <1>3 DEF Touched, At, OnInquiry, OnOffer, OnProforma
<1> QED
  BY <1>1, <1>2, <1>4 DEF StepOf

LEMMA EndIsStep ==
    ASSUME TypeOK, NEW c \in Calls, call' = [call EXCEPT ![c] = Idle], disturbed \subseteq disturbed'
    PROVE StepOf(c)
<1>1. \A d \in Calls \ {c} : call'[d] = call[d]
  BY DEF TypeOK
<1>2. call'[c].at = "idle"
  BY DEF TypeOK, Idle
<1>3. Touched(c)' = {}
  BY <1>2 DEF Touched, OnInquiry, OnOffer, OnProforma
<1> QED
  BY <1>1, <1>3 DEF StepOf

LEMMA OverlapKept ==
    ASSUME Overlap, NEW c \in Calls, StepOf(c)
    PROVE Overlap'
<1> SUFFICES ASSUME NEW d \in Calls, NEW e \in Calls, d # e
             PROVE (Touched(d) \intersect Touched(e) \subseteq disturbed)'
  BY DEF Overlap
<1>1. \A f \in Calls \ {c} : Touched(f)' = Touched(f)
  BY DEF StepOf, Touched
<1>2. Touched(d) \intersect Touched(e) \subseteq disturbed
  BY DEF Overlap
<1>3. CASE d = c
  BY <1>1, <1>2, <1>3 DEF StepOf
<1>4. CASE e = c
  BY <1>1, <1>2, <1>4 DEF StepOf
<1>5. CASE d # c /\ e # c
  BY <1>1, <1>2, <1>5 DEF StepOf
<1> QED
  BY <1>3, <1>4, <1>5

LEMMA OverlapStep ==
    ASSUME TypeOK, Overlap, [Next]_vars
    PROVE Overlap'
<1> USE DEF OnInquiry, OnOffer, OnProforma
<1>1. ASSUME NEW c \in Calls, Inquiring(c) PROVE StepOf(c)
  <2>1. ASSUME NEW result, ReadFinalize(c, result) PROVE StepOf(c)
    BY <2>1, BeginIsStep DEF ReadFinalize
  <2>2. ASSUME NEW status, ReadUpdate(c, status) PROVE StepOf(c)
    BY <2>2, BeginIsStep DEF ReadUpdate
  <2>3. CASE Archive(c) \/ Reopen(c)
    BY <2>3, GoIsStep, EndIsStep DEF Archive, Reopen, NotFound, Done
  <2>4. CASE WriteUpdate(c) \/ RejectPending(c)
    BY <2>4, EndIsStep DEF WriteUpdate, RejectPending, NotFound, Done
  <2> QED
    BY <1>1, <2>1, <2>2, <2>3, <2>4 DEF Inquiring
<1>2. ASSUME NEW c \in Calls, Offering(c) PROVE StepOf(c)
  <2>1. ASSUME NEW o \in Offers, ReadAddOffer(c, o) PROVE StepOf(c)
    <3>1. o \notin Busy
      BY <2>1, NamesAssumption DEF ReadAddOffer, Busy, Touched
    <3> QED
      BY <2>1, <3>1, BeginIsStep DEF ReadAddOffer
  <2>2. ASSUME NEW o \in Offers, NEW result, Withdraw(c, o) \/ ReadEdit(c, o) \/ ReadSale(c, o, result)
        PROVE StepOf(c)
    BY <2>2, BeginIsStep DEF Withdraw, ReadEdit, ReadSale
  <2>3. CASE CreateOffer(c)
    BY <2>3, GoIsStep DEF CreateOffer
  <2>4. CASE CountOffer(c) \/ UncountOffer(c) \/ WriteEdit(c) \/ WriteSale(c)
    BY <2>4, EndIsStep DEF CountOffer, UncountOffer, WriteEdit, WriteSale, NotFound, Done
  <2> QED
    BY <1>2, <2>1, <2>2, <2>3, <2>4 DEF Offering
<1>3. ASSUME NEW c \in Calls, Invoicing(c) PROVE StepOf(c)
  <2>1. ASSUME NEW p \in Proformas, ReadIssue(c, p) PROVE StepOf(c)
    <3>1. p \notin Busy
      BY <2>1, NamesAssumption DEF ReadIssue, Busy, Touched
    <3> QED
      BY <2>1, <3>1, BeginIsStep DEF ReadIssue
  <2>2. ASSUME NEW p \in Proformas, NEW verdict, ReadDecision(c, p, verdict) PROVE StepOf(c)
    BY <2>2, BeginIsStep DEF ReadDecision
  <2>3. CASE WriteDecision(c)
    BY <2>3, GoIsStep, EndIsStep DEF WriteDecision, Done
  <2>4. CASE CreateProforma(c) \/ MarkSold(c)
    BY <2>4, EndIsStep DEF CreateProforma, MarkSold, Done
  <2> QED
    BY <1>3, <2>1, <2>2, <2>3, <2>4 DEF Invoicing
<1>4. ASSUME NEW c \in Calls, Cut(c) PROVE StepOf(c)
  BY <1>4, EndIsStep DEF Cut
<1>5. ASSUME call' = call, disturbed \subseteq disturbed' PROVE Overlap'
  BY <1>5 DEF Overlap, Touched
<1>6. ASSUME NEW o \in Offers, NEW verdict, DecideOffer(o, verdict) PROVE Overlap'
  BY <1>5, <1>6 DEF DecideOffer, Meet
<1>7. CASE Remove
  BY <1>5, <1>7 DEF Remove, Meet
<1>8. CASE UNCHANGED vars
  BY <1>5, <1>8 DEF vars
<1> QED
  BY <1>1, <1>2, <1>3, <1>4, <1>6, <1>7, <1>8, OverlapKept DEF Next

-----------------------------------------------------------------------------
(* Nothing about a deal without the buyer's acceptance *)

\* DealRestsOnAcceptance is not inductive: it needs that a call past its check
\* of 'accepted', and the offer itself, have the acceptance behind them.
Backed ==
    /\ DealRestsOnAcceptance
    /\ \A o \in Offers : offer[o] = "accepted" => accepted[o] # NeverAccepted
    /\ \A c \in Calls : At(c, "sale") => accepted[call[c].on] # NeverAccepted
    /\ \A c \in Calls : At(c, "issue") /\ call[c].on \in Offered =>
          accepted[OfferOf[call[c].on]] # NeverAccepted
    /\ \A c \in Calls : call[c].at \in {"decide", "markSold"} => proforma[call[c].on] # "none"

LEMMA BackedStep ==
    ASSUME TypeOK, Backed, [Next]_vars
    PROVE Backed'
<1> USE DEF Backed, DealRestsOnAcceptance, Offered, At, inquiryVars, offerVars
<1>1. ASSUME NEW c \in Calls, Done(c) \/ call' = [call EXCEPT ![c] = Idle],
             UNCHANGED <<offer, sale, accepted, proforma>>
      PROVE Backed'
  BY <1>1 DEF Done, Idle, TypeOK
<1>2. ASSUME NEW c \in Calls, NEW step, NEW x, NEW a, NEW xs, Begin(c, step, x, a, xs),
             step = "sale" => accepted[x] # NeverAccepted,
             step = "issue" /\ x \in Offered => accepted[OfferOf[x]] # NeverAccepted,
             step = "decide" => proforma[x] # "none", step # "markSold",
             UNCHANGED <<sale, accepted, proforma>>,
             \A o \in Offers : offer'[o] = "accepted" => offer[o] = "accepted"
      PROVE Backed'
  BY <1>2 DEF Begin, TypeOK
<1>3. ASSUME NEW c \in Calls, NEW step \in {"rejectPending", "write", "count"}, Go(c, step),
             UNCHANGED <<sale, accepted, proforma>>,
             \A o \in Offers : offer'[o] = "accepted" => offer[o] = "accepted"
      PROVE Backed'
  BY <1>3 DEF Go, TypeOK
<1>4. ASSUME NEW c \in Calls, Inquiring(c) PROVE Backed'
  <2>1. ASSUME NEW result, ReadFinalize(c, result) PROVE Backed'
    BY <2>1, <1>2 DEF ReadFinalize
  <2>2. ASSUME NEW status, ReadUpdate(c, status) PROVE Backed'
    BY <2>2, <1>2 DEF ReadUpdate
  <2>3. CASE Archive(c) \/ Reopen(c) \/ WriteUpdate(c)
    BY <2>3, <1>1, <1>3 DEF Archive, Reopen, WriteUpdate, NotFound
  <2>4. CASE RejectPending(c)
    BY <2>4 DEF RejectPending, Done, Idle, TypeOK
  <2> QED
    BY <1>4, <2>1, <2>2, <2>3, <2>4 DEF Inquiring
<1>5. ASSUME NEW c \in Calls, Offering(c) PROVE Backed'
  <2>1. ASSUME NEW o \in Offers, ReadAddOffer(c, o) \/ ReadEdit(c, o) PROVE Backed'
    BY <2>1, <1>2 DEF ReadAddOffer, ReadEdit
  <2>2. ASSUME NEW o \in Offers, Withdraw(c, o) PROVE Backed'
    <3>1. \A q \in Offers : offer'[q] = "accepted" => offer[q] = "accepted"
      BY <2>2 DEF Withdraw, TypeOK
    <3> QED
      BY <2>2, <3>1, <1>2 DEF Withdraw
  <2>3. ASSUME NEW o \in Offers, NEW result, ReadSale(c, o, result) PROVE Backed'
    BY <2>3, <1>2 DEF ReadSale
  <2>4. CASE CreateOffer(c)
    <3>1. \A q \in Offers : offer'[q] = "accepted" => offer[q] = "accepted"
      BY <2>4 DEF CreateOffer, TypeOK
    <3> QED
      BY <2>4, <3>1, <1>3 DEF CreateOffer
  <2>5. CASE CountOffer(c) \/ UncountOffer(c) \/ WriteEdit(c)
    BY <2>5, <1>1 DEF CountOffer, UncountOffer, WriteEdit, NotFound
  <2>6. CASE WriteSale(c)
    <3>1. CASE NotFound(c, "sale", offer[call[c].on] = "none")
      BY <3>1, <1>1 DEF NotFound
    <3>2. CASE ~ NotFound(c, "sale", offer[call[c].on] = "none")
      <4>1. call' = [call EXCEPT ![c] = Idle] /\ UNCHANGED <<offer, accepted, proforma>>
        BY <2>6, <3>2 DEF WriteSale, Done
      <4>2. \A o \in Offers : sale'[o] # "none" => accepted[o] # NeverAccepted
        BY <2>6, <3>2 DEF WriteSale, TypeOK
      <4> QED
        BY <4>1, <4>2 DEF Idle, TypeOK
    <3> QED
      BY <3>1, <3>2
  <2> QED
    BY <1>5, <2>1, <2>2, <2>3, <2>4, <2>5, <2>6 DEF Offering
<1>6. ASSUME NEW c \in Calls, Invoicing(c) PROVE Backed'
  <2>1. ASSUME NEW p \in Proformas, ReadIssue(c, p) PROVE Backed'
    BY <2>1, <1>2 DEF ReadIssue
  <2>2. ASSUME NEW p \in Proformas, NEW verdict, ReadDecision(c, p, verdict) PROVE Backed'
    BY <2>2, <1>2 DEF ReadDecision
  <2>3. CASE CreateProforma(c)
    BY <2>3 DEF CreateProforma, Done, Idle, TypeOK
  <2>4. CASE WriteDecision(c)
    <3>1. call[c].on \in Proformas /\ call[c].arg \in Decided
      BY <2>4 DEF WriteDecision, TypeOK, WellFormed, OnProforma
    <3> QED
      BY <2>4, <3>1 DEF WriteDecision, Go, Done, Idle, TypeOK, Decided
  <2>5. CASE MarkSold(c)
    <3>1. call[c].on \in Proformas
      BY <2>5 DEF MarkSold, TypeOK, WellFormed, OnProforma
    <3> QED
      BY <2>5, <3>1 DEF MarkSold, Done, Idle, TypeOK
  <2> QED
    BY <1>6, <2>1, <2>2, <2>3, <2>4, <2>5 DEF Invoicing
<1>7. ASSUME NEW c \in Calls, Cut(c) PROVE Backed'
  BY <1>7, <1>1 DEF Cut
<1>8. ASSUME NEW o \in Offers, NEW verdict, DecideOffer(o, verdict) PROVE Backed'
  BY <1>8 DEF DecideOffer, TypeOK, NeverAccepted
<1>9. CASE Remove \/ UNCHANGED vars
  BY <1>9 DEF Remove, vars
<1> QED
  BY <1>4, <1>5, <1>6, <1>7, <1>8, <1>9 DEF Next

\* However calls overlap, and wherever they end, there is no sale result and no
\* pro-forma for an offer the buyer never accepted.
THEOREM NoDealUnaccepted == Spec => []DealRestsOnAcceptance
<1>1. Init => Backed
  BY DEF Init, Backed, DealRestsOnAcceptance, Offered, At, Idle
<1>2. Backed => DealRestsOnAcceptance
  BY DEF Backed
<1> QED
  BY <1>1, <1>2, BackedStep, DealTypeCorrect, PTL DEF Spec

-----------------------------------------------------------------------------
(* What holds of an object that no two calls worked on at once *)

\* DecidedOnce: the call that is about to decide an undisturbed pro-forma still
\* finds it as it read it, and one about to create it is alone with it.
DecisionReadHolds ==
    /\ \A c \in Calls : At(c, "issue") =>
          /\ proforma[call[c].on] = "none"
          /\ \A d \in Calls \ {c} : call[d].on # call[c].on
    /\ \A c \in Calls : At(c, "decide") /\ call[c].on \notin disturbed =>
          proforma[call[c].on] = "sent"

LEMMA DecisionStep ==
    ASSUME TypeOK, Overlap, DecisionReadHolds, [Next]_vars
    PROVE /\ DecisionReadHolds'
          /\ \A p \in Proformas :
                proforma[p] \in Decided /\ proforma'[p] # proforma[p] => p \in disturbed
<1> DEFINE Once == \A p \in Proformas :
                      proforma[p] \in Decided /\ proforma'[p] # proforma[p] => p \in disturbed
<1> USE OfferOfAssumption DEF DecisionReadHolds, At, inquiryVars, offerVars
<1>0. Inquiry \notin Proformas /\ \A c \in Calls :
          call[c].at \in OnProforma => call[c].on \in Proformas
  BY NamesAssumption DEF TypeOK, WellFormed
<1>1. ASSUME NEW c \in Calls, call' = [call EXCEPT ![c] = Idle], UNCHANGED proforma,
             disturbed \subseteq disturbed'
      PROVE DecisionReadHolds' /\ Once
  BY <1>0, <1>1 DEF Idle, TypeOK, OnProforma
<1>2. ASSUME NEW c \in Calls, NEW step, NEW x, NEW a, NEW xs, Begin(c, step, x, a, xs),
             UNCHANGED proforma,
             step = "issue" => x \in Proformas /\ proforma[x] = "none"
                                  /\ \A d \in Calls : call[d].on # x,
             step = "decide" => proforma[x] = "sent",
             x \in Proformas => proforma[x] = "sent" \/ step = "issue"
      PROVE DecisionReadHolds' /\ Once
  BY <1>0, <1>2 DEF Begin, Meet, TypeOK, OnProforma
<1>3. ASSUME NEW c \in Calls, NEW step \in {"rejectPending", "write", "count"}, Go(c, step),
             UNCHANGED proforma
      PROVE DecisionReadHolds' /\ Once
  BY <1>0, <1>3 DEF Go, TypeOK
<1>4. ASSUME NEW c \in Calls, Inquiring(c) PROVE DecisionReadHolds' /\ Once
  <2>1. ASSUME NEW result, ReadFinalize(c, result) PROVE DecisionReadHolds' /\ Once
    BY <1>0, <2>1, <1>2 DEF ReadFinalize
  <2>2. ASSUME NEW status, ReadUpdate(c, status) PROVE DecisionReadHolds' /\ Once
    BY <1>0, <2>2, <1>2 DEF ReadUpdate
  <2>3. CASE Archive(c) \/ Reopen(c) \/ WriteUpdate(c) \/ RejectPending(c)
    BY <2>3, <1>1, <1>3 DEF Archive, Reopen, WriteUpdate, RejectPending, NotFound, Done
  <2> QED
    BY <1>4, <2>1, <2>2, <2>3 DEF Inquiring
<1>5. ASSUME NEW c \in Calls, Offering(c) PROVE DecisionReadHolds' /\ Once
  <2>1. ASSUME NEW o \in Offers,
               \/ ReadAddOffer(c, o) \/ Withdraw(c, o) \/ ReadEdit(c, o)
               \/ \E result : ReadSale(c, o, result)
        PROVE DecisionReadHolds' /\ Once
    <3>1. o \notin Proformas
      BY NamesAssumption
    <3> QED
      BY <2>1, <3>1, <1>2 DEF ReadAddOffer, Withdraw, ReadEdit, ReadSale
  <2>2. CASE CreateOffer(c) \/ CountOffer(c) \/ UncountOffer(c) \/ WriteEdit(c) \/ WriteSale(c)
    BY <2>2, <1>1, <1>3
       DEF CreateOffer, CountOffer, UncountOffer, WriteEdit, WriteSale, NotFound, Done
  <2> QED
    BY <1>5, <2>1, <2>2 DEF Offering
<1>6. ASSUME NEW c \in Calls, Invoicing(c) PROVE DecisionReadHolds' /\ Once
  <2>1. ASSUME NEW p \in Proformas, ReadIssue(c, p) PROVE DecisionReadHolds' /\ Once
    BY <2>1, <1>2 DEF ReadIssue
  <2>2. ASSUME NEW p \in Proformas, NEW verdict, ReadDecision(c, p, verdict)
        PROVE DecisionReadHolds' /\ Once
    BY <2>2, <1>2 DEF ReadDecision
  <2>3. CASE CreateProforma(c)
    BY <1>0, <2>3 DEF CreateProforma, Done, Idle, TypeOK, OnProforma, Decided
  <2>4. CASE WriteDecision(c)
    <3> DEFINE p == call[c].on
    <3>1. p \in Proformas
      BY <1>0, <2>4 DEF WriteDecision, OnProforma
    <3>2. p \notin disturbed => proforma[p] = "sent"
      BY <2>4 DEF WriteDecision
    <3>3. \A d \in Calls \ {c} : call[d].at = "decide" /\ call[d].on = p => p \in disturbed
      BY <2>4 DEF Overlap, Touched, WriteDecision, OnProforma
    <3>4. \A d \in Calls \ {c} : call[d].at = "issue" => call[d].on # p
      BY <2>4 DEF WriteDecision
    <3>5. /\ proforma' = [proforma EXCEPT ![p] = call[c].arg]
          /\ UNCHANGED disturbed
          /\ \A d \in Calls \ {c} : call'[d] = call[d]
          /\ call'[c].on \in {p, Inquiry} /\ call'[c].at \in {"markSold", "idle"}
      BY <2>4 DEF WriteDecision, Go, Done, Idle, TypeOK
    <3>6. Once
      BY <3>1, <3>2, <3>5 DEF TypeOK, Decided
    <3>7. ASSUME NEW d \in Calls, At(d, "issue")'
          PROVE /\ proforma'[call'[d].on] = "none"
                /\ \A e \in Calls \ {d} : call'[e].on # call'[d].on
      <4>1. d # c /\ At(d, "issue") /\ call'[d].on = call[d].on /\ call[d].on \in Proformas
        BY <1>0, <3>5, <3>7 DEF OnProforma
      <4> QED
        BY <1>0, <3>4, <3>5, <4>1 DEF TypeOK
    <3>8. ASSUME NEW d \in Calls, At(d, "decide")', call'[d].on \notin disturbed'
          PROVE proforma'[call'[d].on] = "sent"
      <4>1. d # c /\ At(d, "decide") /\ call'[d].on = call[d].on /\ call[d].on \notin disturbed
        BY <3>5, <3>8
      <4> QED
        BY <3>3, <3>5, <4>1 DEF TypeOK
    <3> QED
      BY <3>6, <3>7, <3>8
  <2>5. CASE MarkSold(c)
    BY <2>5, <1>1 DEF MarkSold, Done
  <2> QED
    BY <1>6, <2>1, <2>2, <2>3, <2>4, <2>5 DEF Invoicing
<1>7. ASSUME NEW c \in Calls, Cut(c) PROVE DecisionReadHolds' /\ Once
  BY <1>7, <1>1 DEF Cut
<1>8. ASSUME UNCHANGED <<call, proforma>>, disturbed \subseteq disturbed'
      PROVE DecisionReadHolds' /\ Once
  BY <1>8
<1>9. ASSUME NEW o \in Offers, NEW verdict, DecideOffer(o, verdict) PROVE DecisionReadHolds' /\ Once
  BY <1>8, <1>9 DEF DecideOffer, Meet
<1>10. CASE Remove \/ UNCHANGED vars
  BY <1>8, <1>10 DEF Remove, Meet, vars
<1> QED
  BY <1>4, <1>5, <1>6, <1>7, <1>9, <1>10 DEF Next

LEMMA OverlapAlways == Spec => []Overlap
<1>1. Init => Overlap
  BY DEF Init, Overlap, Touched, Idle, OnInquiry, OnOffer, OnProforma
<1> QED
  BY <1>1, OverlapStep, DealTypeCorrect, PTL DEF Spec

\* Whoever decides a pro-forma decides it for good, unless two decisions on it
\* overlapped: confirm, reject and cancel never overturn one another otherwise.
THEOREM DecisionStands == Spec => DecidedOnce
<1>1. Init => DecisionReadHolds
  BY DEF Init, DecisionReadHolds, At, Idle
<1>2. TypeOK /\ Overlap /\ DecisionReadHolds /\ [Next]_vars =>
          [\A p \in Proformas :
              proforma[p] \in Decided /\ proforma'[p] # proforma[p] => p \in disturbed]_vars
  BY DecisionStep
<1> QED
  BY <1>1, <1>2, DecisionStep, OverlapAlways, DealTypeCorrect, PTL DEF Spec, DecidedOnce

\* ArchivedIsSettled and AcceptedAsRead are not inductive: a call past its check
\* must still find an undisturbed inquiry open, and an undisturbed offer not
\* accepted; and from archive to rejectPending offers may be pending.
OfferReadHolds ==
    /\ AcceptedAsRead
    /\ \A c \in Calls : At(c, "edit") /\ call[c].on \notin disturbed =>
          offer[call[c].on] # "accepted"

LEMMA OfferStep ==
    ASSUME TypeOK, Overlap, OfferReadHolds, [Next]_vars
    PROVE OfferReadHolds'
<1> USE DEF OfferReadHolds, AcceptedAsRead, At, inquiryVars, offerVars
<1>0. Inquiry \notin Offers /\ \A c \in Calls : call[c].at \in OnOffer => call[c].on \in Offers
  BY NamesAssumption DEF TypeOK, WellFormed
<1>1. ASSUME NEW c \in Calls, call' = [call EXCEPT ![c] = Idle],
             UNCHANGED <<terms, accepted>>, disturbed \subseteq disturbed',
             \A o \in Offers : offer'[o] = "accepted" => offer[o] = "accepted"
      PROVE OfferReadHolds'
  BY <1>0, <1>1 DEF Idle, TypeOK, OnOffer
<1>2. ASSUME NEW c \in Calls, NEW step, NEW x, NEW a, NEW xs, Begin(c, step, x, a, xs),
             UNCHANGED <<terms, accepted>>,
             step = "edit" => x \in Offers /\ offer[x] # "accepted",
             \A o \in Offers : offer'[o] = "accepted" => offer[o] = "accepted"
      PROVE OfferReadHolds'
  BY <1>0, <1>2 DEF Begin, Meet, TypeOK, OnOffer
<1>3. ASSUME NEW c \in Calls, NEW step \in {"rejectPending", "write", "count", "markSold"},
             Go(c, step), UNCHANGED <<terms, accepted>>,
             \A o \in Offers : offer'[o] = "accepted" => offer[o] = "accepted"
      PROVE OfferReadHolds'
  BY <1>0, <1>3 DEF Go, TypeOK, OnOffer
<1>4. ASSUME NEW c \in Calls, Inquiring(c) PROVE OfferReadHolds'
  <2>1. ASSUME NEW result, ReadFinalize(c, result) PROVE OfferReadHolds'
    BY <2>1, <1>2 DEF ReadFinalize
  <2>2. ASSUME NEW status, ReadUpdate(c, status) PROVE OfferReadHolds'
    BY <2>2, <1>2 DEF ReadUpdate
  <2>3. CASE Archive(c) \/ Reopen(c) \/ WriteUpdate(c)
    BY <2>3, <1>1, <1>3 DEF Archive, Reopen, WriteUpdate, NotFound, Done
  <2>4. CASE RejectPending(c)
    <3>1. \A o \in Offers : offer'[o] = "accepted" => offer[o] = "accepted"
      BY <2>4 DEF RejectPending
    <3> QED
      BY <2>4, <3>1, <1>1 DEF RejectPending, Done
  <2> QED
    BY <1>4, <2>1, <2>2, <2>3, <2>4 DEF Inquiring
<1>5. ASSUME NEW c \in Calls, Offering(c) PROVE OfferReadHolds'
  <2>1. ASSUME NEW o \in Offers,
               ReadAddOffer(c, o) \/ ReadEdit(c, o) \/ \E result : ReadSale(c, o, result)
        PROVE OfferReadHolds'
    BY <2>1, <1>2 DEF ReadAddOffer, ReadEdit, ReadSale
  <2>2. ASSUME NEW o \in Offers, Withdraw(c, o) PROVE OfferReadHolds'
    <3>1. \A q \in Offers : offer'[q] = "accepted" => offer[q] = "accepted"
      BY <2>2 DEF Withdraw, TypeOK
    <3> QED
      BY <2>2, <3>1, <1>2 DEF Withdraw
  <2>3. CASE CreateOffer(c)
    <3>1. \A q \in Offers : offer'[q] = "accepted" => offer[q] = "accepted"
      BY <2>3 DEF CreateOffer, TypeOK
    <3> QED
      BY <2>3, <3>1, <1>3 DEF CreateOffer
  <2>4. CASE CountOffer(c) \/ UncountOffer(c) \/ WriteSale(c)
    BY <2>4, <1>1 DEF CountOffer, UncountOffer, WriteSale, NotFound, Done
  <2>5. CASE WriteEdit(c)
    <3>1. CASE NotFound(c, "edit", offer[call[c].on] = "none")
      BY <3>1, <1>1 DEF NotFound, Done
    <3>2. CASE ~ NotFound(c, "edit", offer[call[c].on] = "none")
      BY <1>0, <2>5, <3>2 DEF WriteEdit, Done, Idle, TypeOK, OnOffer
    <3> QED
      BY <3>1, <3>2
  <2> QED
    BY <1>5, <2>1, <2>2, <2>3, <2>4, <2>5 DEF Offering
<1>6. ASSUME NEW c \in Calls, Invoicing(c) PROVE OfferReadHolds'
  <2>1. ASSUME NEW p \in Proformas, ReadIssue(c, p) \/ \E verdict : ReadDecision(c, p, verdict)
        PROVE OfferReadHolds'
    BY <2>1, <1>2 DEF ReadIssue, ReadDecision
  <2>2. CASE CreateProforma(c) \/ WriteDecision(c) \/ MarkSold(c)
    BY <2>2, <1>1, <1>3 DEF CreateProforma, WriteDecision, MarkSold, Done
  <2> QED
    BY <1>6, <2>1, <2>2 DEF Invoicing
<1>7. ASSUME NEW c \in Calls, Cut(c) PROVE OfferReadHolds'
  BY <1>7, <1>1 DEF Cut
<1>8. ASSUME NEW o \in Offers, NEW verdict \in {"accepted", "rejected"}, DecideOffer(o, verdict)
      PROVE OfferReadHolds'
  <2>1. \A c \in Calls : At(c, "edit") /\ call[c].on = o => o \in disturbed'
    BY <1>8 DEF DecideOffer, Meet, Busy, Touched, OnOffer
  <2>2. /\ offer' = [offer EXCEPT ![o] = verdict]
        /\ UNCHANGED <<terms, call>> /\ disturbed \subseteq disturbed'
        /\ verdict = "accepted" => accepted' = [accepted EXCEPT ![o] = terms[o]]
        /\ verdict # "accepted" => accepted' = accepted
    BY <1>8 DEF DecideOffer, Meet
  <2> QED
    BY <1>0, <2>1, <2>2 DEF TypeOK, OnOffer
<1>9. CASE Remove \/ UNCHANGED vars
  BY <1>0, <1>9 DEF Remove, Meet, vars, TypeOK, OnOffer
<1> QED
  BY <1>4, <1>5, <1>6, <1>7, <1>8, <1>9 DEF Next

\* The buyer gets what was accepted: no edit changes an offer after its
\* acceptance, unless the two calls overlapped.
THEOREM AcceptanceFreezes == Spec => []AcceptedAsRead
<1>1. Init => OfferReadHolds
  BY DEF Init, OfferReadHolds, AcceptedAsRead, At, Idle
<1>2. OfferReadHolds => AcceptedAsRead
  BY DEF OfferReadHolds
<1> QED
  BY <1>1, <1>2, OfferStep, OverlapAlways, DealTypeCorrect, PTL DEF Spec

\* An undisturbed inquiry is as addOffer read it, and archived only with
\* finalize's second write still to come or nothing pending.
InquiryReadHolds ==
    Inquiry \notin disturbed =>
        /\ \A c \in Calls : At(c, "create") => inquiry = "open"
        /\ inquiry = "archived" => \/ \E c \in Calls : At(c, "rejectPending")
                                   \/ \A o \in Offers : offer[o] # "pending"

LEMMA InquiryStep ==
    ASSUME TypeOK, Overlap, InquiryReadHolds, [Next]_vars
    PROVE InquiryReadHolds'
<1> USE DEF InquiryReadHolds, At, inquiryVars, offerVars
<1> SUFFICES ASSUME Inquiry \notin disturbed' PROVE InquiryReadHolds'
  OBVIOUS
<1>0. Inquiry \notin Offers \union Proformas
  BY NamesAssumption
<1>1. ASSUME disturbed \subseteq disturbed'
      PROVE /\ Inquiry \notin disturbed
            /\ \A c, d \in Calls : c # d =>
                  ~ (call[c].at \in OnInquiry /\ call[d].at \in OnInquiry)
  BY <1>1 DEF Overlap, Touched
<1>2. ASSUME disturbed \subseteq disturbed', UNCHANGED <<inquiry>>, NEW c \in Calls,
             \A d \in Calls \ {c} : call'[d] = call[d],
             call'[c].at \in {"idle", "count", "write", "uncount", "edit", "sale", "issue",
                              "decide", "markSold"},
             call[c].at # "rejectPending",
             \A o \in Offers : offer'[o] = "pending" => offer[o] = "pending"
      PROVE InquiryReadHolds'
  BY <1>1, <1>2
<1>3. ASSUME NEW c \in Calls, Inquiring(c) PROVE InquiryReadHolds'
  <2>1. ASSUME NEW step, NEW a, Begin(c, step, Inquiry, a, {Inquiry}), step # "create",
               UNCHANGED <<inquiry, offer>>
        PROVE InquiryReadHolds'
    BY <2>1 DEF Begin, Meet, TypeOK
  <2>2. ASSUME NEW result, ReadFinalize(c, result) PROVE InquiryReadHolds'
    BY <2>2, <2>1 DEF ReadFinalize
  <2>3. ASSUME NEW status, ReadUpdate(c, status) PROVE InquiryReadHolds'
    BY <2>3, <2>1 DEF ReadUpdate
  <2>4. CASE Archive(c) \/ Reopen(c) \/ WriteUpdate(c) \/ RejectPending(c)
    <3>1. call[c].at \in OnInquiry \ {"create"} /\ UNCHANGED disturbed
      BY <2>4 DEF Archive, Reopen, WriteUpdate, RejectPending, NotFound, Go, Done, OnInquiry
    <3>2. \A d \in Calls \ {c} : call[d].at \notin OnInquiry
      BY <1>1, <3>1
    <3>3. \A d \in Calls : call'[d].at # "create"
      BY <2>4, <3>1, <3>2
         DEF Archive, Reopen, WriteUpdate, RejectPending, NotFound, Go, Done, Idle, TypeOK, OnInquiry
    <3>4. inquiry' = "archived" => \/ \E d \in Calls : call'[d].at = "rejectPending"
                                   \/ \A o \in Offers : offer'[o] # "pending"
      <4>1. CASE Archive(c)
        BY <4>1, <1>1, <3>1, <3>2 DEF Archive, NotFound, Go, Done, TypeOK, OnInquiry
      <4>2. CASE Reopen(c)
        BY <4>2, <1>1, <3>1, <3>2 DEF Reopen, NotFound, Go, Done, TypeOK, OnInquiry
      <4>3. CASE WriteUpdate(c)
        <5>1. call[c].arg \in {"none", "open", "closed"}
          BY <4>3 DEF WriteUpdate, NotFound, TypeOK, WellFormed
        <5> QED
          BY <4>3, <5>1, <1>1, <3>1, <3>2 DEF WriteUpdate, NotFound, Done, TypeOK, OnInquiry
      <4>4. CASE RejectPending(c)
        BY <4>4 DEF RejectPending
      <4> QED
        BY <2>4, <4>1, <4>2, <4>3, <4>4
    <3> QED
      BY <3>3, <3>4
  <2> QED
    BY <1>3, <2>2, <2>3, <2>4 DEF Inquiring
<1>4. ASSUME NEW c \in Calls, NEW step \in {"uncount", "edit", "sale", "issue", "decide"}, NEW x,
             NEW a, NEW xs, Begin(c, step, x, a, xs), UNCHANGED inquiry,
             \A o \in Offers : offer'[o] = "pending" => offer[o] = "pending"
      PROVE InquiryReadHolds'
  BY <1>4, <1>2 DEF Begin, Meet, TypeOK
<1>5. ASSUME NEW c \in Calls, Done(c), call[c].at # "rejectPending", UNCHANGED <<inquiry, offer>>
      PROVE InquiryReadHolds'
  BY <1>5, <1>2 DEF Done, Idle, TypeOK
<1>6. ASSUME NEW c \in Calls, Offering(c) PROVE InquiryReadHolds'
  <2>1. ASSUME NEW o \in Offers, ReadAddOffer(c, o) PROVE InquiryReadHolds'
    BY <2>1 DEF ReadAddOffer, Begin, Meet, TypeOK
  <2>2. ASSUME NEW o \in Offers,
               Withdraw(c, o) \/ ReadEdit(c, o) \/ \E result : ReadSale(c, o, result)
        PROVE InquiryReadHolds'
    <3>1. \A q \in Offers : offer'[q] = "pending" => offer[q] = "pending"
      BY <2>2 DEF Withdraw, ReadEdit, ReadSale, TypeOK
    <3> QED
      BY <2>2, <3>1, <1>4 DEF Withdraw, ReadEdit, ReadSale
  <2>3. CASE CreateOffer(c)
    <3>1. inquiry = "open" /\ inquiry' = inquiry /\ UNCHANGED disturbed
      BY <2>3, <1>1 DEF CreateOffer, Go
    <3> QED
      BY <3>1
  <2>4. CASE CountOffer(c) \/ UncountOffer(c) \/ WriteEdit(c) \/ WriteSale(c)
    BY <2>4, <1>5 DEF CountOffer, UncountOffer, WriteEdit, WriteSale, NotFound
  <2> QED
    BY <1>6, <2>1, <2>2, <2>3, <2>4 DEF Offering
<1>7. ASSUME NEW c \in Calls, Invoicing(c) PROVE InquiryReadHolds'
  <2>1. ASSUME NEW p \in Proformas, ReadIssue(c, p) \/ \E verdict : ReadDecision(c, p, verdict)
        PROVE InquiryReadHolds'
    BY <2>1, <1>4 DEF ReadIssue, ReadDecision
  <2>2. CASE CreateProforma(c) \/ MarkSold(c)
    BY <2>2, <1>5 DEF CreateProforma, MarkSold
  <2>3. CASE WriteDecision(c)
    BY <2>3, <1>2 DEF WriteDecision, Go, Done, Idle, TypeOK
  <2> QED
    BY <1>7, <2>1, <2>2, <2>3 DEF Invoicing
<1>8. ASSUME NEW c \in Calls, Cut(c) PROVE InquiryReadHolds'
  <2>1. call[c].at # "rejectPending"
    BY <1>8 DEF Cut, Touched, OnInquiry
  <2> QED
    BY <1>8, <2>1, <1>2 DEF Cut, Idle, TypeOK
<1>9. ASSUME NEW o \in Offers, NEW verdict \in {"accepted", "rejected"}, DecideOffer(o, verdict)
      PROVE InquiryReadHolds'
  <2>1. \A q \in Offers : offer'[q] = "pending" => offer[q] = "pending"
    BY <1>9 DEF DecideOffer, TypeOK
  <2> QED
    BY <1>9, <2>1 DEF DecideOffer, Meet
<1>10. CASE Remove
  <2>1. \A c \in Calls : call[c].at # "create"
    BY <1>10 DEF Remove, Meet, Busy, Touched, OnInquiry
  <2> QED
    BY <1>10, <2>1 DEF Remove
<1>11. CASE UNCHANGED vars
  BY <1>11 DEF vars
<1> QED
  BY <1>3, <1>6, <1>7, <1>8, <1>9, <1>10, <1>11 DEF Next

\* finalize settles every offer, unless another call on the inquiry overlapped
\* with it or it ended half way.
THEOREM FinalizeSettles == Spec => []ArchivedIsSettled
<1>1. Init => InquiryReadHolds
  BY DEF Init, InquiryReadHolds, At, Idle
<1>2. InquiryReadHolds => ArchivedIsSettled
  <2>1. \A c \in Calls : At(c, "rejectPending") => Inquiry \in Busy
    BY DEF At, Busy, Touched, OnInquiry
  <2> QED
    BY <2>1 DEF InquiryReadHolds, ArchivedIsSettled
<1> QED
  BY <1>1, <1>2, InquiryStep, OverlapAlways, DealTypeCorrect, PTL DEF Spec

-----------------------------------------------------------------------------
(* What a confirmation and a counter need: an offer is created once *)

\* A call about to create an offer is alone with it, and the offer has no past.
OfferIsFresh ==
    \A c \in Calls : At(c, "create") =>
        /\ offer[call[c].on] = "none" /\ accepted[call[c].on] = NeverAccepted
        /\ \A d \in Calls \ {c} : call[d].on # call[c].on

LEMMA FreshStep ==
    ASSUME TypeOK, OfferIsFresh, [Next]_vars
    PROVE OfferIsFresh'
<1> USE DEF OfferIsFresh, At, inquiryVars, offerVars
<1>0. /\ Inquiry \notin Offers /\ Offers \intersect Proformas = {}
      /\ \A c \in Calls : /\ call[c].at \in OnOffer => call[c].on \in Offers
                          /\ call[c].at \in OnProforma => call[c].on \in Proformas
  BY NamesAssumption DEF TypeOK, WellFormed
<1>1. ASSUME NEW c \in Calls, call' = [call EXCEPT ![c] = Idle],
             UNCHANGED accepted, \A o \in Offers : offer[o] = "none" => offer'[o] = "none"
      PROVE OfferIsFresh'
  BY <1>0, <1>1 DEF Idle, TypeOK, OnOffer
<1>2. ASSUME NEW c \in Calls, NEW step, NEW x, NEW a, NEW xs, Begin(c, step, x, a, xs),
             UNCHANGED accepted, \A o \in Offers : offer[o] = "none" => offer'[o] = "none",
             x \in Offers => step = "create" \/ offer[x] # "none",
             step = "create" => /\ x \in Offers /\ offer'[x] = "none" /\ accepted[x] = NeverAccepted
                                /\ \A d \in Calls : call[d].on # x
      PROVE OfferIsFresh'
  BY <1>0, <1>2 DEF Begin, TypeOK, OnOffer
<1>3. ASSUME NEW c \in Calls, NEW step \in {"rejectPending", "write", "markSold"}, Go(c, step),
             UNCHANGED <<accepted, offer>>
      PROVE OfferIsFresh'
  BY <1>0, <1>3 DEF Go, TypeOK, OnOffer
<1>4. ASSUME NEW c \in Calls, Inquiring(c) PROVE OfferIsFresh'
  <2>1. ASSUME NEW result, ReadFinalize(c, result) PROVE OfferIsFresh'
    BY <1>0, <2>1, <1>2 DEF ReadFinalize
  <2>2. ASSUME NEW status, ReadUpdate(c, status) PROVE OfferIsFresh'
    BY <1>0, <2>2, <1>2 DEF ReadUpdate
  <2>3. CASE Archive(c) \/ Reopen(c) \/ WriteUpdate(c)
    BY <2>3, <1>1, <1>3 DEF Archive, Reopen, WriteUpdate, NotFound, Done
  <2>4. CASE RejectPending(c)
    <3>1. \A o \in Offers : offer[o] = "none" => offer'[o] = "none"
      BY <2>4 DEF RejectPending
    <3> QED
      BY <2>4, <3>1, <1>1 DEF RejectPending, Done
  <2> QED
    BY <1>4, <2>1, <2>2, <2>3, <2>4 DEF Inquiring
<1>5. ASSUME NEW c \in Calls, Offering(c) PROVE OfferIsFresh'
  <2>1. ASSUME NEW o \in Offers,
               ReadAddOffer(c, o) \/ ReadEdit(c, o) \/ \E result : ReadSale(c, o, result)
        PROVE OfferIsFresh'
    BY <2>1, <1>2 DEF ReadAddOffer, ReadEdit, ReadSale
  <2>2. ASSUME NEW o \in Offers, Withdraw(c, o) PROVE OfferIsFresh'
    <3>1. \A q \in Offers : offer[q] = "none" => offer'[q] = "none"
      BY <2>2 DEF Withdraw, TypeOK
    <3> QED
      BY <2>2, <3>1, <1>2 DEF Withdraw
  <2>3. CASE CreateOffer(c)
    <3>1. \A d \in Calls \ {c} : call'[d] = call[d] /\ call[d].on # call[c].on
      BY <2>3 DEF CreateOffer, Go, TypeOK
    <3>2. call'[c].at = "count" /\ call'[c].on = call[c].on
      BY <2>3 DEF CreateOffer, Go, TypeOK
    <3> QED
      BY <2>3, <3>1, <3>2 DEF CreateOffer, TypeOK
  <2>4. CASE CountOffer(c) \/ UncountOffer(c) \/ WriteEdit(c) \/ WriteSale(c)
    BY <2>4, <1>1 DEF CountOffer, UncountOffer, WriteEdit, WriteSale, NotFound, Done
  <2> QED
    BY <1>5, <2>1, <2>2, <2>3, <2>4 DEF Offering
<1>6. ASSUME NEW c \in Calls, Invoicing(c) PROVE OfferIsFresh'
  <2>1. ASSUME NEW p \in Proformas, ReadIssue(c, p) \/ \E verdict : ReadDecision(c, p, verdict)
        PROVE OfferIsFresh'
    BY <1>0, <2>1, <1>2 DEF ReadIssue, ReadDecision
  <2>2. CASE CreateProforma(c) \/ WriteDecision(c) \/ MarkSold(c)
    BY <2>2, <1>1, <1>3 DEF CreateProforma, WriteDecision, MarkSold, Done
  <2> QED
    BY <1>6, <2>1, <2>2 DEF Invoicing
<1>7. ASSUME NEW c \in Calls, Cut(c) PROVE OfferIsFresh'
  BY <1>7, <1>1 DEF Cut
<1>8. ASSUME NEW o \in Offers, NEW verdict, DecideOffer(o, verdict) PROVE OfferIsFresh'
  <2>1. \A c \in Calls : At(c, "create") => call[c].on # o
    BY <1>8 DEF DecideOffer
  <2> QED
    BY <1>0, <1>8, <2>1 DEF DecideOffer, TypeOK, OnOffer
<1>9. CASE Remove \/ UNCHANGED vars
  BY <1>0, <1>9 DEF Remove, vars, TypeOK, OnOffer
<1> QED
  BY <1>4, <1>5, <1>6, <1>7, <1>8, <1>9 DEF Next

LEMMA FreshAlways == Spec => []OfferIsFresh
<1>1. Init => OfferIsFresh
  BY DEF Init, OfferIsFresh, At, Idle
<1> QED
  BY <1>1, FreshStep, DealTypeCorrect, PTL DEF Spec

\* ConfirmedIsRecorded is not inductive: until the confirming call has recorded
\* the sale, that call is the excuse.
Recorded ==
    \A p \in Offered \ disturbed :
        proforma[p] = "confirmed" /\ offer[OfferOf[p]] # "none" =>
            \/ sale[OfferOf[p]] # "none"
            \/ \E c \in Calls : At(c, "markSold") /\ call[c].on = p

LEMMA RecordStep ==
    ASSUME TypeOK, Backed, OfferIsFresh, Recorded, [Next]_vars
    PROVE Recorded'
<1> USE DEF Recorded, Offered, At, inquiryVars, offerVars
<1>1. ASSUME NEW c \in Calls, disturbed \subseteq disturbed', UNCHANGED proforma,
             \A d \in Calls \ {c} : call'[d] = call[d],
             \A p \in Offered \ disturbed' :
                At(c, "markSold") /\ call[c].on = p /\ offer[OfferOf[p]] # "none" =>
                   sale'[OfferOf[p]] # "none",
             \A o \in Offers : sale[o] # "none" => sale'[o] # "none",
             \A o \in Offers : offer[o] = "none" => offer'[o] = "none"
      PROVE Recorded'
  BY <1>1
<1>2. ASSUME NEW c \in Calls, NEW step, NEW x, NEW a, NEW xs, Begin(c, step, x, a, xs),
             UNCHANGED <<sale, proforma>>, \A o \in Offers : offer[o] = "none" => offer'[o] = "none"
      PROVE Recorded'
  BY <1>1, <1>2 DEF Begin, Meet, TypeOK
<1>3. ASSUME NEW c \in Calls, Done(c) \/ \E step : Go(c, step), ~ At(c, "markSold"),
             UNCHANGED <<sale, proforma>>, \A o \in Offers : offer[o] = "none" => offer'[o] = "none"
      PROVE Recorded'
  BY <1>1, <1>3 DEF Go, Done, TypeOK
<1>4. ASSUME NEW c \in Calls, Inquiring(c) PROVE Recorded'
  <2>1. ASSUME NEW result, ReadFinalize(c, result) PROVE Recorded'
    BY <2>1, <1>2 DEF ReadFinalize
  <2>2. ASSUME NEW status, ReadUpdate(c, status) PROVE Recorded'
    BY <2>2, <1>2 DEF ReadUpdate
  <2>3. CASE Archive(c) \/ Reopen(c) \/ WriteUpdate(c)
    BY <2>3, <1>3 DEF Archive, Reopen, WriteUpdate, NotFound
  <2>4. CASE RejectPending(c)
    <3>1. \A o \in Offers : offer[o] = "none" => offer'[o] = "none"
      BY <2>4 DEF RejectPending
    <3> QED
      BY <2>4, <3>1, <1>3 DEF RejectPending
  <2> QED
    BY <1>4, <2>1, <2>2, <2>3, <2>4 DEF Inquiring
<1>5. ASSUME NEW c \in Calls, Offering(c) PROVE Recorded'
  <2>1. ASSUME NEW o \in Offers,
               ReadAddOffer(c, o) \/ ReadEdit(c, o) \/ \E result : ReadSale(c, o, result)
        PROVE Recorded'
    BY <2>1, <1>2 DEF ReadAddOffer, ReadEdit, ReadSale
  <2>2. ASSUME NEW o \in Offers, Withdraw(c, o) PROVE Recorded'
    <3>1. \A q \in Offers : offer[q] = "none" => offer'[q] = "none"
      BY <2>2 DEF Withdraw, TypeOK
    <3> QED
      BY <2>2, <3>1, <1>2 DEF Withdraw
  <2>3. CASE CreateOffer(c)
    <3>1. call[c].on \in Offers
      BY <2>3 DEF CreateOffer, TypeOK, WellFormed, OnOffer
    <3>2. \A p \in Offered : proforma[p] # "none" => OfferOf[p] # call[c].on
      BY <2>3 DEF CreateOffer, OfferIsFresh, Backed, DealRestsOnAcceptance
    <3>3. \A p \in Offered : OfferOf[p] # call[c].on => offer'[OfferOf[p]] = offer[OfferOf[p]]
      BY <2>3, <3>1 DEF CreateOffer, TypeOK
    <3>4. /\ \A d \in Calls : d # c => call'[d] = call[d]
          /\ ~ At(c, "markSold") /\ UNCHANGED <<sale, proforma, disturbed>>
      BY <2>3 DEF CreateOffer, Go, TypeOK
    <3> QED
      BY <3>2, <3>3, <3>4
  <2>4. CASE CountOffer(c) \/ UncountOffer(c) \/ WriteEdit(c)
    BY <2>4, <1>3 DEF CountOffer, UncountOffer, WriteEdit, NotFound
  <2>5. CASE WriteSale(c)
    <3>1. \A o \in Offers : sale[o] # "none" => sale'[o] # "none"
      BY <2>5 DEF WriteSale, NotFound, TypeOK, WellFormed
    <3>2. /\ \A d \in Calls \ {c} : call'[d] = call[d]
          /\ ~ At(c, "markSold") /\ UNCHANGED <<proforma, offer, disturbed>>
      BY <2>5 DEF WriteSale, NotFound, Done, TypeOK
    <3> QED
      BY <3>1, <3>2, <1>1
  <2> QED
    BY <1>5, <2>1, <2>2, <2>3, <2>4, <2>5 DEF Offering
<1>6. ASSUME NEW c \in Calls, Invoicing(c) PROVE Recorded'
  <2>1. ASSUME NEW p \in Proformas, ReadIssue(c, p) \/ \E verdict : ReadDecision(c, p, verdict)
        PROVE Recorded'
    BY <2>1, <1>2 DEF ReadIssue, ReadDecision
  <2>2. CASE CreateProforma(c) \/ WriteDecision(c)
    <3>1. call[c].on \in Proformas /\ ~ At(c, "markSold")
      BY <2>2 DEF CreateProforma, WriteDecision, TypeOK, WellFormed, OnProforma
    <3>2. /\ \A p \in Proformas : p # call[c].on => proforma'[p] = proforma[p]
          /\ UNCHANGED <<sale, offer, disturbed>>
          /\ \A d \in Calls : d # c => call'[d] = call[d]
          /\ proforma'[call[c].on] = "confirmed" /\ call[c].on \in Offered =>
                call'[c].at = "markSold" /\ call'[c].on = call[c].on
      BY <2>2, <3>1 DEF CreateProforma, WriteDecision, Go, Done, TypeOK
    <3> QED
      BY <3>1, <3>2
  <2>3. CASE MarkSold(c)
    <3>1. call[c].on \in Proformas /\ OfferOf[call[c].on] \in Offers
      BY <2>3 DEF MarkSold, TypeOK, WellFormed
    <3>2. /\ sale' = [sale EXCEPT ![OfferOf[call[c].on]] = Sold(OfferOf[call[c].on])]
          /\ \A d \in Calls \ {c} : call'[d] = call[d]
          /\ UNCHANGED <<proforma, offer, disturbed>>
      BY <2>3 DEF MarkSold, Done, TypeOK
    <3>3. /\ \A o \in Offers : sale[o] # "none" => sale'[o] # "none"
          /\ offer[OfferOf[call[c].on]] # "none" => sale'[OfferOf[call[c].on]] # "none"
      BY <3>1, <3>2 DEF Sold, TypeOK
    <3> QED
      BY <3>2, <3>3, <1>1
  <2> QED
    BY <1>6, <2>1, <2>2, <2>3 DEF Invoicing
<1>7. ASSUME NEW c \in Calls, Cut(c) PROVE Recorded'
  <2>1. /\ disturbed \subseteq disturbed' /\ UNCHANGED <<proforma, sale, offer>>
        /\ \A d \in Calls \ {c} : call'[d] = call[d]
    BY <1>7 DEF Cut, TypeOK
  <2>2. At(c, "markSold") => call[c].on \in disturbed'
    BY <1>7 DEF Cut, Touched, OnProforma
  <2> QED
    BY <2>1, <2>2, <1>1
<1>8. ASSUME NEW o \in Offers, NEW verdict, DecideOffer(o, verdict) PROVE Recorded'
  BY <1>8 DEF DecideOffer, Meet, TypeOK
<1>9. CASE Remove \/ UNCHANGED vars
  BY <1>9 DEF Remove, Meet, vars
<1> QED
  BY <1>4, <1>5, <1>6, <1>7, <1>8, <1>9 DEF Next

\* Who confirms a pro-forma records the sale of its offer, unless that call
\* ended half way or overlapped with another decision.
THEOREM ConfirmationRecords == Spec => []ConfirmedIsRecorded
<1>1. Init => Backed /\ Recorded
  BY DEF Init, Backed, DealRestsOnAcceptance, Recorded, Offered, At, Idle
<1>2. Recorded => ConfirmedIsRecorded
  <2>1. \A c \in Calls : At(c, "markSold") => call[c].on \in Busy
    BY DEF At, Busy, Touched, OnProforma
  <2> QED
    BY <2>1 DEF Recorded, ConfirmedIsRecorded
<1> QED
  BY <1>1, <1>2, BackedStep, RecordStep, FreshAlways, DealTypeCorrect, PTL DEF Spec

-----------------------------------------------------------------------------
(* The counter *)

Counting == {c \in Calls : At(c, "count")}
Uncounting == {c \in Calls : At(c, "uncount")}

\* The offers the counter may count: those that stand, those a call is about to
\* take off it, and those that are disturbed.
Countable == Standing \union (disturbed \intersect Offers) \union {call[c].on : c \in Uncounting}

\* An offer that does not exist is not countable, and every increment so far,
\* or on its way, is for a countable offer.
CounterHolds ==
    inquiry # "deleted" =>
        /\ \A o \in Offers : offer[o] = "none" => o \notin Countable
        /\ offerCount + Cardinality(Counting) <= Cardinality(Countable)

LEMMA CountablesFinite ==
    ASSUME TypeOK, IsFiniteSet(Offers), IsFiniteSet(Calls)
    PROVE /\ Countable \subseteq Offers /\ Counting \subseteq Calls /\ Uncounting \subseteq Calls
          /\ IsFiniteSet(Countable) /\ Cardinality(Countable) \in Nat
          /\ IsFiniteSet(Counting) /\ Cardinality(Counting) \in Nat
<1>1. Countable \subseteq Offers
  BY DEF Countable, Standing, Uncounting, At, TypeOK, WellFormed, OnOffer
<1>2. Counting \subseteq Calls /\ Uncounting \subseteq Calls
  BY DEF Counting, Uncounting
<1>3. IsFiniteSet(Countable) /\ IsFiniteSet(Counting)
  BY <1>1, <1>2, FS_Subset
<1> QED
  BY <1>1, <1>2, <1>3, FS_CardinalityType

\* A step that changes no counter, starts no increment and makes offers only
\* countable that exist.
LEMMA CounterKept ==
    ASSUME TypeOK, TypeOK', IsFiniteSet(Offers), IsFiniteSet(Calls), CounterHolds,
           UNCHANGED offerCount, inquiry' # "deleted" => inquiry # "deleted",
           Counting' \subseteq Counting, Countable \subseteq Countable',
           \A o \in Offers : offer'[o] = "none" => offer[o] = "none",
           \A o \in Countable' \ Countable : offer'[o] # "none"
    PROVE CounterHolds'
<1> SUFFICES ASSUME inquiry' # "deleted" PROVE CounterHolds'
  BY DEF CounterHolds
<1>1. \A o \in Offers : offer'[o] = "none" => o \notin Countable'
  BY DEF CounterHolds
<1>2. Cardinality(Counting') <= Cardinality(Counting) /\ Cardinality(Counting) \in Nat
  BY CountablesFinite, FS_Subset
<1>3. IsFiniteSet(Countable)' /\ (Cardinality(Countable) \in Nat)'
  <2>1. Countable' \subseteq Offers
    BY DEF Countable, Standing, Uncounting, At, TypeOK, WellFormed, OnOffer
  <2> QED
    BY <2>1, FS_Subset, FS_CardinalityType
<1>4. Cardinality(Countable) <= Cardinality(Countable') /\ Cardinality(Countable) \in Nat
  BY <1>3, CountablesFinite, FS_Subset
<1>5. IsFiniteSet(Counting)' /\ (Cardinality(Counting) \in Nat)'
  BY CountablesFinite, FS_Subset, FS_CardinalityType
<1>6. offerCount' + Cardinality(Counting') <= Cardinality(Countable')
  BY <1>2, <1>3, <1>4, <1>5 DEF CounterHolds, TypeOK
<1> QED
  BY <1>1, <1>6 DEF CounterHolds

LEMMA CallKeepsCounter ==
    ASSUME TypeOK, TypeOK', IsFiniteSet(Offers), IsFiniteSet(Calls), CounterHolds,
           NEW c \in Calls, UNCHANGED offerCount, inquiry' # "deleted" => inquiry # "deleted",
           \A d \in Calls \ {c} : call'[d] = call[d], call'[c].at # "count",
           call'[c].at = "uncount" => offer'[call'[c].on] # "none",
           At(c, "uncount") => call[c].on \in disturbed',
           \A o \in Standing \ Standing' : call'[c].at = "uncount" /\ call'[c].on = o,
           \A o \in Offers : offer'[o] = "none" => offer[o] = "none",
           disturbed \subseteq disturbed',
           \A o \in (disturbed' \ disturbed) \intersect Offers : offer'[o] # "none"
    PROVE CounterHolds'
<1>1. Counting' \subseteq Counting
  BY DEF Counting, At
<1>2. ASSUME NEW o \in Countable PROVE o \in Countable'
  <2>1. CASE o \in Standing
    BY <2>1 DEF Countable, Uncounting, At
  <2>2. CASE o \in disturbed \intersect Offers
    BY <2>2 DEF Countable
  <2>3. CASE \E d \in Uncounting : o = call[d].on
    <3>1. PICK d \in Uncounting : o = call[d].on
      BY <2>3
    <3>2. CASE d = c
      BY <1>2, <3>1, <3>2, CountablesFinite DEF Countable, Uncounting
    <3>3. CASE d # c
      BY <3>1, <3>3 DEF Countable, Uncounting, At
    <3> QED
      BY <3>2, <3>3
  <2> QED
    BY <1>2, <2>1, <2>2, <2>3 DEF Countable
<1>3. ASSUME NEW o \in Countable' \ Countable PROVE offer'[o] # "none"
  <2>1. CASE o \in Standing'
    BY <2>1 DEF Standing
  <2>2. CASE o \in disturbed' \intersect Offers
    BY <1>3, <2>2 DEF Countable
  <2>3. CASE \E d \in Uncounting' : o = call'[d].on
    BY <1>3, <2>3 DEF Countable, Uncounting, At
  <2> QED
    BY <1>3, <2>1, <2>2, <2>3 DEF Countable
<1> QED
  BY <1>1, <1>2, <1>3, CounterKept

LEMMA CounterStep ==
    ASSUME TypeOK, TypeOK', OfferIsFresh, IsFiniteSet(Offers), IsFiniteSet(Calls), CounterHolds,
           [Next]_vars
    PROVE CounterHolds'
<1> USE DEF At, inquiryVars, offerVars
<1>0. /\ Inquiry \notin Offers /\ Offers \intersect Proformas = {}
      /\ \A c \in Calls : /\ call[c].at \in OnOffer => call[c].on \in Offers
                          /\ call[c].at \in OnProforma => call[c].on \in Proformas
  BY NamesAssumption DEF TypeOK, WellFormed
<1>1. ASSUME NEW c \in Calls, Done(c), inquiry = "deleted" \/ ~ At(c, "uncount"),
             UNCHANGED offerCount, inquiry' # "deleted" => inquiry # "deleted",
             Standing' = Standing, \A o \in Offers : offer'[o] = "none" => offer[o] = "none"
      PROVE CounterHolds'
  <2>1. CASE inquiry' = "deleted"
    BY <2>1 DEF CounterHolds
  <2>2. CASE inquiry' # "deleted"
    BY <1>1, <2>2, CallKeepsCounter DEF Done, Idle, TypeOK
  <2> QED
    BY <2>1, <2>2
<1>2. ASSUME NEW c \in Calls, NEW step, NEW x, NEW a, NEW xs, Begin(c, step, x, a, xs),
             UNCHANGED <<inquiry, offerCount>>, step # "count",
             step = "uncount" => offer'[x] # "none",
             \A o \in Standing \ Standing' : step = "uncount" /\ x = o,
             \A o \in Offers : offer'[o] = "none" => offer[o] = "none",
             \A o \in xs \intersect Offers : offer'[o] # "none"
      PROVE CounterHolds'
  <2>1. /\ call'[c].at = step /\ call'[c].on = x /\ ~ At(c, "uncount")
        /\ \A d \in Calls \ {c} : call'[d] = call[d]
    BY <1>2 DEF Begin, TypeOK
  <2>2. /\ disturbed \subseteq disturbed'
        /\ \A o \in (disturbed' \ disturbed) \intersect Offers : offer'[o] # "none"
    BY <1>2 DEF Begin, Meet
  <2> QED
    BY <1>2, <2>1, <2>2, CallKeepsCounter
<1>3. ASSUME NEW c \in Calls, NEW step \in {"rejectPending", "write", "markSold"}, Go(c, step),
             ~ At(c, "uncount"), UNCHANGED <<offer, offerCount>>,
             inquiry' # "deleted" => inquiry # "deleted"
      PROVE CounterHolds'
  <2>1. call'[c].at = step /\ \A d \in Calls \ {c} : call'[d] = call[d]
    BY <1>3 DEF Go, TypeOK
  <2> QED
    BY <1>3, <2>1, CallKeepsCounter DEF Go, Standing
<1>4. ASSUME NEW c \in Calls, Inquiring(c) PROVE CounterHolds'
  <2>1. ASSUME NEW result, ReadFinalize(c, result) PROVE CounterHolds'
    BY <1>0, <2>1, <1>2 DEF ReadFinalize, Standing
  <2>2. ASSUME NEW status, ReadUpdate(c, status) PROVE CounterHolds'
    BY <1>0, <2>2, <1>2 DEF ReadUpdate, Standing
  <2>3. CASE Archive(c)
    BY <2>3, <1>1, <1>3 DEF Archive, NotFound, Standing
  <2>4. CASE Reopen(c)
    BY <2>4, <1>1, <1>3 DEF Reopen, NotFound, Standing
  <2>5. CASE WriteUpdate(c)
    BY <2>5, <1>1 DEF WriteUpdate, NotFound, Standing
  <2>6. CASE RejectPending(c)
    <3>1. Standing' = Standing /\ \A o \in Offers : offer'[o] = "none" => offer[o] = "none"
      BY <2>6 DEF RejectPending, Standing
    <3> QED
      BY <2>6, <3>1, <1>1 DEF RejectPending
  <2> QED
    BY <1>4, <2>1, <2>2, <2>3, <2>4, <2>5, <2>6 DEF Inquiring
<1>5. ASSUME NEW c \in Calls, Offering(c) PROVE CounterHolds'
  <2>1. ASSUME NEW o \in Offers, ReadAddOffer(c, o) PROVE CounterHolds'
    BY <1>0, <2>1, <1>2 DEF ReadAddOffer, Standing
  <2>2. ASSUME NEW o \in Offers, ReadEdit(c, o) \/ \E result : ReadSale(c, o, result)
        PROVE CounterHolds'
    BY <2>2, <1>2 DEF ReadEdit, ReadSale, Standing
  <2>3. ASSUME NEW o \in Offers, Withdraw(c, o) PROVE CounterHolds'
    <3>1. /\ offer'[o] = "withdrawn" /\ \A q \in Offers \ {o} : offer'[q] = offer[q]
          /\ Begin(c, "uncount", o, "none", {o}) /\ UNCHANGED <<inquiry, offerCount>>
      BY <2>3 DEF Withdraw, TypeOK
    <3>2. /\ \A q \in Standing \ Standing' : q = o
          /\ \A q \in Offers : offer'[q] = "none" => offer[q] = "none"
      BY <3>1 DEF Standing
    <3> QED
      BY <3>1, <3>2, <1>2
  <2>4. CASE CreateOffer(c)
    <3> DEFINE o == call[c].on
    <3>1. /\ o \in Offers /\ offer[o] = "none"
          /\ offer'[o] = "pending" /\ \A q \in Offers \ {o} : offer'[q] = offer[q]
          /\ UNCHANGED <<inquiry, offerCount, disturbed>>
      BY <1>0, <2>4 DEF CreateOffer, OfferIsFresh, Go, TypeOK, OnOffer
    <3>2. /\ call'[c].at = "count" /\ \A d \in Calls \ {c} : call'[d] = call[d]
          /\ call[c].at = "create"
      BY <2>4 DEF CreateOffer, Go, TypeOK
    <3>3. Uncounting' = Uncounting /\ \A d \in Uncounting : call'[d] = call[d]
      BY <3>2 DEF Uncounting
    <3>4. Standing' = Standing \union {o}
      BY <3>1 DEF Standing
    <3>5. Countable' = Countable \union {o}
      BY <3>1, <3>3, <3>4 DEF Countable
    <3>6. Counting' = Counting \union {c} /\ c \notin Counting
      BY <3>2 DEF Counting
    <3>7. Cardinality(Counting') = Cardinality(Counting) + 1
      BY <3>6, CountablesFinite, FS_AddElement
    <3> SUFFICES ASSUME inquiry' # "deleted" PROVE CounterHolds'
      BY DEF CounterHolds
    <3>8. o \notin Countable
      BY <3>1 DEF CounterHolds
    <3>9. Cardinality(Countable') = Cardinality(Countable) + 1
      BY <3>5, <3>8, CountablesFinite, FS_AddElement
    <3>10. \A q \in Offers : offer'[q] = "none" => q \notin Countable'
      BY <3>1, <3>5 DEF CounterHolds
    <3>11. offerCount' + Cardinality(Counting') <= Cardinality(Countable')
      BY <3>1, <3>7, <3>9, CountablesFinite DEF CounterHolds, TypeOK
    <3> QED
      BY <3>10, <3>11 DEF CounterHolds
  <2>5. CASE CountOffer(c)
    <3>1. CASE NotFound(c, "count", inquiry = "deleted")
      BY <3>1, <1>1 DEF NotFound, Standing
    <3>2. CASE ~ NotFound(c, "count", inquiry = "deleted")
      <4>1. /\ offerCount' = offerCount + 1 /\ UNCHANGED <<inquiry, offer, disturbed>>
            /\ inquiry # "deleted" /\ call[c].at = "count"
            /\ call'[c].at = "idle" /\ \A d \in Calls \ {c} : call'[d] = call[d]
        BY <2>5, <3>2 DEF CountOffer, Done, Idle, TypeOK
      <4>2. Counting' = Counting \ {c} /\ c \in Counting
        BY <4>1 DEF Counting
      <4>3. Cardinality(Counting') = Cardinality(Counting) - 1
        BY <4>2, CountablesFinite, FS_RemoveElement
      <4>4. Uncounting' = Uncounting /\ \A d \in Uncounting : call'[d] = call[d]
        BY <4>1 DEF Uncounting
      <4>5. Countable' = Countable
        BY <4>1, <4>4 DEF Countable, Standing
      <4> QED
        BY <4>1, <4>3, <4>5, CountablesFinite DEF CounterHolds, TypeOK
    <3> QED
      BY <3>1, <3>2
  <2>6. CASE UncountOffer(c)
    <3>1. CASE NotFound(c, "uncount", inquiry = "deleted")
      BY <3>1, <1>1 DEF NotFound, Standing
    <3>2. CASE ~ NotFound(c, "uncount", inquiry = "deleted")
      <4>1. /\ offerCount' = offerCount - 1 /\ UNCHANGED <<inquiry, offer, disturbed>>
            /\ inquiry # "deleted" /\ call[c].at = "uncount"
            /\ call'[c].at = "idle" /\ \A d \in Calls \ {c} : call'[d] = call[d]
        BY <2>6, <3>2 DEF UncountOffer, Done, Idle, TypeOK
      <4>2. Counting' = Counting
        BY <4>1 DEF Counting
      <4>3. Uncounting' = Uncounting \ {c} /\ \A d \in Uncounting \ {c} : call'[d] = call[d]
        BY <4>1 DEF Uncounting
      <4>4. Countable \ {call[c].on} \subseteq Countable' /\ Countable' \subseteq Countable
        BY <4>1, <4>3 DEF Countable, Standing
      <4>5. IsFiniteSet(Countable') /\ Cardinality(Countable') \in Nat
        BY <4>4, CountablesFinite, FS_Subset, FS_CardinalityType
      <4>6. Cardinality(Countable \ {call[c].on}) <= Cardinality(Countable')
        BY <4>4, <4>5, FS_Subset
      <4>7. call[c].on \in Countable
        BY <4>1 DEF Countable, Uncounting
      <4>8. /\ IsFiniteSet(Countable \ {call[c].on})
            /\ Cardinality(Countable \ {call[c].on}) \in Nat
        BY CountablesFinite, FS_RemoveElement, FS_CardinalityType
      <4>9. Cardinality(Countable \ {call[c].on}) = Cardinality(Countable) - 1
        BY <4>7, CountablesFinite, FS_RemoveElement
      <4>10. offerCount' + Cardinality(Counting') <= Cardinality(Countable')
        BY <4>1, <4>2, <4>5, <4>6, <4>8, <4>9, CountablesFinite DEF CounterHolds, TypeOK
      <4> QED
        BY <4>1, <4>4, <4>10 DEF CounterHolds
    <3> QED
      BY <3>1, <3>2
  <2>7. CASE WriteEdit(c) \/ WriteSale(c)
    BY <2>7, <1>1 DEF WriteEdit, WriteSale, NotFound, Standing
  <2> QED
    BY <1>5, <2>1, <2>2, <2>3, <2>4, <2>5, <2>6, <2>7 DEF Offering
<1>6. ASSUME NEW c \in Calls, Invoicing(c) PROVE CounterHolds'
  <2>1. ASSUME NEW p \in Proformas, ReadIssue(c, p) \/ \E verdict : ReadDecision(c, p, verdict)
        PROVE CounterHolds'
    BY <1>0, <2>1, <1>2 DEF ReadIssue, ReadDecision, Standing
  <2>2. CASE CreateProforma(c) \/ WriteDecision(c) \/ MarkSold(c)
    BY <2>2, <1>1, <1>3 DEF CreateProforma, WriteDecision, MarkSold, Standing
  <2> QED
    BY <1>6, <2>1, <2>2 DEF Invoicing
<1>7. ASSUME NEW c \in Calls, Cut(c) PROVE CounterHolds'
  <2>1. /\ UNCHANGED <<inquiry, offer, offerCount>> /\ call'[c].at = "idle"
        /\ \A d \in Calls \ {c} : call'[d] = call[d]
        /\ disturbed \subseteq disturbed' /\ disturbed' \subseteq disturbed \union Touched(c)
    BY <1>7 DEF Cut, Idle, TypeOK
  <2>2. At(c, "uncount") => call[c].on \in disturbed'
    BY <1>7 DEF Cut, Touched, OnOffer
  <2>3. CASE inquiry = "deleted"
    BY <2>1, <2>3 DEF CounterHolds
  <2>4. CASE inquiry # "deleted"
    <3>1. \A o \in (disturbed' \ disturbed) \intersect Offers : offer[o] # "none"
      <4> SUFFICES ASSUME NEW o \in (disturbed' \ disturbed) \intersect Offers PROVE offer[o] # "none"
        OBVIOUS
      <4>1. call[c].at = "uncount" /\ o = call[c].on
        BY <1>0, <1>7 DEF Cut, Touched, OnOffer, OnProforma, OnInquiry
      <4>2. o \in Countable
        BY <4>1 DEF Countable, Uncounting
      <4> QED
        BY <2>4, <4>2 DEF CounterHolds
    <3> QED
      BY <2>1, <2>2, <3>1, CallKeepsCounter DEF Standing
  <2> QED
    BY <2>3, <2>4
<1>8. ASSUME NEW o \in Offers, NEW verdict \in {"accepted", "rejected"}, DecideOffer(o, verdict)
      PROVE CounterHolds'
  <2>1. /\ offer' = [offer EXCEPT ![o] = verdict] /\ offer[o] # "none"
        /\ disturbed' \subseteq disturbed \union {o} /\ disturbed \subseteq disturbed'
        /\ UNCHANGED <<inquiry, offerCount, call>>
    BY <1>8 DEF DecideOffer, Meet
  <2>2. Counting' = Counting /\ Uncounting' = Uncounting
    BY <2>1 DEF Counting, Uncounting
  <2>3. \A q \in Offers : offer'[q] = IF q = o THEN verdict ELSE offer[q]
    BY <2>1 DEF TypeOK
  <2>4. Standing \subseteq Standing' /\ Standing' \subseteq Standing \union {o}
    BY <2>3 DEF Standing
  <2>5. Countable \subseteq Countable' /\ Countable' \subseteq Countable \union {o}
    BY <2>1, <2>2, <2>4 DEF Countable
  <2> QED
    BY <2>1, <2>2, <2>3, <2>5, CounterKept
<1>9. CASE Remove
  BY <1>9 DEF Remove, CounterHolds
<1>10. CASE UNCHANGED vars
  BY <1>10 DEF vars, CounterHolds, Countable, Counting, Uncounting, Standing
<1> QED
  BY <1>4, <1>5, <1>6, <1>7, <1>8, <1>9, <1>10 DEF Next

\* The number of offers shown on an inquiry never exceeds the offers that
\* stand, but for withdrawals on their way and those that ended half way.
THEOREM CounterIsHonest ==
    ASSUME IsFiniteSet(Offers), IsFiniteSet(Calls)
    PROVE Spec => []CounterNeverOverstates
<1>1. Init => CounterHolds
  <2> SUFFICES ASSUME Init PROVE CounterHolds
    OBVIOUS
  <2>1. Countable = {} /\ Counting = {}
    BY DEF Init, Countable, Counting, Uncounting, Standing, At, Idle
  <2> QED
    BY <2>1, FS_EmptySet DEF Init, CounterHolds
<1>2. TypeOK /\ CounterHolds => CounterNeverOverstates
  <2> SUFFICES ASSUME TypeOK, CounterHolds, inquiry # "deleted"
               PROVE offerCount <= Cardinality(Standing \union (disturbed \intersect Offers))
                                     + Cardinality(Uncounting)
    BY DEF CounterNeverOverstates, Uncounting
  <2> DEFINE kept == Standing \union (disturbed \intersect Offers)
             taken == {call[c].on : c \in Uncounting}
             f == [c \in Uncounting |-> call[c].on]
  <2>1. IsFiniteSet(Uncounting) /\ Cardinality(Uncounting) \in Nat
    BY CountablesFinite, FS_Subset, FS_CardinalityType
  <2>2. f \in Surjection(Uncounting, taken)
    BY DEF Surjection
  <2>3. IsFiniteSet(taken) /\ Cardinality(taken) <= Cardinality(Uncounting)
    BY <2>1, <2>2, FS_Surjection
  <2>4. IsFiniteSet(kept)
    BY FS_Subset DEF Standing
  <2>5. Cardinality(kept \intersect taken) \in Nat
    BY <2>4, FS_Intersection, FS_CardinalityType
  <2>6. Cardinality(kept) \in Nat /\ Cardinality(taken) \in Nat
    BY <2>3, <2>4, FS_CardinalityType
  <2> HIDE DEF kept, taken
  <2>7. Cardinality(kept \union taken) =
           Cardinality(kept) + Cardinality(taken) - Cardinality(kept \intersect taken)
    BY <2>3, <2>4, FS_Union
  <2>8. Countable = kept \union taken
    BY DEF Countable, kept, taken
  <2>9. offerCount <= Cardinality(Countable)
    BY CountablesFinite DEF CounterHolds, TypeOK
  <2> QED
    BY <2>1, <2>3, <2>5, <2>6, <2>7, <2>8, <2>9 DEF TypeOK, kept
<1> QED
  BY <1>1, <1>2, CounterStep, FreshAlways, DealTypeCorrect, PTL DEF Spec
=============================================================================
