---------------------------- MODULE InquiryDeal ----------------------------
(***************************************************************************)
(* One inquiry of a buyer from its offers to the deal: offers are made,    *)
(* edited, withdrawn and decided, the inquiry is closed with an outcome    *)
(* and reopened, and an accepted offer is followed by pro-forma invoices   *)
(* that the buyer confirms or rejects and the seller cancels.              *)
(*                                                                         *)
(* Each handler reads a row, checks its status and then writes by id: a    *)
(* call is cut wherever another call, or a crash, can come between a check *)
(* or a write and the next write.  A handler whose check reads nothing     *)
(* that changes but whether the row exists is one step: Prisma's update    *)
(* throws when the row is gone.                                            *)
(***************************************************************************)
EXTENDS Integers, FiniteSets

CONSTANTS
    Inquiry,    \* names the inquiry among the objects calls work on
    Offers,     \* the offers that may be made on it
    Proformas,  \* the pro-forma invoices that may be sent
    NoOffer,    \* the source of a pro-forma sent for the inquiry itself
    OfferOf,    \* the offer a pro-forma is sent for, or NoOffer
    Calls,      \* slots for concurrent calls
    MaxSent,    \* bound: how many pro-formas are sent
    MaxTerms,   \* bound: how often the content of an offer is edited
    MaxDrift    \* bound: a withdrawn offer is withdrawn only above -MaxDrift

ASSUME OfferOfAssumption == OfferOf \in [Proformas -> Offers \union {NoOffer}]
ASSUME NoOfferAssumption == NoOffer \notin Offers
ASSUME NamesAssumption ==
    Inquiry \notin Offers /\ Inquiry \notin Proformas /\ Offers \intersect Proformas = {}
ASSUME TermsAssumption == MaxTerms \in Nat

VARIABLES
    inquiry,     \* the inquiry's status
    outcome,     \* what finalize recorded
    offerCount,  \* the counter shown on the inquiry
    offer,       \* status of each offer
    terms,       \* revision of each offer's content
    sale,        \* saleStatus of each offer
    proforma,    \* status of each pro-forma
    call,        \* where the call in each slot stands
    accepted,    \* history: the terms each offer was last accepted with
    disturbed    \* history: objects two calls worked on at once, or on
                 \* which a call ended between its writes

vars == <<inquiry, outcome, offerCount, offer, terms, sale, proforma, call, accepted, disturbed>>

InquiryStatus == {"open", "closed", "archived", "deleted"}
OfferStatus == {"none", "pending", "accepted", "rejected", "withdrawn"}
ProformaStatus == {"none", "sent", "confirmed", "rejected", "canceled"}
Decided == {"confirmed", "rejected", "canceled"}
Objects == Offers \union Proformas \union {Inquiry}

\* The pro-formas that are sent for an offer.
Offered == {p \in Proformas : OfferOf[p] \in Offers}

OnInquiry == {"archive", "rejectPending", "reopen", "write", "create", "count"}
OnOffer == {"uncount", "edit", "sale", "create", "count"}
OnProforma == {"issue", "decide", "markSold"}
Args == {"none", "open", "closed", "succeeded", "failed", "sold", "not_sold"} \union Decided

\* A call has an object of the right kind, and what its last step will write.
WellFormed(k) ==
    /\ k.at \in OnOffer => k.on \in Offers
    /\ k.at \in OnProforma => k.on \in Proformas
    /\ k.at = "archive" => k.arg \in {"succeeded", "failed"}
    /\ k.at = "write" => k.arg \in {"none", "open", "closed"}
    /\ k.at = "reopen" => k.arg = "open"
    /\ k.at = "sale" => k.arg \in {"sold", "not_sold"}
    /\ k.at = "decide" => k.arg \in Decided
    /\ k.at = "markSold" => k.on \in Offered

Idle == [at |-> "idle", on |-> Inquiry, arg |-> "none"]

NeverAccepted == -1

TypeOK ==
    /\ inquiry \in InquiryStatus
    /\ outcome \in {"none", "succeeded", "failed"}
    /\ offerCount \in Int
    /\ offer \in [Offers -> OfferStatus]
    /\ terms \in [Offers -> 0 .. MaxTerms]
    /\ sale \in [Offers -> {"none", "sold", "not_sold"}]
    /\ proforma \in [Proformas -> ProformaStatus]
    /\ call \in [Calls -> [at : {"idle"} \union OnInquiry \union OnOffer \union OnProforma,
                           on : Objects, arg : Args]]
    /\ \A c \in Calls : WellFormed(call[c])
    /\ accepted \in [Offers -> {NeverAccepted} \union 0 .. MaxTerms]
    /\ disturbed \subseteq Objects

Init ==
    /\ inquiry = "open"
    /\ outcome = "none"
    /\ offerCount = 0
    /\ offer = [o \in Offers |-> "none"]
    /\ terms = [o \in Offers |-> 0]
    /\ sale = [o \in Offers |-> "none"]
    /\ proforma = [p \in Proformas |-> "none"]
    /\ call = [c \in Calls |-> Idle]
    /\ accepted = [o \in Offers |-> NeverAccepted]
    /\ disturbed = {}

inquiryVars == <<inquiry, outcome, offerCount>>
offerVars == <<offer, terms, sale, accepted>>

-----------------------------------------------------------------------------
(* Calls and what they work on *)

\* The objects the call in slot c works on.
Touched(c) ==
    (IF call[c].at \in OnInquiry THEN {Inquiry} ELSE {})
        \union (IF call[c].at \in OnOffer \union OnProforma THEN {call[c].on} ELSE {})

Busy == UNION {Touched(c) : c \in Calls}

\* A call that works on the objects xs begins (or does its only step).
Meet(xs) == disturbed' = disturbed \union (xs \intersect Busy)

Begin(c, step, x, a, xs) ==
    /\ call[c].at = "idle"
    /\ call' = [call EXCEPT ![c] = [at |-> step, on |-> x, arg |-> a]]
    /\ Meet(xs)

At(c, step) == call[c].at = step

Go(c, step) == call' = [call EXCEPT ![c].at = step] /\ UNCHANGED disturbed

Done(c) == call' = [call EXCEPT ![c] = Idle] /\ UNCHANGED disturbed

\* The row the call means to update is gone: Prisma throws.
NotFound(c, step, gone) ==
    At(c, step) /\ gone /\ Done(c) /\ UNCHANGED <<inquiryVars, offerVars, proforma>>

-----------------------------------------------------------------------------
(* finalize *)

\* The inquiry is not archived yet.
ReadFinalize(c, result) ==
    /\ inquiry \in {"open", "closed"}
    /\ Begin(c, "archive", Inquiry, result, {Inquiry})
    /\ UNCHANGED <<inquiryVars, offerVars, proforma>>

Archive(c) ==
    \/ /\ At(c, "archive")
       /\ inquiry # "deleted"
       /\ inquiry' = "archived"
       /\ outcome' = call[c].arg
       /\ Go(c, "rejectPending")
       /\ UNCHANGED <<offerCount, offerVars, proforma>>
    \/ NotFound(c, "archive", inquiry = "deleted")

\* updateMany of the offers that are pending by now.
RejectPending(c) ==
    /\ At(c, "rejectPending")
    /\ offer' = [o \in Offers |-> IF offer[o] = "pending" THEN "rejected" ELSE offer[o]]
    /\ Done(c)
    /\ UNCHANGED <<inquiryVars, terms, sale, accepted, proforma>>

-----------------------------------------------------------------------------
(* update and remove *)

\* The status asked for may be 'open', 'closed' or not given; 'archived' is
\* refused.  Only from 'archived' to 'open' does the outcome get cleared.
ReadUpdate(c, status) ==
    /\ inquiry # "deleted"
    /\ Begin(c, IF status = "open" /\ inquiry = "archived" THEN "reopen" ELSE "write",
             Inquiry, status, {Inquiry})
    /\ UNCHANGED <<inquiryVars, offerVars, proforma>>

Reopen(c) ==
    \/ /\ At(c, "reopen")
       /\ inquiry # "deleted"
       /\ inquiry' = "open"
       /\ outcome' = "none"
       /\ Go(c, "write")
       /\ UNCHANGED <<offerCount, offerVars, proforma>>
    \/ NotFound(c, "reopen", inquiry = "deleted")

WriteUpdate(c) ==
    \/ /\ At(c, "write")
       /\ inquiry # "deleted"
       /\ inquiry' = IF call[c].arg = "none" THEN inquiry ELSE call[c].arg
       /\ Done(c)
       /\ UNCHANGED <<outcome, offerCount, offerVars, proforma>>
    \/ NotFound(c, "write", inquiry = "deleted")

\* The row goes, and its offers with it; pro-formas keep their offerId.
Remove ==
    /\ inquiry # "deleted"
    /\ inquiry' = "deleted"
    /\ offer' = [o \in Offers |-> "none"]
    /\ Meet({Inquiry} \union Offers)
    /\ UNCHANGED <<outcome, offerCount, terms, sale, accepted, proforma, call>>

-----------------------------------------------------------------------------
(* addOffer *)

\* Mutant: an archived inquiry still takes offers.
AddOfferToAny(c, o) ==
    /\ inquiry # "deleted"
    /\ offer[o] = "none" /\ terms[o] = 0 /\ accepted[o] = NeverAccepted
    /\ \A d \in Calls : call[d].on # o
    /\ Begin(c, "create", o, "none", {Inquiry})
    /\ UNCHANGED <<inquiryVars, offerVars, proforma>>

\* The inquiry is open (the gates on deadline, membership and items let it by).
ReadAddOffer(c, o) ==
    /\ inquiry = "open"
    /\ offer[o] = "none" /\ terms[o] = 0 /\ accepted[o] = NeverAccepted
    /\ \A d \in Calls : call[d].on # o
    /\ Begin(c, "create", o, "none", {Inquiry})
    /\ UNCHANGED <<inquiryVars, offerVars, proforma>>

CreateOffer(c) ==
    /\ At(c, "create")
    /\ offer' = [offer EXCEPT ![call[c].on] = "pending"]
    /\ Go(c, "count")
    /\ UNCHANGED <<inquiryVars, terms, sale, accepted, proforma>>

CountOffer(c) ==
    \/ /\ At(c, "count")
       /\ inquiry # "deleted"
       /\ offerCount' = offerCount + 1
       /\ Done(c)
       /\ UNCHANGED <<inquiry, outcome, offerVars, proforma>>
    \/ NotFound(c, "count", inquiry = "deleted")

-----------------------------------------------------------------------------
(* updateOffer *)

\* The owner decides, whatever the status of the offer and the inquiry.
DecideOffer(o, verdict) ==
    /\ inquiry # "deleted"
    /\ offer[o] # "none"
    /\ offer' = [offer EXCEPT ![o] = verdict]
    /\ accepted' = IF verdict = "accepted" THEN [accepted EXCEPT ![o] = terms[o]] ELSE accepted
    /\ Meet({o})
    /\ UNCHANGED <<inquiryVars, terms, sale, proforma, call>>

\* The offerer withdraws, whatever the status of the offer.
Withdraw(c, o) ==
    /\ offer[o] # "none"
    /\ offerCount > -MaxDrift
    /\ offer' = [offer EXCEPT ![o] = "withdrawn"]
    /\ Begin(c, "uncount", o, "none", {o})
    /\ UNCHANGED <<inquiryVars, terms, sale, accepted, proforma>>

\* Mutant: the counter is only touched by new offers.
KeepCount(c) ==
    /\ At(c, "uncount")
    /\ Done(c)
    /\ UNCHANGED <<inquiryVars, offerVars, proforma>>

UncountOffer(c) ==
    \/ /\ At(c, "uncount")
       /\ inquiry # "deleted"
       /\ offerCount' = offerCount - 1
       /\ Done(c)
       /\ UNCHANGED <<inquiry, outcome, offerVars, proforma>>
    \/ NotFound(c, "uncount", inquiry = "deleted")

\* Mutant: an offer may be edited after the owner accepted it.
EditAccepted(c, o) ==
    /\ offer[o] \in {"pending", "accepted"}
    /\ inquiry \in {"open", "deleted"}
    /\ terms[o] < MaxTerms
    /\ Begin(c, "edit", o, "none", {o})
    /\ UNCHANGED <<inquiryVars, offerVars, proforma>>

\* The offerer edits the content of a pending offer of an open inquiry; an
\* orphan has no inquiry to look at.
ReadEdit(c, o) ==
    /\ offer[o] = "pending"
    /\ inquiry \in {"open", "deleted"}
    /\ terms[o] < MaxTerms
    /\ Begin(c, "edit", o, "none", {o})
    /\ UNCHANGED <<inquiryVars, offerVars, proforma>>

WriteEdit(c) ==
    LET o == call[c].on IN
    \/ /\ At(c, "edit")
       /\ offer[o] # "none" /\ terms[o] < MaxTerms
       /\ terms' = [terms EXCEPT ![o] = @ + 1]
       /\ Done(c)
       /\ UNCHANGED <<inquiryVars, offer, sale, accepted, proforma>>
    \/ NotFound(c, "edit", offer[o] = "none")

\* The offerer records how the deal about an accepted offer ended.
ReadSale(c, o, result) ==
    /\ offer[o] = "accepted"
    /\ Begin(c, "sale", o, result, {o})
    /\ UNCHANGED <<inquiryVars, offerVars, proforma>>

WriteSale(c) ==
    LET o == call[c].on IN
    \/ /\ At(c, "sale")
       /\ offer[o] # "none"
       /\ sale' = [sale EXCEPT ![o] = call[c].arg]
       /\ Done(c)
       /\ UNCHANGED <<inquiryVars, offer, terms, accepted, proforma>>
    \/ NotFound(c, "sale", offer[o] = "none")

-----------------------------------------------------------------------------
(* Pro-formas *)

\* The pro-formas that are sent or about to be.
InUse == {p \in Proformas : proforma[p] # "none" \/ \E d \in Calls : call[d].on = p}

\* Mutant: a pro-forma is sent for any offer that exists.
IssueForAny(c, p) ==
    /\ proforma[p] = "none"
    /\ \A d \in Calls : call[d].on # p
    /\ Cardinality(InUse) < MaxSent
    /\ IF p \in Offered THEN offer[OfferOf[p]] # "none" ELSE inquiry # "deleted"
    /\ Begin(c, "issue", p, "none", {})
    /\ UNCHANGED <<inquiryVars, offerVars, proforma>>

\* create: its offer is accepted; one without an offer only needs the inquiry,
\* whatever its status.
ReadIssue(c, p) ==
    /\ proforma[p] = "none"
    /\ \A d \in Calls : call[d].on # p
    /\ Cardinality(InUse) < MaxSent
    /\ IF p \in Offered THEN offer[OfferOf[p]] = "accepted" ELSE inquiry # "deleted"
    /\ Begin(c, "issue", p, "none", {})
    /\ UNCHANGED <<inquiryVars, offerVars, proforma>>

CreateProforma(c) ==
    /\ At(c, "issue")
    /\ proforma' = [proforma EXCEPT ![call[c].on] = "sent"]
    /\ Done(c)
    /\ UNCHANGED <<inquiryVars, offerVars>>

\* Mutant: a pro-forma is decided whatever its status.
DecideAgain(c, p, verdict) ==
    /\ proforma[p] # "none"
    /\ Begin(c, "decide", p, verdict, {p})
    /\ UNCHANGED <<inquiryVars, offerVars, proforma>>

\* confirm and reject by the buyer, cancel by the seller: still only sent.
ReadDecision(c, p, verdict) ==
    /\ proforma[p] = "sent"
    /\ Begin(c, "decide", p, verdict, {p})
    /\ UNCHANGED <<inquiryVars, offerVars, proforma>>

WriteDecision(c) ==
    /\ At(c, "decide")
    /\ proforma' = [proforma EXCEPT ![call[c].on] = call[c].arg]
    /\ IF call[c].arg = "confirmed" /\ call[c].on \in Offered
       THEN Go(c, "markSold") ELSE Done(c)
    /\ UNCHANGED <<inquiryVars, offerVars>>

\* Mutant: updateMany also asks for the offer to be accepted still.
SoldIfAccepted(o) == IF offer[o] = "accepted" THEN "sold" ELSE sale[o]

\* confirm: the offer of the pro-forma, if it still exists, is sold.
Sold(o) == IF offer[o] = "none" THEN sale[o] ELSE "sold"

MarkSold(c) ==
    LET o == OfferOf[call[c].on] IN
    /\ At(c, "markSold")
    /\ sale' = [sale EXCEPT ![o] = Sold(o)]
    /\ Done(c)
    /\ UNCHANGED <<inquiryVars, offer, terms, accepted, proforma>>

-----------------------------------------------------------------------------
(* A call ends after its first write: a later write throws, or the process
   dies.  What it worked on is disturbed if that write was to match the first
   (a missing increment only makes the counter smaller).  One that ends before
   it wrote anything is a call that was not made ("write" may follow Reopen). *)
Cut(c) ==
    /\ call[c].at \in {"rejectPending", "write", "count", "uncount", "markSold"}
    /\ call' = [call EXCEPT ![c] = Idle]
    /\ disturbed' = IF call[c].at \in {"rejectPending", "uncount", "markSold"}
                    THEN disturbed \union Touched(c) ELSE disturbed
    /\ UNCHANGED <<inquiryVars, offerVars, proforma>>

Inquiring(c) ==
    \/ \E result \in {"succeeded", "failed"} : ReadFinalize(c, result)
    \/ Archive(c)
    \/ RejectPending(c)
    \/ \E status \in {"none", "open", "closed"} : ReadUpdate(c, status)
    \/ Reopen(c)
    \/ WriteUpdate(c)

Offering(c) ==
    \/ \E o \in Offers : \/ ReadAddOffer(c, o)
                         \/ Withdraw(c, o)
                         \/ ReadEdit(c, o)
                         \/ \E result \in {"sold", "not_sold"} : ReadSale(c, o, result)
    \/ CreateOffer(c)
    \/ CountOffer(c)
    \/ UncountOffer(c)
    \/ WriteEdit(c)
    \/ WriteSale(c)

Invoicing(c) ==
    \/ \E p \in Proformas : \/ ReadIssue(c, p)
                            \/ \E verdict \in Decided : ReadDecision(c, p, verdict)
    \/ CreateProforma(c)
    \/ WriteDecision(c)
    \/ MarkSold(c)

Next ==
    \/ Remove
    \/ \E o \in Offers, verdict \in {"accepted", "rejected"} : DecideOffer(o, verdict)
    \/ \E c \in Calls : Inquiring(c) \/ Offering(c) \/ Invoicing(c) \/ Cut(c)

Spec == Init /\ [][Next]_vars

-----------------------------------------------------------------------------
(* Properties *)

\* A sale result and a pro-forma rest on a decision of the buyer: neither
\* exists for an offer that was never accepted, whatever calls overlap.  (A
\* pro-forma sent for the inquiry itself rests on no decision at all.)
DealRestsOnAcceptance ==
    /\ \A o \in Offers : sale[o] # "none" => accepted[o] # NeverAccepted
    /\ \A p \in Offered : proforma[p] # "none" => accepted[OfferOf[p]] # NeverAccepted

\* The buyer's and the seller's decision on a pro-forma is taken once: one
\* that is decided stays so, unless two decisions on it overlapped.
DecidedOnce ==
    [][\A p \in Proformas :
          proforma[p] \in Decided /\ proforma'[p] # proforma[p] => p \in disturbed]_vars

\* An accepted offer says what it said when it was accepted, unless an edit
\* and the decision overlapped.
AcceptedAsRead ==
    \A o \in Offers \ disturbed : offer[o] = "accepted" => terms[o] = accepted[o]

\* finalize leaves no offer undecided behind: once an inquiry is archived, no
\* offer on it is pending, unless another call on the inquiry overlapped with
\* finalize or finalize itself ended half way.
ArchivedIsSettled ==
    inquiry = "archived" /\ Inquiry \notin disturbed \union Busy =>
        \A o \in Offers : offer[o] # "pending"

\* A confirmed pro-forma has its offer's result recorded, unless the call that
\* confirmed it ended before that or overlapped with another decision.
ConfirmedIsRecorded ==
    \A p \in Offered \ (disturbed \union Busy) :
        proforma[p] = "confirmed" /\ offer[OfferOf[p]] # "none" => sale[OfferOf[p]] # "none"

Standing == {o \in Offers : offer[o] \in {"pending", "accepted", "rejected"}}

\* The counter on the inquiry never promises more offers than getOffers lists,
\* but for withdrawals on their way and those that ended half way.
CounterNeverOverstates ==
    inquiry # "deleted" =>
        offerCount <= Cardinality(Standing \union (disturbed \intersect Offers))
                        + Cardinality({c \in Calls : At(c, "uncount")})
=============================================================================
