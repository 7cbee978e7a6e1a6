--------------------------- MODULE MCInquiryDeal ---------------------------
EXTENDS InquiryDeal, TLC

CONSTANTS o1, p1, p2

\* The first pro-forma is sent for the offer, the second for the inquiry itself.
OneWithout == p1 :> o1 @@ p2 :> NoOffer

CallSymmetry == Permutations(Calls)
=============================================================================
