------------------------- MODULE MCMarketMembership -------------------------
EXTENDS MarketMembership, TLC

CONSTANTS a1, a2, k1, k2

\* One ad in each catalog.
OnePerCatalog == [a \in Ads |-> IF a = a1 THEN k1 ELSE k2]

Symmetry == Permutations(Calls) \union Permutations(Requests)
=============================================================================
