------------------------ MODULE MCCatalogCustomers ------------------------
EXTENDS CatalogCustomers, TLC

CONSTANTS b1

\* Every inquiry belongs to the same buyer.
AllOfFirst == [i \in Inquiries |-> b1]

\* One business: every user of it has a part in every inquiry.
OneBusiness == [i \in Inquiries |-> Buyers]

CallSymmetry == Permutations(Calls)
=============================================================================
