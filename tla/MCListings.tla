------------------------------ MODULE MCListings ------------------------------
EXTENDS Listings

\* A key of the process that keeps the order of the addresses, or reverses it.
MCOrders == {ById, [i \in Things |-> Cardinality(Things) + 1 - i]}
=============================================================================
