------------------------ MODULE MCVirtualPolynomial ------------------------
EXTENDS VirtualPolynomial, TLC

Symmetry == Permutations(Address) \cup Permutations(Slot)
=============================================================================
