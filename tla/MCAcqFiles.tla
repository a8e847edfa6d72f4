----------------------------- MODULE MCAcqFiles -----------------------------
EXTENDS AcqFiles

\* Applications, addresses and types are interchangeable in every safety property.
Symmetry == Permutations(Apps) \cup Permutations(Addrs) \cup Permutations(Types)
=============================================================================
