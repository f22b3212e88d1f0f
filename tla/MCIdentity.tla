----------------------------- MODULE MCIdentity -----------------------------
\* Identity on a small instance; requests are interchangeable.
EXTENDS Identity, TLC

ClientSymmetry == Permutations(Client)
=============================================================================
