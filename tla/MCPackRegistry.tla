-------------------------- MODULE MCPackRegistry --------------------------
EXTENDS PackRegistry, TLC

RegistrySymmetry == Permutations(Identities) \cup Permutations(Ids)
=============================================================================
