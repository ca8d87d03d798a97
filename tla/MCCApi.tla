------------------------------- MODULE MCCApi -------------------------------
EXTENDS CApi, TLC

AddressSymmetry == Permutations(KBs) \cup Permutations(Sessions) \cup Permutations(Streams)
=============================================================================
