----------------------------- MODULE MCSoloJobs -----------------------------
EXTENDS SoloJobs, TLC
CONSTANTS s1, s2, a1, a2
SessionAddressSymmetry == Permutations(Sessions) \cup Permutations(Addresses)
=============================================================================
