--------------------------- MODULE MCArtifactStore ---------------------------
EXTENDS ArtifactStore, TLC

MCSymmetry == Permutations(Digests) \cup Permutations(Slots)
==============================================================================
