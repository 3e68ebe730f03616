-------------------------- MODULE MCFileNonceStore --------------------------
EXTENDS FileNonceStore, TLC

MarkSymmetry == Permutations(Marks)
=============================================================================
