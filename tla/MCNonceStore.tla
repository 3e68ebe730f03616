---------------------------- MODULE MCNonceStore ----------------------------
EXTENDS NonceStore, TLC

CONSTANTS k1, k2, k3

MCKeys == {k1, k2, k3}
MCEntryLists == {<<k1>>, <<k2>>, <<k3, k1>>}
=============================================================================
