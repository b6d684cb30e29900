---------------------------- MODULE MCAtomicFile ----------------------------
EXTENDS AtomicFile, TLC

CONSTANTS w1, w2, r1, p1, p2

\* Two processes with one writer each; the reader shares its process with one.
TwoHomes == (w1 :> p1) @@ (w2 :> p2) @@ (r1 :> p1)
=============================================================================
