------------------------------ MODULE MCAtUart ------------------------------
(* Instances of AtUart for TLC. *)
EXTENDS AtUart, TLC

CONSTANTS t1, t2

MCThreads == {t1, t2}

\* Threads are interchangeable; the receive task is not one of them.
MCSymmetry == Permutations(MCThreads)
=============================================================================
