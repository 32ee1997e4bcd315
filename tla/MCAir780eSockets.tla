-------------------------- MODULE MCAir780eSockets --------------------------
(* Instances of Air780eSockets for TLC. *)
EXTENDS Air780eSockets, TLC

CONSTANTS t1, t2

MCThreads == {t1, t2}

\* The threads are interchangeable; cids are allocated in their order.
MCSymmetry == Permutations(MCThreads)
=============================================================================
