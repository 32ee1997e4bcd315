----------------------------- MODULE MCMl307Tcp -----------------------------
(* Instances of Ml307Tcp for TLC. *)
EXTENDS Ml307Tcp, TLC

CONSTANTS k1, k2

MCClients == {k1, k2}

\* The clients are interchangeable; cids are allocated in their order.
MCSymmetry == Permutations(MCClients)

\* The properties at rest say nothing of a state after a lapse.
MCNoLapse == lapses = {}
=============================================================================
