-------------------------------- MODULE MCHttp --------------------------------
(***************************************************************************)
(* The instance of HttpStream: two clients, whose sockets may get the same *)
(* descriptor one after the other or two different ones at a time.         *)
(***************************************************************************)
EXTENDS HttpStream, TLC

CONSTANTS c1, c2, f1, f2, r1, r2, r3

MCClients == {c1, c2}
MCFds == {f1, f2}
MCResponses == {r1, r2, r3}
MCSymmetry == Permutations(MCClients) \cup Permutations(MCFds) \cup Permutations(MCResponses)
=============================================================================
