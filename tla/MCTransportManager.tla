------------------------- MODULE MCTransportManager -------------------------
(***************************************************************************)
(* TransportManager for TLC.  All patterns match the host; "exact" wins    *)
(* over the others, "glob" and "other" tie, so that Go's map order decides.*)
(***************************************************************************)
EXTENDS TransportManager, TLC

MCHostMatches == Patterns \X Hosts
MCScore == [p \in Patterns |-> IF p = "exact" THEN 2 ELSE 1]
MCWildcards == [p \in Patterns |-> IF p = "exact" THEN 0 ELSE 1]
MCSchemesOf == [t \in Transports |-> Schemes]

Symmetry == Permutations(Sock) \cup Permutations(Admins) \cup Permutations(Networks)
=============================================================================
