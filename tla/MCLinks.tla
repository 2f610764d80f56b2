------------------------------- MODULE MCLinks -------------------------------
(* Links for TLC.                                                             *)
EXTENDS Links, TLC

\* The remote addresses of a UNIX listener's connections are empty: one URI.
UnixAddr == [c \in Conns |-> "unix"]

\* A peer whose connections come from the address that it is dialled at.
PeerAddr == [c \in Conns |-> "peer"]

LinkSymmetry == Permutations(LinkStates)
=============================================================================
