-------------------------- MODULE MCTunController ---------------------------
(* Instances of TunController for TLC. *)
EXTENDS TunController

Header(k, fits, part) == [kind |-> k, fits |-> fits, part |-> part]
Packet(src, dst, chain, size, fin) ==
    [src |-> src, dst |-> dst, chain |-> chain, size |-> size, fin |-> fin]

\* "l" is a local endpoint, "r" a remote one.
TrafficPackets == {
    Packet("l", "r", <<Header("tcp", TRUE, FALSE)>>, 1, FALSE),
    Packet("r", "l", <<Header("hop", TRUE, FALSE), Header("tcp", TRUE, FALSE)>>, 1, FALSE),
    Packet("r", "l", <<Header("tcp", TRUE, FALSE)>>, 1, TRUE),
    Packet("r", "l", <<Header("fragment", TRUE, TRUE), Header("tcp", TRUE, FALSE)>>, 2, FALSE)}

OnWithPort == [enabled |-> TRUE, allowed |-> {<<"tcp", "l">>}]
\* One device has more than the core's MTU, the other less than the least.
TwoMTUs == [d \in Devices |-> IF d = CHOOSE e \in Devices : TRUE THEN 3 ELSE 0]
OneOverride == {{}, {"enabled", "tcp"}}
TwoConfigs == {NoConfig, OnWithPort}
=============================================================================
