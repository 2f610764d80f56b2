------------------------------ MODULE MCProxy -------------------------------
EXTENDS Proxy

onion == [zone |-> "onion", ip |-> "clear"]
mesh  == [zone |-> "ygg",   ip |-> "mesh"]
corp  == [zone |-> "corp",  ip |-> "clear"]

AllHosts == {onion, mesh, corp}
Intercepted == {onion, mesh}

NoProxy == [valid |-> TRUE, rules |-> <<>>, default |-> None]
Tor == [valid |-> TRUE, default |-> "clearnet",
        rules |-> <<[matches |-> {[host |-> onion, form |-> "name"]}, proxy |-> "tor"]>>]
Malformed == [valid |-> FALSE, rules |-> <<>>, default |-> None]

AllTables == {NoProxy, Tor, Malformed}
AllZoneSets == {{}, {"corp"}}
=============================================================================
