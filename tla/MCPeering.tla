----------------------------- MODULE MCPeering ------------------------------
EXTENDS Peering

a  == [base |-> "a", query |-> FALSE, valid |-> TRUE,  score |-> 2]
b  == [base |-> "b", query |-> FALSE, valid |-> TRUE,  score |-> 1]
bq == [base |-> "b", query |-> TRUE,  valid |-> TRUE,  score |-> 1]
x  == [base |-> "x", query |-> FALSE, valid |-> FALSE, score |-> 3]

AllUris == {a, b, bq, x}
Answering == [bs \in {"a", "b", "x"} |-> IF bs = "b" THEN "n2" ELSE "n1"]

(* The target publishes an address that is refused, then three that work, *)
(* two of them the same link to the core.                                 *)
PublishesFour == [t \in {"n1"} |-> <<x, a, bq, b>>]
ServesAll == [s \in {"builtin", "web"} |-> IF s = "builtin" THEN {a, b} ELSE {a, x}]
OnePolicy == {[min |-> 1, minFetched |-> 1, accepts |-> {a, b, x}]}
AdvertSets == {{"addr"}, {"addr", "long"}}
LongAdvert == {"addr", "long"}
=============================================================================
