----------------------------- MODULE MCSessions -----------------------------
EXTENDS Sessions, TLC

(* Two keys that share a subnet. *)
AddrOf == "k1" :> "a1" @@ "k2" :> "a2"
SubnetOf == "k1" :> "s" @@ "k2" :> "s"
=============================================================================
