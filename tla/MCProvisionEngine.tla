------------------------- MODULE MCProvisionEngine -------------------------
(***************************************************************************)
(* ProvisionEngine on small instances: one or two deployments of one twin, *)
(* a network, a volume and a machine.                                      *)
(***************************************************************************)
EXTENDS ProvisionEngine, TLC

CONSTANTS t1, d1, d2, net, vol, disk, vm

OneTwin == [d \in Dl |-> t1]

TypeOrder == [t \in Type |-> CASE t \in {"volume", "zmount"} -> 1 [] t = "network" -> 2 [] OTHER -> 3]

TypeOf(n) == CASE n = net -> "network" [] n = vol -> "volume" [] n = disk -> "zmount"
               [] n = vm -> "zmachine"

\* the deployments of version v over some of the names, in which any workload
\* is either of version 0 or of the version sent
Request(v) ==
    {[ver |-> v, ws |-> [n \in Name |->
        IF n \in new THEN [type |-> TypeOf(n), ver |-> v, state |-> "init"]
        ELSE IF n \in old THEN [type |-> TypeOf(n), ver |-> 0, state |-> "init"]
        ELSE NoEntry]] : new \in SUBSET Name, old \in SUBSET Name}

AllRequests == UNION {Request(v) : v \in Version}

\* one request per version: the volume, then also the machine, then the volume
AddThenRemove ==
    {[ver |-> v, ws |-> [n \in Name |->
        IF n = vol \/ v = 1 THEN [type |-> TypeOf(n), ver |-> IF n = vol THEN 0 ELSE v, state |-> "init"]
        ELSE NoEntry]] : v \in Version}

FullRequest == {[ver |-> 0, ws |-> [n \in Name |-> [type |-> TypeOf(n), ver |-> 0, state |-> "init"]]]}
=============================================================================
