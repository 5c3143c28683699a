-------------------------- MODULE MCEngineRestart --------------------------
(***************************************************************************)
(* ProvisionEngine with restarts and one deployment: a machine whose       *)
(* contract is locked, unlocked and cancelled (about "machine"), or a      *)
(* volume and a machine whose contract is locked and unlocked (about       *)
(* "unlocked") or locked and cancelled (about "cancelled").  Or with two   *)
(* deployments of a twin that want a network of one name (about "shared"). *)
(***************************************************************************)
EXTENDS MCProvisionEngine

CONSTANTS n1, n2

VARIABLE about

New(type) == [type |-> type, ver |-> 0, state |-> "init"]

MachineRequest == [ver |-> 0, ws |-> (n1 :> NoEntry @@ n2 :> New("zmachine"))]
VolumeRequest  == [ver |-> 0, ws |-> (n1 :> New("volume") @@ n2 :> New("zmachine"))]
NetworkRequest == [ver |-> 0, ws |-> (n1 :> New("network") @@ n2 :> NoEntry)]

OneOfEach == {MachineRequest, VolumeRequest, NetworkRequest}

\* the requests of a behaviour
Asked == CASE about = "machine" -> UserStep({d1}, {MachineRequest})
           [] about = "shared"  -> UserStep(Dl, {NetworkRequest})
           [] OTHER             -> UserStep({d1}, {VolumeRequest})

\* no step leads out of what the behaviour is about
Within ==
    /\ IF about = "shared" THEN restarts' = 0 ELSE contract'[d2] = "created"
    /\ about = "unlocked" => cancels' = {}
    /\ about \in {"cancelled", "shared"} => \A i \in DOMAIN locks' : locks'[i].lock

FocusInit == EngineInit /\ about \in {"machine", "unlocked", "cancelled", "shared"}
FocusNext == (Asked \/ SystemStep) /\ Within /\ UNCHANGED about
FocusSpec == FocusInit /\ [][FocusNext]_<<engineVars, about>>
=============================================================================
