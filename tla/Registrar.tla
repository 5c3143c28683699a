----------------------------- MODULE Registrar -----------------------------
(***************************************************************************)
(* The registrar of noded (pkg/registrar): registers the node on the       *)
(* chain, then keeps its information there up to date.  Of that            *)
(* information the model keeps the address of the zos bridge, the part     *)
(* that changes while the node runs.                                       *)
(***************************************************************************)
EXTENDS Integers

CONSTANTS MaxAddress,         \* bound on the changes of the address
          MaxRegistrarFaults, \* bound on failed calls and restarts of noded
          AccountEvery,       \* monitorAccountEvery, in ticks
          UpdateEvery         \* updateNodeInfoInterval

ASSUME RegistrarAssumption == AccountEvery \in Nat \ {0} /\ UpdateEvery > AccountEvery

VARIABLES registration, \* Registrar.state
          regStep,      \* what register does, and the address it read
          subscribed,   \* to the addresses of the bridge
          addrSignal,   \* the channel of the stub, of one place
          address,      \* of the bridge
          chainTwins, chainNodes, chainAddress,
          unnoticed,    \* the address changed after it was read, before subscribing
          elapsed,      \* since the two timers of the loop were started
          byInterval,   \* a registration was started by updateNodeInfoInterval
          idCall,       \* a call of NodeID: where it is, the id it has, and whether
                        \* the state was Done when it took the id
          registrarFaults

regChain == <<chainTwins, chainNodes, chainAddress>>
registrarVars == <<registration, regStep, subscribed, addrSignal, address, regChain,
                   unnoticed, elapsed, byInterval, idCall, registrarFaults>>

InProgress == [state |-> "InProgress", node |-> 0, twin |-> 0]
Failed == [state |-> "Failed", node |-> 0, twin |-> 0]
Done(node, twin) == [state |-> "Done", node |-> node, twin |-> twin]

NoIDCall == [at |-> "idle", id |-> 0, done |-> FALSE]

RegistrarInit ==
    /\ registration = InProgress
    /\ regStep = [at |-> "addrs", addr |-> 0]
    /\ subscribed = FALSE /\ addrSignal = FALSE
    /\ address = 1
    /\ chainTwins = 0 /\ chainNodes = 0 /\ chainAddress = 0
    /\ unnoticed = FALSE
    /\ elapsed = 0 /\ byInterval = FALSE /\ idCall = NoIDCall /\ registrarFaults = 0

RegistrarFails ==
    /\ registrarFaults < MaxRegistrarFaults
    /\ registrarFaults' = registrarFaults + 1

RegGoto(at) == regStep' = [regStep EXCEPT !.at = at]

\* the attempt fails; the backoff starts it over
Retry ==
    /\ RegistrarFails
    /\ registration' = Failed
    /\ RegGoto("addrs")
-----------------------------------------------------------------------------
\* an address is added to the bridge; the stub drops a signal when one waits
AddressChange ==
    /\ address < MaxAddress
    /\ address' = address + 1
    /\ addrSignal' = (addrSignal \/ subscribed)
    /\ unnoticed' = (unnoticed \/ (~ subscribed /\ regStep.at # "addrs"))
    /\ UNCHANGED <<registration, regStep, subscribed, regChain, elapsed, byInterval,
                   registrarFaults, idCall>>

\* registerNode: the addresses, and the account
ReadAddrs ==
    /\ regStep.at = "addrs"
    /\ \/ /\ regStep' = [at |-> "twin", addr |-> address]
          /\ unnoticed' = (unnoticed /\ subscribed)
          /\ UNCHANGED <<registration, registrarFaults>>
       \/ Retry /\ UNCHANGED unnoticed
    /\ UNCHANGED <<subscribed, addrSignal, address, regChain, elapsed, byInterval, idCall>>

\* ensureTwin; the answer of the transaction may be lost
EnsureTwin ==
    /\ regStep.at = "twin"
    /\ \/ /\ chainTwins' = IF chainTwins = 0 THEN 1 ELSE chainTwins
          /\ \/ RegGoto("node") /\ UNCHANGED <<registration, registrarFaults>>
             \/ Retry
       \/ Retry /\ UNCHANGED chainTwins
    /\ UNCHANGED <<subscribed, addrSignal, address, chainNodes, chainAddress, unnoticed, elapsed,
                   byInterval, idCall>>

\* mutant: any error of GetNodeByTwinID means there is no node yet
MutEnsureNode ==
    /\ regStep.at = "node"
    /\ \/ /\ IF chainNodes = 0
             THEN chainNodes' = 1 /\ chainAddress' = regStep.addr
             ELSE UNCHANGED <<chainNodes, chainAddress>>
          /\ \/ RegGoto("update") /\ UNCHANGED <<registration, registrarFaults>>
             \/ Retry
       \/ /\ RegistrarFails
          /\ chainNodes' = chainNodes + 1 /\ chainAddress' = regStep.addr
          /\ RegGoto("update")
          /\ UNCHANGED registration
    /\ UNCHANGED <<subscribed, addrSignal, address, chainTwins, unnoticed, elapsed, byInterval,
                   idCall>>

\* GetNodeByTwinID, CreateNode when there is none
EnsureNode ==
    /\ regStep.at = "node"
    /\ \/ /\ IF chainNodes = 0
             THEN chainNodes' = 1 /\ chainAddress' = regStep.addr
             ELSE UNCHANGED <<chainNodes, chainAddress>>
          /\ \/ RegGoto("update") /\ UNCHANGED <<registration, registrarFaults>>
             \/ Retry
       \/ Retry /\ UNCHANGED <<chainNodes, chainAddress>>
    /\ UNCHANGED <<subscribed, addrSignal, address, chainTwins, unnoticed, elapsed, byInterval,
                   idCall>>

\* UpdateNode when the information differs, then the state is set
UpdateNode ==
    /\ regStep.at = "update"
    /\ \/ /\ chainAddress' = regStep.addr
          /\ registration' = Done(chainNodes, chainTwins)
          /\ RegGoto(IF subscribed THEN "watch" ELSE "subscribe")
          /\ elapsed' = 0
          /\ UNCHANGED registrarFaults
       \/ /\ Retry
          /\ chainAddress' \in {chainAddress, regStep.addr}
          /\ UNCHANGED elapsed
    /\ UNCHANGED <<subscribed, addrSignal, address, chainTwins, chainNodes, unnoticed, byInterval,
                   idCall>>

Subscribe ==
    /\ regStep.at = "subscribe"
    /\ subscribed' = TRUE
    /\ RegGoto("watch")
    /\ UNCHANGED <<registration, addrSignal, address, regChain, unnoticed, elapsed, byInterval,
                   registrarFaults, idCall>>

\* time passes while the loop waits; a timer that is due is served first
Tick ==
    /\ regStep.at = "watch"
    /\ elapsed < AccountEvery
    /\ elapsed' = elapsed + 1
    /\ UNCHANGED <<registration, regStep, subscribed, addrSignal, address, regChain, unnoticed,
                   byInterval, registrarFaults, idCall>>

\* reActivate; the next turn of the loop starts both timers again
AccountTimer ==
    /\ regStep.at = "watch"
    /\ elapsed = AccountEvery
    /\ elapsed' = 0
    /\ UNCHANGED <<registration, regStep, subscribed, addrSignal, address, regChain, unnoticed,
                   byInterval, registrarFaults, idCall>>

\* "update interval passed, re-register"
UpdateTimer ==
    /\ regStep.at = "watch"
    /\ elapsed = UpdateEvery
    /\ byInterval' = TRUE
    /\ RegGoto("addrs")
    /\ UNCHANGED <<registration, subscribed, addrSignal, address, regChain, unnoticed, elapsed,
                   registrarFaults, idCall>>

\* mutant: the signal is consumed after the registration
MutAddressUpdate ==
    /\ regStep.at = "watch"
    /\ addrSignal
    /\ RegGoto("twin")
    /\ addrSignal' = FALSE
    /\ UNCHANGED <<registration, subscribed, address, regChain, unnoticed, elapsed, byInterval,
                   registrarFaults, idCall>>

AddressUpdate ==
    /\ regStep.at = "watch"
    /\ addrSignal
    /\ addrSignal' = FALSE
    /\ RegGoto("addrs")
    /\ UNCHANGED <<registration, subscribed, address, regChain, unnoticed, elapsed, byInterval,
                   registrarFaults, idCall>>

RegistrarRestart ==
    /\ RegistrarFails
    /\ registration' = InProgress
    /\ regStep' = [at |-> "addrs", addr |-> 0]
    /\ subscribed' = FALSE /\ addrSignal' = FALSE /\ unnoticed' = FALSE
    /\ elapsed' = 0 /\ idCall' = NoIDCall
    /\ UNCHANGED <<address, regChain, byInterval>>

\* NodeID takes the id from the state, under the lock
NodeIDRead ==
    /\ idCall.at # "state"
    /\ idCall' = [at |-> "state", id |-> registration.node,
                  done |-> registration.state = "Done"]
    /\ UNCHANGED <<registration, regStep, subscribed, addrSignal, address, regChain, unnoticed,
                   elapsed, byInterval, registrarFaults>>

\* and returnIfDone looks at the state again, without it
NodeIDReturn ==
    /\ idCall.at = "state"
    /\ idCall' = IF registration.state = "Done" THEN [idCall EXCEPT !.at = "answer"] ELSE NoIDCall
    /\ UNCHANGED <<registration, regStep, subscribed, addrSignal, address, regChain, unnoticed,
                   elapsed, byInterval, registrarFaults>>

RegisterStep == ReadAddrs \/ EnsureTwin \/ EnsureNode \/ UpdateNode \/ Subscribe

RegistrarNext ==
    \/ AddressChange \/ RegisterStep \/ AddressUpdate \/ Tick \/ AccountTimer \/ RegistrarRestart
    \/ NodeIDRead \/ NodeIDReturn

\* a select serves every case that stays ready
RegistrarFairness ==
    /\ WF_registrarVars(RegisterStep)
    /\ SF_registrarVars(AddressUpdate)

RegistrarSpec == RegistrarInit /\ [][RegistrarNext]_registrarVars /\ RegistrarFairness

\* with the timer of the information of the node, and time going on
TimedSpec ==
    /\ RegistrarInit /\ [][RegistrarNext \/ UpdateTimer]_registrarVars
    /\ RegistrarFairness
    /\ WF_registrarVars(Tick) /\ WF_registrarVars(AccountTimer)
    /\ SF_registrarVars(UpdateTimer)
-----------------------------------------------------------------------------
RegistrarTypeOK ==
    /\ registration.state \in {"InProgress", "Failed", "Done"}
    /\ regStep.at \in {"addrs", "twin", "node", "update", "subscribe", "watch"}
    /\ address \in 1 .. MaxAddress /\ chainAddress \in 0 .. MaxAddress
    /\ elapsed \in 0 .. UpdateEvery

\* The node has one twin and is registered once, however often a registration
\* is repeated after failed calls, lost answers and restarts (registerNode
\* looks both up before it creates them).
RegisteredOnce == chainTwins <= 1 /\ chainNodes <= 1

\* Whoever is given a node id finds the node on the chain, with an address the
\* node had when it registered (register sets Done after UpdateNode only).
DoneIsRegistered ==
    registration.state = "Done" =>
        /\ registration.node # 0 /\ registration.twin # 0
        /\ chainNodes > 0
        /\ regStep.at \in {"subscribe", "watch"} => chainAddress = regStep.addr

\* When NodeID answers without an error the node is on the chain and the answer
\* is its id; but for a registration that completes between the two looks at
\* the state, where it is 0 (NodeID, returnIfDone).
AnsweredID ==
    idCall.at = "answer" => chainNodes > 0 /\ (idCall.done => idCall.id = chainNodes)

\* The registrar and the chain agree on who the node is: RegisteredOnce,
\* DoneIsRegistered and AnsweredID.
RegistrationKnown == RegisteredOnce /\ DoneIsRegistered /\ AnsweredID

\* The address on the chain is the one of the node, except for a change between
\* the registration and the subscription.
AddressCurrent == unnoticed \/ chainAddress = address

\* "update interval passed, re-register": a node registers again after
\* updateNodeInfoInterval.
IntervalReregisters == <>byInterval
=============================================================================
