----------------------------- MODULE GridTypes -----------------------------
(***************************************************************************)
(* Workloads and deployments as pkg/gridtypes defines them.  The content   *)
(* of a workload is abstracted to the deployment version it was sent with, *)
(* its result to the result state.                                         *)
(***************************************************************************)
EXTENDS Naturals

CONSTANTS Twin,      \* twins (users)
          Dl,        \* deployment keys, i.e. (twin, contract) pairs
          TwinOf,    \* the twin part of a deployment key
          Name,      \* workload names
          Type,      \* workload types
          Sharable,  \* the types registered with RegisterSharableType
          NoDl,      \* no deployment
          Version    \* deployment versions

ASSUME GridAssumption ==
    /\ TwinOf \in [Dl -> Twin]
    /\ Sharable \subseteq Type
    /\ NoDl \notin Dl
    /\ "none" \notin Type
    /\ Version \subseteq Nat
    /\ 0 \in Version

\* "unchanged" only appears in the transaction log, never as a current state
State == {"init", "error", "ok", "deleted", "paused"}

ResultState == State \cup {"unchanged"}

Entry == [type : Type, ver : Version, state : State]

\* a workload with the result of an operation
Result == [type : Type, ver : Version, state : ResultState]

NoEntry == [type |-> "none", ver |-> 0, state |-> "none"]

\* the workloads of a deployment by name
Workloads == [Name -> Entry \cup {NoEntry}]

NoWorkloads == [n \in Name |-> NoEntry]

Active(ws) == {n \in Name : ws[n] # NoEntry}

SharableIn(ws) == {n \in Active(ws) : ws[n].type \in Sharable}

IsOkay(state) == state \in {"ok", "paused"}

\* some workload is neither deleted nor in error
IsActive(ws) == \E n \in Active(ws) : ws[n].state \notin {"deleted", "error"}

\* some workload is okay: the deployments Capacity lists and CleanDeleted keeps
HasOkay(ws) == \E n \in Active(ws) : IsOkay(ws[n].state)

\* Workload.WithResults
WithResult(e, s) == [type |-> e.type, ver |-> e.ver, state |-> s]

WithState(ws, s) == [n \in Name |-> IF ws[n] = NoEntry THEN NoEntry ELSE WithResult(ws[n], s)]

(***************************************************************************)
(* Deployment.Upgrade: the steps from workloads old to workloads new, sent *)
(* as version v.  A workload of both is updated if it was sent with        *)
(* version v and keeps the result of the old one.                          *)
(***************************************************************************)
UpgradeOk(old, oldVer, new, v) ==
    /\ v = oldVer + 1
    /\ \A n \in Active(new) : IF n \in Active(old) THEN new[n].type = old[n].type
                                                 ELSE new[n].ver = v

Step(op, n, e) == [op |-> op, name |-> n, wl |-> e]

UpgradeSteps(old, new, v) ==
    {Step("install", n, new[n]) : n \in Active(new) \ Active(old)}
    \cup {Step("update", n, WithResult(new[n], old[n].state)) :
             n \in {m \in Active(new) \cap Active(old) : new[m].ver = v}}
    \cup {Step("uninstall", n, old[n]) : n \in Active(old) \ Active(new)}
=============================================================================
