------------------------------ MODULE Upgrader ------------------------------
(***************************************************************************)
(* The upgrader of identityd (pkg/upgrade): keeps the packages of the node *)
(* at the versions of the tag the hub links for its network, once the      *)
(* chain allows it.  A tag gives every package a version; what is on the   *)
(* node is a version per package, or Partial after an install that failed. *)
(***************************************************************************)
EXTENDS Integers, FiniteSets

CONSTANTS Packages,    \* other than the zos package
          Zos,         \* ZosPackage
          Tags,
          Contents,    \* [Tags -> [Packages \cup {Zos} -> versions]]
          FirstTag,    \* the tag the node is bootstrapped from
          NoTag, Torn, Partial,
          MaxTagMoves, MaxUpgradeFaults

AllPackages == Packages \cup {Zos}

ASSUME UpgradeAssumption ==
    /\ Zos \notin Packages /\ FirstTag \in Tags
    /\ {NoTag, Torn} \cap Tags = {} /\ NoTag # Torn
    /\ DOMAIN Contents = Tags
    /\ \A t \in Tags : DOMAIN Contents[t] = AllPackages

VARIABLES node,       \* boot method, dev network, test farm, noZosUpgrade, booted
          hubTag,     \* what the tag link of the network points to
          chainVersion, safeToUpgrade,
          recorded,   \* TagFile
          installed,  \* version of every package
          upgrade,    \* the update in progress: target, packages left
          abandoned,  \* the hub moved on after an update that failed half way
          tagMoves, upgradeFaults

worldVars == <<hubTag, chainVersion, safeToUpgrade, tagMoves>>
upgradeVars == <<node, worldVars, recorded, installed, upgrade, abandoned, upgradeFaults>>

Idle == [at |-> "idle", to |-> NoTag, todo |-> {}]

UpgradeInit ==
    /\ node \in [bootstrap : BOOLEAN, dev : BOOLEAN, testFarm : BOOLEAN, noZos : BOOLEAN,
                 booted : {FALSE}]
    /\ hubTag = FirstTag /\ chainVersion = FirstTag
    /\ safeToUpgrade \in BOOLEAN
    /\ recorded = IF node.bootstrap THEN FirstTag ELSE NoTag
    /\ installed = [p \in AllPackages |->
           IF node.bootstrap \/ p = Zos THEN Contents[FirstTag][p] ELSE Partial]
    /\ upgrade = Idle
    /\ abandoned = FALSE
    /\ tagMoves = 0 /\ upgradeFaults = 0

UpToDate(tag) ==
    \A p \in AllPackages : installed[p] = Contents[tag][p] \/ (p = Zos /\ node.noZos)

UpgradeFails == upgradeFaults < MaxUpgradeFaults /\ upgradeFaults' = upgradeFaults + 1
-----------------------------------------------------------------------------
\* the operators of the grid link another tag, set the version on the chain
\* or the result of the A/B test
MoveTag ==
    /\ tagMoves < MaxTagMoves
    /\ tagMoves' = tagMoves + 1
    /\ \/ /\ hubTag' \in Tags \ {hubTag}
          /\ abandoned' = (abandoned \/ (upgrade = Idle /\ recorded \in Tags /\ ~ UpToDate(recorded)))
          /\ UNCHANGED <<chainVersion, safeToUpgrade>>
       \/ /\ chainVersion' = hubTag /\ chainVersion # hubTag
          /\ UNCHANGED <<hubTag, safeToUpgrade, abandoned>>
       \/ /\ safeToUpgrade' = ~ safeToUpgrade
          /\ UNCHANGED <<hubTag, chainVersion, abandoned>>
    /\ UNCHANGED <<node, recorded, installed, upgrade, upgradeFaults>>

\* the checks of update once the tags differ
Allowed(tag) ==
    /\ node.dev \/ tag = chainVersion
    /\ safeToUpgrade \/ node.testFarm

\* updateTo: the packages of the tag that are not in the current one, by the
\* name of the flist they link to
Changed(tag, current) ==
    {p \in AllPackages : current = NoTag \/ Contents[tag][p] # Contents[current][p]}

\* Run on a node that is not bootstrapped: all packages once, never again
FirstUpdate ==
    /\ upgrade = Idle
    /\ ~ node.bootstrap /\ ~ node.booted
    /\ upgrade' = [at |-> "install", to |-> hubTag, todo |-> Changed(hubTag, NoTag)]
    /\ UNCHANGED <<node, worldVars, recorded, installed, abandoned, upgradeFaults>>

\* mutant: the new tag is recorded before the packages are installed
MutUpdate ==
    /\ upgrade = Idle
    /\ node.bootstrap
    /\ recorded # Torn
    /\ hubTag # recorded
    /\ Allowed(hubTag)
    /\ upgrade' = [at |-> "install", to |-> hubTag, todo |-> Changed(hubTag, recorded)]
    /\ recorded' = hubTag
    /\ UNCHANGED <<node, worldVars, installed, abandoned, upgradeFaults>>

\* update: nothing when the tags match or the chain does not allow it.  With a
\* tag file that cannot be read updateTo fails to resolve the current tag.
Update ==
    /\ upgrade = Idle
    /\ node.bootstrap
    /\ recorded # Torn
    /\ hubTag # recorded
    /\ Allowed(hubTag)
    /\ upgrade' = [at |-> "install", to |-> hubTag, todo |-> Changed(hubTag, recorded)]
    /\ UNCHANGED <<node, worldVars, recorded, installed, abandoned, upgradeFaults>>

\* mutant: the zos package in the order of the tag
MutMayInstall(p) == p \in upgrade.todo

\* the zos package comes last, or not at all with noZosUpgrade
MayInstall(p) ==
    /\ p \in upgrade.todo
    /\ p = Zos => upgrade.todo = {Zos} /\ ~ node.noZos

\* mutant: a package that failed is skipped
MutInstall ==
    /\ upgrade.at = "install"
    /\ \E p \in AllPackages :
         /\ MayInstall(p)
         /\ upgrade' = [upgrade EXCEPT !.todo = @ \ {p}]
         /\ \/ /\ installed' = [installed EXCEPT ![p] = Contents[upgrade.to][p]]
               /\ UNCHANGED upgradeFaults
            \/ /\ UpgradeFails
               /\ \E v \in {installed[p], Partial} : installed' = [installed EXCEPT ![p] = v]
    /\ UNCHANGED <<node, worldVars, recorded, abandoned>>

\* install: downloads, copies the files and restarts the services.  On an error
\* some files may be replaced; the update ends and is tried again later.
Install ==
    /\ upgrade.at = "install"
    /\ \E p \in AllPackages :
         /\ MayInstall(p)
         /\ \/ /\ installed' = [installed EXCEPT ![p] = Contents[upgrade.to][p]]
               /\ upgrade' = [upgrade EXCEPT !.todo = @ \ {p}]
               /\ UNCHANGED upgradeFaults
            \/ /\ UpgradeFails
               /\ \E v \in {installed[p], Partial} : installed' = [installed EXCEPT ![p] = v]
               /\ upgrade' = Idle
    /\ abandoned' = (abandoned \/ (upgrade'.at = "idle" /\ hubTag # upgrade.to))
    /\ UNCHANGED <<node, worldVars, recorded>>

\* boot.Set truncates the tag file, then writes it
TruncateTag ==
    /\ upgrade.at = "install" /\ node.bootstrap
    /\ \A p \in upgrade.todo : p = Zos /\ node.noZos
    /\ upgrade' = [upgrade EXCEPT !.at = "set"]
    /\ recorded' = Torn
    /\ UNCHANGED <<node, worldVars, installed, abandoned, upgradeFaults>>

\* identityd ends and is started again by zinit
SetTag ==
    /\ upgrade.at = "set"
    /\ recorded' = upgrade.to
    /\ upgrade' = Idle
    /\ UNCHANGED <<node, worldVars, installed, abandoned, upgradeFaults>>

MarkBooted ==
    /\ upgrade.at = "install" /\ ~ node.bootstrap
    /\ \A p \in upgrade.todo : p = Zos /\ node.noZos
    /\ upgrade' = Idle
    /\ node' = [node EXCEPT !.booted = TRUE]
    /\ UNCHANGED <<worldVars, recorded, installed, abandoned, upgradeFaults>>

\* identityd stops between two steps
IdentitydCrash ==
    /\ upgrade # Idle
    /\ UpgradeFails
    /\ upgrade' = Idle
    /\ abandoned' = (abandoned \/ hubTag # upgrade.to)
    /\ UNCHANGED <<node, worldVars, recorded, installed>>

\* the loop of Run, with an interval or a retry delay
UpgradeLoop ==
    FirstUpdate \/ Update \/ Install \/ TruncateTag \/ SetTag \/ MarkBooted

UpgradeNext == MoveTag \/ UpgradeLoop \/ IdentitydCrash

UpgradeFairness == WF_upgradeVars(UpgradeLoop)

UpgradeSpec == UpgradeInit /\ [][UpgradeNext]_upgradeVars /\ UpgradeFairness
-----------------------------------------------------------------------------
UpgradeTypeOK ==
    /\ hubTag \in Tags /\ chainVersion \in Tags
    /\ recorded \in Tags \cup {NoTag, Torn}
    /\ upgrade.at \in {"idle", "install", "set"} /\ upgrade.todo \subseteq AllPackages
    /\ DOMAIN installed = AllPackages

\* "this is the last to do to make sure all dependencies are installed before
\* updating zos" (updateTo): when zos changes to the version of a tag, all the
\* other packages are at that tag, also when earlier attempts failed half way
\* or were cut short, as long as the hub did not move meanwhile.
ZosLast ==
    [][(installed'[Zos] # installed[Zos] /\ installed'[Zos] # Partial /\ ~ abandoned)
           => \A p \in Packages : installed[p] = Contents[upgrade.to][p]]_upgradeVars

\* Once the hub and the chain stay as they are and allow the update, the node
\* is at the tag of the hub and has recorded it, whatever failed on the way
\* (Run tries again), unless the hub moved on after an attempt failed half way
\* or the tag file lost its content.
UpgradeConverges ==
    <>[](\/ abandoned \/ ~ node.bootstrap \/ recorded = Torn
         \/ ~ Allowed(hubTag)
         \/ recorded = hubTag /\ UpToDate(hubTag))

\* A node that is not bootstrapped gets all packages of one tag once.
BootedIsWhole == node.booted => \E t \in Tags : UpToDate(t)
=============================================================================
