------------------------------ MODULE Routing ------------------------------
(***************************************************************************)
(* Where a job runs: internal/dispatchroute, its two callers in            *)
(* cmd/control-api, the registration of rigs by the node, and the creation *)
(* of a rig on demand (ensureRig, gastown.AddRig).                         *)
(*                                                                         *)
(* A dispatch is routed by three queries, and a job is claimed by a fourth *)
(* that says what to clone.  In between repositories are attached and      *)
(* detached, beads get a project, and the node registers what its rigs     *)
(* hold.  A rig name is derived from the repository unless a registered    *)
(* rig holds it already (system_rigs_wanted).                              *)
(***************************************************************************)
EXTENDS Naturals, FiniteSets

CONSTANTS
    Repos,
    RepoProject,  \* RepoProject[r]: the project a repository belongs to
    BaseOf,       \* BaseOf[r]: the rig name derived from the repository's name
    QualifiedOf,  \* QualifiedOf[r]: the same, with its owner in front
    Closed,       \* projects whose status is closed: only a migration writes that
    Rigs,         \* rig names, DefaultRig among them
    DefaultRig,
    Town,         \* Town[g]: the repository of a rig the cell was built with, or "absent"
    Jobs,
    KindOfJob,    \* "work" or "file"
    ProjectOfJob, \* the project of the job's bead, or of the plan it files
    NoRepo        \* a rig that holds no repository, a claim that says nothing to clone

ASSUME RoutingAssumption ==
    /\ DefaultRig \in Rigs /\ Town[DefaultRig] # "absent" /\ Town \in [Rigs -> Repos \cup {NoRepo, "absent"}]
    /\ \A r \in Repos : RepoProject[r] \notin {"unknown", "none"}
    /\ \A j \in Jobs : ProjectOfJob[j] \notin {"unknown", "none"}
    /\ KindOfJob \in [Jobs -> {"work", "file"}]
    /\ BaseOf \in [Repos -> Rigs] /\ QualifiedOf \in [Repos -> Rigs]

VARIABLES
    attached,   \* project_repositories
    projected,  \* projected[j]: what work_refs says of the job's bead
    town,       \* town[g]: the checkout in the rig's directory
    held,       \* held[g]: the rig's row in execution_rigs
    route       \* route[j]: how far the job has come, the rig it names, what to clone

routingVars == << attached, projected, town, held, route >>

Unrouted == [at |-> "new", asked |-> "any", rig |-> DefaultRig, clone |-> NoRepo]
RouteStages == {"new", "asked", "unheld", "unheld of a project", "refused", "queued",
                "claimed", "cloning", "running", "failed"}

RoutingInit ==
    /\ attached = {}
    /\ projected = [j \in Jobs |-> IF KindOfJob[j] = "work" THEN "unknown" ELSE ProjectOfJob[j]]
    /\ town = Town
    /\ held = [g \in Rigs |-> "unregistered"]
    /\ route = [j \in Jobs |-> Unrouted]

\* AttachRepositories and DetachRepository.
Attach(r) ==
    /\ r \notin attached /\ attached' = attached \cup {r}
    /\ UNCHANGED << projected, town, held, route >>

Detach(r) ==
    /\ r \in attached /\ attached' = attached \ {r}
    /\ UNCHANGED << projected, town, held, route >>

\* A projection pass brings the bead, and its project with it or in a later pass.
BeadArrives(j) ==
    /\ projected[j] \in {"unknown", "none"}
    /\ projected' \in { [projected EXCEPT ![j] = "none"], [projected EXCEPT ![j] = ProjectOfJob[j]] }
    /\ UNCHANGED << attached, town, held, route >>

\* Any directory of the town is a rig, as before isRig.
RegisterAnyDirectory(g) ==
    /\ town[g] # "absent"
    /\ held' = [held EXCEPT ![g] = town[g]]
    /\ UNCHANGED << attached, projected, town, route >>

\* The pass registers a rig, every rig in turn, and one that fails is left for the next.
\* A directory counts once its config.json says that it is a rig.
RegisterRig(g) ==
    /\ town[g] \notin {"absent", "partial"}
    /\ held' = [held EXCEPT ![g] = town[g]]
    /\ UNCHANGED << attached, projected, town, route >>

----------------------------------------------------------------------------
\* system_rigs_for_bead and system_rigs_wanted, as sets of rows.
HeldFor(p) == { [rig |-> g, repo |-> held[g]] :
                    g \in { h \in Rigs : held[h] \in attached /\ RepoProject[held[h]] = p } }

\* No rig is wanted for a closed project, and its repositories take no name.
Open == { r \in attached : RepoProject[r] \notin Closed }

RigName(r) ==
    IF \E q \in Open \ {r} : BaseOf[q] = BaseOf[r] THEN QualifiedOf[r] ELSE BaseOf[r]

WantedFor(p) ==
    UNION { LET holders == { g \in Rigs : held[g] = r }
            IN  { [rig |-> g, repo |-> r] : g \in IF holders = {} THEN {RigName(r)} ELSE holders } :
            r \in { q \in Open : RepoProject[q] = p } }

\* A caller who names a rig is believed, as in the first version of the handler.
ChooseNamed(found, asked) ==
    IF asked # "any" THEN asked
    ELSE IF found = {} THEN "undecided"
    ELSE IF Cardinality(found) = 1 THEN CHOOSE g \in { row.rig : row \in found } : TRUE ELSE "refused"

\* Choose: the rig, "refused", or "undecided" when nothing was found.
Choose(found, asked) ==
    LET rigs == { row.rig : row \in found }
    IN  IF found = {} THEN "undecided"
        ELSE IF asked # "any" THEN IF asked \in rigs THEN asked ELSE "refused"
        ELSE IF Cardinality(found) = 1 THEN CHOOSE g \in rigs : TRUE ELSE "refused"

Answered(j, chosen) ==
    route' = [route EXCEPT ![j] = IF chosen = "refused" THEN [@ EXCEPT !.at = "refused"]
                                  ELSE [@ EXCEPT !.at = "queued", !.rig = chosen]]

\* A request arrives, for a rig of the caller's choice or any.
Ask(j, asked) ==
    /\ route[j].at = "new"
    /\ route' = [route EXCEPT ![j].at = "asked", ![j].asked = asked]
    /\ UNCHANGED << attached, projected, town, held >>

\* For, first query.
RouteHeld(j) ==
    LET chosen == Choose(HeldFor(projected[j]), route[j].asked) IN
    /\ route[j].at = "asked" /\ KindOfJob[j] = "work"
    /\ IF chosen = "undecided" THEN route' = [route EXCEPT ![j].at = "unheld"] ELSE Answered(j, chosen)
    /\ UNCHANGED << attached, projected, town, held >>

Preferred(j) == IF route[j].asked = "any" THEN DefaultRig ELSE route[j].asked

\* Second query: refuse a bead nobody projected, honour the caller for one without a project.
RouteProject(j) ==
    /\ route[j].at = "unheld"
    /\ CASE projected[j] = "unknown" -> Answered(j, "refused")
         [] projected[j] = "none" -> Answered(j, Preferred(j))
         [] OTHER -> route' = [route EXCEPT ![j].at = "unheld of a project"]
    /\ UNCHANGED << attached, projected, town, held >>

\* Third query, and the only one of a filing (ForProject).
RouteWanted(j) ==
    LET chosen == Choose(WantedFor(projected[j]), route[j].asked) IN
    /\ \/ route[j].at = "unheld of a project"
       \/ route[j].at = "asked" /\ KindOfJob[j] = "file"
    /\ Answered(j, IF chosen = "undecided" THEN "refused" ELSE chosen)
    /\ UNCHANGED << attached, projected, town, held >>

----------------------------------------------------------------------------
\* What the claim says to clone: the row of the rig the job names, if it still has one
\* and the query succeeds.  A filing asks for the rig whatever the project.
Offers(j) ==
    LET rows == IF KindOfJob[j] = "work" THEN WantedFor(projected[j])
                ELSE UNION { WantedFor(p) : p \in { RepoProject[r] : r \in Repos } }
    IN  { row.repo : row \in { w \in rows : w.rig = route[j].rig } }

ClaimRouted(j) ==
    /\ route[j].at = "queued"
    /\ \E clone \in Offers(j) \cup {NoRepo} :
            route' = [route EXCEPT ![j].at = "claimed", ![j].clone = clone]
    /\ UNCHANGED << attached, projected, town, held >>

\* ensureRig: a directory of that name is enough.
RigExists(j) ==
    /\ route[j].at = "claimed" /\ town[route[j].rig] # "absent"
    /\ route' = [route EXCEPT ![j].at = "running"]
    /\ UNCHANGED << attached, projected, town, held >>

NothingToClone(j) ==
    /\ route[j].at = "claimed" /\ town[route[j].rig] = "absent" /\ route[j].clone = NoRepo
    /\ route' = [route EXCEPT ![j].at = "failed"]
    /\ UNCHANGED << attached, projected, town, held >>

\* AddRig: gt makes the directory and clones into it ...
AddRig(j) ==
    /\ route[j].at = "claimed" /\ town[route[j].rig] = "absent" /\ route[j].clone # NoRepo
    /\ town' = [town EXCEPT ![route[j].rig] = "partial"]
    /\ route' = [route EXCEPT ![j].at = "cloning"]
    /\ UNCHANGED << attached, projected, held >>

\* ... and the new rig is registered at once, unless that call fails.
RigAdded(j) ==
    /\ route[j].at = "cloning"
    /\ town' = [town EXCEPT ![route[j].rig] = route[j].clone]
    /\ held' \in {held, [held EXCEPT ![route[j].rig] = route[j].clone]}
    /\ route' = [route EXCEPT ![j].at = "running"]
    /\ UNCHANGED << attached, projected >>

\* gt fails, is killed after ten minutes, or dies with the dispatcher; what is on the
\* disk by then stays there, unless gt removes it.
RigNotAdded(j) ==
    /\ route[j].at = "cloning"
    /\ town' \in {town, [town EXCEPT ![route[j].rig] = "absent"]}
    /\ route' = [route EXCEPT ![j].at = "failed"]
    /\ UNCHANGED << attached, projected, held >>

RoutingNext ==
    \/ \E r \in Repos : Attach(r) \/ Detach(r)
    \/ \E g \in Rigs : RegisterRig(g)
    \/ \E j \in Jobs :
        \/ BeadArrives(j)
        \/ \E asked \in Rigs \cup {"any"} : Ask(j, asked)
        \/ RouteHeld(j) \/ RouteProject(j) \/ RouteWanted(j)
        \/ ClaimRouted(j) \/ RigExists(j) \/ NothingToClone(j)
        \/ AddRig(j) \/ RigAdded(j) \/ RigNotAdded(j)

RoutingSpec == RoutingInit /\ [][RoutingNext]_routingVars

----------------------------------------------------------------------------
RoutingTypeOK ==
    /\ attached \subseteq Repos
    /\ \A j \in Jobs : projected[j] \in {"unknown", "none", ProjectOfJob[j]}
    /\ town \in [Rigs -> Repos \cup {"absent", "partial", NoRepo}]
    /\ held \in [Rigs -> Repos \cup {"unregistered", NoRepo}]
    /\ route \in [Jobs -> [at : RouteStages, asked : Rigs \cup {"any"}, rig : Rigs,
                           clone : Repos \cup {NoRepo}]]

\* "If the bead belongs to a project, the rig must hold one of that project's
\* repositories" (POST /v1/work/{bead}/dispatch): whatever rig the caller names, a job is
\* queued for a rig that holds, or is to hold, a repository of its project at that
\* moment, or its bead has no project.
RoutedToItsProject ==
    [][ \A j \in Jobs :
          (route[j].at # "queued" /\ route'[j].at = "queued") =>
             \/ projected[j] = "none"
             \/ \E row \in HeldFor(ProjectOfJob[j]) \cup WantedFor(ProjectOfJob[j]) :
                    row.rig = route'[j].rig ]_routingVars

\* The same promise where the work is done: a job routed by its project does not run in
\* the checkout of another project's repository.
RunsInNoForeignCheckout ==
    \A j \in Jobs :
        (route[j].at = "running" /\ route[j].clone # NoRepo) =>
            \A r \in Repos : town[route[j].rig] = r => RepoProject[r] = ProjectOfJob[j]
=============================================================================
