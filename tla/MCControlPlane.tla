--------------------------- MODULE MCControlPlane ---------------------------
(* The parts of the control plane that share no state, each on a small      *)
(* instance of its own: a behaviour is one of `part`'s, the others stand.   *)
EXTENDS Approvals, Attention, Requests, DeviceFlow, Routing, Projects, Migrate

CONSTANTS u1, u2, u3, u4,            \* people
          i1, i2,                 \* items of attention
          call1, call2, call3,
          g1,                     \* a device grant
          cli1, cli2,
          repoA, repoB, repoC, dflt,     \* repositories
          j1, j2,                 \* jobs
          pa1, pa2                \* PATCH requests

VARIABLE part

cpVars == << part, approvalsVars, attentionVars, requestsVars, deviceVars, routingVars, projectsVars, migrateVars >>

\* Two requests of one caller for two items under one key, and one with another body.
MCCall ==
    [c \in Calls |->
        CASE c = call1 -> [via |-> "token", route |-> "resolve", item |-> "x", body |-> "b", key |-> "k"]
          [] c = call2 -> [via |-> "session", route |-> "resolve", item |-> "y", body |-> "b", key |-> "k"]
          [] OTHER     -> [via |-> "token", route |-> "resolve", item |-> "x", body |-> "c", key |-> "k"]]
MCActionOf == [r \in {"resolve"} |-> "write"]

MCCodeOf == [c \in Clients |-> g1]

\* The cell was built with a rig named "web" that holds repoA, whose own name derives
\* another; repoB of the other project derives "web", and so does repoC of a closed one.
MCRepoProject == [r \in Repos |-> CASE r = repoA -> "p" [] r = repoB -> "q" [] OTHER -> "closed"]
MCBaseOf == [r \in Repos |-> IF r = repoA THEN "site" ELSE "web"]
MCQualifiedOf == [r \in Repos |-> "q_web"]
MCTown == [g \in Rigs |-> CASE g = "sandbox" -> NoRepo [] g = "web" -> repoA [] OTHER -> "absent"]
MCKindOfJob == [j \in Jobs |-> IF j = j1 THEN "work" ELSE "file"]
MCProjectOfJob == [j \in Jobs |-> IF j = j1 THEN "q" ELSE "p"]

\* Two who change places, and one who keeps hers while the other leaves.
MCProposed == { [primary |-> u1, backup |-> u2], [primary |-> u2, backup |-> u1],
                [primary |-> u1, backup |-> u3] }

Others(p) ==
    /\ UNCHANGED part
    /\ p # "approvals" => UNCHANGED approvalsVars
    /\ p # "attention" => UNCHANGED attentionVars
    /\ p # "requests" => UNCHANGED requestsVars
    /\ p # "device" => UNCHANGED deviceVars
    /\ p # "routing" => UNCHANGED routingVars
    /\ p # "projects" => UNCHANGED projectsVars
    /\ p # "migrate" => UNCHANGED migrateVars

CPInit ==
    /\ part \in {"approvals", "attention", "requests", "device", "routing", "projects", "migrate"}
    /\ ApprovalsInit /\ AttentionInit /\ RequestsInit /\ DeviceInit /\ RoutingInit /\ ProjectsInit /\ MigrateInit
    /\ part # "approvals" => digest = "v1"
    /\ part # "attention" => \A i \in Items : item[i].user = u1

CPNext ==
    \/ part = "approvals" /\ ApprovalsNext /\ Others("approvals")
    \/ part = "attention" /\ AttentionNext /\ Others("attention")
    \/ part = "requests" /\ RequestsNext /\ Others("requests")
    \/ part = "device" /\ DeviceNext /\ Others("device")
    \/ part = "routing" /\ RoutingNext /\ Others("routing")
    \/ part = "projects" /\ ProjectsNext /\ Others("projects")
    \/ part = "migrate" /\ MigrateNext /\ Others("migrate")

CPSpec == CPInit /\ [][CPNext]_cpVars

\* Every variable of every part has its type.
ControlPlaneTypesOK ==
    /\ ApprovalsTypeOK /\ AttentionTypeOK /\ RequestsTypeOK
    /\ DeviceTypeOK /\ RoutingTypeOK /\ ProjectsTypeOK /\ MigrateTypeOK
=============================================================================
