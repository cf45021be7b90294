------------------------------ MODULE Projects ------------------------------
(***************************************************************************)
(* A project, the people accountable for it and the repositories it holds: *)
(* internal/domain (create.go, repositories.go) and the writes of          *)
(* cmd/control-api/projects.go.                                            *)
(*                                                                         *)
(* Every operation is one READ COMMITTED transaction.  A change of owners  *)
(* reads the outgoing owners before its UPDATE takes the row, so two       *)
(* changes interleave there and nowhere else.                              *)
(***************************************************************************)
EXTENDS Naturals, FiniteSets

CONSTANTS
    Members,      \* users of the organisation
    Slugs,        \* projects
    Cells,        \* execution cells, the default one among them
    DefaultCell,
    Checkouts,    \* repositories on GitHub
    Empty,        \* the ones without a commit to begin with
    OwnerChanges, \* concurrent PATCH requests
    Proposed,     \* bound: the owners, primary and backup, that requests name
    GrantRoles    \* bound: the roles that grants name

ASSUME ProjectsAssumption ==
    /\ DefaultCell \in Cells /\ Empty \subseteq Checkouts /\ "nobody" \notin Slugs
    /\ \A o \in Proposed : o.primary \in Members /\ o.backup \in Members \ {o.primary}
    /\ GrantRoles \subseteq {"project_lead", "backup_operator", "contributor", "observer"}

VARIABLES
    owners,    \* owners[s]: primary and backup owner, or NoOwners before the project exists
    roles,     \* project_memberships: project, user, role
    cellOf,    \* execution_cell_id
    holder,    \* holder[r]: the project a repository is attached to, or "nobody"
    checked,   \* the repositories with a check command
    commits,   \* the repositories with a commit
    change,    \* change[c]: an open transaction that changes owners
    granted    \* history: the memberships AddProjectMember gave

projectsVars == << owners, roles, cellOf, holder, checked, commits, change, granted >>

NoOwners == [primary |-> "nobody", backup |-> "nobody"]
ProjectRoles == {"project_lead", "backup_operator", "contributor", "observer"}
NoChange == [at |-> "idle"]

Exists(s) == owners[s] # NoOwners
RolesOf(s, o) == { << s, o.primary, "project_lead" >>, << s, o.backup, "backup_operator" >> }

ProjectsInit ==
    /\ owners = [s \in Slugs |-> NoOwners]
    /\ roles = {} /\ granted = {}
    /\ cellOf = [s \in Slugs |-> "none"]
    /\ holder = [r \in Checkouts |-> "nobody"]
    /\ checked = {}
    /\ commits = Checkouts \ Empty
    /\ change = [c \in OwnerChanges |-> NoChange]

\* CreateProject: the row, then a membership for both owners.
CreateProject(s, o, cell) ==
    /\ ~Exists(s)
    /\ owners' = [owners EXCEPT ![s] = o]
    /\ roles' = roles \cup RolesOf(s, o)
    /\ cellOf' = [cellOf EXCEPT ![s] = IF cell = "default" THEN DefaultCell ELSE cell]
    /\ UNCHANGED << holder, checked, commits, change, granted >>

\* SetProjectOwners, up to the SELECT of the outgoing owners.
OwnersRead(c, s, o) ==
    /\ change[c] = NoChange /\ Exists(s)
    /\ change' = [change EXCEPT ![c] = [at |-> "read", slug |-> s, to |-> o, from |-> owners[s]]]
    /\ UNCHANGED << owners, roles, cellOf, holder, checked, commits, granted >>

\* The outgoing memberships are removed last.
SwappedLate(c) ==
    (roles \cup RolesOf(change[c].slug, change[c].to)) \ RolesOf(change[c].slug, change[c].from)

\* The UPDATE waits for the row; the outgoing memberships go, the incoming ones come.
Swapped(c) ==
    (roles \ RolesOf(change[c].slug, change[c].from)) \cup RolesOf(change[c].slug, change[c].to)

OwnersCommit(c) ==
    /\ change[c] # NoChange
    /\ owners' = [owners EXCEPT ![change[c].slug] = change[c].to]
    /\ roles' = Swapped(c)
    /\ change' = [change EXCEPT ![c] = NoChange]
    /\ UNCHANGED << cellOf, holder, checked, commits, granted >>

OwnersRollBack(c) ==
    /\ change[c] # NoChange
    /\ change' = [change EXCEPT ![c] = NoChange]
    /\ UNCHANGED << owners, roles, cellOf, holder, checked, commits, granted >>

AddProjectMember(s, u, role) ==
    /\ Exists(s)
    /\ roles' = roles \cup {<< s, u, role >>}
    /\ granted' = granted \cup {<< s, u, role >>}
    /\ UNCHANGED << owners, cellOf, holder, checked, commits, change >>

SetProjectCell(s, cell) ==
    /\ Exists(s)
    /\ cellOf' = [cellOf EXCEPT ![s] = cell]
    /\ UNCHANGED << owners, roles, holder, checked, commits, change, granted >>

\* AttachRepositories: each repository that is free, the others are reported; then a
\* first commit for those just attached that have none, where GitHub answers.
AttachRepositories(s, rs) ==
    LET free == { r \in rs : holder[r] = "nobody" }
    IN  /\ Exists(s) /\ rs # {}
        /\ holder' = [r \in Checkouts |-> IF r \in free THEN s ELSE holder[r]]
        /\ \E reached \in SUBSET free : commits' = commits \cup reached
        /\ UNCHANGED << owners, roles, cellOf, checked, change, granted >>

DetachRepository(s, r) ==
    /\ holder[r] = s
    /\ holder' = [holder EXCEPT ![r] = "nobody"]
    /\ checked' = checked \ {r}
    /\ UNCHANGED << owners, roles, cellOf, commits, change, granted >>

SetRepositoryCheck(s, r, on) ==
    /\ holder[r] = s
    /\ checked' = IF on THEN checked \cup {r} ELSE checked \ {r}
    /\ UNCHANGED << owners, roles, cellOf, holder, commits, change, granted >>

ProjectsNext ==
    \/ \E s \in Slugs :
        \/ \E o \in Proposed : (\E cell \in Cells \cup {"default"} : CreateProject(s, o, cell))
                         \/ \E c \in OwnerChanges : OwnersRead(c, s, o)
        \/ \E u \in Members, role \in GrantRoles : AddProjectMember(s, u, role)
        \/ \E cell \in Cells : SetProjectCell(s, cell)
        \/ \E rs \in SUBSET Checkouts : AttachRepositories(s, rs)
        \/ \E r \in Checkouts :
            DetachRepository(s, r) \/ \E on \in BOOLEAN : SetRepositoryCheck(s, r, on)
    \/ \E c \in OwnerChanges : OwnersCommit(c) \/ OwnersRollBack(c)

ProjectsSpec == ProjectsInit /\ [][ProjectsNext]_projectsVars

----------------------------------------------------------------------------
ProjectsTypeOK ==
    /\ owners \in [Slugs -> Proposed \cup {NoOwners}]
    /\ roles \subseteq Slugs \X Members \X ProjectRoles
    /\ cellOf \in [Slugs -> Cells \cup {"none"}]
    /\ holder \in [Checkouts -> Slugs \cup {"nobody"}]
    /\ checked \subseteq { r \in Checkouts : holder[r] # "nobody" }
    /\ commits \subseteq Checkouts
    /\ granted \subseteq Slugs \X Members \X ProjectRoles

\* Whatever changes of owners and grants interleave, the people accountable for a
\* project can read and run it: both owners hold their role (SetProjectOwners,
\* CreateProject).
OwnersHoldTheirRoles ==
    \A s \in Slugs : Exists(s) => RolesOf(s, owners[s]) \subseteq roles

\* "project_memberships is what authorisation reads and it must agree with the
\* accountability record" (SetProjectOwners): who leads or backs a project owns it, or was
\* made a member by name.
OnlyOwnersInherit ==
    \A m \in roles : m \in granted \/ m \in RolesOf(m[1], owners[m[1]])
=============================================================================
