----------------------------- MODULE BeadGraph -------------------------------
(***************************************************************************)
(* The Beads graph of one rig and who writes it: the file loop, which      *)
(* files plans made elsewhere one after the other (fileplan), and the      *)
(* agents of dispatched runs, which have `bd` as a tool.                   *)
(*                                                                         *)
(* Bead ids are numbers in the order bd hands them out.  What a bead says  *)
(* is the number of the filing that last wrote it.                         *)
(***************************************************************************)
EXTENDS Naturals, Sequences, FiniteSets

CONSTANTS
    Projects,      \* the slugs in use
    NoProject,     \* no project
    NoKey,         \* no external reference
    Plans,         \* what people may file: [project, items], an item being
                   \* [ref, id, deps, status], with id = 0 unless it names a
                   \* bead and status "" if it is to stay what it is
    MaxBeads,      \* bound: beads
    MaxFilings,    \* bound: filings
    MaxEdits,      \* bound: dependencies and labels agents add or remove
    MaxFails       \* bound: bd and HTTP calls that fail, and stops

ASSUME GraphAssumption ==
    /\ NoProject \notin Projects
    /\ \A p \in Plans : p.project \in Projects
    /\ MaxBeads \in Nat /\ MaxFilings \in Nat /\ MaxEdits \in Nat /\ MaxFails \in Nat

ASSUME PlanAssumption == \A p \in Plans : p.items \in Seq({ p.items[i] : i \in DOMAIN p.items })

VARIABLES
    count,      \* beads so far
    key,        \* key[b]: the external_ref, <<project, ref>> for a filed bead
    labels,     \* labels[b]: the projects its wg-project- labels name
    says,       \* says[b]: the filing that last wrote it
    closed,     \* the closed beads
    edges,      \* <<blocked, blocker>>
    filePc,     \* fileplan: "idle", "beads", "edges" or "cycles"
    plan,       \* the plan in hand, or the last one
    nth,        \* its number
    at,         \* the item it is at
    filed,      \* filed[r]: the bead of ref r
    outcome,    \* what is reported: "none", "done", "failed" or "cyclic"
    running,    \* an agent's run is going on in the rig
    before,     \* how many beads there were when it began
    made,       \* history: made[b] is the key bead b was created with
    byId,       \* history: the beads revised by id
    cut,        \* history: edges an agent removed
    edits, fails

graph == << count, key, labels, says, closed, edges >>
filing == << filePc, plan, nth, at, filed, outcome >>
agent == << running, before, cut, edits >>
graphVars == << graph, filing, agent, made, byId, fails >>

Ids == 1 .. MaxBeads
NoPlan == [project |-> NoProject, items |-> << >>]
Beads == 1 .. count
Refs == UNION { { p.items[i].ref : i \in DOMAIN p.items } : p \in Plans }
Items == { plan.items[i] : i \in DOMAIN plan.items }
Key(item) == << plan.project, item.ref >>
Keys == (Projects \X Refs) \cup {NoKey}

GraphTypeOK ==
    /\ count \in 0 .. MaxBeads
    /\ key \in [Ids -> Keys] /\ made \in [Ids -> Keys]
    /\ labels \in [Ids -> SUBSET Projects]
    /\ says \in [Ids -> 0 .. MaxFilings]
    /\ closed \subseteq Beads
    /\ edges \subseteq Beads \X Beads
    /\ filePc \in {"idle", "beads", "edges", "cycles"}
    /\ plan \in Plans \cup {NoPlan} /\ nth \in 0 .. MaxFilings
    /\ filePc = "beads" => at \in DOMAIN plan.items
    /\ filed \in [Refs -> 0 .. count]
    /\ outcome \in {"none", "done", "failed", "cyclic"}
    /\ running \in BOOLEAN /\ before \in 0 .. count /\ byId \subseteq Beads
    /\ edits \in Nat /\ fails \in Nat

GraphInit ==
    /\ count = 0 /\ closed = {} /\ edges = {}
    /\ key = [b \in Ids |-> NoKey] /\ made = [b \in Ids |-> NoKey]
    /\ labels = [b \in Ids |-> {}] /\ says = [b \in Ids |-> 0]
    /\ filePc = "idle" /\ plan = NoPlan /\ nth = 0 /\ at = 0
    /\ filed = [r \in Refs |-> 0] /\ outcome = "none"
    /\ running = FALSE /\ before = 0 /\ byId = {} /\ cut = {}
    /\ edits = 0 /\ fails = 0

-----------------------------------------------------------------------------
(* Filing a plan.                                                          *)

\* Plan.Validate: refs are distinct, and a dependency names another item of the plan.
Valid(p) ==
    /\ p.items # << >>
    /\ \A i, j \in DOMAIN p.items : p.items[i].ref = p.items[j].ref => i = j
    /\ \A i \in DOMAIN p.items :
         p.items[i].deps \subseteq { p.items[j].ref : j \in DOMAIN p.items } \ {p.items[i].ref}

\* A filing is accepted by POST /v1/work/beads, claimed and decoded; one that
\* does not validate writes nothing.
FilePlan(p) ==
    /\ filePc = "idle" /\ nth < MaxFilings
    /\ plan' = p
    /\ nth' = nth + 1
    /\ filed' = [r \in Refs |-> 0]
    /\ IF Valid(p) THEN filePc' = "beads" /\ at' = 1 /\ outcome' = "none"
                   ELSE outcome' = "failed" /\ at' = 0 /\ UNCHANGED filePc
    /\ UNCHANGED << graph, agent, made, byId, fails >>

\* Mutation of Found: bd list without --all.
FoundOpen(k) == { b \in Beads \ closed : key[b] = k }

\* ByExternalRef: closed beads are found too.
Found(k) == { b \in Beads : key[b] = k }

\* UpdateIn: the external reference is written on every update, also when the
\* bead was named by its id; the project's label is only added otherwise.
Revise(b, item) ==
    /\ key' = [key EXCEPT ![b] = Key(item)]
    /\ says' = [says EXCEPT ![b] = nth]
    /\ closed' = CASE item.status = "closed" -> closed \cup {b}
                   [] item.status = "open" -> closed \ {b}
                   [] OTHER -> closed
    /\ labels' = IF item.id = 0 THEN [labels EXCEPT ![b] = @ \cup {plan.project}] ELSE labels
    /\ byId' = IF item.id = 0 THEN byId ELSE byId \cup {b}
    /\ filed' = [filed EXCEPT ![item.ref] = b]
    /\ UNCHANGED << count, edges, made >>

\* Create: the bead and its label are one call; it is open whatever the item says.
Create(item) ==
    /\ count < MaxBeads
    /\ count' = count + 1
    /\ key' = [key EXCEPT ![count'] = Key(item)]
    /\ made' = [made EXCEPT ![count'] = Key(item)]
    /\ says' = [says EXCEPT ![count'] = nth]
    /\ labels' = [labels EXCEPT ![count'] = {plan.project}]
    /\ filed' = [filed EXCEPT ![item.ref] = count']
    /\ UNCHANGED << closed, edges, byId >>

\* One item of the plan: the bead it names, the bead an earlier filing made for
\* its key, or a new one.
Write(item) ==
    \/ item.id \in Beads /\ Revise(item.id, item)
    \/ item.id = 0 /\ \E b \in Found(Key(item)) : Revise(b, item)
    \/ item.id = 0 /\ Found(Key(item)) = {} /\ Create(item)

FileItem ==
    /\ filePc = "beads"
    /\ Write(plan.items[at])
    /\ IF at < Len(plan.items) THEN at' = at + 1 /\ UNCHANGED filePc
                               ELSE at' = 0 /\ filePc' = "edges"
    /\ UNCHANGED << plan, nth, outcome, agent, fails >>

\* The bead named does not exist, or a bd call fails, before or after it wrote:
\* the filing ends there.  A stop cancels the context of the call.
ItemFails ==
    /\ filePc = "beads"
    /\ \/ plan.items[at].id \notin Beads \cup {0} /\ UNCHANGED << graph, filed, made, byId, fails >>
       \/ /\ fails < MaxFails
          /\ fails' = fails + 1
          /\ UNCHANGED << graph, filed, made, byId >> \/ Write(plan.items[at])
    /\ filePc' = "idle" /\ at' = 0
    /\ outcome' = "failed"
    /\ UNCHANGED << plan, nth, agent >>

\* The edges the plan asks for.
Wanted == UNION { { << filed[i.ref], filed[d] >> : d \in i.deps } : i \in Items }

\* Mutation of WireEdges: the edge is drawn the wrong way round.
WireEdgesReversed ==
    /\ filePc = "edges"
    /\ edges' = edges \cup { << e[2], e[1] >> : e \in Wanted }
    /\ filePc' = "cycles"
    /\ UNCHANGED << count, key, labels, says, closed, plan, nth, at, filed, outcome, agent, made, byId, fails >>

\* Pass two, after every bead exists.  An edge that cannot be added is logged.
WireEdges ==
    /\ filePc = "edges"
    /\ \/ edges' = edges \cup { e \in Wanted : e[1] # e[2] } /\ UNCHANGED fails
       \/ /\ fails < MaxFails
          /\ fails' = fails + 1
          /\ \E some \in SUBSET Wanted : edges' = edges \cup { e \in some : e[1] # e[2] }
    /\ filePc' = "cycles"
    /\ UNCHANGED << count, key, labels, says, closed, plan, nth, at, filed, outcome, agent, made, byId >>

\* A set of edges has a cycle if some beads each wait for another of them.
Cyclic(es) ==
    \E S \in (SUBSET Ids) \ {{}} : \A b \in S : \E c \in S : << b, c >> \in es

\* Mutation of CheckCycles: the check that --no-cycle-check postpones is left out.
CheckNothing ==
    /\ filePc = "cycles"
    /\ outcome' = "done"
    /\ filePc' = "idle"
    /\ UNCHANGED << graph, plan, nth, at, filed, agent, made, byId, fails >>

\* Cycles of the whole graph.  A check that cannot be made is logged.
CheckCycles ==
    /\ filePc = "cycles"
    /\ \/ outcome' = (IF Cyclic(edges) THEN "cyclic" ELSE "done") /\ UNCHANGED fails
       \/ fails < MaxFails /\ fails' = fails + 1 /\ outcome' = "done"
    /\ filePc' = "idle"
    /\ UNCHANGED << graph, plan, nth, at, filed, agent, made, byId >>

\* The process goes away with the filing in hand, between two calls; its row
\* stays running.
FilingDies ==
    /\ filePc # "idle" /\ fails < MaxFails
    /\ fails' = fails + 1
    /\ filePc' = "idle" /\ at' = 0
    /\ \E some \in SUBSET IF filePc = "edges" THEN Wanted ELSE {} :
         edges' = edges \cup { e \in some : e[1] # e[2] }
    /\ UNCHANGED << count, key, labels, says, closed, plan, nth, filed, outcome, agent, made, byId >>

FilingStep == FileItem \/ ItemFails \/ WireEdges \/ CheckCycles \/ FilingDies

-----------------------------------------------------------------------------
(* A dispatched run in the rig.                                            *)

\* The dispatch handler enqueues its row without a project, so the job carries
\* none.
JobProject == NoProject

RunStarts ==
    /\ ~running
    /\ running' = TRUE
    /\ before' = count
    /\ UNCHANGED << graph, filing, cut, edits, made, byId, fails >>

AgentCreates ==
    /\ running /\ count < MaxBeads
    /\ count' = count + 1
    /\ UNCHANGED << key, labels, says, closed, edges, filing, agent, made, byId, fails >>

AgentCloses(b) ==
    /\ running
    /\ closed' = closed \cup {b}
    /\ UNCHANGED << count, key, labels, says, edges, filing, agent, made, byId, fails >>

\* bd dep add, with its own cycle check, and bd dep remove.
AgentLinks(b, c) ==
    /\ running /\ edits < MaxEdits
    /\ << b, c >> \notin edges /\ ~Cyclic(edges \cup {<< b, c >>})
    /\ edges' = edges \cup {<< b, c >>}
    /\ edits' = edits + 1
    /\ UNCHANGED << count, key, labels, says, closed, filing, running, before, cut, made, byId, fails >>

AgentUnlinks(b, c) ==
    /\ running /\ edits < MaxEdits
    /\ << b, c >> \in edges
    /\ edges' = edges \ {<< b, c >>}
    /\ cut' = cut \cup {<< b, c >>}
    /\ edits' = edits + 1
    /\ UNCHANGED << count, key, labels, says, closed, filing, running, before, made, byId, fails >>

\* bd update --add-label.
AgentLabels(b, p) ==
    /\ running /\ edits < MaxEdits
    /\ labels[b] # labels[b] \cup {p}
    /\ labels' = [labels EXCEPT ![b] = @ \cup {p}]
    /\ edits' = edits + 1
    /\ UNCHANGED << count, key, says, closed, edges, filing, running, before, cut, made, byId, fails >>

\* labelNewBeads: what appeared during the run gets the job's project, if the
\* job has one, unless it names a project already.
Labelled(b) ==
    IF JobProject # NoProject /\ b > before /\ labels[b] = {} THEN {JobProject} ELSE labels[b]

RunEnds ==
    /\ running
    /\ running' = FALSE /\ before' = 0
    /\ labels' = [b \in Ids |-> IF b \in Beads THEN Labelled(b) ELSE {}]
    /\ UNCHANGED << count, key, says, closed, edges, filing, cut, edits, made, byId, fails >>

AgentStep ==
    \/ RunStarts \/ AgentCreates \/ RunEnds
    \/ \E b \in Beads : AgentCloses(b) \/ \E p \in Projects : AgentLabels(b, p)
    \/ \E b, c \in Beads : AgentLinks(b, c) \/ AgentUnlinks(b, c)

GraphNext == (\E p \in Plans : FilePlan(p)) \/ FilingStep \/ AgentStep

GraphSpec == GraphInit /\ [][GraphNext]_graphVars

-----------------------------------------------------------------------------
(* Safety.                                                                 *)

\* A re-plan revises what an earlier filing made, through failures, retries and
\* beads that were closed meanwhile: for one project and ref there is one bead,
\* as long as nobody files by id.
OneBeadPerRef ==
    \A b, c \in Beads \ byId : made[b] = made[c] /\ made[b] # NoKey => b = c

\* A filing reported as done is all there: every item has its bead, saying what
\* this plan says, under the plan's project unless it was named by id; no two
\* new or revised items share one; and, unless a call failed, every dependency
\* is recorded in its direction or was removed by an agent since.
DoneMeansFiled ==
    outcome = "done" /\ filePc = "idle" =>
        /\ \A i \in Items : /\ filed[i.ref] \in Beads /\ says[filed[i.ref]] = nth
                            /\ i.id = 0 => plan.project \in labels[filed[i.ref]]
        /\ \A i, j \in DOMAIN plan.items :
             i # j /\ plan.items[i].id = 0 /\ plan.items[j].id = 0
                => filed[plan.items[i].ref] # filed[plan.items[j].ref]
        /\ fails = 0 => { e \in Wanted : e[1] # e[2] } \ cut \subseteq edges

\* Beads that wait for each other for ever are reported, whichever filings drew
\* the edges between them: a filing is done only in a graph without a cycle.
NoSilentCycle == outcome = "done" /\ filePc = "idle" /\ fails = 0 => ~Cyclic(edges)

-----------------------------------------------------------------------------
(* What the comments say and the code does not do.                         *)

\* filing.go:18 "re-planning must revise the beads it already filed rather than
\* duplicate them": OneBeadPerRef whoever filed by id.
ReplanNeverDuplicates == \A b, c \in Beads : made[b] = made[c] /\ made[b] # NoKey => b = c

\* main.go:445 "Labelled whether the run succeeded or not. ... an unattributed
\* bead is invisible on the project page it belongs to."
RunBeadsAreLabelled == ~running => \A b \in Beads : made[b] = NoKey => labels[b] # {}
=============================================================================
