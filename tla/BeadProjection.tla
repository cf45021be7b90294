--------------------------- MODULE BeadProjection ----------------------------
(***************************************************************************)
(* The projection of a cell's beads into the control plane: a pass of the  *)
(* dispatcher reads the graph and posts what it read; the handler records  *)
(* one bead after another (work_refs) and then what blocks each            *)
(* (work_links).  The graph goes on changing underneath.                   *)
(***************************************************************************)
EXTENDS BeadGraph

CONSTANTS
    Known,      \* the projects the control plane has; a label may name others
    Fallback    \* the cell's only project, or NoProject if it serves several

ASSUME FallbackAssumption == Known \subseteq Projects /\ Fallback \in Known \cup {NoProject}

VARIABLES
    shown,        \* the beads with a row in work_refs
    project,      \* project[b]: its project_id
    links,        \* work_links, as <<blocked, blocker>>
    sendPc,       \* the request: "idle", "beads" or "links"
    next,         \* the bead it is at
    missed,       \* the beads whose blockers it failed to record
    read          \* what was read: [count, labels, edges], while it is being sent

refVars == << shown, project, links >>
sendVars == << sendPc, next, missed, read >>
vars == << graphVars, refVars, sendVars >>

Nothing == [count |-> 0, labels |-> [b \in Ids |-> {}], edges |-> {}]

TypeOK ==
    /\ GraphTypeOK
    /\ shown \subseteq Beads
    /\ project \in [Ids -> Projects \cup {NoProject}]
    /\ links \subseteq shown \X shown
    /\ sendPc \in {"idle", "beads", "links"}
    /\ sendPc # "idle" => next \in 1 .. read.count
    /\ missed \subseteq Beads
    /\ read.count \in 0 .. count /\ read.edges \subseteq Beads \X Beads

Init ==
    /\ GraphInit
    /\ shown = {} /\ links = {}
    /\ project = [b \in Ids |-> NoProject]
    /\ sendPc = "idle" /\ next = 0 /\ missed = {}
    /\ read = Nothing

-----------------------------------------------------------------------------

\* readBeads and sendBeads.  An empty list is not sent.
ReadBeads ==
    /\ sendPc = "idle" /\ count > 0
    /\ read' = [count |-> count, labels |-> labels, edges |-> edges]
    /\ sendPc' = "beads" /\ next' = 1 /\ missed' = {}
    /\ UNCHANGED << graphVars, refVars >>

\* The handler answers.
SendEnds == sendPc' = "idle" /\ next' = 0 /\ read' = Nothing

\* The request goes on with the next bead, or with what comes after the last.
Advance(after) ==
    IF next < read.count THEN next' = next + 1 /\ UNCHANGED << sendPc, read >> ELSE after

\* Mutation of Attribution: the label is not looked at, as before 0078.
AttributionOfCell(b) == Fallback

\* What system_project_bead does not refuse: a bead that names at most one
\* project, and one the control plane has.
Attributable(b) == Cardinality(read.labels[b]) <= 1 /\ read.labels[b] \subseteq Known

\* system_project_bead: what the bead says, else the cell, else what it was.
Attribution(b) ==
    IF read.labels[b] # {} THEN CHOOSE p \in read.labels[b] : TRUE
    ELSE IF Fallback # NoProject THEN Fallback ELSE project[b]

\* The blockers read for bead b.
Blockers(b) == { c \in Ids : << b, c >> \in read.edges }

\* Mutation of Recorded: nothing is removed.
RecordedOnly(b) == links \cup ({b} \X Blockers(b))

\* system_project_bead_blockers: the links into b that are gone are deleted, the
\* others inserted; a blocker without a row is counted and left out.
Recorded(b) == { l \in links : l[1] # b } \cup ({b} \X (Blockers(b) \cap shown))

ProjectBead ==
    /\ sendPc = "beads" /\ Attributable(next)
    /\ shown' = shown \cup {next}
    /\ project' = [project EXCEPT ![next] = Attribution(next)]
    /\ Advance(sendPc' = "links" /\ next' = 1 /\ UNCHANGED read)
    /\ UNCHANGED << missed, graphVars, links >>

\* The handler does not call it for a bead that has no blockers, and goes on
\* with the next bead when the call fails.
ProjectLinks ==
    /\ sendPc = "links"
    /\ \/ /\ links' = IF Blockers(next) = {} THEN links ELSE Recorded(next)
          /\ UNCHANGED << fails, missed >>
       \/ /\ fails < MaxFails /\ Blockers(next) # {}
          /\ fails' = fails + 1 /\ missed' = missed \cup {next}
          /\ UNCHANGED links
    /\ Advance(SendEnds)
    /\ UNCHANGED << graph, filing, agent, made, byId, shown, project >>

\* A bead that names two projects, or one there is not, is refused, and the
\* request with it; or the request is cut off.
SendFails ==
    /\ sendPc # "idle"
    /\ \/ sendPc = "beads" /\ ~Attributable(next) /\ UNCHANGED fails
       \/ fails < MaxFails /\ fails' = fails + 1
    /\ SendEnds /\ missed' = {}
    /\ UNCHANGED << graph, filing, agent, made, byId, refVars >>

SendStep == ReadBeads \/ ProjectBead \/ ProjectLinks \/ SendFails

Next == (GraphNext /\ UNCHANGED << refVars, sendVars >>) \/ SendStep

Spec == Init /\ [][Next]_vars

\* The dispatcher passes on a ticker, and a request ends.
PassFairness == WF_vars(SendStep)

FairSpec == Spec /\ PassFairness

-----------------------------------------------------------------------------

PassCompletes == sendPc = "links" /\ next = read.count /\ ProjectLinks

\* After a pass, what the control plane says blocks a bead that still has a
\* blocker is what the graph said when the pass began -- forward references,
\* removed edges and a graph that moved on meanwhile included -- unless the call
\* for that bead failed.
PassRecordsBlockers ==
    [][PassCompletes => \A b \in 1 .. read.count :
        Blockers(b) # {} /\ b \notin missed'
            => { l \in links' : l[1] = b } = { e \in read.edges : e[1] = b }]_vars

\* A bead that ends every pass that reaches it.
Mislabelled == \E b \in Beads : Cardinality(labels[b]) > 1 \/ ~(labels[b] \subseteq Known)

\* What the graph says of projects and dependencies is what the pages show.
Current ==
    /\ \A b \in Beads : labels[b] # {} => project[b] \in labels[b]
    /\ edges \subseteq links

\* The control plane catches up with a graph that comes to rest -- here it does,
\* its writers being bounded -- whatever requests were cut off and whatever half
\* of a filing or a pass was lost, as long as every bead's labels name one project
\* the control plane has, or none: a single mislabelled bead keeps it from ever
\* catching up with any bead after it, and with the dependencies of all.
CatchesUp == []<>(Current \/ Mislabelled)

-----------------------------------------------------------------------------
(* What the comments say and the code does not do.                         *)

\* 0097: "Removed first, so a dependency deleted in Beads disappears here."
DeletedDependencyDisappears == [][PassCompletes /\ missed' = {} => links' \subseteq read.edges]_vars
=============================================================================
