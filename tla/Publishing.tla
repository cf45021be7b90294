----------------------------- MODULE Publishing -----------------------------
(* internal/publish: the timer's pass that turns accepted candidates into   *)
(* beads in their project's graph (publish.go), accepted records into pull  *)
(* requests, and accepted decisions into both (records.go). The graph's     *)
(* label and the database row are written apart, and so are the branch, the *)
(* file, the pull request and the row; the pass may die between any two.    *)
EXTENDS Integers, FiniteSets

CONSTANTS
    Tasks,          \* accepted operational candidates, numbered by age
    Decisions,      \* accepted decisions, each with its record
    ProjectOf,      \* the project whose graph a candidate belongs in
    Unpublishable,  \* tasks: restricted with no project, or a graph on another host;
                    \* decisions: no provenance, no reviewer, or a scope of nothing
    Superseding,    \* decisions that supersede one proposed before
    Limit,          \* -publish-limit and -record-limit
    MaxMishaps      \* bound: failures, lost answers and deaths of a pass

ASSUME LimitAssumption ==
    /\ Limit \in Nat \ {0} /\ Tasks \subseteq Nat /\ Decisions \subseteq Nat
    /\ Superseding \subseteq Decisions

Candidates == Tasks \cup Decisions
Projects_ == {ProjectOf[c] : c \in Candidates}

VARIABLES
    graph,      \* per project: none, on disk, or registered
    beads,      \* per candidate: beads that carry its label
    workRef,    \* candidates whose bead is recorded (work_ref_id)
    file,       \* per decision: its file on the branch, and who wrote to it
    pr,         \* per decision: its pull request
    gitPath,    \* decisions whose pull request is recorded (git_path)
    old,        \* per decision, the file it retires: none, unmerged (on its own branch
                \* only), merged, or marked superseded on the decision's branch
    pub,        \* the running pass
    mishaps

publishingVars == << graph, beads, workRef, file, pr, gitPath, old, pub, mishaps >>

NoFile == [there |-> FALSE, linked |-> FALSE, edited |-> FALSE]
Resting == [phase |-> "idle", todo |-> {}, step |-> "next", seen |-> NoFile, held |-> {}]

PublishingTypeOK ==
    /\ graph \in [Projects_ -> {"none", "on disk", "registered"}]
    /\ beads \in [Candidates -> 0..2] /\ workRef \subseteq Candidates
    /\ file \in [Decisions -> [there : BOOLEAN, linked : BOOLEAN, edited : BOOLEAN]]
    /\ pr \in [Decisions -> {"none", "open", "merged"}]
    /\ gitPath \subseteq Decisions
    /\ old \in [Decisions -> {"none", "unmerged", "merged", "marked"}]
    /\ pub.phase \in {"idle", "work", "between", "records"} /\ pub.todo \subseteq Candidates
    /\ pub.held \subseteq Candidates
    /\ pub.step \in {"next", "register", "create", "record", "git", "branch", "retire", "open", "path", "patch"}
    /\ mishaps \in 0..MaxMishaps

\* A successor has the candidate of what it supersedes, and with it the bead that one
\* may have been given.
PublishingInit ==
    /\ graph = [p \in Projects_ |-> "none"]
    /\ \E made \in SUBSET Superseding :
        /\ beads = [c \in Candidates |-> IF c \in made THEN 1 ELSE 0]
        /\ workRef \in SUBSET made
    /\ old = [d \in Decisions |-> IF d \in Superseding THEN "unmerged" ELSE "none"]
    /\ file = [d \in Decisions |-> NoFile]
    /\ pr = [d \in Decisions |-> "none"] /\ gitPath = {}
    /\ pub = Resting /\ mishaps = 0

Mishap == mishaps < MaxMishaps /\ mishaps' = mishaps + 1
Fine == UNCHANGED mishaps

Oldest(S) == {c \in S : Cardinality({o \in S : o < c}) < Limit}
First(S) == CHOOSE c \in S : \A o \in S : c <= o
Current == First(pub.todo)

OnItsTurn(phase, step) == pub.phase = phase /\ pub.todo # {} /\ pub.step = step
Goto(step) == pub' = [pub EXCEPT !.step = step]
Leave == pub' = [pub EXCEPT !.todo = @ \ {Current}, !.step = "next", !.seen = NoFile]

-----------------------------------------------------------------------------
(* The work pass. What is blocked is returned too, and counts to the limit. *)

PendingWork == Oldest(Tasks \ workRef)

Registered(c) == graph[ProjectOf[c]] = "registered"

StartPass ==
    /\ pub.phase = "idle"
    /\ pub' = [Resting EXCEPT !.phase = "work", !.todo = PendingWork,
                              !.held = {c \in Tasks : Registered(c)}]
    /\ UNCHANGED << graph, beads, workRef, file, pr, gitPath, old >> /\ Fine

\* No graph, or none narrow enough: the one fixable block is fixed for the next pass.
CreateGraph ==
    LET c == Current IN
    /\ OnItsTurn("work", "next")
    /\ c \in Unpublishable \/ c \notin pub.held
    /\ \/ /\ c \in Unpublishable \/ Registered(c)
          /\ Leave /\ UNCHANGED graph /\ Fine
       \/ /\ c \notin Unpublishable /\ ~Registered(c)
          /\ \/ /\ graph' = [graph EXCEPT ![ProjectOf[c]] = "on disk"]      \* a half-made .beads is redone
                /\ Goto("register") /\ Fine
             \/ Leave /\ UNCHANGED graph /\ Mishap
    /\ UNCHANGED << beads, workRef, file, pr, gitPath, old >>

RegisterGraph ==
    /\ OnItsTurn("work", "register")
    /\ Leave
    /\ \/ graph' = [graph EXCEPT ![ProjectOf[Current]] = "registered"] /\ Fine
       \/ UNCHANGED graph /\ Mishap
    /\ UNCHANGED << beads, workRef, file, pr, gitPath, old >>

\* Where a pass goes when this candidate's bead is done with, or could not be made.
AfterBead == IF Current \in Decisions THEN Goto("git") ELSE Leave

\* MUTANT of FindByLabel: creates without asking.
FindNothing ==
    /\ OnItsTurn("work", "next") \/ (OnItsTurn("records", "next") /\ Current \notin workRef)
    /\ Current \notin Unpublishable /\ Current \in pub.held
    /\ Goto("create") /\ Fine
    /\ UNCHANGED << graph, beads, workRef, file, pr, gitPath, old >>

\* The graph is asked before anything is created in it.
FindByLabel ==
    LET c == Current IN
    /\ OnItsTurn("work", "next") \/ (OnItsTurn("records", "next") /\ c \notin workRef)
    /\ c \notin Unpublishable /\ c \in pub.held
    /\ \/ beads[c] > 0 /\ Goto("record") /\ Fine
       \/ beads[c] = 0 /\ Goto("create") /\ Fine
       \/ AfterBead /\ Mishap
    /\ UNCHANGED << graph, beads, workRef, file, pr, gitPath, old >>

\* bd may have created the bead and still not said so.
CreateBead ==
    /\ OnItsTurn("work", "create") \/ OnItsTurn("records", "create")
    /\ \/ beads' = [beads EXCEPT ![Current] = @ + 1] /\ Goto("record") /\ Fine
       \/ beads' = [beads EXCEPT ![Current] = @ + 1] /\ AfterBead /\ Mishap
       \/ UNCHANGED beads /\ AfterBead /\ Mishap
    /\ UNCHANGED << graph, workRef, file, pr, gitPath, old >>

\* system_record_work_publication; a decision goes on to Git with its reference, or
\* without when the answer does not arrive, whether the row was written or not.
RecordWork ==
    /\ OnItsTurn("work", "record") \/ OnItsTurn("records", "record")
    /\ \/ /\ workRef' = workRef \cup {Current}
          /\ IF Current \in Decisions
             THEN pub' = [pub EXCEPT !.step = "git", !.seen.linked = TRUE]
             ELSE Leave
          /\ Fine
       \/ AfterBead /\ workRef' \in {workRef, workRef \cup {Current}} /\ Mishap
    /\ UNCHANGED << graph, beads, file, pr, gitPath, old >>

WorkPassEnds ==
    /\ pub.phase = "work" /\ pub.todo = {}
    /\ pub' = [pub EXCEPT !.phase = "between"]
    /\ UNCHANGED << graph, beads, workRef, file, pr, gitPath, old >> /\ Fine

-----------------------------------------------------------------------------
(* The record pass: the bead first, then Git, and neither holds up the other.*)

\* MUTANT of PendingRecords: keyed on git_path alone.
PendingByPath == Oldest({d \in Decisions : d \notin gitPath})

\* Offered while either effect is outstanding.
PendingRecords == Oldest({d \in Decisions : d \notin gitPath \/ d \notin workRef})

StartRecords ==
    /\ pub.phase = "between"
    /\ \/ pub' = [pub EXCEPT !.phase = "records", !.todo = PendingRecords,
                             !.held = {d \in Decisions : Registered(d)}]
          /\ Fine
       \/ pub' = Resting /\ Mishap            \* no token, or no head of the base branch
    /\ UNCHANGED << graph, beads, workRef, file, pr, gitPath, old >>

\* A blocked record is logged and gets neither, in every pass.
SkipBlocked ==
    /\ OnItsTurn("records", "next") /\ Current \in Unpublishable
    /\ Leave
    /\ UNCHANGED << graph, beads, workRef, file, pr, gitPath, old >> /\ Fine

\* A decision with no graph gets no bead yet, and none is made for it: only the work pass
\* makes graphs.  One with a bead has its reference already.
NoBeadNow ==
    /\ OnItsTurn("records", "next") /\ Current \notin Unpublishable
    /\ (Current \in workRef \/ Current \notin pub.held)
    /\ pub' = [pub EXCEPT !.step = "git", !.seen.linked = Current \in workRef]
    /\ UNCHANGED << graph, beads, workRef, file, pr, gitPath, old >> /\ Fine

\* propose, linkWork, or nothing more to do.
ChooseGit ==
    /\ OnItsTurn("records", "git")
    /\ CASE Current \notin gitPath -> Goto("branch")
         [] Current \in gitPath /\ pub.seen.linked -> Goto("patch")
         [] OTHER -> Leave
    /\ UNCHANGED << graph, beads, workRef, file, pr, gitPath, old >> /\ Fine

\* CreateBranch and PutFile: the whole file is rendered anew, over what is there.
PutRecord ==
    LET d == Current
        rendered == [file EXCEPT ![d] = [there |-> TRUE, linked |-> pub.seen.linked, edited |-> FALSE]]
    IN
    /\ OnItsTurn("records", "branch")
    /\ \/ file' = rendered /\ Goto("retire") /\ Fine
       \/ file' \in {file, rendered} /\ Leave /\ Mishap
    /\ UNCHANGED << graph, beads, workRef, pr, gitPath, old >>

\* retire: the superseded record's file is read from the decision's branch, else from
\* the base, and marked on the branch.  Before it is merged neither has it, and the
\* proposal is given up, in every pass.
Retire ==
    LET d == Current IN
    /\ OnItsTurn("records", "retire")
    /\ \/ old[d] = "none" /\ Goto("open") /\ UNCHANGED old /\ Fine
       \/ old[d] = "unmerged" /\ Leave /\ UNCHANGED old /\ Fine
       \/ /\ old[d] \in {"merged", "marked"}
          /\ old' = [old EXCEPT ![d] = "marked"] /\ Goto("open") /\ Fine
       \/ /\ old[d] \in {"merged", "marked"}
          /\ old' \in {old, [old EXCEPT ![d] = "marked"]} /\ Leave /\ Mishap
    /\ UNCHANGED << graph, beads, workRef, file, pr, gitPath >>

\* OpenPullRequest, or the one an earlier pass opened.
OpenProposal ==
    /\ OnItsTurn("records", "open")
    /\ \/ pr' = [pr EXCEPT ![Current] = "open"] /\ Goto("path") /\ Fine
       \/ pr' = [pr EXCEPT ![Current] = "open"] /\ Leave /\ Mishap
       \/ UNCHANGED pr /\ Leave /\ Mishap
    /\ UNCHANGED << graph, beads, workRef, file, gitPath, old >>

\* system_record_markdown_publication.
RecordPath ==
    /\ OnItsTurn("records", "path")
    /\ \/ gitPath' = gitPath \cup {Current} /\ Fine
       \/ UNCHANGED gitPath /\ Mishap
    /\ Leave
    /\ UNCHANGED << graph, beads, workRef, file, pr, old >>

\* linkWork: read the file on the branch, patch its front matter, put it back. The
\* branch goes with a merge, and then there is nothing to read.
LinkWork ==
    LET d == Current IN
    /\ OnItsTurn("records", "patch")
    /\ \/ file[d].there /\ file' = [file EXCEPT ![d].linked = TRUE] /\ Fine
       \/ ~file[d].there /\ UNCHANGED file /\ Fine
       \/ UNCHANGED file /\ Mishap
    /\ Leave
    /\ UNCHANGED << graph, beads, workRef, pr, gitPath, old >>

RecordPassEnds ==
    /\ pub.phase = "records" /\ pub.todo = {}
    /\ pub' = Resting
    /\ UNCHANGED << graph, beads, workRef, file, pr, gitPath, old >> /\ Fine

PublisherDies ==
    /\ pub.phase # "idle" /\ Mishap
    /\ pub' = Resting
    /\ UNCHANGED << graph, beads, workRef, file, pr, gitPath, old >>

-----------------------------------------------------------------------------
(* The people who read the pull request.                                    *)

EditProposal(d) ==
    /\ pr[d] = "open" /\ file[d].there /\ ~file[d].edited
    /\ file' = [file EXCEPT ![d].edited = TRUE]
    /\ UNCHANGED << graph, beads, workRef, pr, gitPath, old, pub, mishaps >>

MergeProposal(d) ==
    /\ pr[d] = "open" /\ d \in gitPath
    /\ pr' = [pr EXCEPT ![d] = "merged"]
    /\ file' = [file EXCEPT ![d].there = FALSE]
    /\ UNCHANGED << graph, beads, workRef, gitPath, old, pub, mishaps >>

\* The pull request of what a decision supersedes is merged; nobody has to.
MergeSuperseded(d) ==
    /\ old[d] = "unmerged"
    /\ old' = [old EXCEPT ![d] = "merged"]
    /\ UNCHANGED << graph, beads, workRef, file, pr, gitPath, pub, mishaps >>

PublisherSteps ==
    \/ StartPass \/ CreateGraph \/ RegisterGraph \/ FindByLabel \/ CreateBead \/ RecordWork
    \/ WorkPassEnds \/ StartRecords \/ SkipBlocked \/ NoBeadNow \/ ChooseGit \/ PutRecord
    \/ Retire \/ OpenProposal \/ RecordPath \/ LinkWork \/ RecordPassEnds

PublishingNext ==
    \/ PublisherSteps \/ PublisherDies
    \/ \E d \in Decisions : EditProposal(d) \/ MergeProposal(d) \/ MergeSuperseded(d)

PublishingSpec == PublishingInit /\ [][PublishingNext]_publishingVars

-----------------------------------------------------------------------------
(* What is checked.                                                         *)

\* internal/publish/publish.go: one accepted statement, one work item, whatever
\* happened to the process: no crash, lost answer or failed write between the graph
\* and the database gives a candidate a second bead.
OneBeadPerCandidate == \A c \in Candidates : beads[c] <= 1

\* internal/publish: every accepted candidate that some graph on this host may hold
\* becomes recorded work; every decision that can be attributed gets its bead if its
\* project has a graph at some time, and is proposed, with what it supersedes marked, if
\* that is merged or there is none: whatever failed first, as long as the rows that stay
\* pending and are older are fewer than the limit.
AcceptedBecomesWork ==
    /\ \A c \in Tasks \ Unpublishable : <>(c \in workRef)
    /\ \A d \in Decisions \ Unpublishable :
        /\ <>Registered(d) => <>(d \in workRef)
        /\ <>(old[d] # "unmerged") => <>(d \in gitPath /\ old[d] \in {"none", "marked"})

-----------------------------------------------------------------------------
(* What the comments say and the code does not do.                          *)

\* internal/publish/records.go: RecordPublisher "gives an accepted decision its bead".
DecisionsBecomeWork == \A d \in Decisions \ Unpublishable : <>(d \in workRef)

\* internal/publish/records.go: a record already proposed when its bead arrives has
\* its file patched; between passes no open proposal lacks a bead that is recorded.
ProposalsNameTheirBead ==
    pub.phase = "idle" =>
        \A d \in Decisions : d \in workRef /\ d \in gitPath /\ pr[d] = "open" => file[d].linked

\* internal/githubapp/contents.go: the blob's SHA keeps a write from silently
\* discarding somebody's edit.
EditsSurvive == [][\A d \in Decisions : file[d].edited => file'[d].edited]_publishingVars
=============================================================================
