------------------------------ MODULE Landing -------------------------------
(***************************************************************************)
(* How the files one bead's runs change reach the repository:              *)
(* prepareWorkdir, internal/landing and releaseWorkdir, over a sequence of *)
(* dispatches of the same bead.                                            *)
(*                                                                         *)
(* A commit and a checkout are trees, functions from paths to versions.    *)
(* The base branch does not move.  A run works in its own worktree, whose  *)
(* HEAD is the bead's branch, or, when that cannot be made, in the rig's   *)
(* shared checkout, whose HEAD is the base branch.                         *)
(***************************************************************************)
EXTENDS Naturals

CONSTANTS
    Paths,          \* the files that matter
    InBase,         \* those the base branch has
    Build,          \* names on the Ephemeral list
    Scratch,        \* names that look like an agent's scratch directory
    Modes,          \* the checkouts a run may get
    Committing,     \* the runs, by number, whose agent may run git commit
    NoTree,         \* no such ref, no such directory
    MaxRuns,        \* bound: dispatches of the bead
    MaxForeign,     \* bound: what other people do to the bead's remote branch
    MaxStrays       \* bound: edits people leave in the shared checkout

ASSUME PathAssumption ==
    /\ InBase \subseteq Paths /\ Build \subseteq Paths /\ Scratch \subseteq Paths
    /\ Modes \subseteq {"worktree", "shared"} /\ Modes # {}
    /\ Committing \subseteq Nat
ASSUME CountAssumption == MaxRuns \in Nat /\ MaxForeign \in Nat /\ MaxStrays \in Nat

\* The versions of a file.
Absent == 0
Original == 1        \* the base branch's
Foreign == 2         \* pushed to the bead's branch by somebody else
Stray == 3           \* left in the shared checkout by somebody else
By(n) == n + 3       \* written by the bead's n-th run

Tree == [Paths -> Nat]
BaseTree == [p \in Paths |-> IF p \in InBase THEN Original ELSE Absent]
ASSUME NoTreeAssumption == NoTree \notin Tree

VARIABLES
    pc,         \* the dispatcher's run of the bead: "idle", "working" or "landed"
    run,        \* the number of the latest run
    mode,       \* the checkout it has
    disk,       \* disk[m]: the files in the bead's worktree and in the shared checkout
    local,      \* the local branch bead/<id>
    tracking,   \* origin/bead/<id>, as this clone last saw it
    remote,     \* the branch at the remote
    before,     \* Spec.Before: paths dirty when the run started
    excluded,   \* .git/info/exclude has been written
    outcome,    \* of the landing: "none", "nothing", "pushed" or "failed"
    touched,    \* touched[p]: history, the last run that wrote or deleted p
    wrote,      \* history, the paths the latest run wrote and did not delete
    foreigns, strays

refs == << local, tracking, remote >>
history == << touched, wrote >>
vars == << pc, run, mode, disk, refs, before, excluded, outcome, history, foreigns, strays >>

TypeOK ==
    /\ pc \in {"idle", "working", "landed"}
    /\ run \in Nat
    /\ mode \in {"worktree", "shared"}
    /\ disk \in [{"worktree", "shared"} -> Tree \cup {NoTree}]
    /\ disk["shared"] # NoTree
    /\ pc # "idle" => disk[mode] # NoTree /\ (mode = "worktree" => local # NoTree)
    /\ {local, tracking, remote} \subseteq Tree \cup {NoTree}
    /\ before \subseteq Paths
    /\ excluded \in BOOLEAN
    /\ outcome \in {"none", "nothing", "pushed", "failed"}
    /\ touched \in [Paths -> Nat]
    /\ wrote \subseteq Paths
    /\ foreigns \in Nat /\ strays \in Nat

Init ==
    /\ pc = "idle" /\ run = 0 /\ mode = "shared"
    /\ disk = [m \in {"worktree", "shared"} |-> IF m = "shared" THEN BaseTree ELSE NoTree]
    /\ local = NoTree /\ tracking = NoTree /\ remote = NoTree
    /\ before = {} /\ excluded = FALSE /\ outcome = "none"
    /\ touched = [p \in Paths |-> 0] /\ wrote = {}
    /\ foreigns = 0 /\ strays = 0

-----------------------------------------------------------------------------
(* What git says.                                                          *)

\* The files of the run's checkout and the commit they are compared with.
Cur == disk[mode]
Head == IF mode = "worktree" THEN local ELSE BaseTree

Junk == Build \cup Scratch
Untracked(files, commit) == { p \in Paths : files[p] # Absent /\ commit[p] = Absent }

\* git status: what differs from HEAD, less the untracked paths the exclude
\* file names.  Scratch directories are matched by shape and are not in it.
Status(files, commit) ==
    { p \in Paths : files[p] # commit[p] }
        \ (IF excluded THEN Build \cap Untracked(files, commit) ELSE {})

\* Mutation of Tip: the local branch first, which checkout -B has reset.
TipLocalFirst == IF local # NoTree THEN local ELSE tracking

\* beadTip: the remote-tracking ref first, the local branch second.
Tip == IF tracking # NoTree THEN tracking ELSE local

\* git diff base...tip: the paths the bead has already landed.
Mine == IF Tip = NoTree THEN {} ELSE { p \in Paths : Tip[p] # BaseTree[p] }

\* Mutation of New: no snapshot is taken before the run.
NewIgnoresBefore(now) == now

\* Since, by path: the dirty paths that were not dirty before the run.
New(now) == now \ before

\* reclaim: of the others, those the bead's branch already carries.
Reclaimed(now) == (now \cap before) \cap Mine

\* Interesting: build output and scratch are skipped while they are untracked.
Work ==
    LET now == Status(Cur, Head)
    IN  (New(now) \cup Reclaimed(now)) \ (Junk \cap Untracked(Cur, Head))

\* restore: what the tip carries and the checkout has no file for.  It is
\* written to the index and to the checkout.
Restored == { p \in Mine \ Junk : Tip[p] # Absent /\ Cur[p] = Absent }
Restore(tree) == [p \in Paths |-> IF p \in Restored THEN Tip[p] ELSE tree[p]]

\* Mutation of Candidate: the branch is reset to the base instead of to HEAD.
CandidateFromBase == Restore([p \in Paths |-> IF p \in Work THEN Cur[p] ELSE BaseTree[p]])

\* The commit: HEAD, the work staged by path, and the restored paths.
Candidate == Restore([p \in Paths |-> IF p \in Work THEN Cur[p] ELSE Head[p]])

-----------------------------------------------------------------------------
(* The dispatcher.                                                         *)

\* treeBefore: the paths that are dirty before the agent starts.
TreeBefore(files) == Status(files, BaseTree)

\* prepareWorkdir: the worktree an earlier run left is removed with whatever
\* is in it, and a new one is made from the base with -B, which resets the
\* local branch; if that fails the run falls back to the shared checkout.
Prepare ==
    /\ pc = "idle" /\ run < MaxRuns
    /\ run' = run + 1
    /\ \/ /\ "worktree" \in Modes
          /\ mode' = "worktree"
          /\ disk' = [disk EXCEPT !["worktree"] = BaseTree]
          /\ local' = BaseTree
          /\ before' = TreeBefore(BaseTree)
       \/ /\ "shared" \in Modes
          /\ mode' = "shared"
          /\ disk' = [disk EXCEPT !["worktree"] = NoTree]
          /\ before' = TreeBefore(disk["shared"])
          /\ UNCHANGED local
    /\ pc' = "working"
    /\ outcome' = "none"
    /\ wrote' = {}
    /\ UNCHANGED << tracking, remote, excluded, touched, foreigns, strays >>

\* Mutation of Push: --force.
PushForced(commit) == remote' = commit /\ tracking' = commit /\ outcome' = "pushed"

\* git push --force-with-lease: accepted only if the remote branch is where
\* this clone last saw it.  It may also just fail.
Push(commit) ==
    \/ /\ remote = tracking
       /\ remote' = commit /\ tracking' = commit
       /\ outcome' = "pushed"
    \/ outcome' = "failed" /\ UNCHANGED << remote, tracking >>

\* The files after the commit and git checkout base.  In the shared checkout
\* the committed paths go back to the base's versions; in a worktree the
\* checkout is refused, because the base is checked out elsewhere.
Returned(commit) ==
    [p \in Paths |-> IF mode = "shared" /\ commit[p] # BaseTree[p] THEN BaseTree[p]
                     ELSE Restore(Cur)[p]]

\* Land with something to commit.  checkout -B moves the branch to HEAD before
\* anything can go wrong, and every failure leaves it there or at the commit.
LandWork ==
    /\ pc = "working" /\ Work # {}
    /\ excluded' = TRUE
    /\ \/ /\ Candidate = Head
          /\ outcome' = "nothing"
          /\ local' = Head /\ disk' = [disk EXCEPT ![mode] = Restore(Cur)]
          /\ UNCHANGED << tracking, remote >>
       \/ /\ Candidate # Head
          /\ outcome' = "failed"
          /\ local' = Head /\ disk' = [disk EXCEPT ![mode] = Restore(Cur)]
          /\ UNCHANGED << tracking, remote >>
       \/ /\ Candidate # Head
          /\ local' = Candidate /\ disk' = [disk EXCEPT ![mode] = Returned(Candidate)]
          /\ Push(Candidate)
    /\ pc' = "landed"
    /\ UNCHANGED << run, mode, before, history, foreigns, strays >>

\* landCommitted: the paths the branch itself changes; scratch alone is not
\* worth a pull request.
Committed == IF local = NoTree THEN {} ELSE { p \in Paths : local[p] # BaseTree[p] } \ Scratch

\* Land with a clean tree: commits the agent made are pushed as they are.
LandCommitted ==
    /\ pc = "working" /\ Work = {}
    /\ \/ Committed = {} /\ outcome' = "nothing" /\ UNCHANGED << tracking, remote >>
       \/ Committed # {} /\ Push(local)
    /\ pc' = "landed"
    /\ UNCHANGED << run, mode, disk, local, before, excluded, history, foreigns, strays >>

\* Mutation of Release: whatever the checkout holds.
ReleaseForced ==
    /\ pc = "landed"
    /\ pc' = "idle"
    /\ disk' = [disk EXCEPT !["worktree"] = NoTree]
    /\ UNCHANGED << run, mode, refs, before, excluded, outcome, history, foreigns, strays >>

\* releaseWorkdir: the worktree goes if git status has nothing to say.
Release ==
    /\ pc = "landed"
    /\ pc' = "idle"
    /\ disk' = IF mode = "worktree" /\ Status(Cur, Head) = {}
               THEN [disk EXCEPT !["worktree"] = NoTree] ELSE disk
    /\ UNCHANGED << run, mode, refs, before, excluded, outcome, history, foreigns, strays >>

-----------------------------------------------------------------------------
(* The agent and other people.                                             *)

AgentWrites(p) ==
    /\ pc = "working"
    /\ disk' = [disk EXCEPT ![mode][p] = By(run)]
    /\ touched' = [touched EXCEPT ![p] = run]
    /\ wrote' = wrote \cup {p}
    /\ UNCHANGED << pc, run, mode, refs, before, excluded, outcome, foreigns, strays >>

AgentDeletes(p) ==
    /\ pc = "working" /\ Cur[p] # Absent
    /\ disk' = [disk EXCEPT ![mode][p] = Absent]
    /\ touched' = [touched EXCEPT ![p] = run]
    /\ wrote' = wrote \ {p}
    /\ UNCHANGED << pc, run, mode, refs, before, excluded, outcome, foreigns, strays >>

\* git commit is not on the agent's deny list; git push is.
AgentCommit ==
    /\ pc = "working" /\ run \in Committing /\ mode = "worktree"
    /\ \E staged \in SUBSET Status(Cur, Head) :
         local' = [p \in Paths |-> IF p \in staged THEN Cur[p] ELSE local[p]]
    /\ UNCHANGED << pc, run, mode, disk, tracking, remote, before, excluded, outcome, history,
                    foreigns, strays >>

\* Somebody commits to the bead's branch, or deletes it with its pull request.
ForeignPush ==
    /\ remote # NoTree /\ foreigns < MaxForeign
    /\ \/ \E p \in Paths : remote' = [remote EXCEPT ![p] = Foreign]
       \/ remote' = NoTree
    /\ foreigns' = foreigns + 1
    /\ UNCHANGED << pc, run, mode, disk, local, tracking, before, excluded, outcome, history, strays >>

\* Somebody, or another bead's run, leaves an edit in the shared checkout.
StrayEdit(p) ==
    /\ pc = "idle" /\ strays < MaxStrays
    /\ disk' = [disk EXCEPT !["shared"][p] = Stray]
    /\ strays' = strays + 1
    /\ UNCHANGED << pc, run, mode, refs, before, excluded, outcome, history, foreigns >>

-----------------------------------------------------------------------------

Next ==
    \/ Prepare \/ LandWork \/ LandCommitted \/ Release
    \/ \E p \in Paths : AgentWrites(p) \/ AgentDeletes(p) \/ StrayEdit(p)
    \/ AgentCommit \/ ForeignPush

Spec == Init /\ [][Next]_vars

OurPush == pc = "working" /\ outcome' = "pushed"

\* A push of what Land itself committed on top of the base, with no commit of
\* the agent's underneath.
OwnPush == OurPush /\ Work # {} /\ Head = BaseTree

-----------------------------------------------------------------------------
(* Safety.                                                                 *)

\* landing.go:869 "somebody else's commit on the bead's branch stops this
\* rather than being overwritten", although every landing force-pushes.
ForeignCommitSurvives ==
    [][OurPush /\ remote # NoTree => \A p \in Paths : remote[p] = Foreign => remote'[p] = Foreign]_vars

\* A landing is the bead's work rather than the tree's: a path no run of the
\* bead ever touched is never changed by what it pushes, whatever lay about in
\* the checkout.
OnlyTouchedPathsLand ==
    [][OurPush => \A p \in Paths : touched[p] = 0 => remote'[p] = BaseTree[p]]_vars

\* A re-dispatch is not a deletion: a file the bead delivered that the base does
\* not have is still there after the next run's forced push, although the
\* branch was reset in between, as long as the agent leaves committing to Land.
NewFilesSurviveRedispatch ==
    [][OwnPush /\ remote # NoTree =>
        \A p \in Paths \ (InBase \cup Junk) : remote[p] # Absent => remote'[p] # Absent]_vars

Versions(p) ==
    { t[p] : t \in {disk["worktree"], disk["shared"], local, remote} \ {NoTree} }

\* Until the next run of the bead begins, what a run wrote is in the remote
\* branch, in the local one or on disk: no failed commit, refused push or
\* released worktree destroys the last copy.
RunWorkIsSomewhere ==
    [][pc # "idle" => \A p \in wrote' \ Junk : By(run) \in Versions(p)']_vars

\* A push from a worktree delivers everything the run wrote and did not delete,
\* whether the agent committed some of it or left it all in the tree.
EverythingWrittenIsPushed ==
    [][OurPush /\ mode = "worktree" => \A p \in wrote \ Junk : remote'[p] = By(run)]_vars

-----------------------------------------------------------------------------
(* What the comments say and the code does not do.                         *)

\* landing.go:783 "Where the run never touched it, the earlier delivery is
\* restored from the commit that checkout -B just discarded."
EarlierDeliveryIsRestored ==
    [][OurPush /\ remote # NoTree =>
        \A p \in Paths \ Junk : touched[p] # run => remote'[p] = remote[p]]_vars

\* landing.go:787 "This is what stops a re-dispatch from being a deletion":
\* NewFilesSurviveRedispatch whatever the agent committed.
RedispatchIsNoDeletion ==
    [][OurPush /\ remote # NoTree =>
        \A p \in Paths \ (InBase \cup Junk) : remote[p] # Absent => remote'[p] # Absent]_vars

\* main.go:556 "Anything worth keeping is on the bead's branch already, because
\* that is what landing pushes": beginning a run destroys no run's work.
BeginningDestroysNothing ==
    [][pc = "idle" => \A p \in Paths \ Junk, n \in 1 .. MaxRuns :
        By(n) \in Versions(p) => By(n) \in Versions(p)']_vars

\* landing.go:695 "otherwise the job is reported 'nothing to land' and closed
\* unlanded while real work sits on the node".
NothingToLandMeansNothing ==
    pc = "landed" /\ outcome = "nothing" /\ mode = "worktree" => Committed \subseteq Junk
=============================================================================
