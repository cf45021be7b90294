---------------------------- MODULE LandingProofs -----------------------------
(***************************************************************************)
(* What a bead's landings push and what they leave alone, for every set of *)
(* files, every kind of checkout, and any number of dispatches, of other   *)
(* people's commits and of edits left in the shared checkout.              *)
(***************************************************************************)
EXTENDS Landing, TLAPS

\* A run is numbered from one, and has no outcome before it is landed.
RunsBeginAnew ==
    /\ pc # "idle" => run # 0
    /\ pc = "working" => outcome = "none"

LandingInv == TypeOK /\ RunsBeginAnew

\* The version somebody else's commit gives a file has come to nobody's checkout, to no
\* local branch and to no branch as this clone last saw it: nothing is fetched.
NoForeign ==
    /\ \A m \in {"worktree", "shared"}, p \in Paths : disk[m] # NoTree => disk[m][p] # Foreign
    /\ \A p \in Paths : local # NoTree => local[p] # Foreign
    /\ \A p \in Paths : tracking # NoTree => tracking[p] # Foreign

\* What no run of the bead touched is the base's on the bead's branch and in its worktree;
\* in the shared checkout it may be anything, but then it was dirty before the run.
UntouchedIsTheBases ==
    \A p \in Paths : touched[p] = 0 =>
        /\ local # NoTree => local[p] = BaseTree[p]
        /\ tracking # NoTree => tracking[p] = BaseTree[p]
        /\ disk["worktree"] # NoTree => disk["worktree"][p] = BaseTree[p]
        /\ pc = "working" /\ mode = "shared" /\ p \in Status(disk["shared"], BaseTree) => p \in before

\* Nothing is dirty in a worktree before its run, what a run wrote is in its checkout
\* until it is landed, and afterwards there or on the local branch.
WrittenIsKept ==
    /\ pc = "working" /\ mode = "worktree" => before = {}
    /\ pc = "working" => \A p \in wrote : Cur[p] = By(run)
    /\ pc = "landed" => \A p \in wrote \ Junk :
          disk[mode][p] = By(run) \/ (local # NoTree /\ local[p] = By(run))

-----------------------------------------------------------------------------
(* The trees a landing makes.                                              *)

\* The base branch is a tree, and it has nobody's version of a file but its own.
LEMMA BaseIsTree ==
    BaseTree \in Tree /\ \A p \in Paths : BaseTree[p] \in {Absent, Original}
  BY DEF BaseTree, Tree, Absent, Original

\* What the bead's branch is known to carry is a tree, if it is known to carry anything.
LEMMA MineComesFromATree ==
    ASSUME TypeOK
    PROVE  /\ Mine \subseteq Paths
           /\ Mine # {} => Tip \in Tree
           /\ Tip = NoTree \/ Tip \in {local, tracking}
  BY DEF TypeOK, Mine, Tip

\* What the run's checkout holds, what it is compared with, and what is made of the two.
LEMMA LandingMakesTrees ==
    ASSUME TypeOK, pc # "idle"
    PROVE  Cur \in Tree /\ Head \in Tree /\ Restore(Cur) \in Tree /\ Candidate \in Tree
<1>1. Cur \in Tree /\ Head \in Tree
    BY BaseIsTree DEF TypeOK, Cur, Head
<1>2. \A p \in Restored : Tip[p] \in Nat
    BY MineComesFromATree DEF Restored, Tree
<1>3. \A t : (\A p \in Paths : t[p] \in Nat) => Restore(t) \in Tree
    BY <1>2 DEF Restore, Tree
<1>4. \A p \in Paths : Cur[p] \in Nat /\ Head[p] \in Nat
    BY <1>1 DEF Tree
<1>5. Candidate \in Tree
    BY <1>3, <1>4 DEF Candidate
<1> QED
    BY <1>1, <1>3, <1>4, <1>5

\* The checkout after a commit.
LEMMA ReturnedIsTree ==
    ASSUME TypeOK, pc # "idle", NEW commit
    PROVE  Returned(commit) \in Tree
<1>1. \A p \in Paths : Restore(Cur)[p] \in Nat /\ BaseTree[p] \in Nat
    BY LandingMakesTrees, BaseIsTree DEF Tree
<1> QED
    BY <1>1 DEF Returned, Tree

\* A file of a checkout is not restored, so what is there stays.
LEMMA RestoreKeepsFiles ==
    ASSUME NEW p \in Paths, NEW t
    PROVE  /\ Cur[p] # Absent => Restore(t)[p] = [q \in Paths |-> t[q]][p]
           /\ p \notin Mine => Restore(t)[p] = t[p]
           /\ Restore(t)[p] \in {t[p], Tip[p]}
  BY DEF Restore, Restored

\* What the commit has of a file.
LEMMA CandidateOf ==
    ASSUME NEW p \in Paths
    PROVE  Candidate[p] = IF p \in Restored THEN Tip[p] ELSE IF p \in Work THEN Cur[p] ELSE Head[p]
  BY DEF Candidate, Restore

-----------------------------------------------------------------------------
(* Types.                                                                  *)

\* The initial state is type correct.
LEMMA LandingInit == Init => LandingInv
<1> SUFFICES ASSUME Init PROVE LandingInv
    OBVIOUS
<1>1. disk \in [{"worktree", "shared"} -> Tree \cup {NoTree}] /\ disk["shared"] = BaseTree
    BY BaseIsTree DEF Init
<1>2. BaseTree # NoTree
    BY BaseIsTree, NoTreeAssumption
<1> QED
    BY <1>1, <1>2 DEF Init, LandingInv, TypeOK, RunsBeginAnew

\* One case per action.
LEMMA LandingStep == LandingInv /\ [Next]_vars => LandingInv'
<1> SUFFICES ASSUME LandingInv, [Next]_vars PROVE LandingInv'
    OBVIOUS
<1> USE DEF LandingInv, RunsBeginAnew
<1>1. CASE Prepare
    <2>1. run' \in Nat \ {0}
        BY <1>1 DEF Prepare, TypeOK
    <2>2. before' \subseteq Paths
        BY <1>1 DEF Prepare, TreeBefore, Status, TypeOK
    <2> QED
        BY <1>1, <2>1, <2>2, BaseIsTree, PathAssumption, NoTreeAssumption DEF Prepare, TypeOK
<1>2. CASE LandWork
    <2>1. mode \in {"worktree", "shared"} /\ pc # "idle" /\ Head \in Tree /\ Candidate \in Tree
        BY <1>2, LandingMakesTrees DEF LandWork, TypeOK
    <2>2. PICK t \in Tree : disk' = [disk EXCEPT ![mode] = t]
        BY <1>2, <2>1, LandingMakesTrees, ReturnedIsTree DEF LandWork
    <2>3. disk' \in [{"worktree", "shared"} -> Tree \cup {NoTree}] /\ disk'["shared"] # NoTree
          /\ disk'[mode] # NoTree
        BY <2>1, <2>2, NoTreeAssumption DEF TypeOK
    <2>4. local' \in Tree /\ {tracking', remote'} \subseteq Tree \cup {NoTree}
        BY <1>2, <2>1 DEF LandWork, Push, TypeOK
    <2>5. outcome' \in {"none", "nothing", "pushed", "failed"} /\ excluded' \in BOOLEAN
        BY <1>2 DEF LandWork, Push
    <2> QED
        BY <1>2, <2>3, <2>4, <2>5, NoTreeAssumption DEF LandWork, TypeOK, history
<1>3. CASE LandCommitted
    BY <1>3 DEF LandCommitted, Push, TypeOK, history
<1>4. CASE Release
    BY <1>4 DEF Release, TypeOK, refs, history
<1>5. ASSUME NEW p \in Paths, NEW v \in Nat,
             pc = "working", disk' = [disk EXCEPT ![mode][p] = v],
             touched' = [touched EXCEPT ![p] = run], wrote' \subseteq Paths,
             UNCHANGED << pc, run, mode, refs, before, excluded, outcome, foreigns, strays >>
      PROVE  LandingInv'
    <2>1. disk' = [disk EXCEPT ![mode] = [disk[mode] EXCEPT ![p] = v]]
        BY <1>5
    <2>2. [disk[mode] EXCEPT ![p] = v] \in Tree
        BY <1>5 DEF TypeOK, Tree
    <2>3. disk' \in [{"worktree", "shared"} -> Tree \cup {NoTree}] /\ disk'["shared"] # NoTree
          /\ disk'[mode] # NoTree
        BY <2>1, <2>2, NoTreeAssumption DEF TypeOK
    <2>4. touched' \in [Paths -> Nat]
        BY <1>5 DEF TypeOK
    <2> QED
        BY <1>5, <2>3, <2>4 DEF TypeOK, refs
<1>6. ASSUME NEW p \in Paths, AgentWrites(p) PROVE LandingInv'
    <2>1. By(run) \in Nat /\ wrote \cup {p} \subseteq Paths
        BY DEF By, TypeOK
    <2> QED
        BY <1>5, <1>6, <2>1 DEF AgentWrites
<1>7. ASSUME NEW p \in Paths, AgentDeletes(p) PROVE LandingInv'
    BY <1>5, <1>7 DEF AgentDeletes, Absent, TypeOK
<1>8. CASE AgentCommit
    <2>1. PICK staged : local' = [p \in Paths |-> IF p \in staged THEN Cur[p] ELSE local[p]]
        BY <1>8 DEF AgentCommit
    <2>2. Cur \in Tree /\ local \in Tree
        BY <1>8, LandingMakesTrees DEF AgentCommit, TypeOK
    <2>3. local' \in Tree
        BY <2>1, <2>2 DEF Tree
    <2> QED
        BY <1>8, <2>3, NoTreeAssumption DEF AgentCommit, TypeOK, history
<1>9. CASE ForeignPush
    <2>1. remote' \in Tree \cup {NoTree}
        BY <1>9 DEF ForeignPush, TypeOK, Tree, Foreign
    <2> QED
        BY <1>9, <2>1 DEF ForeignPush, TypeOK, history
<1>10. ASSUME NEW p \in Paths, StrayEdit(p) PROVE LandingInv'
    <2>1. disk' = [disk EXCEPT !["shared"] = [disk["shared"] EXCEPT ![p] = Stray]]
        BY <1>10 DEF StrayEdit
    <2>2. [disk["shared"] EXCEPT ![p] = Stray] \in Tree
        BY DEF TypeOK, Tree, Stray
    <2> QED
        BY <1>10, <2>1, <2>2, NoTreeAssumption DEF StrayEdit, TypeOK, refs, history
<1>11. CASE UNCHANGED vars
    BY <1>11 DEF vars, TypeOK, refs, history
<1> QED
    BY <1>1, <1>2, <1>3, <1>4, <1>6, <1>7, <1>8, <1>9, <1>10, <1>11 DEF Next

\* Every checkout a run works in is a tree, and so is its branch: for every set of files.
THEOREM LandingTypes == Spec => []TypeOK
<1>1. LandingInv => TypeOK
    BY DEF LandingInv
<1> QED
    BY <1>1, LandingInit, LandingStep, PTL DEF Spec

\* A push is the landing's, it is made with the lease, and it is of the commit Land made
\* or, when the tree was clean, of the agent's commits as they are.
LEMMA PushIsLeased ==
    ASSUME LandingInv, [Next]_vars, OurPush
    PROVE  /\ pc = "working" /\ remote = tracking
           /\ \/ Work # {} /\ remote' = Candidate
              \/ Work = {} /\ remote' = local /\ local # NoTree
<1>1. outcome' # outcome /\ pc = "working"
    BY DEF OurPush, LandingInv, RunsBeginAnew
<1>2. CASE LandWork
    BY <1>1, <1>2 DEF OurPush, LandWork, Push
<1>3. CASE LandCommitted
    BY <1>1, <1>3 DEF OurPush, LandCommitted, Push, Committed
<1> QED
    BY <1>1, <1>2, <1>3
       DEF Next, vars, Prepare, Release, AgentWrites, AgentDeletes, StrayEdit, AgentCommit, ForeignPush

-----------------------------------------------------------------------------
(* Other people's commits.                                                 *)

\* Nothing a landing makes has somebody else's version of a file.
LEMMA LandingMakesNoForeign ==
    ASSUME LandingInv, NoForeign, pc # "idle"
    PROVE  \A p \in Paths : /\ Cur[p] # Foreign /\ Head[p] # Foreign
                            /\ Restore(Cur)[p] # Foreign /\ Candidate[p] # Foreign
                            /\ \A commit : Returned(commit)[p] # Foreign
<1> SUFFICES ASSUME NEW p \in Paths
             PROVE  /\ Cur[p] # Foreign /\ Head[p] # Foreign
                    /\ Restore(Cur)[p] # Foreign /\ Candidate[p] # Foreign
                    /\ \A commit : Returned(commit)[p] # Foreign
    OBVIOUS
<1>1. BaseTree[p] # Foreign
    BY BaseIsTree DEF Absent, Original, Foreign
<1>2. Cur[p] # Foreign /\ Head[p] # Foreign
    BY <1>1 DEF LandingInv, TypeOK, NoForeign, Cur, Head
<1>3. p \in Restored => Tip[p] # Foreign
    BY MineComesFromATree DEF LandingInv, NoForeign, Restored, Mine
<1>4. Restore(Cur)[p] # Foreign /\ Candidate[p] # Foreign
    BY <1>2, <1>3, CandidateOf DEF Restore
<1> QED
    BY <1>1, <1>2, <1>4 DEF Returned

\* One case per action that changes a checkout or a branch of this clone.
LEMMA NoForeignStep == LandingInv /\ NoForeign /\ [Next]_vars => NoForeign'
<1> SUFFICES ASSUME LandingInv, NoForeign, [Next]_vars PROVE NoForeign'
    OBVIOUS
<1> USE DEF LandingInv
<1>0. \A p \in Paths : BaseTree[p] # Foreign
    BY BaseIsTree DEF Absent, Original, Foreign
<1>1. CASE Prepare
    BY <1>0, <1>1 DEF Prepare, NoForeign, TypeOK
<1>2. CASE LandWork
    <2>1. \A p \in Paths : local'[p] # Foreign /\ (tracking' # NoTree => tracking'[p] # Foreign)
        BY <1>2, LandingMakesNoForeign DEF LandWork, Push, NoForeign
    <2>2. \A m \in {"worktree", "shared"} : disk'[m] = disk[m] \/ \A p \in Paths : disk'[m][p] # Foreign
        BY <1>2, LandingMakesNoForeign DEF LandWork, TypeOK
    <2> QED
        BY <2>1, <2>2 DEF NoForeign
<1>3. CASE LandCommitted
    BY <1>3 DEF LandCommitted, Push, NoForeign, Committed
<1>4. CASE Release
    BY <1>4 DEF Release, TypeOK, refs, NoForeign
<1>5. ASSUME NEW q \in Paths, AgentWrites(q) \/ AgentDeletes(q) \/ StrayEdit(q)
      PROVE  NoForeign'
    <2>1. By(run) # Foreign /\ Absent # Foreign /\ Stray # Foreign
        BY DEF TypeOK, By, Absent, Foreign, Stray
    <2>2. PICK m \in {"worktree", "shared"}, v \in {By(run), Absent, Stray} : v # Foreign /\ disk' = [disk EXCEPT ![m][q] = v] /\ disk[m] \in Tree
        BY <1>5, <2>1 DEF AgentWrites, AgentDeletes, StrayEdit, TypeOK
    <2>3. disk'[m] = [disk[m] EXCEPT ![q] = v] /\ \A n \in {"worktree", "shared"} \ {m} : disk'[n] = disk[n]
        BY <2>2 DEF TypeOK
    <2>4. \A p \in Paths : disk'[m][p] = IF p = q THEN v ELSE disk[m][p]
        BY <2>2, <2>3 DEF Tree
    <2>5. \A p \in Paths : disk'[m][p] # Foreign
        BY <2>2, <2>4, NoTreeAssumption DEF NoForeign
    <2> QED
        BY <1>5, <2>3, <2>5 DEF AgentWrites, AgentDeletes, StrayEdit, NoForeign, refs
<1>6. CASE AgentCommit
    <2>1. \A p \in Paths : local'[p] \in {Cur[p], local[p]}
        BY <1>6 DEF AgentCommit
    <2>2. local # NoTree
        BY <1>6 DEF AgentCommit, TypeOK
    <2> QED
        BY <1>6, <2>1, <2>2, LandingMakesNoForeign DEF AgentCommit, NoForeign
<1>7. CASE ForeignPush \/ UNCHANGED vars
    BY <1>7 DEF ForeignPush, vars, refs, NoForeign
<1> QED
    BY <1>1, <1>2, <1>3, <1>4, <1>5, <1>6, <1>7 DEF Next

\* Somebody else's commit on the bead's branch stops a landing's forced push rather than
\* being overwritten (landing.go, push with --force-with-lease), whatever was deleted,
\* pushed or dispatched before: the lease is on a commit that does not have it.
THEOREM LeaseProtects == Spec => ForeignCommitSurvives
<1>1. Init => LandingInv /\ NoForeign
    <2>1. Init => NoForeign
        BY BaseIsTree DEF Init, NoForeign, Absent, Original, Foreign
    <2> QED
        BY <2>1, LandingInit
<1>2. LandingInv /\ NoForeign /\ [Next]_vars => (LandingInv /\ NoForeign)'
    BY LandingStep, NoForeignStep
<1>3. LandingInv /\ NoForeign /\ [Next]_vars =>
        [OurPush /\ remote # NoTree => \A p \in Paths : remote[p] = Foreign => remote'[p] = Foreign]_vars
    BY PushIsLeased DEF NoForeign
<1> QED
    BY <1>1, <1>2, <1>3, PTL DEF Spec, ForeignCommitSurvives

-----------------------------------------------------------------------------
(* The bead's work rather than the tree's.                                 *)

\* A landing leaves a path that no run touched as the base has it: in a worktree it is not
\* dirty, in the shared checkout it was dirty before, and the bead has not delivered it.
LEMMA LandingLeavesUntouched ==
    ASSUME LandingInv, UntouchedIsTheBases, pc = "working", NEW p \in Paths, touched[p] = 0
    PROVE  /\ Head[p] = BaseTree[p] /\ Candidate[p] = BaseTree[p]
           /\ Restore(Cur)[p] = Cur[p]
           /\ mode = "worktree" => Cur[p] = BaseTree[p]
<1>1. Head[p] = BaseTree[p] /\ (mode = "worktree" => Cur[p] = BaseTree[p])
    BY DEF LandingInv, TypeOK, UntouchedIsTheBases, Head, Cur
<1>2. p \notin Mine
    BY DEF UntouchedIsTheBases, Mine, Tip
<1>3. p \notin Work
    <2>1. CASE mode = "worktree"
        BY <1>1, <1>2, <2>1 DEF Work, New, Reclaimed, Status
    <2>2. CASE mode = "shared"
        <3>1. Cur = disk["shared"] /\ Head = BaseTree
            BY <2>2 DEF Cur, Head
        <3>2. p \in Status(Cur, Head) => p \in before
            BY <2>2, <3>1 DEF UntouchedIsTheBases
        <3> QED
            BY <1>2, <3>2 DEF Work, New, Reclaimed
    <2> QED
        BY <2>1, <2>2 DEF LandingInv, TypeOK
<1> QED
    BY <1>1, <1>2, <1>3, CandidateOf, RestoreKeepsFiles DEF Restored

\* One case per action that touches a path, a checkout or a branch of this clone.
LEMMA UntouchedStep == LandingInv /\ UntouchedIsTheBases /\ [Next]_vars => UntouchedIsTheBases'
<1> SUFFICES ASSUME LandingInv, UntouchedIsTheBases, [Next]_vars, NEW p \in Paths, touched'[p] = 0
             PROVE  /\ local' # NoTree => local'[p] = BaseTree[p]
                    /\ tracking' # NoTree => tracking'[p] = BaseTree[p]
                    /\ disk'["worktree"] # NoTree => disk'["worktree"][p] = BaseTree[p]
                    /\ pc' = "working" /\ mode' = "shared" /\ p \in Status(disk["shared"], BaseTree)'
                          => p \in before'
    BY DEF UntouchedIsTheBases
<1> USE DEF LandingInv
<1>1. CASE Prepare
    <2>1. touched[p] = 0 /\ excluded' = excluded
        BY <1>1 DEF Prepare
    <2>2. mode' = "shared" => before' = Status(disk["shared"], BaseTree) /\ disk'["shared"] = disk["shared"]
        BY <1>1 DEF Prepare, TreeBefore, TypeOK
    <2>3. mode' = "shared" => before' = Status(disk["shared"], BaseTree)'
        BY <2>1, <2>2 DEF Status, Untracked
    <2> QED
        BY <1>1, <2>1, <2>3 DEF Prepare, UntouchedIsTheBases, TypeOK
<1>2. CASE LandWork
    <2>1. touched[p] = 0 /\ pc = "working" /\ pc' = "landed"
        BY <1>2 DEF LandWork, history
    <2>2. local'[p] = BaseTree[p] /\ (tracking' # NoTree => tracking'[p] = BaseTree[p])
        BY <1>2, <2>1, LandingLeavesUntouched DEF LandWork, Push, UntouchedIsTheBases
    <2>3. Returned(Candidate)[p] \in {BaseTree[p], Cur[p]}
        BY <2>1, LandingLeavesUntouched DEF Returned
    <2>4. CASE mode = "worktree"
        BY <1>2, <2>1, <2>2, <2>3, <2>4, LandingLeavesUntouched DEF LandWork, TypeOK
    <2>5. CASE mode = "shared"
        BY <1>2, <2>1, <2>2, <2>5 DEF LandWork, TypeOK, UntouchedIsTheBases
    <2> QED
        BY <2>4, <2>5 DEF TypeOK
<1>3. CASE LandCommitted
    BY <1>3 DEF LandCommitted, Push, UntouchedIsTheBases, Committed, history
<1>4. CASE Release
    BY <1>4 DEF Release, TypeOK, refs, history, UntouchedIsTheBases
<1>5. ASSUME NEW q \in Paths, AgentWrites(q) \/ AgentDeletes(q)
      PROVE  /\ p # q /\ touched[p] = 0
             /\ \A m \in {"worktree", "shared"} : disk'[m] # NoTree => disk[m] # NoTree /\ disk'[m][p] = disk[m][p]
             /\ UNCHANGED << pc, mode, refs, before, excluded >>
    <2>1. p # q /\ touched[p] = 0
        BY <1>5 DEF AgentWrites, AgentDeletes, TypeOK, RunsBeginAnew
    <2>2. PICK v : disk' = [disk EXCEPT ![mode][q] = v]
        BY <1>5 DEF AgentWrites, AgentDeletes
    <2>3. disk[mode] \in Tree /\ disk[mode] # NoTree /\ disk'[mode] = [disk[mode] EXCEPT ![q] = v]
          /\ \A m \in {"worktree", "shared"} \ {mode} : disk'[m] = disk[m]
        BY <1>5, <2>2 DEF AgentWrites, AgentDeletes, TypeOK
    <2>4. disk'[mode][p] = disk[mode][p]
        BY <2>1, <2>3 DEF Tree
    <2> QED
        BY <1>5, <2>1, <2>3, <2>4 DEF AgentWrites, AgentDeletes
<1>6. ASSUME NEW q \in Paths, AgentWrites(q) \/ AgentDeletes(q)
      PROVE  /\ UNCHANGED refs /\ (disk'["worktree"] # NoTree => disk'["worktree"][p] = BaseTree[p])
             /\ pc' = "working" /\ mode' = "shared" /\ p \in Status(disk["shared"], BaseTree)' => p \in before'
    <2>1. disk'["shared"][p] = disk["shared"][p]
        <3>1. disk'["shared"] # NoTree
            BY LandingStep DEF TypeOK
        <3> QED
            BY <1>5, <1>6, <3>1
    <2>2. p \in Status(disk["shared"], BaseTree)' => p \in Status(disk["shared"], BaseTree)
        BY <1>5, <1>6, <2>1 DEF Status, Untracked
    <2> QED
        BY <1>5, <1>6, <2>2 DEF UntouchedIsTheBases
<1>7. ASSUME NEW q \in Paths, StrayEdit(q)
      PROVE  /\ UNCHANGED refs /\ touched[p] = 0 /\ pc' # "working" /\ disk'["worktree"] = disk["worktree"]
    BY <1>7 DEF StrayEdit, history, TypeOK
<1>8. CASE AgentCommit
    <2>1. touched[p] = 0 /\ pc = "working" /\ mode = "worktree" /\ local # NoTree
        BY <1>8 DEF AgentCommit, history, TypeOK
    <2>2. local'[p] \in {Cur[p], local[p]}
        BY <1>8 DEF AgentCommit
    <2>3. local'[p] = BaseTree[p]
        BY <2>1, <2>2, LandingLeavesUntouched DEF UntouchedIsTheBases
    <2> QED
        BY <1>8, <2>1, <2>3 DEF AgentCommit, UntouchedIsTheBases
<1>9. CASE ForeignPush \/ UNCHANGED vars
    BY <1>9 DEF ForeignPush, vars, refs, history, UntouchedIsTheBases, Status, Untracked
<1> QED
    BY <1>1, <1>2, <1>3, <1>4, <1>5, <1>6, <1>7, <1>8, <1>9 DEF Next, UntouchedIsTheBases, refs

\* A landing is the bead's work rather than the tree's (landing.go, Since and reclaim): a
\* path that no run of the bead ever touched is as the base has it in whatever is pushed,
\* whatever people leave in the shared checkout and however often the bead is dispatched.
THEOREM LandsItsOwnWork == Spec => OnlyTouchedPathsLand
<1>1. Init => LandingInv /\ UntouchedIsTheBases
    <2>1. Init => UntouchedIsTheBases
        BY DEF Init, UntouchedIsTheBases
    <2> QED
        BY <2>1, LandingInit
<1>2. LandingInv /\ UntouchedIsTheBases /\ [Next]_vars => (LandingInv /\ UntouchedIsTheBases)'
    BY LandingStep, UntouchedStep
<1>3. LandingInv /\ UntouchedIsTheBases /\ [Next]_vars =>
        [OurPush => \A p \in Paths : touched[p] = 0 => remote'[p] = BaseTree[p]]_vars
    BY PushIsLeased, LandingLeavesUntouched DEF UntouchedIsTheBases
<1> QED
    BY <1>1, <1>2, <1>3, PTL DEF Spec, OnlyTouchedPathsLand

-----------------------------------------------------------------------------
(* A re-dispatch is not a deletion.                                        *)

\* A file the bead delivered that the base has not is in what Land commits: from the
\* checkout if it is there, and from the delivery if it is not.
LEMMA DeliveredFilesAreCommitted ==
    ASSUME LandingInv, pc = "working", Head = BaseTree, tracking # NoTree,
           NEW p \in Paths \ (InBase \cup Junk), tracking[p] # Absent
    PROVE  Candidate[p] # Absent
<1>1. Tip = tracking /\ BaseTree[p] = Absent
    BY DEF Tip, BaseTree
<1>2. p \in Mine
    BY <1>1 DEF Mine
<1>3. CASE Cur[p] = Absent
    BY <1>1, <1>2, <1>3, CandidateOf DEF Restored
<1>4. CASE Cur[p] # Absent
    <2>1. p \in Status(Cur, Head) /\ p \notin Restored
        BY <1>1, <1>4 DEF Status, Junk, Restored
    <2>2. p \in Work
        BY <1>2, <2>1 DEF Work, New, Reclaimed
    <2> QED
        BY <1>4, <2>1, <2>2, CandidateOf
<1> QED
    BY <1>3, <1>4

\* The branch is reset on every dispatch and pushed by force, and yet a file the bead
\* delivered before is there after it (landing.go, restore), for all files and dispatches,
\* as long as the agent leaves committing to Land.
THEOREM RedispatchKeepsNewFiles == Spec => NewFilesSurviveRedispatch
<1>1. LandingInv /\ [Next]_vars =>
        [OwnPush /\ remote # NoTree =>
            \A p \in Paths \ (InBase \cup Junk) : remote[p] # Absent => remote'[p] # Absent]_vars
    BY PushIsLeased, DeliveredFilesAreCommitted DEF OwnPush
<1> QED
    BY <1>1, LandingInit, LandingStep, PTL DEF Spec, NewFilesSurviveRedispatch

-----------------------------------------------------------------------------
(* What a run wrote.                                                       *)

\* A path the run wrote is committed as it wrote it, unless it is junk or its branch has
\* it so already.
LEMMA WrittenIsCommitted ==
    ASSUME LandingInv, WrittenIsKept, pc = "working", NEW p \in wrote \ Junk
    PROVE  /\ Restore(Cur)[p] = By(run)
           /\ mode = "worktree" => Candidate[p] = By(run)
           /\ mode = "worktree" /\ Work = {} => local[p] = By(run)
           /\ mode = "shared" /\ Candidate[p] # BaseTree[p] => Candidate[p] = By(run)
<1>1. p \in Paths /\ Cur[p] = By(run) /\ p \notin Restored
    BY DEF LandingInv, TypeOK, WrittenIsKept, Restored, By, Absent
<1>2. Candidate[p] \in {Cur[p], Head[p]} /\ (p \in Work => Candidate[p] = Cur[p])
    BY <1>1, CandidateOf
<1>3. mode = "worktree" /\ p \notin Work => Head[p] = Cur[p]
    <2> SUFFICES ASSUME mode = "worktree", Head[p] # Cur[p] PROVE p \in Work
        OBVIOUS
    <2>1. p \in Status(Cur, Head) /\ before = {}
        BY <1>1 DEF Status, Junk, WrittenIsKept
    <2> QED
        BY <2>1 DEF Work, New
<1> QED
    BY <1>1, <1>2, <1>3 DEF Restore, Head, LandingInv, TypeOK

\* One case per action that takes a run on, or changes what it wrote or where it is.
LEMMA WrittenStep == LandingInv /\ WrittenIsKept /\ [Next]_vars => WrittenIsKept'
<1> SUFFICES ASSUME LandingInv, WrittenIsKept, [Next]_vars PROVE WrittenIsKept'
    OBVIOUS
<1> USE DEF LandingInv
<1>1. CASE Prepare
    <2>1. TreeBefore(BaseTree) = {}
        BY DEF TreeBefore, Status
    <2> QED
        BY <1>1, <2>1 DEF Prepare, WrittenIsKept
<1>2. CASE LandWork
    <2>1. /\ pc = "working" /\ pc' = "landed" /\ UNCHANGED << run, mode, wrote >>
          /\ mode \in {"worktree", "shared"} /\ local' # NoTree
        BY <1>2, LandingMakesTrees, NoTreeAssumption DEF LandWork, history, TypeOK
    <2>2. ASSUME NEW p \in wrote \ Junk
          PROVE  disk'[mode][p] = By(run) \/ local'[p] = By(run)
        <3>1. p \in Paths /\ Restore(Cur)[p] = By(run)
            BY <2>1, WrittenIsCommitted DEF TypeOK
        <3>2. CASE disk' = [disk EXCEPT ![mode] = Restore(Cur)]
            BY <2>1, <3>1, <3>2 DEF TypeOK
        <3>3. CASE local' = Candidate /\ disk' = [disk EXCEPT ![mode] = Returned(Candidate)]
            <4>1. disk'[mode] = Returned(Candidate)
                BY <2>1, <3>3 DEF TypeOK
            <4>2. CASE mode = "shared" /\ Candidate[p] # BaseTree[p]
                BY <2>1, <3>3, <4>2, WrittenIsCommitted
            <4>3. CASE ~(mode = "shared" /\ Candidate[p] # BaseTree[p])
                BY <3>1, <4>1, <4>3 DEF Returned
            <4> QED
                BY <4>2, <4>3
        <3> QED
            BY <1>2, <3>2, <3>3 DEF LandWork
    <2> QED
        BY <2>1, <2>2 DEF WrittenIsKept, Junk, By
<1>3. CASE LandCommitted
    BY <1>3 DEF LandCommitted, WrittenIsKept, history, Cur, By
<1>4. CASE Release
    BY <1>4 DEF Release, WrittenIsKept
<1>5. ASSUME NEW q \in Paths, AgentWrites(q) \/ AgentDeletes(q)
      PROVE  WrittenIsKept'
    <2>1. pc = "working" /\ UNCHANGED << pc, run, mode, before >>
        BY <1>5 DEF AgentWrites, AgentDeletes
    <2>2. PICK v : disk' = [disk EXCEPT ![mode][q] = v] /\ (q \in wrote' => v = By(run))
                   /\ wrote' \subseteq wrote \cup {q}
        BY <1>5 DEF AgentWrites, AgentDeletes
    <2>3. disk[mode] \in Tree /\ disk'[mode] = [disk[mode] EXCEPT ![q] = v]
        BY <2>1, <2>2 DEF TypeOK
    <2>4. \A p \in Paths : disk'[mode][p] = IF p = q THEN v ELSE disk[mode][p]
        BY <2>3 DEF Tree
    <2>5. \A p \in wrote' : p \in Paths /\ disk'[mode][p] = By(run)
        BY <2>1, <2>2, <2>4 DEF WrittenIsKept, Cur, TypeOK
    <2> QED
        BY <2>1, <2>5 DEF WrittenIsKept, Cur, By
<1>6. ASSUME NEW q \in Paths, StrayEdit(q) PROVE WrittenIsKept'
    BY <1>6 DEF StrayEdit, WrittenIsKept
<1>7. CASE AgentCommit \/ ForeignPush \/ UNCHANGED vars
    BY <1>7 DEF AgentCommit, ForeignPush, vars, refs, history, WrittenIsKept, Cur, By, Junk
<1> QED
    BY <1>1, <1>2, <1>3, <1>4, <1>5, <1>6, <1>7 DEF Next

\* Before the first run there is nothing to keep.
LEMMA WrittenInit == Init => LandingInv /\ WrittenIsKept
<1>1. Init => WrittenIsKept
    BY DEF Init, WrittenIsKept
<1> QED
    BY <1>1, LandingInit

\* A push from a worktree delivers everything the run wrote and did not delete, whether
\* the agent committed it or left it in the tree (landing.go, Land and landCommitted).
THEOREM PushDeliversTheRun == Spec => EverythingWrittenIsPushed
<1>1. LandingInv /\ WrittenIsKept /\ [Next]_vars => (LandingInv /\ WrittenIsKept)'
    BY LandingStep, WrittenStep
<1>2. LandingInv /\ WrittenIsKept /\ [Next]_vars =>
        [OurPush /\ mode = "worktree" => \A p \in wrote \ Junk : remote'[p] = By(run)]_vars
    BY PushIsLeased, WrittenIsCommitted
<1> QED
    BY <1>1, <1>2, WrittenInit, PTL DEF Spec, EverythingWrittenIsPushed

\* What a run has just written, and what it wrote and is landed, is somewhere.
LEMMA KeptIsSomewhere ==
    ASSUME LandingInv', WrittenIsKept', pc' # "idle", NEW p \in wrote' \ Junk
    PROVE  By(run') \in Versions(p)'
<1>1. disk'[mode'] # NoTree /\ disk'[mode'] \in {disk'["worktree"], disk'["shared"]}
    BY DEF LandingInv, TypeOK
<1>2. disk'[mode'][p] = By(run') \/ (local' # NoTree /\ local'[p] = By(run'))
    BY DEF LandingInv, TypeOK, WrittenIsKept, Cur, By, Junk
<1> QED
    BY <1>1, <1>2 DEF Versions

\* A worktree is released only when git status has nothing to say, and then the local
\* branch has what the run wrote.
LEMMA ReleaseDestroysNothing ==
    ASSUME LandingInv, WrittenIsKept, Release, NEW p \in wrote \ Junk
    PROVE  By(run) \in Versions(p)'
<1>1. pc = "landed" /\ UNCHANGED refs /\ p \in Paths
    BY DEF Release, LandingInv, TypeOK
<1>2. CASE local # NoTree /\ local[p] = By(run)
    BY <1>1, <1>2 DEF Versions, refs
<1>3. CASE disk[mode][p] = By(run) /\ ~(local # NoTree /\ local[p] = By(run))
    <2>1. mode = "worktree" => p \in Status(Cur, Head)
        BY <1>1, <1>3 DEF Status, Cur, Head, Junk, LandingInv, TypeOK
    <2>2. disk' = disk
        BY <2>1 DEF Release
    <2> QED
        BY <1>1, <1>3, <2>2 DEF Versions, LandingInv, TypeOK
<1> QED
    BY <1>1, <1>2, <1>3 DEF WrittenIsKept

\* Until the next run of the bead begins, no failed commit, refused push or released
\* worktree destroys the last copy of what a run wrote (landing.go; main.go, releaseWorkdir).
THEOREM WorkIsNeverLost == Spec => RunWorkIsSomewhere
<1>1. LandingInv /\ WrittenIsKept /\ [Next]_vars => (LandingInv /\ WrittenIsKept)'
    BY LandingStep, WrittenStep
<1>2. LandingInv /\ WrittenIsKept /\ [Next]_vars =>
        [pc # "idle" => \A p \in wrote' \ Junk : By(run) \in Versions(p)']_vars
    <2> SUFFICES ASSUME LandingInv, WrittenIsKept, Next, pc # "idle", NEW p \in wrote' \ Junk
                 PROVE  By(run) \in Versions(p)'
        OBVIOUS
    <2>1. run' = run /\ (pc' = "idle" => Release)
        BY DEF Next, Prepare, LandWork, LandCommitted, Release, AgentWrites, AgentDeletes, StrayEdit,
               AgentCommit, ForeignPush
    <2>2. CASE pc' # "idle"
        BY <1>1, <2>1, <2>2, KeptIsSomewhere
    <2>3. CASE Release
        BY <2>3, ReleaseDestroysNothing DEF Release, history
    <2> QED
        BY <2>1, <2>2, <2>3
<1> QED
    BY <1>1, <1>2, WrittenInit, PTL DEF Spec, RunWorkIsSomewhere
=============================================================================
