-------------------------- MODULE DispatcherProofs --------------------------
(***************************************************************************)
(* The daemon's safety, for every set of jobs, every -max-concurrent and   *)
(* every number of stops, kills and lost calls.  The inductive invariant   *)
(* is NodeInv; each of its parts needs the others, so they are proved      *)
(* together, one lemma for what a step does to each part.                  *)
(***************************************************************************)
EXTENDS Dispatcher, WorkQueueProofs, FiniteSetTheorems

\* What the file loop works on is a job; InHand is then a set of jobs.
FilingIsAJob == filePc \in {"filing", "reporting"} => filing \in Jobs

\* A file loop that died with its process has nothing in hand when the process
\* is started again.
DownIsIdle == alive = "down" => filePc = "gone"

\* The runs are finitely many, so that they can be counted: the set of jobs
\* itself need not be finite.
NodeInv ==
    /\ TypeOK
    /\ QueueInv
    /\ FilingIsAJob /\ DownIsIdle
    /\ RunningRowsAreAccountedFor
    /\ IsFiniteSet(LiveRuns)
    /\ SlotsMatchRuns

\* A run in progress or a claim being made holds a token.
LEMMA TokenHeld ==
    ASSUME NodeInv, LiveRuns # {} \/ passPc = "asking"
    PROVE  slots \in Nat \ {0}
<1>1. Cardinality(LiveRuns) \in Nat
    BY FS_CardinalityType DEF NodeInv
<1>2. LiveRuns # {} => Cardinality(LiveRuns) # 0
    BY FS_EmptySet DEF NodeInv
<1> QED
    BY <1>1, <1>2 DEF NodeInv, SlotsMatchRuns

-----------------------------------------------------------------------------

\* Every action of the node is one of the queue or leaves the queue alone.
LEMMA StepIsQueueStep == NodeInv /\ [Next]_vars => [QNext]_queueVars
<1> SUFFICES ASSUME NodeInv, [Next]_vars PROVE [QNext]_queueVars
    OBVIOUS
<1>0. /\ runOk \in [Jobs -> BOOLEAN] /\ fileOk \in BOOLEAN
      /\ filePc = "reporting" => filing \in Jobs
      /\ Pass \in Pollers /\ FileLoop \in Pollers
    BY PollerAssumption DEF NodeInv, TypeOK, NodeTypeOK, RunTypeOK, FilingIsAJob
<1>1. ASSUME NEW j \in Jobs, Dispatch(j) PROVE QNext
    BY <1>1 DEF Dispatch, QNext
<1>2. ASSUME NEW j \in Jobs, Run(j) PROVE QNext \/ UNCHANGED queueVars
  <2>1. CASE RunBegins(j) \/ AgentEnds(j) \/ CheckEnds(j)
      BY <2>1 DEF RunBegins, AgentEnds, CheckEnds
  <2>2. CASE Land(j) \/ Propose(j)
      BY <2>2 DEF Land, Propose
  <2>3. CASE Report(j)
      BY <1>0, <2>3 DEF Report, QNext
  <2> QED
      BY <1>2, <2>1, <2>2, <2>3 DEF Run
<1>3. ASSUME PassAsk \/ SelectForPass \/ PassLaunch \/ PassFindsNothing \/ PassFails
      PROVE  QNext \/ UNCHANGED queueVars
    BY <1>0, <1>3 DEF PassAsk, SelectForPass, PassLaunch, PassFindsNothing, PassFails, QNext
<1>4. ASSUME FileStep PROVE QNext \/ UNCHANGED queueVars
  <2>1. CASE FileAsk \/ SelectForFiles \/ FileTake \/ FileFindsNothing \/ FileFails
      BY <1>0, <2>1 DEF FileAsk, SelectForFiles, FileTake, FileFindsNothing, FileFails, QNext
  <2>2. CASE FileEnds \/ FileReport \/ FileLoopStops
      BY <1>0, <2>2 DEF FileEnds, FileReport, FileLoopStops, QNext
  <2> QED
      BY <1>4, <2>1, <2>2 DEF FileStep
<1>5. ASSUME NEW p \in Pollers, ClaimOutlivesCaller(p) PROVE QNext
    BY <1>5 DEF ClaimOutlivesCaller, QNext
<1>6. ASSUME Sigterm \/ Exit \/ Crash \/ Restart PROVE UNCHANGED queueVars
    BY <1>6 DEF Sigterm, Exit, Crash, Restart
<1>7. CASE UNCHANGED vars
    BY <1>7 DEF vars
<1> QED
    BY <1>1, <1>2, <1>3, <1>4, <1>5, <1>6, <1>7 DEF Next

-----------------------------------------------------------------------------

\* Every action keeps the type of what the run goroutines own.
LEMMA RunTypeStep == NodeInv /\ [Next]_vars => RunTypeOK'
<1> SUFFICES ASSUME NodeInv, [Next]_vars PROVE RunTypeOK'
    OBVIOUS
<1>0. RunTypeOK
    BY DEF NodeInv, TypeOK
<1>1. ASSUME UNCHANGED runVars PROVE RunTypeOK'
    BY <1>0, <1>1 DEF RunTypeOK, runVars
<1>2. ASSUME NEW j \in Jobs, RunBegins(j) PROVE RunTypeOK'
  <2>1. stage' \in [Jobs -> Stages]
      BY <1>0, <1>2 DEF RunBegins, RunTypeOK, Stages
  <2>2. checked' \in [Jobs -> Verdicts]
      BY <1>0, <1>2 DEF RunBegins, RunTypeOK, Verdicts
  <2>3. agents' \in [Jobs -> Nat]
    <3>1. agents' = agents \/ agents' = [agents EXCEPT ![j] = @ + 1]
        BY <1>2 DEF RunBegins
    <3>2. agents \in [Jobs -> Nat]
        BY <1>0 DEF RunTypeOK
    <3>3. agents[j] + 1 \in Nat
        BY <3>2
    <3> QED
        BY <3>1, <3>2, <3>3
  <2> QED
      BY <1>0, <1>2, <2>1, <2>2, <2>3 DEF RunBegins, RunTypeOK
<1>3. ASSUME NEW j \in Jobs, AgentEnds(j) PROVE RunTypeOK'
    BY <1>0, <1>3 DEF AgentEnds, RunTypeOK, Stages, Verdicts
<1>4. ASSUME NEW j \in Jobs, CheckEnds(j) PROVE RunTypeOK'
  <2>1. checked' \in [Jobs -> Verdicts]
      BY <1>0, <1>4 DEF CheckEnds, RunTypeOK, Verdicts
  <2>2. stage' \in [Jobs -> Stages]
    <3>1. \E s \in {"rerunning", "rechecking", "landing"} : stage' = [stage EXCEPT ![j] = s]
        BY <1>4 DEF CheckEnds
    <3> QED
        BY <1>0, <3>1 DEF RunTypeOK, Stages
  <2>3. runOk' \in [Jobs -> BOOLEAN]
      BY <1>0, <1>4 DEF CheckEnds, RunTypeOK
  <2>4. agents' \in [Jobs -> Nat]
    <3>1. agents' = agents \/ agents' = [agents EXCEPT ![j] = @ + 1]
        BY <1>4 DEF CheckEnds
    <3>2. agents \in [Jobs -> Nat]
        BY <1>0 DEF RunTypeOK
    <3>3. agents[j] + 1 \in Nat
        BY <3>2
    <3> QED
        BY <3>1, <3>2, <3>3
  <2> QED
      BY <1>0, <1>4, <2>1, <2>2, <2>3, <2>4 DEF CheckEnds, RunTypeOK
<1>5. ASSUME NEW j \in Jobs, Land(j) PROVE RunTypeOK'
    BY <1>0, <1>5 DEF Land, RunTypeOK, Stages
<1>6. ASSUME NEW j \in Jobs, Propose(j) PROVE RunTypeOK'
    BY <1>0, <1>6 DEF Propose, RunTypeOK, Stages, Verdicts
<1>7. ASSUME NEW j \in Jobs, Report(j) PROVE RunTypeOK'
    BY <1>0, <1>7 DEF Report, RunTypeOK, Stages
<1>8. ASSUME PassLaunch PROVE RunTypeOK'
    BY <1>0, <1>8 DEF PassLaunch, RunTypeOK, Stages
<1>9. ASSUME Exit \/ Crash PROVE RunTypeOK'
    BY <1>0, <1>9 DEF Exit, Crash, Gone, RunTypeOK, Stages
<1>10. ASSUME \E j \in Jobs : Dispatch(j) PROVE UNCHANGED runVars
    BY <1>10 DEF Dispatch
<1>11. ASSUME PassAsk \/ SelectForPass \/ PassFindsNothing \/ PassFails PROVE UNCHANGED runVars
    BY <1>11 DEF PassAsk, SelectForPass, PassFindsNothing, PassFails, nodeVars, runVars
<1>12. ASSUME FileStep PROVE UNCHANGED runVars
    BY <1>12 DEF FileStep, FileAsk, SelectForFiles, FileTake, FileFindsNothing, FileFails,
                 FileEnds, FileReport, FileLoopStops
<1>13. ASSUME \E p \in Pollers : ClaimOutlivesCaller(p) PROVE UNCHANGED runVars
    BY <1>13 DEF ClaimOutlivesCaller
<1>14. ASSUME Sigterm \/ Restart \/ UNCHANGED vars PROVE UNCHANGED runVars
    BY <1>14 DEF Sigterm, Restart, vars
<1> QED
    BY <1>1, <1>2, <1>3, <1>4, <1>5, <1>6, <1>7, <1>8, <1>9, <1>10, <1>11, <1>12, <1>13, <1>14
    DEF Next, Run

\* Every action keeps the type of what the daemon's loops own: a token is
\* given back only while one is held.
LEMMA NodeTypeStep == NodeInv /\ [Next]_vars => NodeTypeOK'
<1> SUFFICES ASSUME NodeInv, [Next]_vars PROVE NodeTypeOK'
    OBVIOUS
<1>0. /\ NodeTypeOK
      /\ txn \in [Pollers -> Jobs \cup {NoJob}]
      /\ FileLoop \in Pollers
    BY PollerAssumption DEF NodeInv, TypeOK, QTypeOK
<1>1. ASSUME UNCHANGED nodeVars PROVE NodeTypeOK'
    BY <1>0, <1>1 DEF NodeTypeOK, nodeVars
<1>2. ASSUME NEW j \in Jobs, Report(j) PROVE NodeTypeOK'
  <2>1. j \in LiveRuns
      BY <1>2 DEF Report, LiveRuns, Live, Stages
  <2>2. slots - 1 \in Nat
      BY <2>1, TokenHeld
  <2> QED
      BY <1>0, <1>2, <2>2 DEF Report, NodeTypeOK
<1>3. ASSUME PassAsk \/ PassLaunch PROVE NodeTypeOK'
    BY <1>0, <1>3 DEF PassAsk, PassLaunch, NodeTypeOK
<1>4. ASSUME PassFindsNothing \/ PassFails PROVE NodeTypeOK'
  <2>1. slots - 1 \in Nat
      BY <1>4, TokenHeld DEF PassFindsNothing, PassFails
  <2> QED
      BY <1>0, <1>4, <2>1 DEF PassFindsNothing, PassFails, NodeTypeOK
<1>5. ASSUME FileStep PROVE NodeTypeOK'
  <2>1. CASE FileAsk \/ FileFindsNothing \/ FileFails \/ FileEnds \/ FileReport \/ FileLoopStops
      BY <1>0, <2>1 DEF FileAsk, FileFindsNothing, FileFails, FileEnds, FileReport,
                        FileLoopStops, NodeTypeOK
  <2>2. CASE SelectForFiles
      BY <1>1, <2>2 DEF SelectForFiles
  <2>3. CASE FileTake
      BY <1>0, <2>3 DEF FileTake, NodeTypeOK
  <2> QED
      BY <1>5, <2>1, <2>2, <2>3 DEF FileStep
<1>6. ASSUME Sigterm \/ Restart PROVE NodeTypeOK'
    BY <1>0, <1>6 DEF Sigterm, Restart, NodeTypeOK
<1>7. ASSUME Exit \/ Crash PROVE NodeTypeOK'
  <2>1. Gone
      BY <1>7 DEF Exit, Crash
  <2> QED
      BY <2>1 DEF Gone, NodeTypeOK
<1>8. ASSUME \E j \in Jobs : Dispatch(j) \/ (Run(j) /\ ~Report(j)) PROVE UNCHANGED nodeVars
    BY <1>8 DEF Dispatch, Run, RunBegins, AgentEnds, CheckEnds, Land, Propose
<1>9. ASSUME SelectForPass \/ (\E p \in Pollers : ClaimOutlivesCaller(p)) \/ UNCHANGED vars
      PROVE  UNCHANGED nodeVars
    BY <1>9 DEF SelectForPass, ClaimOutlivesCaller, vars
<1> QED
    BY <1>1, <1>2, <1>3, <1>4, <1>5, <1>6, <1>7, <1>8, <1>9 DEF Next

\* Every action keeps the type of the history of faults.
LEMMA FaultTypeStep == NodeInv /\ [Next]_vars => FaultTypeOK'
<1> SUFFICES ASSUME NodeInv, [Next]_vars PROVE FaultTypeOK'
    OBVIOUS
<1>0. /\ FaultTypeOK
      /\ lost' = lost \/ lost' = lost + 1
      /\ stops' = stops \/ stops' = stops + 1
      /\ crashes' = crashes \/ crashes' = crashes + 1
  <2>1. FaultTypeOK
      BY DEF NodeInv, TypeOK
  <2>2. ASSUME NEW j \in Jobs, Dispatch(j) \/ Run(j)
        PROVE (lost' = lost \/ lost' = lost + 1) /\ stops' = stops /\ crashes' = crashes
    <3>1. CASE Dispatch(j) \/ RunBegins(j) \/ AgentEnds(j) \/ CheckEnds(j) \/ Land(j)
        BY <3>1 DEF Dispatch, RunBegins, AgentEnds, CheckEnds, Land, faultVars
    <3>2. CASE Propose(j) \/ Report(j)
        BY <3>2 DEF Propose, Report, CallFails
    <3> QED
        BY <2>2, <3>1, <3>2 DEF Run
  <2>3. ASSUME PassAsk \/ SelectForPass \/ PassLaunch \/ PassFindsNothing \/ PassFails
        PROVE (lost' = lost \/ lost' = lost + 1) /\ stops' = stops /\ crashes' = crashes
      BY <2>3 DEF PassAsk, SelectForPass, PassLaunch, PassFindsNothing, PassFails, CallFails, faultVars
  <2>4. ASSUME FileStep
        PROVE (lost' = lost \/ lost' = lost + 1) /\ stops' = stops /\ crashes' = crashes
      BY <2>4 DEF FileStep, FileAsk, SelectForFiles, FileTake, FileFindsNothing, FileFails, FileEnds,
                  FileReport, FileLoopStops, CallFails, faultVars
  <2>5. ASSUME NEW p \in Pollers, ClaimOutlivesCaller(p) PROVE UNCHANGED faultVars
      BY <2>5 DEF ClaimOutlivesCaller
  <2> QED
      BY <2>1, <2>2, <2>3, <2>4, <2>5 DEF Next, Sigterm, Exit, Crash, Restart, vars, faultVars
<1>1. stops' \in Nat /\ crashes' \in Nat /\ lost' \in Nat
    BY <1>0 DEF FaultTypeOK
<1>2. stranded' \in [Jobs -> Reasons]
  <2>0. stranded \in [Jobs -> Reasons]
      BY <1>0 DEF FaultTypeOK
  <2>1. ASSUME NEW j \in Jobs, Dispatch(j) \/ Run(j) PROVE stranded' \in [Jobs -> Reasons]
      BY <2>0, <2>1 DEF Dispatch, Run, RunBegins, AgentEnds, CheckEnds, Land, Propose, Report, Reasons
  <2>2. ASSUME PassAsk \/ SelectForPass \/ PassLaunch \/ PassFindsNothing \/ PassFails
        PROVE UNCHANGED stranded
      BY <2>2 DEF PassAsk, SelectForPass, PassLaunch, PassFindsNothing, PassFails
  <2>3. ASSUME FileStep PROVE stranded' \in [Jobs -> Reasons]
      BY <2>0, <2>3 DEF FileStep, FileAsk, SelectForFiles, FileTake, FileFindsNothing, FileFails,
                        FileEnds, FileReport, FileLoopStops, Reasons
  <2>4. ASSUME NEW p \in Pollers, ClaimOutlivesCaller(p) PROVE stranded' \in [Jobs -> Reasons]
      BY <2>0, <2>4 DEF ClaimOutlivesCaller, Reasons
  <2>5. ASSUME Exit \/ Crash PROVE stranded' \in [Jobs -> Reasons]
      BY <2>0, <2>5 DEF Exit, Crash, LeaveBehind, Reasons
  <2> QED
      BY <2>0, <2>1, <2>2, <2>3, <2>4, <2>5 DEF Next, Sigterm, Restart, vars
<1> QED
    BY <1>1, <1>2 DEF FaultTypeOK

-----------------------------------------------------------------------------

\* The file loop only ever takes a job in hand, and lets go of it only when it
\* has reported.
LEMMA FilingStep == NodeInv /\ [Next]_vars => FilingIsAJob'
<1> SUFFICES ASSUME NodeInv, [Next]_vars PROVE FilingIsAJob'
    OBVIOUS
<1>0. FilingIsAJob /\ FileLoop \in Pollers /\ txn \in [Pollers -> Jobs \cup {NoJob}]
    BY PollerAssumption DEF NodeInv, TypeOK, QTypeOK
<1>1. ASSUME UNCHANGED << filePc, filing >> PROVE FilingIsAJob'
    BY <1>0, <1>1 DEF FilingIsAJob
<1>2. ASSUME FileStep PROVE FilingIsAJob'
    BY <1>0, <1>2 DEF FileStep, FileAsk, SelectForFiles, FileTake, FileFindsNothing, FileFails,
                      FileEnds, FileReport, FileLoopStops, ClaimCommit, FilingIsAJob, nodeVars
<1>3. ASSUME Exit \/ Crash \/ Restart PROVE FilingIsAJob'
    BY <1>3 DEF Exit, Crash, Restart, Gone, FilingIsAJob
<1>4. ASSUME NEW j \in Jobs, Dispatch(j) \/ Run(j) PROVE UNCHANGED << filePc, filing >>
    BY <1>4 DEF Dispatch, Run, RunBegins, AgentEnds, CheckEnds, Land, Propose, Report, nodeVars
<1>5. ASSUME PassAsk \/ SelectForPass \/ PassLaunch \/ PassFindsNothing \/ PassFails
      PROVE  UNCHANGED << filePc, filing >>
    BY <1>5 DEF PassAsk, SelectForPass, PassLaunch, PassFindsNothing, PassFails, nodeVars
<1>6. ASSUME Sigterm \/ (\E p \in Pollers : ClaimOutlivesCaller(p)) \/ UNCHANGED vars
      PROVE  UNCHANGED << filePc, filing >>
    BY <1>6 DEF Sigterm, ClaimOutlivesCaller, vars, nodeVars
<1> QED
    BY <1>1, <1>2, <1>3, <1>4, <1>5, <1>6 DEF Next

-----------------------------------------------------------------------------

\* A step inside a run moves it between live stages.
LEMMA LiveStays ==
    ASSUME NodeInv, NEW j \in Jobs,
           RunBegins(j) \/ AgentEnds(j) \/ CheckEnds(j) \/ Land(j) \/ Propose(j)
    PROVE  LiveRuns' = LiveRuns /\ UNCHANGED << row, stranded, filePc, filing, slots, passPc >>
<1>0. stage \in [Jobs -> Stages]
    BY DEF NodeInv, TypeOK, RunTypeOK
<1>1. stage[j] \in Live
    BY DEF RunBegins, AgentEnds, CheckEnds, Land, Propose, Live, Stages
<1>2. \E s \in Live : stage' = [stage EXCEPT ![j] = s]
  <2>1. CASE RunBegins(j)
      BY <2>1 DEF RunBegins, Live, Stages
  <2>2. CASE AgentEnds(j)
      BY <2>2 DEF AgentEnds, Live, Stages
  <2>3. CASE CheckEnds(j)
      BY <2>3 DEF CheckEnds, Live, Stages
  <2>4. CASE Land(j) \/ Propose(j)
      BY <2>4 DEF Land, Propose, Live, Stages
  <2> QED
      BY <2>1, <2>2, <2>3, <2>4
<1>3. UNCHANGED << row, stranded, filePc, filing, slots, passPc >>
    BY DEF RunBegins, AgentEnds, CheckEnds, Land, Propose, queueVars, nodeVars
<1> QED
    BY <1>0, <1>1, <1>2, <1>3 DEF LiveRuns

\* A report ends the run it is about, and only that.
LEMMA ReportEnds ==
    ASSUME NodeInv, NEW j \in Jobs, Report(j)
    PROVE  j \in LiveRuns /\ LiveRuns' = LiveRuns \ {j}
<1>0. stage \in [Jobs -> Stages]
    BY DEF NodeInv, TypeOK, RunTypeOK
<1>1. stage[j] \in Live /\ stage' = [stage EXCEPT ![j] = "over"] /\ "over" \notin Live
    BY DEF Report, Live, Stages
<1> QED
    BY <1>0, <1>1 DEF LiveRuns

\* A launch adds a run for a row that was queued, and so was in nobody's hands.
LEMMA LaunchAdds ==
    ASSUME NodeInv, PassLaunch
    PROVE  /\ txn[Pass] \in Jobs
           /\ row[txn[Pass]] = "queued" /\ row' = [row EXCEPT ![txn[Pass]] = "running"]
           /\ txn[Pass] \notin LiveRuns /\ LiveRuns' = LiveRuns \cup {txn[Pass]}
<1>0. /\ stage \in [Jobs -> Stages] /\ Pass \in Pollers
      /\ txn \in [Pollers -> Jobs \cup {NoJob}]
    BY PollerAssumption DEF NodeInv, TypeOK, RunTypeOK, QTypeOK
<1>1. /\ txn[Pass] # NoJob /\ row' = [row EXCEPT ![txn[Pass]] = "running"]
      /\ stage' = [stage EXCEPT ![txn[Pass]] = "claimed"]
    BY DEF PassLaunch, ClaimCommit
<1>2. txn[Pass] \in Jobs /\ row[txn[Pass]] = "queued"
    BY <1>0, <1>1 DEF NodeInv, QueueInv, LocksAreExclusive
<1>3. txn[Pass] \notin LiveRuns
    BY <1>2 DEF NodeInv, RunningRowsAreAccountedFor, Held
<1>4. "claimed" \in Live
    BY DEF Live, Stages
<1> QED
    BY <1>0, <1>1, <1>2, <1>3, <1>4 DEF LiveRuns

\* What dies with the process leaves no live run.
LEMMA GoneEnds == Gone => LiveRuns' = {} /\ InHand' = {}
    BY DEF Gone, LiveRuns, Live, InHand, Stages

\* Every running row stays accounted for.
LEMMA AccountedStep == NodeInv /\ [Next]_vars => RunningRowsAreAccountedFor'
<1> SUFFICES ASSUME NodeInv, [Next]_vars PROVE RunningRowsAreAccountedFor'
    OBVIOUS
<1>0. /\ RunningRowsAreAccountedFor /\ FilingIsAJob /\ DownIsIdle
      /\ row \in [Jobs -> Statuses] /\ stranded \in [Jobs -> Reasons]
      /\ stage \in [Jobs -> Stages]
      /\ txn \in [Pollers -> Jobs \cup {NoJob}]
      /\ Pass \in Pollers /\ FileLoop \in Pollers
    BY PollerAssumption DEF NodeInv, TypeOK, QTypeOK, RunTypeOK, FaultTypeOK
<1>1. ASSUME LiveRuns' = LiveRuns, InHand' = InHand, UNCHANGED << row, stranded >>
      PROVE  RunningRowsAreAccountedFor'
    BY <1>0, <1>1 DEF RunningRowsAreAccountedFor, Held
<1>2. ASSUME NEW j \in Jobs, Dispatch(j) PROVE RunningRowsAreAccountedFor'
  <2>1. LiveRuns' = LiveRuns /\ InHand' = InHand /\ stranded' = stranded
      BY <1>2 DEF Dispatch, LiveRuns, InHand, nodeVars, runVars
  <2>2. row[j] = "absent" /\ row' = [row EXCEPT ![j] = "queued"]
      BY <1>2 DEF Dispatch, Enqueue
  <2> QED
      BY <1>0, <2>1, <2>2 DEF RunningRowsAreAccountedFor, Held
<1>3. ASSUME NEW j \in Jobs, Run(j) PROVE RunningRowsAreAccountedFor'
  <2>1. CASE Report(j)
    <3>1. j \in LiveRuns /\ LiveRuns' = LiveRuns \ {j} /\ InHand' = InHand
        BY <2>1, ReportEnds DEF Report, InHand
    <3>2. \/ \E s \in Settled : row' = [row EXCEPT ![j] = s] /\ stranded' = stranded
          \/ row' = row /\ stranded' = [stranded EXCEPT ![j] = "report lost"]
        BY <2>1 DEF Report, Finish, Settled, queueVars
    <3> QED
        BY <1>0, <3>1, <3>2 DEF RunningRowsAreAccountedFor, Held, Settled
  <2>2. CASE ~Report(j)
      BY <1>1, <1>3, <2>2, LiveStays DEF Run, InHand
  <2> QED
      BY <2>1, <2>2
<1>4. ASSUME PassLaunch PROVE RunningRowsAreAccountedFor'
  <2>1. InHand' = InHand /\ stranded' = stranded
      BY <1>4 DEF PassLaunch, InHand
  <2> QED
      BY <1>0, <1>4, <2>1, LaunchAdds DEF RunningRowsAreAccountedFor, Held
<1>5. ASSUME PassAsk \/ SelectForPass \/ PassFindsNothing \/ PassFails
      PROVE  RunningRowsAreAccountedFor'
  <2>1. UNCHANGED << stage, filePc, filing, row, stranded >>
      BY <1>5 DEF PassAsk, SelectForPass, PassFindsNothing, PassFails, ClaimSelect,
                  queueVars, nodeVars, runVars
  <2> QED
      BY <1>1, <2>1 DEF LiveRuns, InHand
<1>6. ASSUME FileTake PROVE RunningRowsAreAccountedFor'
  <2>1. txn[FileLoop] \in Jobs /\ row[txn[FileLoop]] = "queued"
      BY <1>0, <1>6 DEF FileTake, ClaimCommit, NodeInv, QueueInv, LocksAreExclusive
  <2>2. row' = [row EXCEPT ![txn[FileLoop]] = "running"] /\ stranded' = stranded
      BY <1>6 DEF FileTake, ClaimCommit
  <2>3. LiveRuns' = LiveRuns /\ InHand = {} /\ InHand' = {txn[FileLoop]}
      BY <1>6 DEF FileTake, LiveRuns, InHand, runVars
  <2> QED
      BY <1>0, <2>1, <2>2, <2>3 DEF RunningRowsAreAccountedFor, Held
<1>7. ASSUME FileReport PROVE RunningRowsAreAccountedFor'
  <2>1. filing \in Jobs /\ InHand = {filing} /\ InHand' = {} /\ LiveRuns' = LiveRuns
      BY <1>0, <1>7 DEF FileReport, FilingIsAJob, InHand, LiveRuns, runVars
  <2>2. \/ \E s \in Settled : row' = [row EXCEPT ![filing] = s] /\ stranded' = stranded
        \/ row' = row /\ stranded' = [stranded EXCEPT ![filing] = "report lost"]
      BY <1>7 DEF FileReport, Finish, Settled, queueVars
  <2> QED
      BY <1>0, <2>1, <2>2 DEF RunningRowsAreAccountedFor, Held, Settled
<1>8. ASSUME FileStep, ~FileTake, ~FileReport PROVE RunningRowsAreAccountedFor'
  <2>1. UNCHANGED << stage, row, stranded >>
      BY <1>8 DEF FileStep, FileAsk, SelectForFiles, FileFindsNothing, FileFails, FileEnds,
                  FileLoopStops, ClaimSelect, queueVars, runVars
  <2>2. InHand' = InHand
      BY <1>8 DEF FileStep, FileAsk, SelectForFiles, FileFindsNothing, FileFails, FileEnds,
                  FileLoopStops, InHand, nodeVars
  <2> QED
      BY <1>1, <2>1, <2>2 DEF LiveRuns
<1>9. ASSUME NEW p \in Pollers, ClaimOutlivesCaller(p) PROVE RunningRowsAreAccountedFor'
  <2>1. LiveRuns' = LiveRuns /\ InHand' = InHand
      BY <1>9 DEF ClaimOutlivesCaller, LiveRuns, InHand, nodeVars, runVars
  <2>2. CASE ClaimRollback(p) /\ UNCHANGED stranded
      BY <1>1, <2>1, <2>2 DEF ClaimRollback
  <2>3. CASE ClaimCommit(p) /\ stranded' = [stranded EXCEPT ![txn[p]] = "claim abandoned"]
    <3>1. txn[p] \in Jobs /\ row[txn[p]] = "queued" /\ row' = [row EXCEPT ![txn[p]] = "running"]
        BY <1>0, <2>3 DEF ClaimCommit, NodeInv, QueueInv, LocksAreExclusive
    <3> QED
        BY <1>0, <2>1, <2>3, <3>1 DEF RunningRowsAreAccountedFor, Held
  <2> QED
      BY <1>9, <2>2, <2>3 DEF ClaimOutlivesCaller
<1>10. ASSUME Exit \/ Crash PROVE RunningRowsAreAccountedFor'
  <2>1. LiveRuns' = {} /\ InHand' = {} /\ row' = row
      BY <1>10, GoneEnds DEF Exit, Crash, queueVars
  <2>2. \E why \in Reasons \ {"none"} : LeaveBehind(LiveRuns \cup InHand, why)
    <3>1. CASE Exit
        BY <3>1 DEF Exit, LeaveBehind, Reasons
    <3>2. CASE Crash
      <4>1. LeaveBehind(InHand \cup LiveRuns, "crash") /\ InHand \cup LiveRuns = LiveRuns \cup InHand
          BY <3>2 DEF Crash
      <4> QED
          BY <4>1 DEF Reasons
    <3> QED
        BY <1>10, <3>1, <3>2
  <2> QED
      BY <1>0, <2>1, <2>2 DEF RunningRowsAreAccountedFor, Held, LeaveBehind
<1>11. ASSUME Sigterm \/ Restart \/ UNCHANGED vars PROVE RunningRowsAreAccountedFor'
  <2>1. UNCHANGED << stage, row, stranded >>
      BY <1>11 DEF Sigterm, Restart, vars, queueVars, runVars
  <2>2. InHand' = InHand
      BY <1>0, <1>11 DEF Sigterm, Restart, vars, nodeVars, InHand, DownIsIdle
  <2> QED
      BY <1>1, <2>1, <2>2 DEF LiveRuns
<1> QED
    BY <1>2, <1>3, <1>4, <1>5, <1>6, <1>7, <1>8, <1>9, <1>10, <1>11 DEF Next

-----------------------------------------------------------------------------

\* Nothing starts filing in a process that is not there.
LEMMA DownStep == NodeInv /\ [Next]_vars => DownIsIdle'
<1> SUFFICES ASSUME NodeInv, [Next]_vars PROVE DownIsIdle'
    OBVIOUS
<1>0. DownIsIdle
    BY DEF NodeInv
<1>1. ASSUME UNCHANGED << alive, filePc >> PROVE DownIsIdle'
    BY <1>0, <1>1 DEF DownIsIdle
<1>2. ASSUME FileStep PROVE DownIsIdle'
    BY <1>0, <1>2 DEF FileStep, FileAsk, SelectForFiles, FileTake, FileFindsNothing, FileFails,
                      CallFails, FileEnds, FileReport, FileLoopStops, DownIsIdle, nodeVars
<1>3. ASSUME Exit \/ Crash \/ Restart \/ Sigterm PROVE DownIsIdle'
    BY <1>3 DEF Exit, Crash, Restart, Sigterm, Gone, DownIsIdle
<1>4. ASSUME NEW j \in Jobs, Dispatch(j) \/ Run(j) PROVE UNCHANGED << alive, filePc >>
    BY <1>4 DEF Dispatch, Run, RunBegins, AgentEnds, CheckEnds, Land, Propose, Report, nodeVars
<1>5. ASSUME PassAsk \/ SelectForPass \/ PassLaunch \/ PassFindsNothing \/ PassFails
      PROVE  UNCHANGED << alive, filePc >>
    BY <1>5 DEF PassAsk, SelectForPass, PassLaunch, PassFindsNothing, PassFails, nodeVars
<1>6. ASSUME (\E p \in Pollers : ClaimOutlivesCaller(p)) \/ UNCHANGED vars
      PROVE  UNCHANGED << alive, filePc >>
    BY <1>6 DEF ClaimOutlivesCaller, vars, nodeVars
<1> QED
    BY <1>1, <1>2, <1>3, <1>4, <1>5, <1>6 DEF Next

SlotInv == IsFiniteSet(LiveRuns) /\ SlotsMatchRuns

\* The semaphore goes on counting the live runs and the claim being made.
LEMMA SlotStep == NodeInv /\ [Next]_vars => SlotInv'
<1> SUFFICES ASSUME NodeInv, [Next]_vars PROVE SlotInv'
    OBVIOUS
<1>0. /\ IsFiniteSet(LiveRuns) /\ SlotsMatchRuns
      /\ Cardinality(LiveRuns) \in Nat /\ MaxConcurrent \in Nat /\ slots \in Nat
    BY BoundAssumption, FS_CardinalityType DEF NodeInv, TypeOK, NodeTypeOK
<1>1. ASSUME LiveRuns' = LiveRuns, UNCHANGED << slots, passPc >> PROVE SlotInv'
    BY <1>0, <1>1 DEF SlotInv, SlotsMatchRuns
<1>2. ASSUME NEW j \in Jobs, Run(j) PROVE SlotInv'
  <2>1. CASE Report(j)
    <3>1. j \in LiveRuns /\ LiveRuns' = LiveRuns \ {j} /\ slots' = slots - 1 /\ passPc' = passPc
        BY <2>1, ReportEnds DEF Report
    <3>2. IsFiniteSet(LiveRuns') /\ Cardinality(LiveRuns') = Cardinality(LiveRuns) - 1
        BY <1>0, <3>1, FS_RemoveElement
    <3> QED
        BY <1>0, <3>1, <3>2 DEF SlotInv, SlotsMatchRuns
  <2>2. CASE ~Report(j)
      BY <1>1, <1>2, <2>2, LiveStays DEF Run
  <2> QED
      BY <2>1, <2>2
<1>3. ASSUME PassLaunch PROVE SlotInv'
  <2>1. /\ txn[Pass] \notin LiveRuns /\ LiveRuns' = LiveRuns \cup {txn[Pass]}
        /\ slots' = slots /\ passPc = "asking" /\ passPc' = "idle"
      BY <1>3, LaunchAdds DEF PassLaunch
  <2>2. IsFiniteSet(LiveRuns') /\ Cardinality(LiveRuns') = Cardinality(LiveRuns) + 1
      BY <1>0, <2>1, FS_AddElement
  <2> QED
      BY <1>0, <2>1, <2>2 DEF SlotInv, SlotsMatchRuns
<1>4. ASSUME PassAsk \/ PassFindsNothing \/ PassFails PROVE SlotInv'
  <2>1. LiveRuns' = LiveRuns
      BY <1>4 DEF PassAsk, PassFindsNothing, PassFails, LiveRuns, runVars
  <2>2. CASE PassAsk
      BY <1>0, <2>1, <2>2 DEF PassAsk, SlotInv, SlotsMatchRuns
  <2>3. CASE PassFindsNothing \/ PassFails
      BY <1>0, <2>1, <2>3 DEF PassFindsNothing, PassFails, SlotInv, SlotsMatchRuns
  <2> QED
      BY <1>4, <2>2, <2>3
<1>5. ASSUME Exit \/ Crash PROVE SlotInv'
  <2>1. LiveRuns' = {} /\ slots' = 0 /\ passPc' = "idle"
      BY <1>5, GoneEnds DEF Exit, Crash, Gone
  <2>2. IsFiniteSet({}) /\ Cardinality({}) = 0
      BY FS_EmptySet
  <2> QED
      BY <1>0, <2>1, <2>2 DEF SlotInv, SlotsMatchRuns
<1>6. ASSUME (\E j \in Jobs : Dispatch(j)) \/ SelectForPass
             \/ (\E p \in Pollers : ClaimOutlivesCaller(p)) \/ Sigterm \/ Restart \/ UNCHANGED vars
      PROVE  UNCHANGED << stage, slots, passPc >>
    BY <1>6 DEF Dispatch, SelectForPass, ClaimOutlivesCaller, Sigterm, Restart, vars, nodeVars, runVars
<1>7. ASSUME FileStep PROVE UNCHANGED << stage, slots, passPc >>
    BY <1>7 DEF FileStep, FileAsk, SelectForFiles, FileTake, FileFindsNothing, FileFails, FileEnds,
                FileReport, FileLoopStops, nodeVars, runVars
<1>8. ASSUME UNCHANGED << stage, slots, passPc >> PROVE SlotInv'
    BY <1>1, <1>8 DEF LiveRuns
<1> QED
    BY <1>2, <1>3, <1>4, <1>5, <1>6, <1>7, <1>8 DEF Next

-----------------------------------------------------------------------------

\* NodeInv holds in every reachable state.
THEOREM NodeInvariant == Spec => []NodeInv
<1>1. Init => NodeInv
  <2> SUFFICES ASSUME Init PROVE NodeInv
      OBVIOUS
  <2>1. QTypeOK /\ QueueInv
      BY NoJobAssumption DEF Init, QInit, QueueInv, QTypeOK, Statuses, LocksAreExclusive, HandedOutOnce
  <2>2. NodeTypeOK /\ RunTypeOK /\ FaultTypeOK
      BY DEF Init, NodeTypeOK, RunTypeOK, FaultTypeOK, Stages, Verdicts, Reasons
  <2>3. LiveRuns = {} /\ InHand = {}
      BY DEF Init, LiveRuns, Live, InHand
  <2>4. RunningRowsAreAccountedFor
      BY <2>3 DEF Init, QInit, RunningRowsAreAccountedFor, Held
  <2>5. IsFiniteSet(LiveRuns) /\ SlotsMatchRuns
      BY <2>3, FS_EmptySet, BoundAssumption DEF Init, SlotsMatchRuns
  <2> QED
      BY <2>1, <2>2, <2>4, <2>5 DEF Init, NodeInv, TypeOK, FilingIsAJob, DownIsIdle
<1>2. NodeInv /\ [Next]_vars => NodeInv'
  <2> SUFFICES ASSUME NodeInv, [Next]_vars PROVE NodeInv'
      OBVIOUS
  <2>1. QueueInv' /\ QTypeOK'
      BY StepIsQueueStep, QueueStep DEF NodeInv, QueueInv
  <2>2. TypeOK'
      BY <2>1, RunTypeStep, NodeTypeStep, FaultTypeStep DEF TypeOK
  <2> QED
      BY <2>1, <2>2, FilingStep, DownStep, AccountedStep, SlotStep DEF NodeInv, SlotInv
<1> QED
    BY <1>1, <1>2, PTL DEF Spec

\* The state always has its type: in particular the semaphore never gives back
\* a token it does not hold.
THEOREM TypeInvariant == Spec => []TypeOK
<1>1. NodeInv => TypeOK
    BY DEF NodeInv
<1> QED
    BY <1>1, NodeInvariant, PTL

\* Every row shown as running is in somebody's hands or stranded for a named
\* reason, whatever is stopped, killed or lost, and however often.
THEOREM AccountedInvariant == Spec => []RunningRowsAreAccountedFor
<1>1. NodeInv => RunningRowsAreAccountedFor
    BY DEF NodeInv
<1> QED
    BY <1>1, NodeInvariant, PTL

\* The slot semaphore counts the runs exactly, and they are at most
\* -max-concurrent.
THEOREM SlotInvariant == Spec => []SlotsMatchRuns
<1>1. NodeInv => SlotsMatchRuns
    BY DEF NodeInv
<1> QED
    BY <1>1, NodeInvariant, PTL

\* The daemon and its faults implement the queue's specification, and through
\* it JobLifecycle.
THEOREM NodeImplementsQueue == Spec => ImplementsQueue
<1>1. Init => QInit
    BY DEF Init
<1> QED
    BY <1>1, StepIsQueueStep, NodeInvariant, PTL DEF Spec, ImplementsQueue, QSpec

-----------------------------------------------------------------------------

\* What the locals of a run say at each of its stages: an agent that was started again
\* was started twice, and a run that is landed as good was made by one.
RunIsSound(s, ok, verdict, n) ==
    /\ s \in {"none", "claimed", "refused"} => ~ok /\ n = 0
    /\ s = "running" => n = 1
    /\ s = "checking" => n \in 0..1 /\ (ok => n = 1)
    /\ s = "rerunning" => n = 2
    /\ s = "rechecking" => n \in 1..2 /\ (ok => n = 2)
    /\ s \in {"landing", "proposing", "reporting"} =>
          /\ ok => n \in 1..2
          /\ ok /\ verdict \in Unhappy => n = 2

\* A row nobody has claimed has no run yet, each loop claims and holds what it asks for,
\* and the run of a settled row is over.
OutcomeInv ==
    /\ \A p \in Pollers : txn[p] # NoJob => KindOf[txn[p]] \in Wants[p]
    /\ filePc \in {"filing", "reporting"} => KindOf[filing] = "file"
    /\ \A j \in Jobs : row[j] \in {"absent", "queued"} => stage[j] = "none"
    /\ \A j \in Jobs : RunIsSound(stage[j], runOk[j], checked[j], agents[j])
    /\ \A j \in Jobs : KindOf[j] = "work" /\ row[j] \in Settled => stage[j] = "over"
    /\ DoneMeansAnAgentDidIt

\* A run that goes on, while the queue stands still, keeps the invariant if it is still sound.
LEMMA RunGoesOn ==
    ASSUME NodeInv, OutcomeInv, UNCHANGED << queueVars, nodeVars >>, NEW j \in Jobs,
           stage[j] \in Live, RunTypeOK',
           RunIsSound(stage'[j], runOk'[j], checked'[j], agents'[j]),
           \A i \in Jobs \ {j} : /\ stage'[i] = stage[i] /\ runOk'[i] = runOk[i]
                                 /\ checked'[i] = checked[i] /\ agents'[i] = agents[i]
    PROVE  OutcomeInv'
<1>1. row[j] \notin {"absent", "queued"} /\ ~(KindOf[j] = "work" /\ row[j] \in Settled)
    BY DEF OutcomeInv, Live
<1>2. /\ \A p \in Pollers : txn'[p] # NoJob => KindOf[txn'[p]] \in Wants[p]
      /\ filePc' \in {"filing", "reporting"} => KindOf[filing'] = "file"
    BY DEF OutcomeInv, queueVars, nodeVars
<1>3. \A i \in Jobs : row'[i] \in {"absent", "queued"} => stage'[i] = "none"
    BY <1>1 DEF OutcomeInv, queueVars
<1>4. \A i \in Jobs : RunIsSound(stage'[i], runOk'[i], checked'[i], agents'[i])
    BY DEF OutcomeInv
<1>5. \A i \in Jobs : KindOf[i] = "work" /\ row'[i] \in Settled => stage'[i] = "over"
    BY <1>1 DEF OutcomeInv, queueVars
<1>6. DoneMeansAnAgentDidIt'
    BY <1>1 DEF OutcomeInv, DoneMeansAnAgentDidIt, queueVars
<1> QED
    BY <1>2, <1>3, <1>4, <1>5, <1>6 DEF OutcomeInv

\* Every stage of a run but the last leaves a sound run.
LEMMA RunStaysSound ==
    ASSUME NodeInv, OutcomeInv, NEW j \in Jobs, RunTypeOK',
           RunBegins(j) \/ AgentEnds(j) \/ CheckEnds(j) \/ Land(j)
    PROVE  OutcomeInv'
<1>0. /\ RunTypeOK /\ RunIsSound(stage[j], runOk[j], checked[j], agents[j])
      /\ agents[j] \in Nat /\ runOk[j] \in BOOLEAN
    BY DEF NodeInv, TypeOK, OutcomeInv, RunTypeOK
<1>1. /\ stage[j] \in Live /\ UNCHANGED << queueVars, nodeVars >>
    BY DEF RunBegins, AgentEnds, CheckEnds, Land, Live, Stages
<1>2. \A i \in Jobs \ {j} : /\ stage'[i] = stage[i] /\ runOk'[i] = runOk[i]
                            /\ checked'[i] = checked[i] /\ agents'[i] = agents[i]
  <2>1. CASE RunBegins(j)
      BY <1>0, <2>1 DEF RunBegins, RunTypeOK
  <2>2. CASE AgentEnds(j)
      BY <1>0, <2>2 DEF AgentEnds, RunTypeOK
  <2>3. CASE CheckEnds(j)
      BY <1>0, <2>3 DEF CheckEnds, RunTypeOK
  <2>4. CASE Land(j)
      BY <1>0, <2>4 DEF Land, RunTypeOK
  <2> QED
      BY <2>1, <2>2, <2>3, <2>4
<1>3. RunIsSound(stage'[j], runOk'[j], checked'[j], agents'[j])
  <2>1. CASE RunBegins(j)
    <3>1. stage[j] = "claimed" /\ runOk'[j] = runOk[j] /\ ~runOk[j] /\ agents[j] = 0
        BY <1>0, <2>1 DEF RunBegins, RunIsSound
    <3>2. \/ stage'[j] \in {"refused", "checking", "landing"} /\ agents'[j] = 0
          \/ stage'[j] = "running" /\ agents'[j] = 1
      <4>1. PICK t \in {"refused", "checking", "landing", "running"} :
                /\ stage' = [stage EXCEPT ![j] = t]
                /\ IF t = "running" THEN agents' = [agents EXCEPT ![j] = agents[j] + 1] ELSE agents' = agents
          BY <2>1 DEF RunBegins
      <4>2. stage'[j] = t
          BY <1>0, <4>1 DEF RunTypeOK
      <4>3. agents'[j] = IF t = "running" THEN 1 ELSE 0
        <5>1. agents \in [Jobs -> Nat]
            BY <1>0 DEF RunTypeOK
        <5>2. CASE t = "running"
            BY <3>1, <4>1, <5>1, <5>2
        <5>3. CASE t # "running"
            BY <3>1, <4>1, <5>1, <5>3
        <5> QED
            BY <5>2, <5>3
      <4> QED
          BY <4>2, <4>3
    <3> QED
        BY <3>1, <3>2 DEF RunIsSound
  <2>2. CASE AgentEnds(j)
    <3>1. /\ (stage[j] = "running" /\ agents[j] = 1) \/ (stage[j] = "rerunning" /\ agents[j] = 2)
          /\ agents'[j] = agents[j]
        BY <1>0, <2>2 DEF AgentEnds, RunIsSound
    <3>2. \/ stage'[j] = "landing" /\ (runOk'[j] => stage[j] = "rerunning")
          \/ stage[j] = "running" /\ stage'[j] = "checking"
          \/ stage[j] = "rerunning" /\ stage'[j] = "rechecking"
        BY <1>0, <2>2, <3>1 DEF AgentEnds, RunTypeOK
    <3> QED
        BY <3>1, <3>2 DEF RunIsSound
  <2>3. CASE CheckEnds(j)
    <3>1. /\ stage[j] = "checking" \/ stage[j] = "rechecking"
          /\ stage[j] = "checking" => agents[j] \in 0..1
          /\ runOk[j] => agents[j] = IF stage[j] = "checking" THEN 1 ELSE 2
          /\ stage[j] = "rechecking" => agents[j] \in 1..2
        BY <1>0, <2>3 DEF CheckEnds, RunIsSound
    <3>2. \/ /\ stage[j] = "checking" /\ runOk[j]
             /\ \/ stage'[j] = "rerunning" /\ agents'[j] = agents[j] + 1
                \/ stage'[j] \in {"rechecking", "landing"} /\ ~runOk'[j] /\ agents'[j] = agents[j]
          \/ /\ stage'[j] = "landing" /\ runOk'[j] = runOk[j] /\ agents'[j] = agents[j]
             /\ ~(stage[j] = "checking" /\ checked'[j] \in Unhappy /\ runOk[j])
        BY <1>0, <2>3, <3>1 DEF CheckEnds, RunTypeOK
    <3> QED
        BY <3>1, <3>2 DEF RunIsSound
  <2>4. CASE Land(j)
    <3>1. stage[j] = "landing" /\ stage'[j] \in {"proposing", "reporting"}
        BY <1>0, <2>4 DEF Land, RunTypeOK
    <3>2. UNCHANGED << runOk, checked, agents >>
        BY <2>4 DEF Land
    <3> QED
        BY <1>0, <3>1, <3>2 DEF RunIsSound
  <2> QED
      BY <2>1, <2>2, <2>3, <2>4
<1> QED
    BY <1>1, <1>2, <1>3, RunGoesOn

\* So does the call for a pull request.
LEMMA ProposeStaysSound ==
    ASSUME NodeInv, OutcomeInv, NEW j \in Jobs, RunTypeOK', Propose(j)
    PROVE  OutcomeInv'
<1>1. stage[j] = "proposing" /\ stage' = [stage EXCEPT ![j] = "reporting"]
    BY DEF Propose
<1>2. UNCHANGED << queueVars, nodeVars, runOk, checked, agents >>
    BY DEF Propose
<1>3. stage'[j] = "reporting" /\ \A i \in Jobs \ {j} : stage'[i] = stage[i]
    BY <1>1 DEF NodeInv, TypeOK, RunTypeOK
<1>4. RunIsSound(stage'[j], runOk'[j], checked'[j], agents'[j])
    BY <1>1, <1>2, <1>3 DEF OutcomeInv, RunIsSound
<1>5. stage[j] \in Live
    BY <1>1 DEF Live, Stages
<1> QED
    BY <1>2, <1>3, <1>4, <1>5, RunGoesOn

\* A report settles its row with the run's outcome, and the run is over.
LEMMA ReportIsSound ==
    ASSUME NodeInv, OutcomeInv, NEW j \in Jobs, Report(j)
    PROVE  OutcomeInv'
<1>1. /\ stage[j] \in {"refused", "reporting"} /\ stage' = [stage EXCEPT ![j] = "over"]
      /\ UNCHANGED << filePc, filing, runOk, checked, agents >>
      /\ Finish(j, runOk[j]) \/ UNCHANGED queueVars
    BY DEF Report
<1>2. stage'[j] = "over" /\ \A i \in Jobs \ {j} : stage'[i] = stage[i]
    BY <1>1 DEF NodeInv, TypeOK, RunTypeOK
<1>3. txn' = txn /\ row[j] \notin {"absent", "queued"} /\ ~(KindOf[j] = "work" /\ row[j] \in Settled)
    BY <1>1 DEF Finish, queueVars, OutcomeInv
<1>4. /\ row' = row \/ row' = [row EXCEPT ![j] = IF runOk[j] THEN "done" ELSE "failed"]
      /\ row \in [Jobs -> Statuses]
    BY <1>1 DEF Finish, queueVars, NodeInv, TypeOK, QTypeOK
<1>5. /\ \A i \in Jobs \ {j} : row'[i] = row[i]
      /\ row'[j] = row[j] \/ (row'[j] = IF runOk[j] THEN "done" ELSE "failed")
    BY <1>4
<1>6. \A i \in Jobs : row'[i] \in {"absent", "queued"} => stage'[i] = "none"
    BY <1>2, <1>3, <1>5 DEF OutcomeInv
<1>7. \A i \in Jobs : RunIsSound(stage'[i], runOk'[i], checked'[i], agents'[i])
    BY <1>1, <1>2 DEF OutcomeInv, RunIsSound
<1>8. \A i \in Jobs : KindOf[i] = "work" /\ row'[i] \in Settled => stage'[i] = "over"
    BY <1>2, <1>5 DEF OutcomeInv
<1>9. DoneMeansAnAgentDidIt'
  <2> SUFFICES ASSUME NEW i \in Jobs, KindOf[i] = "work", row'[i] \in Settled
               PROVE  /\ row'[i] = "done" <=> runOk[i]
                      /\ row'[i] = "done" => agents[i] \in 1..2
                      /\ row'[i] = "done" /\ checked[i] \in Unhappy => agents[i] = 2
      BY <1>1 DEF DoneMeansAnAgentDidIt
  <2>1. CASE i # j
      BY <1>5, <2>1 DEF OutcomeInv, DoneMeansAnAgentDidIt
  <2>2. CASE i = j
    <3>1. row'[j] = IF runOk[j] THEN "done" ELSE "failed"
        BY <1>3, <1>5, <2>2
    <3>2. /\ runOk[j] => agents[j] \in 1..2
          /\ runOk[j] /\ checked[j] \in Unhappy => agents[j] = 2
        BY <1>1 DEF OutcomeInv, RunIsSound
    <3>3. runOk[j] \in BOOLEAN
        BY DEF NodeInv, TypeOK, RunTypeOK
    <3> QED
        BY <2>2, <3>1, <3>2, <3>3
  <2> QED
      BY <2>1, <2>2
<1> QED
    BY <1>1, <1>3, <1>6, <1>7, <1>8, <1>9 DEF OutcomeInv

\* A claim that commits turns a queued row into a running one, and starts a run at its
\* beginning if the caller is the main loop.
LEMMA ClaimIsSound ==
    ASSUME NodeInv, OutcomeInv, NEW p \in Pollers, ClaimCommit(p),
           UNCHANGED << runOk, checked, agents >>,
           stage' = stage \/ stage' = [stage EXCEPT ![txn[p]] = "claimed"],
           \/ UNCHANGED << filePc, filing >>
           \/ p = FileLoop /\ filing' = txn[p]
    PROVE  OutcomeInv'
<1> DEFINE j == txn[p]
<1>1. /\ j \in Jobs /\ row[j] = "queued" /\ KindOf[j] \in Wants[p]
      /\ \A q \in Pollers \ {p} : txn[q] # j
    BY NoJobAssumption DEF ClaimCommit, NodeInv, TypeOK, QTypeOK, QueueInv, LocksAreExclusive, OutcomeInv
<1>2. /\ stage[j] = "none" /\ stage \in [Jobs -> Stages] /\ row \in [Jobs -> Statuses]
      /\ txn \in [Pollers -> Jobs \cup {NoJob}]
    BY <1>1 DEF OutcomeInv, NodeInv, TypeOK, RunTypeOK, QTypeOK
<1>3. /\ row' = [row EXCEPT ![j] = "running"] /\ txn' = [txn EXCEPT ![p] = NoJob]
      /\ stage' = stage \/ stage' = [stage EXCEPT ![j] = "claimed"]
    BY DEF ClaimCommit
<1> HIDE DEF j
<1>4. /\ row'[j] = "running" /\ \A i \in Jobs \ {j} : row'[i] = row[i]
      /\ stage'[j] \in {"none", "claimed"} /\ \A i \in Jobs \ {j} : stage'[i] = stage[i]
      /\ \A q \in Pollers : txn'[q] # NoJob => txn'[q] = txn[q]
    BY <1>1, <1>2, <1>3
<1>5. \A q \in Pollers : txn'[q] # NoJob => KindOf[txn'[q]] \in Wants[q]
    BY <1>4 DEF OutcomeInv
<1>6. filePc' \in {"filing", "reporting"} => KindOf[filing'] = "file"
    BY <1>1, PollerAssumption DEF OutcomeInv, j
<1>7. \A i \in Jobs : row'[i] \in {"absent", "queued"} => stage'[i] = "none"
    BY <1>4 DEF OutcomeInv
<1>8. \A i \in Jobs : RunIsSound(stage'[i], runOk'[i], checked'[i], agents'[i])
    BY <1>2, <1>4 DEF OutcomeInv, RunIsSound
<1>9. \A i \in Jobs : KindOf[i] = "work" /\ row'[i] \in Settled => stage'[i] = "over"
    BY <1>4 DEF OutcomeInv, Settled
<1>10. DoneMeansAnAgentDidIt'
    BY <1>4 DEF OutcomeInv, DoneMeansAnAgentDidIt, Settled
<1> QED
    BY <1>5, <1>6, <1>7, <1>8, <1>9, <1>10 DEF OutcomeInv

\* The process may end at any moment: the runs are over, and their rows are not settled.
LEMMA GoneIsSound ==
    ASSUME NodeInv, OutcomeInv, Exit \/ Crash
    PROVE  OutcomeInv'
<1>1. /\ stage' = [i \in Jobs |-> IF stage[i] \in Live THEN "over" ELSE stage[i]] /\ filePc' = "gone"
      /\ UNCHANGED << queueVars, runOk, checked, agents >>
    BY DEF Exit, Crash, Gone
<1>2. \A i \in Jobs : RunIsSound(stage'[i], runOk'[i], checked'[i], agents'[i])
    BY <1>1 DEF OutcomeInv, RunIsSound
<1>3. \A i \in Jobs : /\ row'[i] \in {"absent", "queued"} => stage'[i] = "none"
                      /\ KindOf[i] = "work" /\ row'[i] \in Settled => stage'[i] = "over"
    BY <1>1 DEF OutcomeInv, queueVars, Live
<1>4. DoneMeansAnAgentDidIt'
    BY <1>1 DEF OutcomeInv, DoneMeansAnAgentDidIt, queueVars
<1> QED
    BY <1>1, <1>2, <1>3, <1>4 DEF OutcomeInv, queueVars

\* What a step does to the queue and the file loop only.
LEMMA OutsideTheRuns ==
    ASSUME NodeInv, OutcomeInv, UNCHANGED runVars, RunTypeOK',
           \A i \in Jobs : /\ row'[i] \in {"absent", "queued"} => row[i] \in {"absent", "queued"}
                           /\ KindOf[i] = "work" /\ row'[i] \in Settled => row'[i] = row[i],
           \A p \in Pollers : txn'[p] # NoJob => KindOf[txn'[p]] \in Wants[p],
           filePc' \in {"filing", "reporting"} => KindOf[filing'] = "file"
    PROVE  OutcomeInv'
<1>1. UNCHANGED << stage, runOk, checked, agents >>
    BY DEF runVars
<1>2. DoneMeansAnAgentDidIt'
    BY <1>1 DEF OutcomeInv, DoneMeansAnAgentDidIt
<1> QED
    BY <1>1, <1>2 DEF OutcomeInv

\* Every step keeps the invariant.
LEMMA OutcomeStep == NodeInv /\ OutcomeInv /\ [Next]_vars => OutcomeInv'
<1> SUFFICES ASSUME NodeInv, OutcomeInv, [Next]_vars PROVE OutcomeInv'
    OBVIOUS
<1>0. RunTypeOK' /\ row \in [Jobs -> Statuses]
    BY RunTypeStep DEF NodeInv, TypeOK, QTypeOK
<1>1. ASSUME NEW j \in Jobs, Dispatch(j) PROVE OutcomeInv'
  <2>1. /\ row[j] = "absent" /\ row' = [row EXCEPT ![j] = "queued"]
        /\ UNCHANGED << txn, filePc, filing, runVars >>
      BY <1>1 DEF Dispatch, Enqueue, nodeVars
  <2>2. \A i \in Jobs : /\ row'[i] \in {"absent", "queued"} => row[i] \in {"absent", "queued"}
                        /\ KindOf[i] = "work" /\ row'[i] \in Settled => row'[i] = row[i]
      BY <1>0, <2>1 DEF Settled
  <2> QED
      BY <1>0, <2>1, <2>2, OutsideTheRuns DEF OutcomeInv
<1>2. ASSUME NEW j \in Jobs, Run(j) PROVE OutcomeInv'
    BY <1>0, <1>2, RunStaysSound, ProposeStaysSound, ReportIsSound DEF Run
<1>3. ASSUME NEW p \in Pollers, ClaimSelect(p), UNCHANGED << nodeVars, runVars >> PROVE OutcomeInv'
  <2>1. row' = row /\ UNCHANGED << filePc, filing, runVars >>
      BY <1>3 DEF ClaimSelect, nodeVars
  <2>2. PICK j \in Claimable(p) : txn' = [txn EXCEPT ![p] = j]
      BY <1>3 DEF ClaimSelect, Oldest
  <2>3. KindOf[j] \in Wants[p]
      BY <2>2 DEF Claimable
  <2>4. \A q \in Pollers : txn'[q] # NoJob => KindOf[txn'[q]] \in Wants[q]
      BY <2>2, <2>3 DEF OutcomeInv, NodeInv, TypeOK, QTypeOK
  <2> QED
      BY <1>0, <2>1, <2>4, OutsideTheRuns DEF OutcomeInv
<1>4. ASSUME SelectForPass \/ SelectForFiles PROVE OutcomeInv'
    BY <1>3, <1>4, PollerAssumption DEF SelectForPass, SelectForFiles
<1>5. CASE PassLaunch
    BY <1>5, ClaimIsSound, PollerAssumption DEF PassLaunch
<1>6. CASE FileTake
    BY <1>6, ClaimIsSound, PollerAssumption DEF FileTake, runVars
<1>7. ASSUME NEW p \in Pollers, ClaimOutlivesCaller(p) PROVE OutcomeInv'
  <2>1. CASE ClaimCommit(p)
      BY <1>7, <2>1, ClaimIsSound DEF ClaimOutlivesCaller, nodeVars, runVars
  <2>2. CASE ClaimRollback(p)
    <3>1. /\ row' = row /\ txn' = [txn EXCEPT ![p] = NoJob] /\ UNCHANGED << filePc, filing, runVars >>
        BY <1>7, <2>2 DEF ClaimOutlivesCaller, ClaimRollback, nodeVars
    <3>2. \A q \in Pollers : txn'[q] # NoJob => KindOf[txn'[q]] \in Wants[q]
        BY <3>1 DEF OutcomeInv, NodeInv, TypeOK, QTypeOK
    <3> QED
        BY <1>0, <3>1, <3>2, OutsideTheRuns DEF OutcomeInv
  <2> QED
      BY <1>7, <2>1, <2>2 DEF ClaimOutlivesCaller
<1>8. CASE FileReport
  <2>1. /\ filing \in Jobs /\ KindOf[filing] = "file" /\ filePc' = "idle"
        /\ UNCHANGED << txn, runVars >>
        /\ row' = row \/ row' = [row EXCEPT ![filing] = IF fileOk THEN "done" ELSE "failed"]
      BY <1>8 DEF FileReport, Finish, queueVars, OutcomeInv, NodeInv, FilingIsAJob
  <2>2. row[filing] \in {"absent", "queued"} \/ row'[filing] \notin {"absent", "queued"}
      BY <1>0, <2>1
  <2>3. \A i \in Jobs : /\ row'[i] \in {"absent", "queued"} => row[i] \in {"absent", "queued"}
                        /\ KindOf[i] = "work" /\ row'[i] \in Settled => row'[i] = row[i]
      BY <1>0, <2>1, <2>2
  <2> QED
      BY <1>0, <2>1, <2>3, OutsideTheRuns DEF OutcomeInv
<1>9. ASSUME UNCHANGED << queueVars, runVars >>,
             filePc' \in {"filing", "reporting"} => filePc \in {"filing", "reporting"} /\ filing' = filing
      PROVE  OutcomeInv'
  <2>1. UNCHANGED << row, txn >>
      BY <1>9 DEF queueVars
  <2> QED
      BY <1>0, <1>9, <2>1, OutsideTheRuns DEF OutcomeInv
<1>10. CASE PassAsk \/ PassFindsNothing \/ PassFails
    BY <1>9, <1>10 DEF PassAsk, PassFindsNothing, PassFails
<1>11. CASE FileAsk \/ FileFindsNothing \/ FileFails \/ FileEnds \/ FileLoopStops
    BY <1>9, <1>11 DEF FileAsk, FileFindsNothing, FileFails, FileEnds, FileLoopStops
<1>12. CASE Sigterm \/ Restart
    BY <1>9, <1>12 DEF Sigterm, Restart
<1>13. CASE Exit \/ Crash
    BY <1>13, GoneIsSound
<1>14. CASE UNCHANGED vars
    BY <1>9, <1>14 DEF vars, nodeVars
<1> QED
    BY <1>1, <1>2, <1>4, <1>5, <1>6, <1>7, <1>8, <1>10, <1>11, <1>12, <1>13, <1>14 DEF Next, FileStep

\* A job recorded as done was done by an agent, and twice if its check failed to the end:
\* whatever is stopped or killed, an interrupted second pass never reads as success.
THEOREM OutcomeInvariant == Spec => []DoneMeansAnAgentDidIt
<1>1. NodeInv /\ Init => OutcomeInv
    BY DEF Init, QInit, OutcomeInv, RunIsSound, DoneMeansAnAgentDidIt, Settled
<1>2. OutcomeInv => DoneMeansAnAgentDidIt
    BY DEF OutcomeInv
<1> QED
    BY <1>1, <1>2, OutcomeStep, NodeInvariant, PTL DEF Spec
=============================================================================
