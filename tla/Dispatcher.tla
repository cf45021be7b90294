----------------------------- MODULE Dispatcher -----------------------------
(***************************************************************************)
(* The execution node's daemon, cmd/dispatcher, composed with the work     *)
(* queue it polls.  Its actors are the main loop (pass), the file loop     *)
(* (fileLoop), one goroutine per claimed work job (runClaimed), and the    *)
(* operating system: SIGTERM, a kill, a restart.  They share the slot      *)
(* semaphore, the cancellation context and the queue.                      *)
(*                                                                         *)
(* Which files a run changes and how they reach the repository is the      *)
(* subject of Landing; here a landing pushes a branch or it does not.      *)
(***************************************************************************)
EXTENDS WorkQueue, FiniteSets

CONSTANTS
    Pass,            \* the main loop, as a poller of the queue
    FileLoop,        \* the file loop, as a poller of the queue
    Checked,         \* the jobs whose repository has a check command
    BeadOf,          \* BeadOf[j]: the bead column of a work job
    MaxConcurrent,   \* -max-concurrent
    MaxStops,        \* bound: SIGTERMs
    MaxCrashes,      \* bound: kills and reboots
    MaxLost          \* bound: calls whose request or reply is lost

ASSUME PollerAssumption ==
    /\ Pass # FileLoop
    /\ Pollers = {Pass, FileLoop}
    /\ Wants[Pass] = {"work"}
    /\ Wants[FileLoop] = {"file"}
ASSUME BoundAssumption ==
    MaxConcurrent \in Nat \ {0} /\ MaxStops \in Nat /\ MaxCrashes \in Nat /\ MaxLost \in Nat
ASSUME CheckedAssumption == Checked \subseteq Jobs

VARIABLES
    alive,      \* the process: "up", "stopping" once its context is cancelled, or "down"
    passPc,     \* the main loop: "idle", or "asking" with a slot token in hand
    filePc,     \* the file loop: "idle", "asking", "filing", "reporting" or "gone"
    filing,     \* the job the file loop has in hand
    fileOk,     \* whether that filing succeeded
    slots,      \* tokens in the slot semaphore
    stage,      \* stage[j]: where the goroutine of work job j is
    runOk,      \* runOk[j]: runErr = nil
    checked,    \* checked[j]: the last check's verdict
    agents,     \* agents[j]: history, how often an agent was started for j
    delivery,   \* delivery[j]: "none", "pushed", or "proposed" once the pull request is open
    body,       \* body[j]: what the pull request says of the check
    noted,      \* noted[j]: the recorded outcome carries the interruption note
    stranded,   \* stranded[j]: history, why nobody will report j any more
    stops, crashes, lost

nodeVars == << alive, passPc, filePc, filing, fileOk, slots >>
runVars == << stage, runOk, checked, agents, delivery, body, noted >>
faultVars == << stops, crashes, lost >>
vars == << queueVars, nodeVars, runVars, stranded, faultVars >>

Stages == { "none", "claimed", "refused", "running", "checking", "rerunning", "rechecking",
            "landing", "proposing", "reporting", "over" }
Live == Stages \ {"none", "over"}
Verdicts == {"none", "passed", "failed", "timed out"}
Unhappy == {"failed", "timed out"}
Reasons == {"none", "crash", "exit", "claim abandoned", "report lost"}

NodeTypeOK ==
    /\ alive \in {"up", "stopping", "down"}
    /\ passPc \in {"idle", "asking"}
    /\ filePc \in {"idle", "asking", "filing", "reporting", "gone"}
    /\ filing \in Jobs \cup {NoJob}
    /\ fileOk \in BOOLEAN
    /\ slots \in Nat

RunTypeOK ==
    /\ stage \in [Jobs -> Stages]
    /\ runOk \in [Jobs -> BOOLEAN]
    /\ checked \in [Jobs -> Verdicts]
    /\ agents \in [Jobs -> Nat]
    /\ delivery \in [Jobs -> {"none", "pushed", "proposed"}]
    /\ body \in [Jobs -> Verdicts \cup {"failed twice"}]
    /\ noted \in [Jobs -> BOOLEAN]

FaultTypeOK ==
    /\ stranded \in [Jobs -> Reasons]
    /\ stops \in Nat /\ crashes \in Nat /\ lost \in Nat

TypeOK == QTypeOK /\ NodeTypeOK /\ RunTypeOK /\ FaultTypeOK

Init ==
    /\ QInit
    /\ alive = "up" /\ passPc = "idle" /\ filePc = "idle"
    /\ filing = NoJob /\ fileOk = FALSE /\ slots = 0
    /\ stage = [j \in Jobs |-> "none"]
    /\ runOk = [j \in Jobs |-> FALSE]
    /\ checked = [j \in Jobs |-> "none"]
    /\ agents = [j \in Jobs |-> 0]
    /\ delivery = [j \in Jobs |-> "none"]
    /\ body = [j \in Jobs |-> "none"]
    /\ noted = [j \in Jobs |-> FALSE]
    /\ stranded = [j \in Jobs |-> "none"]
    /\ stops = 0 /\ crashes = 0 /\ lost = 0

\* An HTTP call of the node fails: it is lost, or its context is cancelled.
CallFails ==
    \/ alive = "up" /\ lost < MaxLost /\ lost' = lost + 1
    \/ alive = "stopping" /\ UNCHANGED lost

LiveRuns == { j \in Jobs : stage[j] \in Live }

-----------------------------------------------------------------------------
(* The dispatch handler.                                                   *)

\* POST /v1/work/{bead}/dispatch and POST /v1/work/beads: a row is inserted.
\* Neither handler looks for another job of the same bead.
Dispatch(j) ==
    /\ Enqueue(j)
    /\ UNCHANGED << nodeVars, runVars, stranded, faultVars >>

-----------------------------------------------------------------------------
(* The main loop.                                                          *)

\* A free slot is taken before the claim is made: the select has a default.
\* Bound: the control plane is done with a poller's last claim before the
\* poller's next one, ten seconds later.
PassAsk ==
    /\ alive = "up" /\ passPc = "idle" /\ txn[Pass] = NoJob
    /\ slots < MaxConcurrent
    /\ slots' = slots + 1
    /\ passPc' = "asking"
    /\ UNCHANGED << queueVars, alive, filePc, filing, fileOk, runVars, stranded, faultVars >>

\* The control plane selects and locks a row for an outstanding request.
SelectForPass ==
    /\ passPc = "asking"
    /\ ClaimSelect(Pass)
    /\ UNCHANGED << nodeVars, runVars, stranded, faultVars >>

\* The claim commits, the reply arrives, and the goroutine starts: it owns the
\* slot token from here on.
PassLaunch ==
    /\ alive = "up" /\ passPc = "asking"
    /\ ClaimCommit(Pass)
    /\ passPc' = "idle"
    /\ stage' = [stage EXCEPT ![txn[Pass]] = "claimed"]
    /\ UNCHANGED << alive, filePc, filing, fileOk, slots, runOk, checked, agents, delivery,
                    body, noted, stranded, faultVars >>

\* 204: nothing to do.
PassFindsNothing ==
    /\ passPc = "asking" /\ txn[Pass] = NoJob
    /\ Claimable(Pass) = {}
    /\ passPc' = "idle"
    /\ slots' = slots - 1
    /\ UNCHANGED << queueVars, alive, filePc, filing, fileOk, runVars, stranded, faultVars >>

\* Mutation of PassFails: the error path returns without giving the slot back.
PassFailsKeepsSlot ==
    /\ passPc = "asking"
    /\ CallFails
    /\ passPc' = "idle"
    /\ UNCHANGED << queueVars, alive, filePc, filing, fileOk, slots, runVars, stranded, stops, crashes >>

\* The call fails -- a timeout or a broken connection while the process is up,
\* the cancelled context once it is stopping -- and the slot is given back.
PassFails ==
    /\ passPc = "asking"
    /\ CallFails
    /\ passPc' = "idle"
    /\ slots' = slots - 1
    /\ UNCHANGED << queueVars, alive, filePc, filing, fileOk, runVars, stranded, stops, crashes >>

\* What the control plane makes of a claim whose caller has stopped waiting for
\* it: a rollback, or a running row with nobody to run it.
ClaimOutlivesCaller(p) ==
    /\ IF p = Pass THEN passPc # "asking" ELSE filePc # "asking"
    /\ \/ ClaimRollback(p) /\ UNCHANGED stranded
       \/ ClaimCommit(p) /\ stranded' = [stranded EXCEPT ![txn[p]] = "claim abandoned"]
    /\ UNCHANGED << nodeVars, runVars, faultVars >>

-----------------------------------------------------------------------------
(* One run, from the claim to the recorded outcome.                        *)

\* runClaimed up to the agent.  The job may be refused or its rig may not be
\* creatable, and then the failure is reported at once.  The runner may not
\* start, and does not once the context is cancelled: the run has failed, and
\* is checked all the same.
RunBegins(j) ==
    /\ stage[j] = "claimed" /\ alive # "down"
    /\ \/ stage' = [stage EXCEPT ![j] = "refused"] /\ UNCHANGED << checked, agents >>
       \/ /\ alive = "up"
          /\ stage' = [stage EXCEPT ![j] = "checking"]
          /\ UNCHANGED << checked, agents >>
       \/ /\ alive = "up"
          /\ stage' = [stage EXCEPT ![j] = "running"]
          /\ agents' = [agents EXCEPT ![j] = @ + 1]
          /\ UNCHANGED checked
       \/ /\ alive = "stopping"
          /\ stage' = [stage EXCEPT ![j] = "landing"]
          /\ checked' = [checked EXCEPT ![j] = IF j \in Checked THEN "failed" ELSE "none"]
          /\ UNCHANGED agents
    /\ UNCHANGED << queueVars, nodeVars, runOk, delivery, body, noted, stranded, faultVars >>

\* Mutation of AgentEnds: a stop does not reach the agent's process.
AgentEndsUnstopped(j) ==
    /\ stage[j] \in {"running", "rerunning"} /\ alive = "up"
    /\ \E ok \in BOOLEAN : runOk' = [runOk EXCEPT ![j] = ok]
    /\ stage' = [stage EXCEPT ![j] = IF stage[j] = "running" THEN "checking" ELSE "rechecking"]
    /\ UNCHANGED << queueVars, nodeVars, checked, agents, delivery, body, noted, stranded, faultVars >>

\* The agent's process ends: it finished, failed, stalled, hit its deadline, or
\* was signalled because the process is stopping.  A check entered on a
\* cancelled context fails at once, and so does the second run it asks for.
AgentEnds(j) ==
    /\ stage[j] \in {"running", "rerunning"} /\ alive # "down"
    /\ \E ok \in BOOLEAN :
         IF j \in Checked /\ alive = "stopping"
         THEN /\ checked' = [checked EXCEPT ![j] = "failed"]
              /\ runOk' = [runOk EXCEPT ![j] = ok /\ stage[j] = "rerunning"]
              /\ stage' = [stage EXCEPT ![j] = "landing"]
         ELSE /\ runOk' = [runOk EXCEPT ![j] = ok]
              /\ stage' = [stage EXCEPT ![j] =
                   IF stage[j] = "running" THEN "checking" ELSE "rechecking"]
              /\ UNCHANGED checked
    /\ UNCHANGED << queueVars, nodeVars, agents, delivery, body, noted, stranded, faultVars >>

\* Mutation of CheckEnds: the error of the second run is dropped.
CheckEndsKeepsOutcome(j) ==
    /\ stage[j] \in {"checking", "rechecking"} /\ alive # "down"
    /\ \E verdict \in IF j \in Checked THEN Verdicts ELSE {"none"} :
         /\ checked' = [checked EXCEPT ![j] = verdict]
         /\ IF stage[j] = "checking" /\ verdict \in Unhappy /\ runOk[j] /\ alive = "up"
            THEN /\ stage' = [stage EXCEPT ![j] = "rerunning"]
                 /\ agents' = [agents EXCEPT ![j] = @ + 1]
            ELSE stage' = [stage EXCEPT ![j] = "landing"] /\ UNCHANGED agents
    /\ UNCHANGED << queueVars, nodeVars, runOk, delivery, body, noted, stranded, faultVars >>

\* The repository's own check, or none: the checkout may be gone.  A first check
\* that is not passed, after a run that did not fail, gives the agent one more
\* pass, and never a third.
CheckEnds(j) ==
    /\ stage[j] \in {"checking", "rechecking"} /\ alive # "down"
    /\ \E verdict \in IF j \in Checked THEN Verdicts ELSE {"none"} :
         IF stage[j] = "checking" /\ verdict \in Unhappy /\ runOk[j]
         THEN \/ /\ alive = "up"
                 /\ checked' = [checked EXCEPT ![j] = verdict]
                 /\ stage' = [stage EXCEPT ![j] = "rerunning"]
                 /\ agents' = [agents EXCEPT ![j] = @ + 1]
                 /\ UNCHANGED runOk
              \/ /\ checked' = [checked EXCEPT ![j] = IF alive = "up" THEN verdict ELSE "failed"]
                 /\ stage' = [stage EXCEPT ![j] = IF alive = "up" THEN "rechecking" ELSE "landing"]
                 /\ runOk' = [runOk EXCEPT ![j] = FALSE]
                 /\ UNCHANGED agents
         ELSE /\ checked' = [checked EXCEPT ![j] = verdict]
              /\ stage' = [stage EXCEPT ![j] = "landing"]
              /\ UNCHANGED << runOk, agents >>
    /\ UNCHANGED << queueVars, nodeVars, delivery, body, noted, stranded, faultVars >>

\* landWork up to the push.  git is not given the context, so a landing goes
\* on while the process is stopping; a failure is logged and swallowed.
Land(j) ==
    /\ stage[j] = "landing" /\ alive # "down"
    /\ \/ /\ delivery' = [delivery EXCEPT ![j] = "pushed"]
          /\ stage' = [stage EXCEPT ![j] = "proposing"]
       \/ stage' = [stage EXCEPT ![j] = "reporting"] /\ UNCHANGED delivery
    /\ UNCHANGED << queueVars, nodeVars, runOk, checked, agents, body, noted, stranded, faultVars >>

\* openPullRequest: the body states the verdict, and a failed one is said to be
\* what was left after the agent ran again.  The call is made on the context
\* that a shutdown cancels.
Propose(j) ==
    /\ stage[j] = "proposing" /\ alive # "down"
    /\ \/ /\ alive = "up"
          /\ delivery' = [delivery EXCEPT ![j] = "proposed"]
          /\ body' = [body EXCEPT ![j] = IF checked[j] = "failed" THEN "failed twice" ELSE checked[j]]
          /\ UNCHANGED lost
       \/ CallFails /\ UNCHANGED << delivery, body >>
    /\ stage' = [stage EXCEPT ![j] = "reporting"]
    /\ UNCHANGED << queueVars, nodeVars, runOk, checked, agents, noted, stranded, stops, crashes >>

\* Mutation of Report: made on the context a shutdown cancels, as it once was.
ReportCancelled(j) ==
    /\ stage[j] \in {"refused", "reporting"} /\ alive # "down"
    /\ IF alive = "up" THEN Finish(j, runOk[j]) ELSE UNCHANGED queueVars
    /\ stage' = [stage EXCEPT ![j] = "over"]
    /\ slots' = slots - 1
    /\ UNCHANGED << alive, passPc, filePc, filing, fileOk, runOk, checked, agents, delivery, body,
                    noted, stranded, faultVars >>

\* report on outcomeCtx, which a shutdown does not cancel, and then the two
\* deferred calls: the slot token is given back and the wait group is left.
\* A report that does not arrive is logged, never sent again.  The outcome of a
\* run, not of a refusal, gets the interruption note.
Report(j) ==
    /\ stage[j] \in {"refused", "reporting"} /\ alive # "down"
    /\ \/ /\ Finish(j, runOk[j])
          /\ noted' = [noted EXCEPT ![j] = alive = "stopping" /\ stage[j] = "reporting"]
          /\ UNCHANGED << stranded, lost >>
       \/ /\ lost < MaxLost
          /\ lost' = lost + 1
          /\ stranded' = [stranded EXCEPT ![j] = "report lost"]
          /\ UNCHANGED << queueVars, noted >>
    /\ stage' = [stage EXCEPT ![j] = "over"]
    /\ slots' = slots - 1
    /\ UNCHANGED << alive, passPc, filePc, filing, fileOk, runOk, checked, agents, delivery, body,
                    stops, crashes >>

Run(j) ==
    \/ RunBegins(j) \/ AgentEnds(j) \/ CheckEnds(j) \/ Land(j) \/ Propose(j) \/ Report(j)

-----------------------------------------------------------------------------
(* The file loop.                                                          *)

\* Mutation of FileAsk: filing waits for a free slot, as it did before 0103.
FileAskNeedsSlot ==
    /\ alive = "up" /\ filePc = "idle" /\ txn[FileLoop] = NoJob
    /\ slots < MaxConcurrent
    /\ filePc' = "asking"
    /\ UNCHANGED << queueVars, alive, passPc, filing, fileOk, slots, runVars, stranded, faultVars >>

\* The file loop's ticker: it asks whatever the slots are doing.
FileAsk ==
    /\ alive = "up" /\ filePc = "idle" /\ txn[FileLoop] = NoJob
    /\ filePc' = "asking"
    /\ UNCHANGED << queueVars, alive, passPc, filing, fileOk, slots, runVars, stranded, faultVars >>

SelectForFiles ==
    /\ filePc = "asking"
    /\ ClaimSelect(FileLoop)
    /\ UNCHANGED << nodeVars, runVars, stranded, faultVars >>

FileTake ==
    /\ alive = "up" /\ filePc = "asking"
    /\ ClaimCommit(FileLoop)
    /\ filePc' = "filing"
    /\ filing' = txn[FileLoop]
    /\ UNCHANGED << alive, passPc, fileOk, slots, runVars, stranded, faultVars >>

FileFindsNothing ==
    /\ filePc = "asking" /\ txn[FileLoop] = NoJob
    /\ Claimable(FileLoop) = {}
    /\ filePc' = "idle"
    /\ UNCHANGED << queueVars, alive, passPc, filing, fileOk, slots, runVars, stranded, faultVars >>

FileFails ==
    /\ filePc = "asking"
    /\ CallFails
    /\ filePc' = "idle"
    /\ UNCHANGED << queueVars, alive, passPc, filing, fileOk, slots, runVars, stranded, stops, crashes >>

\* Mutation of FileEnds: a failure returns without a report.
FileEndsSilently ==
    /\ filePc = "filing" /\ alive # "down"
    /\ \/ filePc' = "reporting" /\ fileOk' = TRUE /\ UNCHANGED filing
       \/ filePc' = "idle" /\ filing' = NoJob /\ UNCHANGED fileOk
    /\ UNCHANGED << queueVars, alive, passPc, slots, runVars, stranded, faultVars >>

\* ensureRig and fileplan: both come down to success or failure.
FileEnds ==
    /\ filePc = "filing" /\ alive # "down"
    /\ \E ok \in BOOLEAN : fileOk' = ok
    /\ filePc' = "reporting"
    /\ UNCHANGED << queueVars, alive, passPc, filing, slots, runVars, stranded, faultVars >>

FileReport ==
    /\ filePc = "reporting" /\ alive # "down"
    /\ \/ Finish(filing, fileOk) /\ UNCHANGED << stranded, lost >>
       \/ /\ lost < MaxLost
          /\ lost' = lost + 1
          /\ stranded' = [stranded EXCEPT ![filing] = "report lost"]
          /\ UNCHANGED queueVars
    /\ filePc' = "idle"
    /\ filing' = NoJob
    /\ UNCHANGED << alive, passPc, fileOk, slots, runVars, stops, crashes >>

\* The loop returns when it next looks at its context.
FileLoopStops ==
    /\ filePc = "idle" /\ alive = "stopping"
    /\ filePc' = "gone"
    /\ UNCHANGED << queueVars, alive, passPc, filing, fileOk, slots, runVars, stranded, faultVars >>

FileStep ==
    \/ FileAsk \/ SelectForFiles \/ FileTake \/ FileFindsNothing \/ FileFails
    \/ FileEnds \/ FileReport \/ FileLoopStops

-----------------------------------------------------------------------------
(* The process.                                                            *)

\* SIGTERM: signal.NotifyContext cancels the context everything shares.
Sigterm ==
    /\ alive = "up" /\ stops < MaxStops
    /\ alive' = "stopping"
    /\ stops' = stops + 1
    /\ UNCHANGED << queueVars, passPc, filePc, filing, fileOk, slots, runVars, stranded,
                    crashes, lost >>

\* What dies with the process.
Gone ==
    /\ alive' = "down" /\ passPc' = "idle" /\ filePc' = "gone"
    /\ filing' = NoJob /\ fileOk' = FALSE /\ slots' = 0
    /\ stage' = [j \in Jobs |-> IF stage[j] \in Live THEN "over" ELSE stage[j]]
    /\ UNCHANGED << runOk, checked, agents, delivery, body, noted >>

\* The jobs js are left running for the reason why.
LeaveBehind(js, why) == stranded' = [j \in Jobs |-> IF j \in js THEN why ELSE stranded[j]]

InHand == IF filePc \in {"filing", "reporting"} THEN {filing} ELSE {}

\* main returns once wg.Wait does.  The wait group counts the runs; the file
\* loop is not in it.
Exit ==
    /\ alive = "stopping" /\ passPc = "idle" /\ LiveRuns = {}
    /\ LeaveBehind(InHand, "exit")
    /\ Gone
    /\ UNCHANGED << queueVars, faultVars >>

\* SIGKILL, a power cut, a reboot.
Crash ==
    /\ alive # "down" /\ crashes < MaxCrashes
    /\ crashes' = crashes + 1
    /\ LeaveBehind(InHand \cup LiveRuns, "crash")
    /\ Gone
    /\ UNCHANGED << queueVars, stops, lost >>

\* Mutation of Restart: it puts the rows it finds running back into the queue.
RestartRequeues ==
    /\ alive = "down"
    /\ alive' = "up" /\ filePc' = "idle"
    /\ row' = [j \in Jobs |-> IF row[j] = "running" THEN "queued" ELSE row[j]]
    /\ UNCHANGED << created, clock, txn, claims, passPc, filing, fileOk, slots, runVars, stranded,
                    faultVars >>

\* systemd starts it again.
Restart ==
    /\ alive = "down"
    /\ alive' = "up" /\ filePc' = "idle"
    /\ UNCHANGED << queueVars, passPc, filing, fileOk, slots, runVars, stranded, faultVars >>

-----------------------------------------------------------------------------

Next ==
    \/ \E j \in Jobs : Dispatch(j) \/ Run(j)
    \/ PassAsk \/ SelectForPass \/ PassLaunch \/ PassFindsNothing \/ PassFails
    \/ FileStep
    \/ \E p \in Pollers : ClaimOutlivesCaller(p)
    \/ Sigterm \/ Exit \/ Crash \/ Restart

Spec == Init /\ [][Next]_vars

\* The loops run on tickers and a reply comes back or times out; a stop signals
\* the agents and kills what does not heed it; systemd restarts the unit.
\* Nothing obliges anybody to dispatch, to lose a call, to stop the process or
\* to kill it.
LoopFairness ==
    /\ WF_vars(PassAsk) /\ WF_vars(SelectForPass) /\ WF_vars(PassLaunch)
    /\ WF_vars(PassFindsNothing)
    /\ WF_vars(alive = "stopping" /\ PassFails)
    /\ WF_vars(FileAsk) /\ WF_vars(SelectForFiles) /\ WF_vars(FileTake)
    /\ WF_vars(FileFindsNothing) /\ WF_vars(FileEnds) /\ WF_vars(FileReport)
    /\ WF_vars(\E p \in Pollers : ClaimOutlivesCaller(p))
    /\ \A j \in Jobs : WF_vars(alive = "stopping" /\ Run(j))
    /\ WF_vars(Exit) /\ WF_vars(Restart)

\* A run ends by itself, or by the stall limit and the deadline; a check by its
\* timeout; git, the pull request call and the report by theirs.
RunFairness == \A j \in Jobs : WF_vars(Run(j))

\* The loops are fair and the runs need not be: an agent may go on for as long
\* as anybody watches.
LoopSpec == Spec /\ LoopFairness

-----------------------------------------------------------------------------
(* Safety.                                                                 *)

Held(j) == j \in LiveRuns \cup InHand

\* Every row the control plane shows as running is in the hands of exactly one
\* live goroutine or of the file loop, or it is stranded for one of the named
\* reasons; and nothing on the node works on a row that is not running.  This
\* is the code's own worry: "it will sit as running".
RunningRowsAreAccountedFor ==
    \A j \in Jobs :
        /\ row[j] = "running" <=> Held(j) \/ stranded[j] # "none"
        /\ ~(Held(j) /\ stranded[j] # "none")
        /\ ~(j \in LiveRuns /\ j \in InHand)

\* The semaphore holds one token per live run and one for a claim being made,
\* so it neither leaks (the cell would stop taking work) nor lets more than
\* -max-concurrent agents run at once.
SlotsMatchRuns ==
    /\ slots = Cardinality(LiveRuns) + (IF passPc = "asking" THEN 1 ELSE 0)
    /\ slots <= MaxConcurrent

\* A work job recorded as done was done by an agent, and if its check failed to
\* the end the agent was given the output and ran a second time; a job recorded
\* as failed did fail.  An interrupted second pass must not read as success.
DoneMeansAnAgentDidIt ==
    \A j \in Jobs : KindOf[j] = "work" /\ row[j] \in Settled =>
        /\ row[j] = "done" <=> runOk[j]
        /\ row[j] = "done" => agents[j] \in 1 .. 2
        /\ row[j] = "done" /\ checked[j] \in Unhappy => agents[j] = 2

\* Every step of the node and its faults is a step of the queue or leaves the
\* queue alone: the daemon cannot bring a row into a state the SQL forbids.
ImplementsQueue == QSpec

-----------------------------------------------------------------------------
(* Liveness.                                                               *)

\* If runs go on, a claimed job is settled or its stranding is on record: a run on
\* a live node never just stays, through retries, landings and shutdowns.
ClaimedIsSettled ==
    RunFairness => \A j \in Jobs : row[j] = "running" ~> row[j] \in Settled \/ stranded[j] # "none"

\* A shutdown is bounded, however long the agents would have gone on: the wait
\* group always empties.
StopIsBounded == alive = "stopping" ~> alive = "down"

\* 0103: filing does not wait behind an agent.  A queued filing is taken even
\* when every slot is held by a run that never ends.
FilingDoesNotWait ==
    \A j \in Jobs : KindOf[j] = "file" /\ row[j] = "queued" ~> row[j] # "queued"

-----------------------------------------------------------------------------
(* What the comments say and the code does not do.                         *)

\* main.go:225 "Reported on a context a shutdown cannot cancel ... a filing that
\* finished and was never recorded looks exactly like one that never ran."
FilingOutlivesShutdown == \A j \in Jobs : stranded[j] # "exit"

\* main.go:284 "two runs can never pick up the same bead".
OneRunPerBead ==
    \A i, j \in LiveRuns : i # j => BeadOf[i] # BeadOf[j]

\* main.go:464 "Attempted whether or not the run succeeded. A run that changed
\* code and then failed still changed code, and stranding that is the bug being
\* fixed": with no call lost and no crash, a pushed branch gets its pull
\* request before the job is settled.
PushedIsProposed ==
    \A j \in Jobs : row[j] \in Settled /\ crashes = 0 /\ lost = 0 => delivery[j] # "pushed"

\* main.go:1806 "The agent was given the output and ran again; it still fails."
FailedTwiceRanTwice == \A j \in Jobs : body[j] = "failed twice" => agents[j] = 2

\* main.go:891 "this run was interrupted; it did not fail on its own. Re-dispatch
\* it.": a run that carries the note is not one that finished.
NoteMeansInterrupted == \A j \in Jobs : noted[j] => row[j] = "failed"
=============================================================================
