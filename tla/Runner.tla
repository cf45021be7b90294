------------------------------ MODULE Runner -------------------------------
(* cmd/runner: one process per bead, on one cell: it counts the runs, makes *)
(* its directories, writes its settings (which hold the gateway token),     *)
(* runs the agent, resumes it while the bead is open, and tears it all      *)
(* down.  Processes of one cell share runs/ and the CLI's .claude.json.     *)
(* The dispatcher sends one SIGTERM to a run it stops, and SIGKILL after.   *)
EXTENDS Naturals, FiniteSets

CONSTANTS
    Beads,
    MaxAgents,      \* -max-agents, of the governing budget
    MaxContinue,    \* maxContinue
    MaxStops        \* bound: signals and failed system calls

ASSUME RunnerAssumption == MaxAgents \in Nat \ {0} /\ MaxContinue \in Nat /\ MaxStops \in Nat

VARIABLES
    process,        \* the runner of each bead
    dirs,           \* runs/<bead>
    states,         \* runs/.<bead>.state, beside it
    settings,       \* runs/.<bead>.settings.json, beside it
    trusted,        \* entries of .claude.json
    stops

runnerVars == << process, dirs, states, settings, trusted, stops >>

Starting == {"counted", "state dir", "trust", "trusting", "settings"}
Tearing == {"untrust", "untrusting", "rm settings", "rm state", "rm dir"}
Ended == {"refused", "done", "killed", "exited"}
Process == [pc : {"idle", "agent", "exited ok"} \cup Starting \cup Tearing \cup Ended,
            runtime : {"claude", "opencode"}, keep : BOOLEAN,
            attempt : 0..MaxContinue, read : SUBSET Beads, termed : BOOLEAN, logged : BOOLEAN]
Asleep == [pc |-> "idle", runtime |-> "claude", keep |-> FALSE, attempt |-> 0, read |-> {}, termed |-> FALSE,
           logged |-> FALSE]

RunnerTypeOK ==
    /\ process \in [Beads -> Process]
    /\ dirs \subseteq Beads /\ states \subseteq Beads /\ settings \subseteq Beads /\ trusted \subseteq Beads
    /\ stops \in 0..MaxStops

RunnerInit ==
    /\ process = [b \in Beads |-> Asleep]
    /\ dirs = {} /\ states = {} /\ settings = {} /\ trusted = {} /\ stops = 0

Stop == stops < MaxStops /\ stops' = stops + 1
At(b, pc) == process[b].pc = pc
Step(b, from, to) == At(b, from) /\ process' = [process EXCEPT ![b].pc = to]

-----------------------------------------------------------------------------
(* main: what the cell already runs, then the plan.                         *)

\* Every directory under runs/, the hidden ones too.
Concurrency == Cardinality(dirs) + Cardinality(states)

Start(b, runtime, keep) ==
    /\ At(b, "idle")
    /\ process' = [process EXCEPT ![b] = [Asleep EXCEPT !.runtime = runtime, !.keep = keep,
                       !.pc = IF Concurrency >= MaxAgents THEN "refused" ELSE "counted"]]
    /\ UNCHANGED << dirs, states, settings, trusted, stops >>

-----------------------------------------------------------------------------
(* execute: cleanup is deferred before anything is made.                    *)

\* MUTANT of Teardown: a directory that is kept is kept with everything beside it.
TeardownUnlessKept(p) ==
    IF p.keep THEN "done" ELSE IF p.runtime = "claude" THEN "untrust" ELSE "rm settings"

\* Only claude has a trust file; for the other runtime the path is empty.
Teardown(p) == IF p.runtime = "claude" THEN "untrust" ELSE "rm settings"

MakeRunDir(b) ==
    /\ \/ Step(b, "counted", "state dir") /\ dirs' = dirs \cup {b} /\ UNCHANGED stops
       \/ Step(b, "counted", Teardown(process[b])) /\ Stop /\ UNCHANGED dirs
    /\ UNCHANGED << states, settings, trusted >>

\* A state directory that cannot be made is os.Exit: no deferred call runs.
MakeStateDir(b) ==
    LET p == process[b] IN
    /\ \/ p.runtime = "claude" /\ Step(b, "state dir", "trust") /\ UNCHANGED << states, stops >>
       \/ p.runtime = "opencode" /\ Step(b, "state dir", "settings") /\ states' = states \cup {b} /\ UNCHANGED stops
       \/ p.runtime = "opencode" /\ Step(b, "state dir", "exited") /\ Stop /\ UNCHANGED states
    /\ UNCHANGED << dirs, settings, trusted >>

\* trustWorkspace reads the whole file and writes it back.
ReadTrust(b) ==
    /\ \E pc \in {<< "trust", "trusting" >>, << "untrust", "untrusting" >>} :
        At(b, pc[1]) /\ process' = [process EXCEPT ![b].pc = pc[2], ![b].read = trusted]
    /\ UNCHANGED << dirs, states, settings, trusted, stops >>

WriteTrust(b) ==
    /\ \/ At(b, "trusting") /\ trusted' = process[b].read \cup {b}
          /\ process' = [process EXCEPT ![b].pc = "settings", ![b].read = {}]
       \/ At(b, "untrusting") /\ trusted' = process[b].read \ {b}
          /\ process' = [process EXCEPT ![b].pc = "rm settings", ![b].read = {}]
    /\ UNCHANGED << dirs, states, settings, stops >>

WriteSettings(b) ==
    /\ \/ Step(b, "settings", "agent") /\ settings' = settings \cup {b} /\ UNCHANGED stops
       \/ Step(b, "settings", Teardown(process[b])) /\ Stop /\ UNCHANGED settings
    /\ UNCHANGED << dirs, states, trusted >>

\* The agent ends by itself, or its group is killed at the deadline.
AgentExits(b) ==
    /\ \/ Step(b, "agent", "exited ok")
       \/ Step(b, "agent", Teardown(process[b]))
    /\ UNCHANGED << dirs, states, settings, trusted, stops >>

Deadline(b) ==
    /\ Step(b, "agent", Teardown(process[b])) \/ Step(b, "exited ok", Teardown(process[b]))
    /\ UNCHANGED << dirs, states, settings, trusted, stops >>

\* MUTANT of Resume: one time more than maxContinue.
ResumeOnceMore(b) ==
    /\ At(b, "exited ok") /\ ~process[b].termed
    /\ process[b].runtime = "opencode" /\ process[b].attempt <= MaxContinue
    /\ process' = [process EXCEPT ![b].pc = "agent", ![b].attempt = @ + 1]
    /\ UNCHANGED << dirs, states, settings, trusted, stops >>

\* beadClosed is asked, and anything but a plain "open" is a yes.
Resume(b) ==
    /\ At(b, "exited ok") /\ ~process[b].termed
    /\ process[b].runtime = "opencode" /\ process[b].attempt < MaxContinue
    /\ process' = [process EXCEPT ![b].pc = "agent", ![b].attempt = @ + 1]
    /\ UNCHANGED << dirs, states, settings, trusted, stops >>

Finish(b) ==
    /\ Step(b, "exited ok", Teardown(process[b]))
    /\ UNCHANGED << dirs, states, settings, trusted, stops >>

\* A removal that fails is logged, and the next one tried.
LogsAndGoes(b, from, to) ==
    At(b, from) /\ Stop /\ process' = [process EXCEPT ![b].pc = to, ![b].logged = TRUE]

RemoveSettings(b) ==
    /\ \/ Step(b, "rm settings", "rm state") /\ settings' = settings \ {b} /\ UNCHANGED stops
       \/ LogsAndGoes(b, "rm settings", "rm state") /\ UNCHANGED settings
    /\ UNCHANGED << dirs, states, trusted >>

\* Only opencode has a state directory; for the other runtime the path is empty.
AfterState(p) == IF p.keep THEN "done" ELSE "rm dir"

RemoveState(b) ==
    LET p == process[b] IN
    /\ \/ /\ Step(b, "rm state", AfterState(p)) /\ UNCHANGED stops
          /\ states' = IF p.runtime = "opencode" THEN states \ {b} ELSE states
       \/ p.runtime = "opencode" /\ LogsAndGoes(b, "rm state", AfterState(p)) /\ UNCHANGED states
    /\ UNCHANGED << dirs, settings, trusted >>

RemoveRunDir(b) ==
    /\ \/ Step(b, "rm dir", "done") /\ dirs' = dirs \ {b} /\ UNCHANGED stops
       \/ LogsAndGoes(b, "rm dir", "done") /\ UNCHANGED dirs
    /\ UNCHANGED << states, settings, trusted >>

-----------------------------------------------------------------------------
(* The dispatcher's signals. NotifyContext stands from just before the      *)
(* agent starts until execute returns, and cleanup runs after that.         *)

Terminate(b) ==
    /\ process[b].pc \notin {"idle"} \cup Ended /\ ~process[b].termed /\ Stop
    /\ process' = [process EXCEPT ![b].termed = TRUE,
           ![b].pc = CASE @ = "agent"     -> Teardown(process[b])
                       [] @ = "exited ok" -> @
                       [] OTHER           -> "killed"]
    /\ UNCHANGED << dirs, states, settings, trusted >>

Kill(b) ==
    /\ process[b].termed /\ process[b].pc \notin Ended
    /\ process' = [process EXCEPT ![b].pc = "killed"]
    /\ UNCHANGED << dirs, states, settings, trusted, stops >>

\* The bead is dispatched again.
Forget(b) ==
    /\ process[b].pc \in Ended
    /\ process' = [process EXCEPT ![b] = Asleep]
    /\ UNCHANGED << dirs, states, settings, trusted, stops >>

RunnerSteps(b) ==
    \/ MakeRunDir(b) \/ MakeStateDir(b) \/ ReadTrust(b) \/ WriteTrust(b) \/ WriteSettings(b)
    \/ Deadline(b) \/ Finish(b) \/ RemoveSettings(b) \/ RemoveState(b) \/ RemoveRunDir(b)

RunnerNext ==
    \E b \in Beads :
        \/ \E runtime \in {"claude", "opencode"}, keep \in BOOLEAN : Start(b, runtime, keep)
        \/ RunnerSteps(b) \/ AgentExits(b) \/ Resume(b) \/ Terminate(b) \/ Kill(b) \/ Forget(b)

-----------------------------------------------------------------------------
(* What is checked.                                                         *)

\* A claude run leaves alone what an opencode run that was killed left of its state.
NothingLeft(b) ==
    /\ b \notin settings /\ (b \in states => process[b].runtime = "claude")
    /\ b \in dirs => process[b].keep

\* A run that started ends, by its deadline at the latest, and unless a signal struck
\* where nothing catches it, the process gave up with os.Exit, or it logged that something
\* would not be removed, it leaves neither the token nor its runtime's state behind, and
\* its directory only when it was to be kept.
RunsAreTornDown ==
    \A b \in Beads :
        process[b].pc \in Starting ~> \/ process[b].pc \in {"killed", "exited"}
                                      \/ process[b].pc = "done" /\ (NothingLeft(b) \/ process[b].logged)

-----------------------------------------------------------------------------
(* What the comments say and the code does not do.                         *)

\* plan.go, Concurrency: "Counted from the run directories", "Directories only. The
\* settings file for a live run is a sibling of these, and counting it would double
\* every run": a run is refused only when the cell has as many as the budget allows.
RefusedOnlyAtTheCeiling ==
    [][\A b \in Beads : At(b, "idle") /\ process'[b].pc = "refused" => Cardinality(dirs) >= MaxAgents]_runnerVars
=============================================================================
