------------------------------- MODULE MCNode -------------------------------
(* The programs of an execution node, and the monitor that watches them,    *)
(* each on a small instance of its own: a behaviour is one of `area`'s, the *)
(* others stand.                                                            *)
EXTENDS Monitor, Runner, RunPlan, Witness

VARIABLE area

nodeVars == << area, monitorVars, runnerVars, runPlanVars, witnessVars >>

MCProviderOf ==
    [m \in Models |->
        CASE m = "sonnet"           -> "anthropic"
          [] m \in {"kimi", "new"}  -> "workers-ai"
          [] m = "gemini"           -> "google-ai-studio"
          [] OTHER                  -> "none"]
MCPrefixOf == [r \in Rigs |-> IF r = "sandbox" THEN "sa" ELSE "por7"]
MCTownRigs == << "portaljs", "sandbox" >>
MCRigOf == [p \in Polecats |-> "sandbox"]
MCRecipients == [r \in {"portaljs", "sandbox"} |-> {"lead", "second"}]

Stand(a) ==
    /\ UNCHANGED area
    /\ a # "monitor" => UNCHANGED monitorVars
    /\ a # "runner" => UNCHANGED runnerVars
    /\ a # "plan" => UNCHANGED runPlanVars
    /\ a # "witness" => UNCHANGED witnessVars

NodeInit ==
    /\ area \in {"monitor", "runner", "plan", "witness"}
    /\ MonitorInit /\ RunnerInit /\ RunPlanInit /\ WitnessInit
    /\ area # "plan" => catalogue = NoCatalogue
    /\ area # "witness" => \A p \in Polecats : polecat[p] = Idle

NodeNext ==
    \/ area = "monitor" /\ MonitorNext /\ Stand("monitor")
    \/ area = "runner" /\ RunnerNext /\ Stand("runner")
    \/ area = "plan" /\ RunPlanNext /\ Stand("plan")
    \/ area = "witness" /\ WitnessNext /\ Stand("witness")

Fair(a, step) == area = a /\ step /\ Stand(a)

\* systemd's timer starts a monitor pass every interval and its timeout ends it; a runner
\* that is not killed goes on, and its deadline ends the agent; the witness's ticker fires
\* and each of its calls has a timeout.
NodeFairness ==
    /\ WF_nodeVars(Fair("monitor", Check \/ Publish))
    /\ WF_nodeVars(Fair("monitor", NextInterval))
    /\ \A b \in Beads : WF_nodeVars(Fair("runner", RunnerSteps(b)))
    /\ WF_nodeVars(Fair("witness", Ticker))
    /\ WF_nodeVars(Fair("witness", PassSteps))

NodeSpec == NodeInit /\ [][NodeNext]_nodeVars /\ NodeFairness

\* Every variable of every part has its type.
NodeTypesOK == MonitorTypeOK /\ RunnerTypeOK /\ RunPlanTypeOK /\ WitnessTypeOK

\* The liveness of the parts, of the behaviours that are theirs: cmd/monitor's passes,
\* cmd/runner's cleanup, cmd/witness's sweep.
AlertsFollow == area = "monitor" => AlertsFollowTheFacts
RunsTornDown == area = "runner" => RunsAreTornDown
WorkAtRiskIsTold == area = "witness" => AtRiskIsTold
=============================================================================
