------------------------------ MODULE RunPlan ------------------------------
(* internal/runner's plan.go and catalogue.go: what a run of a bead is to   *)
(* be, from what the caller asks and from the deployed catalogue of roles   *)
(* and models, or why there is none.  A choice per key: the catalogue's     *)
(* entry where it has one, the built-in table's otherwise.                  *)
EXTENDS Naturals, FiniteSets

CONSTANTS
    Roles, Models,
    ProviderOf,     \* a model's first segment; "none" when it has no two segments
    BuiltInLimits,  \* GatewayModels
    DefaultModel,   \* of the built-in roles
    Commands,       \* what a shell may be asked to run
    Rigs, CodeRig, BeadPrefix, PrefixOf

VARIABLES
    catalogue,      \* /etc/workgraph/models.json, as read
    plan

runPlanVars == << catalogue, plan >>

BuiltInRoles == {"polecat", "crew"}
Runtimes == {"claude", "opencode"}
Nothing == "nothing"

ASSUME RunPlanAssumption == DefaultModel \in Models /\ Nothing \notin Models /\ CodeRig \in Rigs

NoCatalogue == [runtimes |-> << >>, models |-> << >>, limits |-> {}]
Partial(S, T) == UNION {[D -> T] : D \in SUBSET S}
Catalogues == [runtimes : Partial(Roles, Runtimes), models : Partial(Roles, Models), limits : SUBSET Models]

-----------------------------------------------------------------------------
(* catalogue.go: the lookups, and what Validate refuses.                    *)

RuntimeFor(c, role) ==
    IF role \in DOMAIN c.runtimes THEN c.runtimes[role]
    ELSE IF role \in BuiltInRoles THEN "claude" ELSE Nothing

ModelFor(c, role) ==
    IF role \in DOMAIN c.models THEN c.models[role]
    ELSE IF role \in BuiltInRoles THEN DefaultModel ELSE Nothing

LimitsKnown(c, model) == model \in c.limits \cup BuiltInLimits

Validate(c) ==
    \A role \in DOMAIN c.models :
        ProviderOf[c.models[role]] # "none" /\ LimitsKnown(c, c.models[role])

\* What the dispatcher tells the control plane the run is on.
PlannedFor(c, role) == << RuntimeFor(c, role), ModelFor(c, role) >>

-----------------------------------------------------------------------------
(* plan.go: the allowlist, the graph, the two runtimes.                     *)

Denied == {"git push", "gh", "curl", "rm"}
CrewCommands == {"bd", "wg-browse"}
Grants(role) == CASE role = "polecat" -> Commands [] role = "crew" -> CrewCommands [] OTHER -> {}

\* No program sets a Spec's AllowedTools: every run has its role's list.
\* Claude's deny list wins over its allow list; OpenCode's last pattern wins, and the
\* keys of the map it is written from come out in order, "*" first.
Permitted(role) == Grants(role) \ Denied

\* rigOwningBead: the rig that records the bead's prefix, or the one with the code.
GraphRig == IF \E r \in Rigs : PrefixOf[r] = BeadPrefix
            THEN CHOOSE r \in Rigs : PrefixOf[r] = BeadPrefix ELSE CodeRig

Refused(why) == [why |-> why]

\* MUTANT of Resolve: what the runtime cannot reach is looked for in the request only.
ResolveTooSoon(c, s) ==
    LET runtime == IF s.runtime = Nothing THEN RuntimeFor(c, s.role) ELSE s.runtime
        model   == IF s.model = Nothing THEN ModelFor(c, s.role) ELSE s.model
    IN  [runtime |-> runtime, model |-> model,
         reachable |-> ~(runtime = "opencode" /\ s.model # Nothing /\ ProviderOf[s.model] = "anthropic")]

\* The request's own runtime and model win; the reach is checked after the lookup.
Resolve(c, s) ==
    LET runtime == IF s.runtime = Nothing THEN RuntimeFor(c, s.role) ELSE s.runtime
        model   == IF s.model = Nothing THEN ModelFor(c, s.role) ELSE s.model
    IN  [runtime |-> runtime, model |-> model,
         reachable |-> ~(runtime = "opencode" /\ model # Nothing /\ ProviderOf[model] = "anthropic")]

Bounded(deadline) == deadline = "between the bounds"

\* A Claude run goes through the cell's own settings, to Anthropic models only.
PlanClaude(s, r) ==
    IF ProviderOf[r.model] # "anthropic" THEN Refused("another provider")
    ELSE [runtime |-> "claude", model |-> r.model, via |-> "settings", role |-> s.role,
          allows |-> Permitted(s.role), reads |-> {CodeRig, GraphRig}, graph |-> GraphRig, asked |-> s]

\* An OpenCode run needs the endpoint, the model's limits, and for Gemini the proxy,
\* which holds the token itself. Everything under town/ is readable.
PlanOpenCode(c, s, r) ==
    IF ~s.gateway THEN Refused("no gateway base")
    ELSE IF ~LimitsKnown(c, r.model) THEN Refused("no limits")
    ELSE IF ProviderOf[r.model] = "none" THEN Refused("no provider")
    ELSE IF ProviderOf[r.model] = "google-ai-studio" /\ ~s.proxy THEN Refused("no proxy")
    ELSE [runtime |-> "opencode", model |-> r.model, role |-> s.role,
          via |-> IF ProviderOf[r.model] = "google-ai-studio" THEN "proxy" ELSE "compat",
          allows |-> Permitted(s.role), reads |-> Rigs, graph |-> GraphRig, asked |-> s]

\* The refusals, in their order: a bead's name, the cell, the instructions or the gateway
\* token that is not usable comes first.
New(c, s) ==
    LET r == Resolve(c, s) IN
    IF ~s.complete THEN Refused("incomplete")
    ELSE IF RuntimeFor(c, s.role) = Nothing THEN Refused("unknown role")
    ELSE IF r.runtime \notin Runtimes THEN Refused("unknown runtime")
    ELSE IF r.model = Nothing THEN Refused("no model tier")
    ELSE IF ~r.reachable THEN Refused("out of the runtime's reach")
    ELSE IF ~Bounded(s.deadline) THEN Refused("deadline")
    ELSE IF Grants(s.role) = {} THEN Refused("no tool allowlist")
    ELSE IF r.runtime = "claude" THEN PlanClaude(s, r)
    ELSE PlanOpenCode(c, s, r)

-----------------------------------------------------------------------------
(* The proxy is there only with a gateway, and may still fail to start.     *)
Specs == {s \in [role : Roles, runtime : Runtimes \cup {Nothing, "another"}, model : Models \cup {Nothing},
                 complete : BOOLEAN, gateway : BOOLEAN, proxy : BOOLEAN,
                 deadline : {"between the bounds", "out of bounds"}] :
              s.proxy => s.gateway}

IsPlan == "runtime" \in DOMAIN plan

RunPlanTypeOK ==
    /\ catalogue \in Catalogues
    /\ IsPlan => plan.runtime \in Runtimes /\ plan.model \in Models /\ plan.asked \in Specs

\* An absent file is no catalogue; one that does not validate stops the run.
RunPlanInit ==
    /\ catalogue \in {c \in Catalogues : Validate(c)} /\ plan = Refused("none yet")

\* One process makes one plan.
MakePlan(s) ==
    /\ plan = Refused("none yet")
    /\ plan' = New(catalogue, s) /\ UNCHANGED catalogue

RunPlanNext == \E s \in Specs : MakePlan(s)

-----------------------------------------------------------------------------
(* What is checked.                                                         *)

\* A run that is planned can be run, and is what was reported of it: its runtime can
\* address its model, with the limits and the endpoint that takes; a run nobody
\* overrode is on what the dispatcher reports (PlannedFor); the agent can read its code
\* and the graph that holds its bead, and may run nothing that is denied to every role.
PlansCanRun ==
    IsPlan =>
        /\ plan.runtime = "claude" <=> ProviderOf[plan.model] = "anthropic"
        /\ plan.runtime = "opencode" => plan.asked.gateway /\ LimitsKnown(catalogue, plan.model)
        /\ plan.via = "proxy" <=> ProviderOf[plan.model] = "google-ai-studio"
        /\ plan.via = "proxy" => plan.asked.proxy
        /\ plan.asked.runtime = Nothing /\ plan.asked.model = Nothing =>
               << plan.runtime, plan.model >> = PlannedFor(catalogue, plan.role)
        /\ {CodeRig, plan.graph} \subseteq plan.reads
        /\ (\E r \in Rigs : PrefixOf[r] = BeadPrefix) => PrefixOf[plan.graph] = BeadPrefix
        /\ plan.allows \cap Denied = {}
=============================================================================
