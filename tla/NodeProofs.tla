------------------------------ MODULE NodeProofs ------------------------------
(***************************************************************************)
(* The programs of an execution node and their monitor: a plan can be run, *)
(* work at risk is one item of an inbox, and every variable has its type.  *)
(***************************************************************************)
EXTENDS MCNode, SequenceTheorems, TLAPS

(***************************************************************************)
(* The plan of a run.                                                      *)
(***************************************************************************)

\* A role that has a runtime has one of the two; a model is one there is, or none.
LEMMA LookupTypes ==
  ASSUME NEW c \in Catalogues, NEW role \in Roles
  PROVE  /\ RuntimeFor(c, role) \in Runtimes \cup {Nothing}
         /\ ModelFor(c, role) \in Models \cup {Nothing}
<1>1. c.runtimes \in Partial(Roles, Runtimes) /\ c.models \in Partial(Roles, Models)
  BY DEF Catalogues
<1>2. PICK D \in SUBSET Roles : c.runtimes \in [D -> Runtimes]
  BY <1>1 DEF Partial
<1>3. PICK E \in SUBSET Roles : c.models \in [E -> Models]
  BY <1>1 DEF Partial
<1> QED
  BY <1>2, <1>3, RunPlanAssumption DEF RunPlanAssumption, RuntimeFor, ModelFor, Runtimes

\* The graph of a bead is in a rig that may be read, its own if there is one.
LEMMA GraphIsARig ==
  /\ GraphRig \in Rigs
  /\ (\E r \in Rigs : PrefixOf[r] = BeadPrefix) => PrefixOf[GraphRig] = BeadPrefix
  BY RunPlanAssumption DEF RunPlanAssumption, GraphRig

\* A request that is not refused is planned for one of the two runtimes, which reaches its
\* model; what nobody asked for is what the catalogue says.
LEMMA ResolvedIsReachable ==
  ASSUME NEW c \in Catalogues, NEW s \in Specs, NEW r, r = Resolve(c, s),
         RuntimeFor(c, s.role) # Nothing, r.runtime \in Runtimes, r.model # Nothing, r.reachable
  PROVE  /\ r.runtime \in Runtimes /\ r.model \in Models
         /\ r.runtime = "opencode" => ProviderOf[r.model] # "anthropic"
         /\ s.runtime = Nothing /\ s.model = Nothing
              => << r.runtime, r.model >> = PlannedFor(c, s.role)
<1>1. s.role \in Roles /\ s.model \in Models \cup {Nothing}
  BY DEF Specs
<1>2. /\ RuntimeFor(c, s.role) \in Runtimes
      /\ ModelFor(c, s.role) \in Models \cup {Nothing}
  BY <1>1, LookupTypes
<1>3. /\ r.runtime = IF s.runtime = Nothing THEN RuntimeFor(c, s.role) ELSE s.runtime
      /\ r.model = IF s.model = Nothing THEN ModelFor(c, s.role) ELSE s.model
      /\ r.reachable = ~(r.runtime = "opencode" /\ r.model # Nothing /\ ProviderOf[r.model] = "anthropic")
  BY DEF Resolve
<1> QED
  BY <1>1, <1>2, <1>3 DEF PlannedFor

\* What is known of a plan, whatever the catalogue.
GoodPlan(c, p) ==
    /\ p.runtime \in Runtimes /\ p.model \in Models /\ p.asked \in Specs
    /\ p.runtime = "claude" <=> ProviderOf[p.model] = "anthropic"
    /\ p.runtime = "opencode" => p.asked.gateway /\ LimitsKnown(c, p.model)
    /\ p.via = "proxy" <=> ProviderOf[p.model] = "google-ai-studio"
    /\ p.via = "proxy" => p.asked.proxy
    /\ p.asked.runtime = Nothing /\ p.asked.model = Nothing
         => << p.runtime, p.model >> = PlannedFor(c, p.role)
    /\ {CodeRig, p.graph} \subseteq p.reads
    /\ (\E r \in Rigs : PrefixOf[r] = BeadPrefix) => PrefixOf[p.graph] = BeadPrefix
    /\ p.allows \cap Denied = {}

\* A plan for Claude is a good one.
LEMMA ClaudePlans ==
  ASSUME NEW c \in Catalogues, NEW s \in Specs, NEW r, r.runtime = "claude", r.model \in Models,
         s.runtime = Nothing /\ s.model = Nothing => << r.runtime, r.model >> = PlannedFor(c, s.role)
  PROVE  "runtime" \in DOMAIN PlanClaude(s, r) => GoodPlan(c, PlanClaude(s, r))
<1>1. CASE ProviderOf[r.model] # "anthropic"
  BY <1>1 DEF PlanClaude, Refused
<1>2. CASE ProviderOf[r.model] = "anthropic"
  <2> DEFINE p == PlanClaude(s, r)
  <2>1. /\ p.runtime = "claude" /\ p.model = r.model /\ p.via = "settings" /\ p.role = s.role
        /\ p.allows = Permitted(s.role) /\ p.reads = {CodeRig, GraphRig} /\ p.graph = GraphRig
        /\ p.asked = s
    BY <1>2 DEF PlanClaude
  <2>2. p.allows \cap Denied = {}
    BY <2>1 DEF Permitted
  <2>3. p.via # "proxy" /\ ProviderOf[p.model] # "google-ai-studio" /\ p.runtime \in Runtimes
    BY <1>2, <2>1 DEF Runtimes
  <2> QED
    BY <1>2, <2>1, <2>2, <2>3, GraphIsARig DEF GoodPlan
<1> QED
  BY <1>1, <1>2

\* And so is one for OpenCode.
LEMMA OpenCodePlans ==
  ASSUME NEW c \in Catalogues, NEW s \in Specs, NEW r, r.runtime = "opencode", r.model \in Models,
         ProviderOf[r.model] # "anthropic",
         s.runtime = Nothing /\ s.model = Nothing => << r.runtime, r.model >> = PlannedFor(c, s.role)
  PROVE  "runtime" \in DOMAIN PlanOpenCode(c, s, r) => GoodPlan(c, PlanOpenCode(c, s, r))
<1> DEFINE google == ProviderOf[r.model] = "google-ai-studio"
<1>1. CASE \/ ~s.gateway \/ ~LimitsKnown(c, r.model)
           \/ ProviderOf[r.model] = "none" \/ (google /\ ~s.proxy)
  BY <1>1 DEF PlanOpenCode, Refused
<1>2. CASE /\ s.gateway /\ LimitsKnown(c, r.model)
           /\ ProviderOf[r.model] # "none" /\ (google => s.proxy)
  <2> DEFINE p == PlanOpenCode(c, s, r)
  <2>1. /\ p.runtime = "opencode" /\ p.model = r.model /\ p.role = s.role
        /\ p.via = (IF google THEN "proxy" ELSE "compat")
        /\ p.allows = Permitted(s.role) /\ p.reads = Rigs /\ p.graph = GraphRig
        /\ p.asked = s
    BY <1>2 DEF PlanOpenCode
  <2>2. p.allows \cap Denied = {}
    BY <2>1 DEF Permitted
  <2>3. (p.via = "proxy" <=> google) /\ p.runtime \in Runtimes /\ p.runtime # "claude"
    BY <2>1 DEF Runtimes
  <2>4. {CodeRig, p.graph} \subseteq p.reads
    BY <2>1, GraphIsARig, RunPlanAssumption DEF RunPlanAssumption
  <2> QED
    BY <1>2, <2>1, <2>2, <2>3, <2>4, GraphIsARig DEF GoodPlan
<1> QED
  BY <1>1, <1>2

\* Whatever is asked for, what is not refused is a good plan.
LEMMA NewPlans ==
  ASSUME NEW c \in Catalogues, NEW s \in Specs
  PROVE  "runtime" \in DOMAIN New(c, s) => GoodPlan(c, New(c, s))
<1> DEFINE r == Resolve(c, s)
<1>1. CASE /\ s.complete /\ RuntimeFor(c, s.role) # Nothing /\ r.runtime \in Runtimes
           /\ r.model # Nothing /\ r.reachable /\ Bounded(s.deadline) /\ Grants(s.role) # {}
  <2>1. New(c, s) = IF r.runtime = "claude" THEN PlanClaude(s, r) ELSE PlanOpenCode(c, s, r)
    BY <1>1 DEF New
  <2>2. /\ r.runtime \in Runtimes /\ r.model \in Models
        /\ r.runtime = "opencode" => ProviderOf[r.model] # "anthropic"
        /\ s.runtime = Nothing /\ s.model = Nothing
              => << r.runtime, r.model >> = PlannedFor(c, s.role)
    BY <1>1, ResolvedIsReachable
  <2>3. r.runtime = "claude" \/ r.runtime = "opencode"
    BY <2>2 DEF Runtimes
  <2> HIDE DEF r
  <2> QED
    BY <2>1, <2>2, <2>3, ClaudePlans, OpenCodePlans
<1>2. CASE \/ ~s.complete \/ RuntimeFor(c, s.role) = Nothing \/ r.runtime \notin Runtimes
           \/ r.model = Nothing \/ ~r.reachable \/ ~Bounded(s.deadline) \/ Grants(s.role) = {}
  <2>1. \E why : New(c, s) = [why |-> why]
    BY <1>2 DEF New, Refused
  <2> QED
    BY <2>1
<1> QED
  BY <1>1, <1>2

PlanInv == catalogue \in Catalogues /\ (IsPlan => GoodPlan(catalogue, plan))

\* Before the first request there is no plan.
LEMMA PlanStarts == RunPlanInit => PlanInv
  BY DEF RunPlanInit, PlanInv, IsPlan, Refused

\* Every request and every deployed catalogue keep the invariant.
LEMMA PlanStep == PlanInv /\ [RunPlanNext]_runPlanVars => PlanInv'
<1> SUFFICES ASSUME PlanInv, [RunPlanNext]_runPlanVars PROVE PlanInv'
  OBVIOUS
<1>1. CASE UNCHANGED runPlanVars
  BY <1>1 DEF PlanInv, runPlanVars, IsPlan
<1>2. CASE RunPlanNext
  <2>1. PICK s \in Specs : plan' = New(catalogue, s) /\ catalogue' = catalogue
    BY <1>2 DEF RunPlanNext, MakePlan
  <2> QED
    BY <2>1, NewPlans DEF PlanInv, IsPlan
<1> QED
  BY <1>1, <1>2

(***************************************************************************)
(* The witness.                                                            *)
(***************************************************************************)

Reasons == {"no-heartbeat-yet", "exiting", "silent-session", "working", "needs-recovery", "git-dirty", "not-idle",
            "never-submitted", "completed", "idle-pool-member", "idle", "nuke-failed"}
Decision == [polecat : Polecats, action : {"observe", "ambiguous", "escalate", "nuke"}, reason : Reasons]

\* The four situations there are: unsafely stored work is always "work-at-risk".
Situations == {"stalled", "never-submitted", "work-at-risk", "other"}

SameKey(r, s) == r.user = s.user /\ r.polecat = s.polecat /\ r.situation = s.situation

\* What makes two rows of one problem impossible: a row names one of the four situations,
\* and there is one live row per person, polecat and situation.
WitnessInv ==
    /\ WitnessTypeOK
    /\ decisions \in Seq(Decision)
    /\ \A r \in inbox : r.situation \in Situations
    /\ \A r, s \in inbox : SameKey(r, s) => r = s

\* Every look of a polecat is one.
LEMMA ConditionsAreFields == Conditions \subseteq Fields
<1>1. Idle \in Fields
  BY DEF Idle, Fields
<1>2. Gone \in Fields /\ Finished \in Fields
  BY DEF Gone, Finished, Idle, Fields
<1>3. Unsubmitted \in Fields
  BY DEF Unsubmitted, Finished, Idle, Fields
<1>4. \A hb \in {"none", "exiting", "fresh", "stale"} : Working(hb) \in Fields
  BY DEF Working, Idle, Fields
<1>5. \A r \in {"", "git-dirty", "not-idle"} : AtRisk(r) \in Fields
  BY DEF AtRisk, Finished, Idle, Fields
<1> QED
  BY <1>1, <1>2, <1>3, <1>4, <1>5 DEF Conditions

\* What is decided of a polecat has a name.
LEMMA DecisionTypes ==
  ASSUME NEW p \in Polecats, NEW f \in Fields
  PROVE  [polecat |-> p, action |-> Decide(f).action, reason |-> Decide(f).reason] \in Decision
<1>1. f.reason \in {"", "git-dirty", "not-idle"}
  BY DEF Fields
<1> DEFINE v == Decide(f)
<1>2. v.action \in {"observe", "ambiguous", "escalate", "nuke"} /\ v.reason \in Reasons
  <2>1. CASE f.session
    BY <2>1 DEF Decide, Verdict, Reasons
  <2>2. CASE ~f.session /\ f.recovery
    BY <1>1, <2>2 DEF Decide, Verdict, Reasons
  <2>3. CASE ~f.session /\ ~f.recovery
    BY <2>3 DEF Decide, Verdict, Reasons
  <2> QED
    BY <2>1, <2>2, <2>3
<1> QED
  BY <1>2 DEF Decision

\* What a decision adds to the rows.
LEMMA RaiseTypes ==
  ASSUME WitnessInv, NEW d \in Decision, NEW r \in Raise(inbox, d), r \notin inbox
  PROVE  /\ r \in Rows /\ r.situation \in Situations /\ r.status = "open"
         /\ \A s \in inbox : ~SameKey(r, s)
<1>1. /\ r \in [user : Recipients[RigOf[d.polecat]], polecat : {d.polecat},
                situation : {Situation(d)}, status : {"open"}]
      /\ ~\E s \in inbox : s.user = r.user /\ s.polecat = r.polecat /\ s.situation = r.situation
  BY DEF Raise
<1>2. d.polecat \in Polecats /\ RigOf[d.polecat] \in DOMAIN Recipients
  BY WitnessAssumption DEF WitnessAssumption, Decision
<1>3. Situation(d) \in Situations
  BY DEF Situation, Situations
<1>4. r.user \in UNION { Recipients[rig] : rig \in DOMAIN Recipients }
  BY <1>1, <1>2
<1>5. r \in Rows
  BY <1>1, <1>2, <1>3, <1>4 DEF Rows, Situations
<1> QED
  BY <1>1, <1>3, <1>5 DEF SameKey

\* A report, whole or cut off, leaves one live row per person, polecat and situation.
LEMMA IngestKeepsRows ==
  ASSUME WitnessInv, NEW ds \in Seq(Decision), inbox' = Ingest(inbox, ds)
  PROVE  /\ inbox' \subseteq Rows
         /\ \A r \in inbox' : r.situation \in Situations
         /\ \A r, s \in inbox' : SameKey(r, s) => r = s
<1>1. \A r \in inbox' : r \in inbox \/ \E i \in DOMAIN ds : r \in Raise(inbox, ds[i])
  BY DEF Ingest
<1>2. \A i \in DOMAIN ds : ds[i] \in Decision
  OBVIOUS
<1>3. \A r \in inbox' \ inbox : /\ r \in Rows /\ r.situation \in Situations /\ r.status = "open"
                                /\ \A s \in inbox : ~SameKey(r, s)
  BY <1>1, <1>2, RaiseTypes
<1>4. \A r \in inbox : r \in Rows /\ r.situation \in Situations
  BY DEF WitnessInv, WitnessTypeOK
<1>5. ASSUME NEW r \in inbox', NEW s \in inbox', SameKey(r, s)
      PROVE  r = s
  <2>1. CASE r \in inbox /\ s \in inbox
    BY <1>5, <2>1 DEF WitnessInv
  <2>2. CASE r \in inbox /\ s \notin inbox
    BY <1>3, <1>5, <2>2 DEF SameKey
  <2>3. CASE r \notin inbox /\ s \in inbox
    BY <1>3, <1>5, <2>3
  <2>4. CASE r \notin inbox /\ s \notin inbox
    <3>1. r \in Rows /\ s \in Rows /\ r.status = s.status
      BY <1>3, <2>4
    <3> QED
      BY <1>5, <3>1 DEF SameKey, Rows
  <2> QED
    BY <2>1, <2>2, <2>3, <2>4
<1> QED
  BY <1>3, <1>4, <1>5

\* A pass is over the rigs that are left of those there are.
Lefts == { SubSeq(TownRigs, i, Len(TownRigs)) : i \in 1 .. (Len(TownRigs) + 1) }

\* What is left of the town's rigs after the first is left of them.
LEMMA LeftRigs ==
  /\ TownRigs \in Lefts /\ << >> \in Lefts
  /\ \A t \in Lefts : t # << >> => Tail(t) \in Lefts
<1> DEFINE n == Len(TownRigs)
<1>1. TownRigs \in Seq(DOMAIN Recipients) /\ n \in Nat
  BY WitnessAssumption DEF WitnessAssumption
<1>2. TownRigs = SubSeq(TownRigs, 1, n) /\ 1 \in 1 .. (n + 1)
  BY <1>1, SubSeqFull
<1>3. << >> = SubSeq(TownRigs, n + 1, n) /\ n + 1 \in 1 .. (n + 1)
  BY <1>1, SubSeqEmpty
<1>4. ASSUME NEW t \in Lefts, t # << >>
      PROVE  Tail(t) \in Lefts
  <2>1. PICK i \in 1 .. (n + 1) : t = SubSeq(TownRigs, i, n)
    BY DEF Lefts
  <2>2. i # n + 1
    BY <1>3, <1>4, <2>1
  <2>3. i \in 1 .. n /\ n \in i .. n /\ i + 1 \in 1 .. (n + 1)
    BY <1>1, <2>2
  <2>4. Tail(t) = SubSeq(TownRigs, i + 1, n)
    BY <1>1, <2>1, <2>3, HeadTailOfSubSeq
  <2> QED
    BY <2>3, <2>4 DEF Lefts
<1> QED
  BY <1>2, <1>3, <1>4 DEF Lefts

\* A step that leaves the inbox alone and gives everything else its type.
LEMMA InboxStands ==
  ASSUME WitnessInv, UNCHANGED inbox,
         polecat' \in [Polecats -> Conditions], event' \in BOOLEAN,
         sinceSweep' \in 0 .. Sweep, silence' \in 0 .. (Silence + 1), todo' \in Lefts,
         listing' \subseteq [polecat : Polecats, fields : Conditions],
         decisions' \in Seq(Decision), troubles' \in 0 .. MaxTroubles
  PROVE  WitnessInv'
<1>1. \A i \in DOMAIN decisions' : decisions'[i].polecat \in Polecats
  <2>1. \A i \in DOMAIN decisions' : decisions'[i] \in Decision
    OBVIOUS
  <2> QED
    BY <2>1 DEF Decision
<1> QED
  BY <1>1 DEF WitnessInv, WitnessTypeOK, Lefts

\* What happens is counted.
LEMMA TroubleTypes ==
  ASSUME WitnessInv, Trouble
  PROVE  troubles' \in 0 .. MaxTroubles
  BY WitnessAssumption DEF WitnessAssumption, WitnessInv, WitnessTypeOK, Trouble

\* The initial state satisfies the invariant of the witness.
LEMMA WitnessStarts ==
  ASSUME WitnessInit
  PROVE  WitnessInv
<1>1. {Gone, Idle, Working("fresh")} \subseteq Conditions
  BY DEF Conditions
<1>2. polecat \in [Polecats -> Conditions]
  BY <1>1 DEF WitnessInit
<1>3. 0 \in 0 .. Sweep /\ 0 \in 0 .. (Silence + 1) /\ 0 \in 0 .. MaxTroubles
  BY WitnessAssumption DEF WitnessAssumption
<1>4. event \in BOOLEAN /\ listing \subseteq [polecat : Polecats, fields : Conditions]
  BY DEF WitnessInit
<1>5. decisions \in Seq(Decision) /\ DOMAIN decisions = {} /\ inbox = {}
  BY DEF WitnessInit
<1>6. sinceSweep = 0 /\ silence = 0 /\ troubles = 0 /\ todo \in Lefts
  BY LeftRigs DEF WitnessInit
<1>7. WitnessTypeOK
  BY <1>2, <1>3, <1>4, <1>5, <1>6, ConditionsAreFields DEF WitnessTypeOK, Lefts
<1> QED
  BY <1>5, <1>7 DEF WitnessInv

\* Every step of the witness, of Gas Town and of the people keeps the invariant.
LEMMA WitnessStep ==
  ASSUME WitnessInv, [WitnessNext]_witnessVars
  PROVE  WitnessInv'
<1>0. /\ polecat \in [Polecats -> Conditions] /\ event \in BOOLEAN /\ Conditions \subseteq Fields
      /\ sinceSweep \in 0 .. Sweep /\ silence \in 0 .. (Silence + 1) /\ todo \in Lefts
      /\ listing \subseteq [polecat : Polecats, fields : Conditions]
      /\ decisions \in Seq(Decision) /\ troubles \in 0 .. MaxTroubles
  BY DEF WitnessInv, WitnessTypeOK, Lefts
<1>1. CASE Ticker
  <2>1. sinceSweep' \in 0 .. Sweep /\ silence' \in 0 .. (Silence + 1) /\ todo' \in {TownRigs, todo}
    BY <1>0, <1>1, WitnessAssumption DEF WitnessAssumption, Ticker
  <2>2. event' = FALSE /\ UNCHANGED << polecat, listing, decisions, inbox, troubles >>
    BY <1>1 DEF Ticker
  <2> QED
    BY <1>0, <2>1, <2>2, LeftRigs, InboxStands
<1>2. CASE RigsUnreadable
  <2>1. todo' = << >> /\ Trouble /\ UNCHANGED << polecat, event, sinceSweep, listing, decisions, inbox, silence >>
    BY <1>2 DEF RigsUnreadable
  <2> QED
    BY <1>0, <2>1, LeftRigs, TroubleTypes, InboxStands
<1>3. CASE ListRig
  <2> DEFINE here == { [polecat |-> p, fields |-> polecat[p]] : p \in { q \in Polecats : RigOf[q] = Rig /\ polecat[q].listed } }
  <2>1. here \subseteq [polecat : Polecats, fields : Conditions]
    BY <1>0
  <2>2. /\ listing' = here \/ listing' = listing
        /\ todo' = todo \/ (todo # << >> /\ todo' = Tail(todo))
        /\ troubles' = troubles \/ Trouble
        /\ UNCHANGED << polecat, event, sinceSweep, decisions, inbox, silence >>
    BY <1>3 DEF ListRig, InPass
  <2>3. listing' \subseteq [polecat : Polecats, fields : Conditions]
    BY <1>0, <2>1, <2>2
  <2>4. todo' \in Lefts /\ troubles' \in 0 .. MaxTroubles
    BY <1>0, <2>2, LeftRigs, TroubleTypes
  <2> QED
    BY <1>0, <2>2, <2>3, <2>4, InboxStands
<1>4. CASE \E l \in listing : DecideOne(l)
  <2>1. PICK l \in listing : DecideOne(l)
    BY <1>4
  <2> DEFINE f == [l.fields EXCEPT !.heartbeat = polecat[l.polecat].heartbeat]
             D(v) == [polecat |-> l.polecat, action |-> v.action, reason |-> v.reason]
  <2>2. l.polecat \in Polecats /\ l.fields \in Fields /\ polecat[l.polecat] \in Fields
    BY <1>0, <2>1
  <2>3. f \in Fields
    BY <2>2 DEF Fields
  <2>4. D(Decide(f)) \in Decision
    BY <2>2, <2>3, DecisionTypes
  <2>5. D(Verdict("escalate", "nuke-failed")) \in Decision
    BY <2>2 DEF Decision, Verdict, Reasons
  <2>6. /\ \/ decisions' = Append(decisions, D(Decide(f)))
           \/ decisions' = Append(decisions, D(Verdict("escalate", "nuke-failed")))
        /\ polecat' = polecat \/ polecat' = [polecat EXCEPT ![l.polecat] = Gone]
        /\ troubles' = troubles \/ Trouble
        /\ listing' = listing \ {l}
        /\ UNCHANGED << event, sinceSweep, todo, inbox, silence >>
    BY <2>1 DEF DecideOne
  <2>7. decisions' \in Seq(Decision)
    <3>1. \E d \in Decision : decisions' = Append(decisions, d)
      BY <2>4, <2>5, <2>6
    <3> QED
      BY <1>0, <3>1
  <2>8. polecat' \in [Polecats -> Conditions]
    BY <1>0, <2>6 DEF Conditions
  <2>9. troubles' \in 0 .. MaxTroubles
    BY <1>0, <2>6, TroubleTypes
  <2> QED
    BY <1>0, <2>6, <2>7, <2>8, <2>9, InboxStands
<1>5. CASE Deliver
  <2>1. PICK n \in 0 .. Len(decisions) :
            /\ inbox' = Ingest(inbox, SubSeq(decisions, 1, n))
            /\ silence' = IF n = 0 THEN silence ELSE 0
            /\ IF n = Len(decisions) THEN UNCHANGED troubles ELSE Trouble
    BY <1>5 DEF Deliver
  <2>2. /\ decisions' = << >> /\ todo' = Tail(todo) /\ todo # << >>
        /\ UNCHANGED << polecat, event, sinceSweep, listing >>
    BY <1>5 DEF Deliver, InPass
  <2>3. SubSeq(decisions, 1, n) \in Seq(Decision)
    <3>1. 1 \in Int /\ n \in Int /\ \A i \in 1 .. n : decisions[i] \in Decision
      BY <1>0
    <3> QED
      BY <3>1, SubSeqProperties
  <2>4. /\ inbox' \subseteq Rows
        /\ \A r \in inbox' : r.situation \in Situations
        /\ \A r, s \in inbox' : SameKey(r, s) => r = s
    BY <2>1, <2>3, IngestKeepsRows
  <2>5. todo' \in Lefts /\ troubles' \in 0 .. MaxTroubles /\ silence' \in 0 .. (Silence + 1)
    BY <1>0, <2>1, <2>2, LeftRigs, TroubleTypes, WitnessAssumption DEF WitnessAssumption
  <2>6. decisions' \in Seq(Decision) /\ DOMAIN decisions' = {}
    BY <2>2
  <2> QED
    BY <1>0, <2>2, <2>4, <2>5, <2>6 DEF WitnessInv, WitnessTypeOK, Lefts
<1>6. CASE WitnessRestarts
  <2>1. /\ event' = FALSE /\ sinceSweep' = 0 /\ todo' = TownRigs /\ listing' = {} /\ decisions' = << >>
        /\ Trouble /\ UNCHANGED << polecat, inbox, silence >>
    BY <1>6 DEF WitnessRestarts
  <2>2. sinceSweep' \in 0 .. Sweep
    BY <2>1, WitnessAssumption DEF WitnessAssumption
  <2>3. event' \in BOOLEAN
    BY <2>1
  <2>4. listing' \subseteq [polecat : Polecats, fields : Conditions] /\ decisions' \in Seq(Decision)
    BY <2>1
  <2>5. troubles' \in 0 .. MaxTroubles
    BY <2>1, TroubleTypes
  <2>6. /\ polecat' \in [Polecats -> Conditions] /\ silence' \in 0 .. (Silence + 1) /\ todo' \in Lefts
        /\ UNCHANGED inbox
    BY <1>0, <2>1, LeftRigs
  <2> QED
    BY <2>2, <2>3, <2>4, <2>5, <2>6, InboxStands
<1>7. CASE \E p \in Polecats : PolecatChanges(p)
  <2>1. PICK p \in Polecats : PolecatChanges(p)
    BY <1>7
  <2>2. PICK f \in Conditions : \E told \in BOOLEAN :
            polecat' = [polecat EXCEPT ![p] = f] /\ event' = (event \/ told)
    BY <2>1 DEF PolecatChanges
  <2>3. polecat' \in [Polecats -> Conditions]
    BY <1>0, <2>2
  <2>4. event' \in BOOLEAN
    BY <2>2
  <2>5. Trouble /\ UNCHANGED << sinceSweep, todo, listing, decisions, inbox, silence >>
    BY <2>1 DEF PolecatChanges
  <2> QED
    BY <1>0, <2>3, <2>4, <2>5, TroubleTypes, InboxStands
<1>8. CASE \E row \in inbox : PersonActs(row)
  <2>1. PICK row \in inbox : PersonActs(row)
    BY <1>8
  <2> DEFINE snoozed == [row EXCEPT !.status = "snoozed"]
  <2>2. /\ inbox' = inbox \ {row} \/ inbox' = (inbox \ {row}) \cup {snoozed}
        /\ Trouble /\ UNCHANGED << polecat, event, sinceSweep, todo, listing, decisions, silence >>
    BY <2>1 DEF PersonActs
  <2>3. row \in Rows /\ row.situation \in Situations /\ \A s \in inbox : SameKey(row, s) => row = s
    BY <2>1 DEF WitnessInv, WitnessTypeOK
  <2>4. snoozed \in Rows /\ snoozed.situation \in Situations /\ SameKey(snoozed, row)
    BY <2>3 DEF Rows, SameKey
  <2>5. inbox' \subseteq Rows /\ \A r \in inbox' : r.situation \in Situations
    BY <2>2, <2>4 DEF WitnessInv, WitnessTypeOK
  <2>6. \A r, s \in inbox' : SameKey(r, s) => r = s
    <3> SUFFICES ASSUME NEW r \in inbox', NEW s \in inbox', SameKey(r, s) PROVE r = s
      OBVIOUS
    <3>1. CASE r \in inbox \ {row} /\ s \in inbox \ {row}
      BY <3>1 DEF WitnessInv
    <3>2. CASE r = snoozed /\ s \in inbox \ {row}
      BY <2>3, <2>4, <3>2 DEF SameKey
    <3>3. CASE r \in inbox \ {row} /\ s = snoozed
      BY <2>3, <2>4, <3>3 DEF SameKey
    <3>4. CASE r = snoozed /\ s = snoozed
      BY <3>4
    <3> QED
      BY <2>2, <3>1, <3>2, <3>3, <3>4
  <2> QED
    BY <1>0, <2>2, <2>5, <2>6, TroubleTypes DEF WitnessInv, WitnessTypeOK, Lefts
<1>9. CASE UNCHANGED witnessVars
  BY <1>0, <1>9, InboxStands DEF witnessVars
<1> QED
  BY <1>1, <1>2, <1>3, <1>4, <1>5, <1>6, <1>7, <1>8, <1>9 DEF WitnessNext, PassSteps

(***************************************************************************)
(* The monitor.                                                            *)
(***************************************************************************)

Finding == [class : ClassNames, failing : BOOLEAN]

\* The findings not filed yet are a sequence.
MonitorInv == MonitorTypeOK /\ findings \in Seq(Finding)

\* The initial state of the monitor is type correct.
LEMMA MonitorStarts == MonitorInit => MonitorInv
<1>1. Absent \in AlertRow
  BY DEF Absent, AlertRow
<1>2. 0 \in 0 .. Lifetime /\ 0 \in 0 .. MaxMishaps
  BY LifetimeAssumption DEF LifetimeAssumption
<1> QED
  BY <1>1, <1>2 DEF MonitorInit, MonitorInv, MonitorTypeOK, NoPass

\* A pass judges every class.
LEMMA JudgeTypes ==
  ASSUME NEW unread
  PROVE  [i \in DOMAIN Classes |-> Judge(Classes[i], unread)] \in Seq(Finding)
<1>1. DOMAIN Classes = 1 .. 9
  BY DEF Classes
<1>2. \A i \in 1 .. 9 : Classes[i] \in ClassNames
  BY <1>1 DEF ClassNames
<1>3. \A i \in 1 .. 9 : Judge(Classes[i], unread) \in Finding
  BY <1>2 DEF Judge, Finding
<1> QED
  BY <1>1, <1>3

\* What is filed, snoozed, resolved or handed on is a row still.
LEMMA AlertTypes ==
  ASSUME NEW row \in AlertRow, NEW live \in {"none", "open", "snoozed"}
  PROVE  /\ Raised(row) \in AlertRow /\ Absent \in AlertRow
         /\ [row EXCEPT !.live = live] \in AlertRow /\ [row EXCEPT !.delegated = TRUE] \in AlertRow
  BY DEF Raised, Absent, AlertRow

\* A mishap is counted.
LEMMA MishapTypes ==
  ASSUME MonitorInv, Mishap \/ UNCHANGED mishaps
  PROVE  mishaps' \in 0 .. MaxMishaps
  BY LifetimeAssumption DEF LifetimeAssumption, MonitorInv, MonitorTypeOK, Mishap

\* A step gives what it changes its type.
LEMMA MonitorGoesOn ==
  ASSUME faults' \subseteq Faults, age' \in [Jobs -> 0 .. Lifetime], findings' \in Seq(Finding),
         dueCheck' \in BOOLEAN, alert' \in [Admins \X ClassNames -> AlertRow],
         admins' \subseteq Admins, mishaps' \in 0 .. MaxMishaps
  PROVE  MonitorInv'
<1>1. \A i \in DOMAIN findings' : findings'[i] \in Finding
  OBVIOUS
<1> QED
  BY <1>1 DEF MonitorInv, MonitorTypeOK, Finding

\* Every step of the monitor and of what it watches keeps it so.
LEMMA MonitorStep ==
  ASSUME MonitorInv, [MonitorNext]_monitorVars
  PROVE  MonitorInv'
<1>0. /\ faults \subseteq Faults /\ age \in [Jobs -> 0 .. Lifetime] /\ findings \in Seq(Finding)
      /\ dueCheck \in BOOLEAN /\ alert \in [Admins \X ClassNames -> AlertRow]
      /\ admins \subseteq Admins
  BY DEF MonitorInv, MonitorTypeOK
<1>1. CASE Check
  <2>1. findings' \in Seq(Finding)
    BY <1>0, <1>1, JudgeTypes DEF Check
  <2>2. mishaps' \in 0 .. MaxMishaps
    BY <1>1, MishapTypes DEF Check
  <2>3. dueCheck' = FALSE /\ UNCHANGED << faults, age, alert, admins >>
    BY <1>1 DEF Check
  <2> QED
    BY <1>0, <2>1, <2>2, <2>3, MonitorGoesOn
<1>2. CASE Publish
  <2>1. /\ findings # << >> /\ UNCHANGED << faults, age, dueCheck, admins >>
        /\ findings' = Tail(findings) \/ findings' = << >>
    BY <1>2 DEF Publish, NoPass
  <2>2. findings' \in Seq(Finding)
    <3>1. Tail(findings) \in Seq(Finding)
      BY <1>0, <2>1, HeadTailProperties
    <3>2. << >> \in Seq(Finding)
      OBVIOUS
    <3> QED
      BY <2>1, <3>1, <3>2
  <2>3. mishaps' \in 0 .. MaxMishaps
    BY <1>2, MishapTypes DEF Publish
  <2>4. alert' \in [Admins \X ClassNames -> AlertRow]
    <3>1. \A ac \in Admins \X ClassNames :
             alert[ac] \in AlertRow /\ Raised(alert[ac]) \in AlertRow /\ Resolved(alert[ac]) \in AlertRow
      BY <1>0, AlertTypes DEF Resolved
    <3>2. CASE UNCHANGED alert
      BY <1>0, <3>2
    <3>3. CASE alert' = [ac \in Admins \X ClassNames |->
                IF ac[2] # Head(findings).class THEN alert[ac]
                ELSE IF ~Head(findings).failing THEN Resolved(alert[ac])
                ELSE IF ac[1] \in admins THEN Raised(alert[ac]) ELSE alert[ac]]
      BY <3>1, <3>3
    <3> QED
      BY <1>2, <3>2, <3>3 DEF Publish
  <2> QED
    BY <1>0, <2>1, <2>2, <2>3, <2>4, MonitorGoesOn
<1>3. CASE NextInterval
  <2>1. \A j \in Jobs : Aged(j) \in 0 .. Lifetime
    BY <1>0, LifetimeAssumption DEF LifetimeAssumption, Aged
  <2>2. age' \in [Jobs -> 0 .. Lifetime]
    BY <1>3, <2>1 DEF NextInterval
  <2>3. dueCheck' = TRUE /\ UNCHANGED << faults, findings, alert, admins, mishaps >>
    BY <1>3 DEF NextInterval
  <2> QED
    BY <1>0, <2>2, <2>3, MishapTypes, MonitorGoesOn
<1>4. CASE \E f \in Faults : Break(f) \/ Mend(f)
  <2>1. /\ faults' \subseteq Faults /\ Mishap
        /\ UNCHANGED << age, findings, dueCheck, alert, admins >>
    BY <1>0, <1>4 DEF Break, Mend
  <2> QED
    BY <1>0, <2>1, MishapTypes, MonitorGoesOn
<1>5. CASE \E a \in Admins : ChangeAdmins(a)
  <2>1. /\ admins' \subseteq Admins /\ Mishap
        /\ UNCHANGED << faults, age, findings, dueCheck, alert >>
    BY <1>0, <1>5 DEF ChangeAdmins
  <2> QED
    BY <1>0, <2>1, MishapTypes, MonitorGoesOn
<1>6. ASSUME NEW a \in Admins, NEW c \in ClassNames,
             SnoozeAlert(a, c) \/ ResolveAlert(a, c) \/ \E b \in Admins : DelegateAlert(a, b, c)
      PROVE  MonitorInv'
  <2>1. Mishap /\ UNCHANGED << faults, age, findings, dueCheck, admins >>
    BY <1>6 DEF SnoozeAlert, ResolveAlert, DelegateAlert
  <2>2. \A b \in Admins : << b, c >> \in Admins \X ClassNames
    OBVIOUS
  <2>3. alert' \in [Admins \X ClassNames -> AlertRow]
    <3>1. CASE SnoozeAlert(a, c)
      BY <1>0, <2>2, <3>1, AlertTypes DEF SnoozeAlert
    <3>2. CASE ResolveAlert(a, c)
      BY <1>0, <2>2, <3>2, AlertTypes DEF ResolveAlert
    <3>3. ASSUME NEW b \in Admins, DelegateAlert(a, b, c)
          PROVE  alert' \in [Admins \X ClassNames -> AlertRow]
      <4> DEFINE taken == [alert EXCEPT ![<< a, c >>].live = "none"]
      <4>1. taken \in [Admins \X ClassNames -> AlertRow]
        BY <1>0, <2>2, AlertTypes
      <4>2. alert' = [taken EXCEPT ![<< b, c >>].delegated = TRUE]
        BY <3>3 DEF DelegateAlert
      <4> HIDE DEF taken
      <4> QED
        BY <2>2, <4>1, <4>2, AlertTypes
    <3> QED
      BY <1>6, <3>1, <3>2, <3>3
  <2> QED
    BY <1>0, <2>1, <2>3, MishapTypes, MonitorGoesOn
<1>7. CASE UNCHANGED monitorVars
  BY <1>0, <1>7, MishapTypes, MonitorGoesOn DEF monitorVars
<1> QED
  BY <1>1, <1>2, <1>3, <1>4, <1>5, <1>6, <1>7 DEF MonitorNext, PlatformChanges

(***************************************************************************)
(* The runners of a cell.                                                  *)
(***************************************************************************)

Pcs == {"idle", "agent", "exited ok"} \cup Starting \cup Tearing \cup Ended

\* The initial state of the runners is type correct.
LEMMA RunnerStarts == RunnerInit => RunnerTypeOK
  BY RunnerAssumption DEF RunnerAssumption, RunnerInit, RunnerTypeOK, Process, Asleep

\* A process goes to another of its states, and remembers what it does.
LEMMA ProcessGoesOn ==
  ASSUME RunnerTypeOK, NEW b \in Beads, NEW p \in Process, process' = [process EXCEPT ![b] = p]
  PROVE  process' \in [Beads -> Process]
  BY DEF RunnerTypeOK

\* A process that goes on to another stage is a process.
LEMMA ProcessTypes ==
  ASSUME NEW p \in Process, NEW pc \in Pcs, NEW read \in SUBSET Beads
  PROVE  /\ [p EXCEPT !.pc = pc] \in Process /\ [p EXCEPT !.pc = pc, !.read = read] \in Process
         /\ [p EXCEPT !.termed = TRUE, !.pc = pc] \in Process
         /\ [p EXCEPT !.pc = pc, !.logged = TRUE] \in Process
         /\ p.attempt < MaxContinue => [p EXCEPT !.pc = pc, !.attempt = @ + 1] \in Process
         /\ Teardown(p) \in Pcs
<1>0. p.attempt \in 0 .. MaxContinue /\ MaxContinue \in Nat
  BY RunnerAssumption DEF RunnerAssumption, Process
<1>1. p.attempt < MaxContinue => p.attempt + 1 \in 0 .. MaxContinue
  BY <1>0
<1>2. Teardown(p) \in Pcs
  BY DEF Teardown, Pcs, Tearing
<1> QED
  BY <1>1, <1>2 DEF Process, Pcs

\* A signal or a failed call is counted.
LEMMA StopTypes ==
  ASSUME RunnerTypeOK, Stop \/ UNCHANGED stops
  PROVE  stops' \in 0 .. MaxStops
  BY RunnerAssumption DEF RunnerAssumption, RunnerTypeOK, Stop

\* One process does something: it stays a process, and what it makes and removes is its own.
LEMMA RunnerStep ==
  ASSUME RunnerTypeOK, [RunnerNext]_runnerVars
  PROVE  RunnerTypeOK'
<1>1. CASE UNCHANGED runnerVars
  BY <1>1 DEF RunnerTypeOK, runnerVars
<1>2. ASSUME NEW b \in Beads,
             \/ \E runtime \in {"claude", "opencode"}, keep \in BOOLEAN : Start(b, runtime, keep)
             \/ RunnerSteps(b) \/ AgentExits(b) \/ Resume(b) \/ Terminate(b) \/ Kill(b) \/ Forget(b)
      PROVE  RunnerTypeOK'
  <2> DEFINE p == process[b]
  <2>0. p \in Process /\ trusted \subseteq Beads /\ p.read \subseteq Beads
    BY DEF RunnerTypeOK, Process
  <2>1. stops' \in 0 .. MaxStops
    BY <1>2, StopTypes
       DEF Start, RunnerSteps, AgentExits, Resume, Terminate, Kill, Forget, MakeRunDir, MakeStateDir, ReadTrust,
           WriteTrust, WriteSettings, Deadline, Finish, RemoveSettings, RemoveState, RemoveRunDir, LogsAndGoes
  <2>2. dirs' \subseteq Beads /\ states' \subseteq Beads /\ settings' \subseteq Beads /\ trusted' \subseteq Beads
    BY <1>2, <2>0
       DEF RunnerTypeOK, Start, RunnerSteps, AgentExits, Resume, Terminate, Kill, Forget, MakeRunDir, MakeStateDir,
           ReadTrust, WriteTrust, WriteSettings, Deadline, Finish, RemoveSettings, RemoveState, RemoveRunDir
  <2>3. process' \in [Beads -> Process]
    <3>1. CASE \E runtime \in {"claude", "opencode"}, keep \in BOOLEAN : Start(b, runtime, keep)
      <4>1. PICK runtime \in {"claude", "opencode"}, keep \in BOOLEAN : Start(b, runtime, keep)
        BY <3>1
      <4> DEFINE q == [Asleep EXCEPT !.runtime = runtime, !.keep = keep,
                          !.pc = IF Concurrency >= MaxAgents THEN "refused" ELSE "counted"]
      <4>2. q \in Process
        <5> DEFINE pc == IF Concurrency >= MaxAgents THEN "refused" ELSE "counted"
        <5>1. pc \in Pcs
          BY DEF Pcs, Starting, Ended
        <5>2. Asleep \in Process
          BY RunnerAssumption DEF RunnerAssumption, Asleep, Process
        <5>3. q = [Asleep EXCEPT !.runtime = runtime, !.keep = keep, !.pc = pc]
          OBVIOUS
        <5> HIDE DEF pc, q
        <5> QED
          BY <4>1, <5>1, <5>2, <5>3 DEF Process, Pcs
      <4>3. process' = [process EXCEPT ![b] = q]
        BY <4>1 DEF Start
      <4> QED
        BY <4>2, <4>3, ProcessGoesOn
    <3>2. CASE RunnerSteps(b) \/ AgentExits(b) \/ Kill(b)
      <4>1. \/ \E pc \in Pcs : process' = [process EXCEPT ![b].pc = pc]
            \/ \E pc \in Pcs, read \in SUBSET Beads : process' = [process EXCEPT ![b].pc = pc, ![b].read = read]
            \/ \E pc \in Pcs : process' = [process EXCEPT ![b].pc = pc, ![b].logged = TRUE]
        <5>1. Teardown(p) \in Pcs
          BY <2>0, ProcessTypes DEF Pcs
        <5>2. CASE ReadTrust(b)
          <6>1. PICK pc \in {<< "trust", "trusting" >>, << "untrust", "untrusting" >>} :
                    process' = [process EXCEPT ![b].pc = pc[2], ![b].read = trusted]
            BY <5>2 DEF ReadTrust
          <6>2. pc[2] \in {"trusting", "untrusting"} /\ trusted \in SUBSET Beads
            BY <2>0, <6>1
          <6>3. pc[2] \in Pcs
            BY <6>2 DEF Pcs, Starting, Tearing
          <6> QED
            BY <6>1, <6>2, <6>3
        <5>3. CASE WriteTrust(b)
          BY <5>3 DEF WriteTrust, Pcs, Starting, Tearing
        <5>4. CASE MakeRunDir(b) \/ MakeStateDir(b) \/ WriteSettings(b) \/ Deadline(b) \/ Finish(b)
                   \/ AgentExits(b) \/ Kill(b)
          BY <5>1, <5>4 DEF MakeRunDir, MakeStateDir, WriteSettings, Deadline, Finish, AgentExits, Kill, Step,
                            Pcs, Starting, Ended
        <5>5. CASE RemoveSettings(b) \/ RemoveState(b) \/ RemoveRunDir(b)
          <6>1. AfterState(p) \in Pcs /\ {"rm state", "done"} \subseteq Pcs
            BY DEF AfterState, Pcs, Tearing, Ended
          <6> QED
            BY <5>5, <6>1 DEF RemoveSettings, RemoveState, RemoveRunDir, Step, LogsAndGoes
        <5> QED
          BY <3>2, <5>2, <5>3, <5>4, <5>5 DEF RunnerSteps
      <4>2. CASE \E pc \in Pcs : process' = [process EXCEPT ![b].pc = pc]
        <5>1. PICK pc \in Pcs : process' = [process EXCEPT ![b] = [p EXCEPT !.pc = pc]]
          BY <4>2
        <5>2. {} \in SUBSET Beads
          OBVIOUS
        <5>3. [p EXCEPT !.pc = pc] \in Process
          BY <2>0, <5>2, ProcessTypes
        <5> QED
          BY <5>1, <5>3, ProcessGoesOn
      <4>3. CASE \E pc \in Pcs, read \in SUBSET Beads :
                    process' = [process EXCEPT ![b].pc = pc, ![b].read = read]
        <5>0. PICK pc \in Pcs, read \in SUBSET Beads :
                  process' = [process EXCEPT ![b].pc = pc, ![b].read = read]
          BY <4>3
        <5>1. process' = [process EXCEPT ![b] = [p EXCEPT !.pc = pc, !.read = read]]
          <6>1. process \in [Beads -> Process] /\ process[b] \in Process
            BY DEF RunnerTypeOK
          <6> QED
            BY <5>0, <6>1 DEF Process
        <5>2. [p EXCEPT !.pc = pc, !.read = read] \in Process
          BY <2>0, ProcessTypes
        <5> QED
          BY <5>1, <5>2, ProcessGoesOn
      <4>4. CASE \E pc \in Pcs : process' = [process EXCEPT ![b].pc = pc, ![b].logged = TRUE]
        <5>0. PICK pc \in Pcs : process' = [process EXCEPT ![b].pc = pc, ![b].logged = TRUE]
          BY <4>4
        <5>1. process' = [process EXCEPT ![b] = [p EXCEPT !.pc = pc, !.logged = TRUE]]
          <6>1. process \in [Beads -> Process] /\ process[b] \in Process
            BY DEF RunnerTypeOK
          <6> QED
            BY <5>0, <6>1 DEF Process
        <5>2. {} \in SUBSET Beads
          OBVIOUS
        <5>3. [p EXCEPT !.pc = pc, !.logged = TRUE] \in Process
          BY <2>0, <5>2, ProcessTypes
        <5> QED
          BY <5>1, <5>3, ProcessGoesOn
      <4> QED
        BY <4>1, <4>2, <4>3, <4>4
    <3>3. CASE Resume(b)
      <4>1. p.attempt < MaxContinue /\ process' = [process EXCEPT ![b] = [p EXCEPT !.pc = "agent", !.attempt = @ + 1]]
        BY <3>3 DEF Resume
      <4>2. "agent" \in Pcs /\ {} \in SUBSET Beads
        BY DEF Pcs
      <4> QED
        BY <2>0, <4>1, <4>2, ProcessTypes, ProcessGoesOn
    <3>4. CASE Terminate(b)
      <4>1. PICK pc \in Pcs : process' = [process EXCEPT ![b] = [p EXCEPT !.termed = TRUE, !.pc = pc]]
        <5>1. Teardown(p) \in Pcs /\ p.pc \in Pcs
          BY <2>0, ProcessTypes DEF Pcs, Process
        <5>2. "killed" \in Pcs
          BY DEF Pcs, Ended
        <5> DEFINE pc == CASE p.pc = "agent" -> Teardown(p) [] p.pc = "exited ok" -> p.pc [] OTHER -> "killed"
        <5>3. pc \in Pcs
          BY <5>1, <5>2
        <5>4. process' = [process EXCEPT ![b] = [p EXCEPT !.termed = TRUE, !.pc = pc]]
          BY <3>4 DEF Terminate
        <5> QED
          BY <5>3, <5>4
      <4> QED
        BY <2>0, <4>1, ProcessTypes, ProcessGoesOn
    <3>5. CASE Forget(b)
      <4>1. Asleep \in Process
        BY RunnerAssumption DEF RunnerAssumption, Asleep, Process
      <4> QED
        BY <3>5, <4>1, ProcessGoesOn DEF Forget
    <3> QED
      BY <1>2, <3>1, <3>2, <3>3, <3>4, <3>5
  <2> QED
    BY <2>1, <2>2, <2>3 DEF RunnerTypeOK
<1> QED
  BY <1>1, <1>2 DEF RunnerNext

(***************************************************************************)
(* The node.                                                               *)
(***************************************************************************)

NodeInv == MonitorInv /\ RunnerTypeOK /\ PlanInv /\ WitnessInv

\* The initial state satisfies the invariants of all four programs.
LEMMA NodeStarts == NodeInit => NodeInv
  BY MonitorStarts, RunnerStarts, PlanStarts, WitnessStarts DEF NodeInit, NodeInv

\* One program moves, the others stand.
LEMMA NodeStep == NodeInv /\ [NodeNext]_nodeVars => NodeInv'
<1> SUFFICES ASSUME NodeInv, [NodeNext]_nodeVars PROVE NodeInv'
  OBVIOUS
<1>1. /\ [MonitorNext]_monitorVars /\ [RunnerNext]_runnerVars
      /\ [RunPlanNext]_runPlanVars /\ [WitnessNext]_witnessVars
  BY DEF NodeNext, Stand, nodeVars
<1> QED
  BY <1>1, MonitorStep, RunnerStep, PlanStep, WitnessStep DEF NodeInv

\* Whatever is asked of a runner and whatever catalogue is deployed, a plan that is made
\* can be run, is what was reported, and grants nothing that is denied (plan.go).
THEOREM PlanInvariant == NodeSpec => []PlansCanRun
<1>1. NodeInv => PlansCanRun
  BY DEF NodeInv, PlanInv, GoodPlan, PlansCanRun
<1> QED
  BY <1>1, NodeStarts, NodeStep, PTL DEF NodeSpec

\* Unsafely stored work is one row of each inbox, for any number of rigs, polecats and
\* people, however often the report of it is renamed, cut off or repeated (Situation,
\* system_raise_attention).
THEOREM InboxInvariant == NodeSpec => []OneItemPerProblem
<1>1. NodeInv => OneItemPerProblem
  <2> SUFFICES ASSUME NodeInv, NEW r \in inbox, NEW s \in inbox, r.user = s.user, r.polecat = s.polecat,
                      {r.situation, s.situation} \subseteq UnsafelyStored \cup {"work-at-risk"}
               PROVE  r = s
    BY DEF OneItemPerProblem
  <2>1. r.situation \in Situations /\ s.situation \in Situations
    BY DEF NodeInv, WitnessInv
  <2>2. r.situation = "work-at-risk" /\ s.situation = "work-at-risk"
    BY <2>1 DEF Situations, UnsafelyStored
  <2> QED
    BY <2>2 DEF NodeInv, WitnessInv, SameKey
<1> QED
  BY <1>1, NodeStarts, NodeStep, PTL DEF NodeSpec

\* Every variable of the node's programs has its type, among them that a runner resumes no
\* more than maxContinue times.
THEOREM NodeTypes == NodeSpec => []NodeTypesOK
<1>1. NodeInv => NodeTypesOK
  BY DEF NodeInv, MonitorInv, WitnessInv, PlanInv, GoodPlan, RunPlanTypeOK, NodeTypesOK
<1> QED
  BY <1>1, NodeStarts, NodeStep, PTL DEF NodeSpec
===============================================================================
