-------------------------- MODULE ControlPlaneProofs --------------------------
(***************************************************************************)
(* A success is backed by a run of its handler, a job is queued for a rig  *)
(* of its project, the schema grows in order, and every variable has its   *)
(* type, for every number of requests, repositories, rigs, people, grants, *)
(* migrations and deployments.                                             *)
(***************************************************************************)
EXTENDS MCControlPlane, AuthorityProofs, FiniteSetTheorems, WellFoundedInduction, TLAPS

(***************************************************************************)
(* Requests.                                                               *)
(***************************************************************************)

\* A run of the handler whose answer may be given to c.
Backs(d, c) ==
    /\ d \in ran /\ << Call[d].route, Call[d].item >> \in performed
    /\ d = c \/ Call[c].key = Call[d].key
    /\ Call[d].route = Call[c].route /\ Call[d].body = Call[c].body

RunsInv ==
    /\ stage \in [Calls -> CallStages] /\ answer \in [Calls -> Answers]
    /\ ran \subseteq Calls /\ replayed \in [Calls -> Calls]
    /\ \A d \in ran : << Call[d].route, Call[d].item >> \in performed
    /\ \A c \in Calls : stage[c] # "over" => replayed[c] = c
    /\ \A c \in Calls : stage[c] = "recording" => c \in ran
    /\ \A r \in recorded : /\ r.of \in ran
                           /\ r.key = Call[r.of].key /\ r.route = Call[r.of].route /\ r.body = Call[r.of].body
    /\ \A c \in Calls : answer[c] = "ok" => Backs(replayed[c], c)

\* The initial state satisfies the invariant of the requests.
LEMMA RunsInit ==
  ASSUME RequestsInit
  PROVE  RunsInv
  BY DEF RequestsInit, RunsInv, CallStages, Answers

\* An answer other than "done" keeps the invariant, whatever else becomes of the call.
LEMMA OtherAnswers ==
  ASSUME RunsInv, NEW c \in Calls, NEW a \in Answers, a # "ok", AnswerWith(c, a),
         UNCHANGED << ran, recorded, replayed, performed >>
  PROVE  RunsInv'
  BY DEF RunsInv, AnswerWith, CallStages, Backs

\* So does a call that moves on to anything but the recording of what it did.
LEMMA CallAdvances ==
  ASSUME RunsInv, NEW c \in Calls, NEW s \in CallStages, s # "recording", stage[c] # "over",
         Advance(c, s), UNCHANGED << ran, recorded, replayed, performed >>
  PROVE  RunsInv'
  BY DEF RunsInv, Advance, Backs

\* Every step of a request, and of what happens to it, keeps the invariant.
LEMMA RunsStep ==
  ASSUME RunsInv, [RequestsNext]_requestsVars
  PROVE  RunsInv'
<1> USE DEF Answers, CallStages
<1>1. ASSUME NEW c \in Calls, Authenticate(c)
      PROVE  RunsInv'
  BY <1>1, OtherAnswers, CallAdvances DEF Authenticate
<1>2. ASSUME NEW c \in Calls, EnforceSession(c)
      PROVE  RunsInv'
  BY <1>2, OtherAnswers, CallAdvances DEF EnforceSession
<1>3. ASSUME NEW c \in Calls, NEW limitsRead \in BOOLEAN, EnforceToken(c, limitsRead)
      PROVE  RunsInv'
  <2>1. UNCHANGED << ran, recorded, replayed, performed >> /\ stage[c] # "over"
    BY <1>3 DEF EnforceToken
  <2>2. AnswerWith(c, "403") \/ AnswerWith(c, "429") \/ Advance(c, "admitted")
    BY <1>3 DEF EnforceToken
  <2> QED
    BY <2>1, <2>2, OtherAnswers, CallAdvances
<1>4. ASSUME NEW c \in Calls, LookUp(c)
      PROVE  RunsInv'
  <2>1. UNCHANGED << ran, recorded, performed >> /\ stage[c] # "over"
    BY <1>4 DEF LookUp
  <2>2. CASE (Advance(c, "acting") \/ AnswerWith(c, "409")) /\ UNCHANGED replayed
    BY <2>1, <2>2, OtherAnswers, CallAdvances
  <2>3. CASE ~((Advance(c, "acting") \/ AnswerWith(c, "409")) /\ UNCHANGED replayed)
    <3> DEFINE r == CHOOSE r \in recorded : r.key = Call[c].key
    <3>1. /\ \E q \in recorded : q.key = Call[c].key
          /\ r.route = Call[c].route /\ r.body = Call[c].body
          /\ AnswerWith(c, "ok") /\ replayed' = [replayed EXCEPT ![c] = r.of]
      BY <1>4, <2>3 DEF LookUp
    <3>2. r \in recorded /\ r.key = Call[c].key
      BY <3>1
    <3> HIDE DEF r
    <3>3. r.of \in ran /\ Backs(r.of, c)
      BY <3>1, <3>2 DEF RunsInv, Backs
    <3>4. stage' = [stage EXCEPT ![c] = "over"] /\ answer' = [answer EXCEPT ![c] = "ok"]
      BY <3>1 DEF AnswerWith
    <3>5. replayed' = [replayed EXCEPT ![c] = r.of] /\ r.of \in Calls
      BY <3>1, <3>3 DEF RunsInv
    <3> QED
      BY <2>1, <3>3, <3>4, <3>5 DEF RunsInv, Backs
  <2> QED
    BY <2>2, <2>3
<1>5. ASSUME NEW c \in Calls, Perform(c)
      PROVE  RunsInv'
  <2>1. UNCHANGED << recorded, replayed >> /\ stage[c] # "over"
    BY <1>5 DEF Perform
  <2>2. CASE AnswerWith(c, "refused") /\ UNCHANGED << ran, performed >>
    BY <2>1, <2>2, OtherAnswers
  <2>3. CASE /\ ran' = ran \cup {c} /\ Advance(c, "recording")
             /\ performed' = performed \cup {<< Call[c].route, Call[c].item >>}
    BY <2>1, <2>3 DEF RunsInv, Advance, Backs
  <2> QED
    BY <1>5, <2>2, <2>3 DEF Perform
<1>6. ASSUME NEW c \in Calls, PerformFails(c)
      PROVE  RunsInv'
  BY <1>6, OtherAnswers DEF PerformFails
<1>7. ASSUME NEW c \in Calls, Record(c)
      PROVE  RunsInv'
  <2>1. stage[c] = "recording" /\ UNCHANGED << ran, replayed, performed >> /\ recorded' \in {recorded, Keep(c)}
        /\ stage' = [stage EXCEPT ![c] = "over"] /\ answer' = [answer EXCEPT ![c] = "ok"]
    BY <1>7 DEF Record, AnswerWith
  <2>2. c \in ran /\ Backs(c, c) /\ replayed[c] = c
    BY <2>1 DEF RunsInv, Backs
  <2> DEFINE new == [key |-> Call[c].key, route |-> Call[c].route, body |-> Call[c].body, of |-> c]
  <2>3. recorded' \subseteq recorded \cup {new}
    BY <2>1 DEF Keep
  <2>4. new.of = c /\ new.key = Call[c].key /\ new.route = Call[c].route /\ new.body = Call[c].body
    OBVIOUS
  <2> HIDE DEF new
  <2>5. \A r \in recorded' : /\ r.of \in ran'
                             /\ r.key = Call[r.of].key /\ r.route = Call[r.of].route /\ r.body = Call[r.of].body
    BY <2>1, <2>2, <2>3, <2>4 DEF RunsInv
  <2>6. \A d \in Calls : answer'[d] = "ok" => Backs(replayed[d], d)
    BY <2>1, <2>2 DEF RunsInv
  <2>7. stage' \in [Calls -> CallStages] /\ answer' \in [Calls -> Answers]
        /\ \A d \in Calls : /\ stage'[d] = "recording" => d \in ran'
                            /\ stage'[d] # "over" => replayed'[d] = d
    BY <2>1 DEF RunsInv
  <2> QED
    BY <2>1, <2>5, <2>6, <2>7 DEF RunsInv, Backs
<1>8. CASE Revoke \/ SpendLands \/ RequestsTick \/ UNCHANGED requestsVars
  BY <1>8 DEF Revoke, SpendLands, RequestsTick, requestsVars, RunsInv, Backs
<1>9. CASE RestartApi
  BY <1>9 DEF RestartApi, RunsInv, Backs
<1> QED
  BY <1>1, <1>2, <1>3, <1>4, <1>5, <1>6, <1>7, <1>8, <1>9 DEF RequestsNext

\* Whoever is told "done" is given the answer of a run of the handler that took effect:
\* the call's own, or one recorded under its key for the same route and body
\* (withIdempotency), for any number of calls.
THEOREM SuccessInvariant == RequestsSpec => []SuccessIsBackedByARun
<1>1. RunsInv => SuccessIsBackedByARun
  BY DEF RunsInv, SuccessIsBackedByARun, Backs
<1> QED
  BY <1>1, RunsInit, RunsStep, PTL DEF RequestsSpec

(***************************************************************************)
(* Routing.                                                                *)
(***************************************************************************)

RouteRow == [at : RouteStages, asked : Rigs \cup {"any"}, rig : Rigs, clone : Repos \cup {NoRepo}]

\* What is known of a job's project is right, and a job that is routed by its project alone
\* has one that is known.
ProjectKnown ==
    \A j \in Jobs :
        /\ projected[j] \in {"unknown", "none", ProjectOfJob[j]}
        /\ KindOfJob[j] = "file" \/ route[j].at = "unheld of a project" => projected[j] = ProjectOfJob[j]

RoutingInv ==
    /\ attached \subseteq Repos
    /\ projected \in [Jobs -> {"unknown", "none"} \cup { ProjectOfJob[j] : j \in Jobs }]
    /\ route \in [Jobs -> RouteRow]
    /\ ProjectKnown

Row == [rig : Rigs, repo : Repos]

\* The rigs a project asks for are rigs, with a name of their own.
LEMMA WantedRows ==
  ASSUME attached \subseteq Repos, NEW p
  PROVE  WantedFor(p) \subseteq Row
<1>1. \A r \in attached : RigName(r) \in Rigs
  BY RoutingAssumption DEF RigName
<1> QED
  BY <1>1 DEF WantedFor, Open, Row

\* So are the ones it holds.
LEMMA HeldRows ==
  ASSUME attached \subseteq Repos, NEW p
  PROVE  HeldFor(p) \subseteq Row
  BY DEF HeldFor, Row

\* A rig that was chosen is one of those that were found.
LEMMA ChosenWasFound ==
  ASSUME NEW found, NEW asked, Choose(found, asked) \notin {"undecided", "refused"}
  PROVE  \E row \in found : row.rig = Choose(found, asked)
  BY DEF Choose

\* Where a held rig was found for it, the job's project is known.
LEMMA FoundMeansKnown ==
  ASSUME RoutingInv, NEW j \in Jobs, HeldFor(projected[j]) # {}
  PROVE  projected[j] = ProjectOfJob[j]
<1>1. PICK g \in Rigs : held[g] \in attached /\ RepoProject[held[g]] = projected[j]
  BY DEF HeldFor
<1> QED
  BY <1>1, RoutingAssumption DEF RoutingInv, ProjectKnown

\* The answer of a routing query: refused, or queued for a rig.
LEMMA AnsweredRow ==
  ASSUME RoutingInv, NEW j \in Jobs, NEW chosen \in Rigs \cup {"refused"}, Answered(j, chosen)
  PROVE  /\ route' \in [Jobs -> RouteRow]
         /\ \A k \in Jobs \ {j} : route'[k] = route[k]
         /\ chosen = "refused" => route'[j].at = "refused"
         /\ chosen # "refused" => route'[j].at = "queued" /\ route'[j].rig = chosen
<1>1. route \in [Jobs -> RouteRow]
  BY DEF RoutingInv
<1>2. CASE chosen = "refused"
  <2>1. route' = [route EXCEPT ![j] = [route[j] EXCEPT !.at = "refused"]]
    BY <1>2 DEF Answered
  <2> QED
    BY <1>1, <1>2, <2>1 DEF RouteRow, RouteStages
<1>3. CASE chosen # "refused"
  <2>1. route' = [route EXCEPT ![j] = [route[j] EXCEPT !.at = "queued", !.rig = chosen]]
    BY <1>3 DEF Answered
  <2>2. chosen \in Rigs
    BY <1>3
  <2> QED
    BY <1>1, <1>3, <2>1, <2>2 DEF RouteRow, RouteStages
<1> QED
  BY <1>2, <1>3

\* A step that moves one job on keeps the invariant, unless it moves it to be routed by its
\* project.
LEMMA JobMoves ==
  ASSUME RoutingInv, UNCHANGED << attached, projected >>, NEW j \in Jobs,
         route' \in [Jobs -> RouteRow], \A k \in Jobs \ {j} : route'[k] = route[k],
         route'[j].at # "unheld of a project"
  PROVE  RoutingInv'
  BY DEF RoutingInv, ProjectKnown

\* What each step does: it keeps the invariant, and queues a job only for a rig of its
\* project, or for any if its bead has none.
Queues(j) == route[j].at # "queued" /\ route'[j].at = "queued"
RigFound(j) ==
    \/ projected[j] = "none"
    \/ \E row \in HeldFor(ProjectOfJob[j]) \cup WantedFor(ProjectOfJob[j]) : row.rig = route'[j].rig

Routed == RoutingInv' /\ \A j \in Jobs : Queues(j) => RigFound(j)

\* The initial state satisfies the invariant of the routing.
LEMMA RoutingInitial ==
  ASSUME RoutingInit
  PROVE  RoutingInv
<1>1. route \in [Jobs -> RouteRow] /\ \A j \in Jobs : route[j].at = "new"
  BY RoutingAssumption DEF RoutingInit, RouteRow, Unrouted, RouteStages
<1>2. \A j \in Jobs : KindOfJob[j] \in {"work", "file"}
  BY RoutingAssumption
<1> QED
  BY <1>1, <1>2 DEF RoutingInit, RoutingInv, ProjectKnown

\* A step that is no answer of a query moves a job to a stage of its own.
LEMMA NoJobIsQueued ==
  ASSUME RoutingInv, UNCHANGED << attached, projected >>, NEW j \in Jobs,
         route' \in [Jobs -> RouteRow], \A k \in Jobs \ {j} : route'[k] = route[k],
         route'[j].at \notin {"unheld of a project", "queued"}
  PROVE  Routed
  BY JobMoves DEF Routed, Queues

\* Every step keeps the invariant.
LEMMA RoutingStep ==
  ASSUME RoutingInv, [RoutingNext]_routingVars
  PROVE  Routed
<1>0. route \in [Jobs -> RouteRow] /\ attached \subseteq Repos
  BY DEF RoutingInv
<1>1. ASSUME NEW r \in Repos, Attach(r) \/ Detach(r)
      PROVE  Routed
  BY <1>1 DEF Attach, Detach, Routed, Queues, RoutingInv, ProjectKnown
<1>2. ASSUME NEW g \in Rigs, RegisterRig(g)
      PROVE  Routed
  BY <1>2 DEF RegisterRig, Routed, Queues, RoutingInv, ProjectKnown
<1>3. ASSUME NEW j \in Jobs, BeadArrives(j)
      PROVE  Routed
  <2>1. UNCHANGED << attached, route >> /\ projected[j] \in {"unknown", "none"}
        /\ \E p \in {"none", ProjectOfJob[j]} : projected' = [projected EXCEPT ![j] = p]
    BY <1>3 DEF BeadArrives
  <2>2. PICK p \in {"none", ProjectOfJob[j]} : projected' = [projected EXCEPT ![j] = p]
    BY <2>1
  <2>3. projected' \in [Jobs -> {"unknown", "none"} \cup { ProjectOfJob[k] : k \in Jobs }]
    BY <2>2 DEF RoutingInv
  <2>4. projected'[j] = p /\ \A k \in Jobs \ {j} : projected'[k] = projected[k]
    BY <2>2 DEF RoutingInv
  <2>5. ProjectKnown'
    <3>1. KindOfJob[j] = "file" \/ route[j].at = "unheld of a project" => p = ProjectOfJob[j]
      BY <2>1, <2>2, RoutingAssumption DEF RoutingInv, ProjectKnown
    <3> QED
      BY <2>1, <2>4, <3>1 DEF RoutingInv, ProjectKnown
  <2> QED
    BY <2>1, <2>3, <2>5 DEF Routed, Queues, RoutingInv
<1>4. ASSUME NEW j \in Jobs, NEW asked \in Rigs \cup {"any"}, Ask(j, asked)
      PROVE  Routed
  <2>1. route' = [route EXCEPT ![j] = [route[j] EXCEPT !.at = "asked", !.asked = asked]] /\ UNCHANGED << attached, projected >>
    BY <1>4, <1>0 DEF Ask
  <2>2. route' \in [Jobs -> RouteRow] /\ route'[j].at = "asked" /\ \A k \in Jobs \ {j} : route'[k] = route[k]
    BY <1>0, <2>1 DEF RouteRow, RouteStages
  <2> QED
    BY <2>1, <2>2, NoJobIsQueued
<1>5. ASSUME NEW j \in Jobs, RouteHeld(j)
      PROVE  Routed
  <2> DEFINE chosen == Choose(HeldFor(projected[j]), route[j].asked)
  <2>1. UNCHANGED << attached, projected >>
    BY <1>5 DEF RouteHeld
  <2>2. CASE chosen = "undecided"
    <3>1. route' = [route EXCEPT ![j] = [route[j] EXCEPT !.at = "unheld"]]
      BY <1>5, <2>2 DEF RouteHeld
    <3>2. route' \in [Jobs -> RouteRow] /\ route'[j].at = "unheld" /\ \A k \in Jobs \ {j} : route'[k] = route[k]
      BY <1>0, <3>1 DEF RouteRow, RouteStages
    <3> QED
      BY <2>1, <3>2, NoJobIsQueued
  <2>3. CASE chosen = "refused"
    <3>1. Answered(j, "refused")
      BY <1>5, <2>3 DEF RouteHeld
    <3>2. /\ route' \in [Jobs -> RouteRow] /\ route'[j].at = "refused"
          /\ \A k \in Jobs \ {j} : route'[k] = route[k]
      BY <3>1, AnsweredRow
    <3> QED
      BY <2>1, <3>2, NoJobIsQueued
  <2>4. CASE chosen \notin {"undecided", "refused"}
    <3>1. PICK row \in HeldFor(projected[j]) : row.rig = chosen
      BY <2>4, ChosenWasFound
    <3>2. row \in Row
      BY <1>0, HeldRows
    <3>3. chosen \in Rigs /\ Answered(j, chosen)
      BY <1>5, <2>4, <3>1, <3>2 DEF RouteHeld, Row
    <3>4. projected[j] = ProjectOfJob[j]
      BY <3>1, FoundMeansKnown
    <3> HIDE DEF chosen
    <3>5. /\ route' \in [Jobs -> RouteRow] /\ route'[j].at = "queued" /\ route'[j].rig = chosen
          /\ \A k \in Jobs \ {j} : route'[k] = route[k]
      BY <2>4, <3>3, AnsweredRow
    <3>6. RoutingInv'
      BY <2>1, <3>5, JobMoves
    <3>7. RigFound(j)
      BY <3>1, <3>4, <3>5 DEF RigFound
    <3> QED
      BY <3>5, <3>6, <3>7 DEF Routed, Queues
  <2> QED
    BY <2>2, <2>3, <2>4
<1>6. ASSUME NEW j \in Jobs, RouteProject(j)
      PROVE  Routed
  <2>1. UNCHANGED << attached, projected >>
    BY <1>6 DEF RouteProject
  <2>2. CASE projected[j] = "unknown"
    <3>1. Answered(j, "refused")
      BY <1>6, <2>2 DEF RouteProject
    <3>2. /\ route' \in [Jobs -> RouteRow] /\ route'[j].at = "refused"
          /\ \A k \in Jobs \ {j} : route'[k] = route[k]
      BY <3>1, AnsweredRow
    <3> QED
      BY <2>1, <3>2, NoJobIsQueued
  <2>3. CASE projected[j] = "none"
    <3>1. Answered(j, Preferred(j)) /\ Preferred(j) \in Rigs
      BY <1>0, <1>6, <2>3, RoutingAssumption DEF RouteProject, Preferred, RouteRow
    <3>2. /\ route' \in [Jobs -> RouteRow] /\ route'[j].at # "unheld of a project"
          /\ \A k \in Jobs \ {j} : route'[k] = route[k]
      BY <3>1, AnsweredRow
    <3>3. RoutingInv'
      BY <2>1, <3>2, JobMoves
    <3> QED
      BY <2>3, <3>2, <3>3 DEF Routed, Queues, RigFound
  <2>4. CASE projected[j] \notin {"unknown", "none"}
    <3>1. route' = [route EXCEPT ![j] = [route[j] EXCEPT !.at = "unheld of a project"]]
      BY <1>6, <2>4 DEF RouteProject
    <3>2. /\ route' \in [Jobs -> RouteRow] /\ route'[j].at = "unheld of a project"
          /\ \A k \in Jobs \ {j} : route'[k] = route[k]
      BY <1>0, <3>1 DEF RouteRow, RouteStages
    <3>3. projected[j] = ProjectOfJob[j]
      BY <2>4 DEF RoutingInv, ProjectKnown
    <3>4. ProjectKnown'
      BY <2>1, <3>2, <3>3 DEF RoutingInv, ProjectKnown
    <3> QED
      BY <2>1, <3>2, <3>4 DEF Routed, Queues, RoutingInv
  <2> QED
    BY <2>2, <2>3, <2>4
<1>7. ASSUME NEW j \in Jobs, RouteWanted(j)
      PROVE  Routed
  <2> DEFINE chosen == Choose(WantedFor(projected[j]), route[j].asked)
  <2>1. UNCHANGED << attached, projected >> /\ projected[j] = ProjectOfJob[j]
    BY <1>7 DEF RouteWanted, RoutingInv, ProjectKnown
  <2>2. CASE chosen \in {"undecided", "refused"}
    <3>1. Answered(j, "refused")
      BY <1>7, <2>2 DEF RouteWanted
    <3>2. /\ route' \in [Jobs -> RouteRow] /\ route'[j].at = "refused"
          /\ \A k \in Jobs \ {j} : route'[k] = route[k]
      BY <3>1, AnsweredRow
    <3> QED
      BY <2>1, <3>2, NoJobIsQueued
  <2>3. CASE chosen \notin {"undecided", "refused"}
    <3>1. PICK row \in WantedFor(projected[j]) : row.rig = chosen
      BY <2>3, ChosenWasFound
    <3>2. row \in Row
      BY <1>0, WantedRows
    <3>3. chosen \in Rigs /\ Answered(j, chosen)
      BY <1>7, <2>3, <3>1, <3>2 DEF RouteWanted, Row
    <3> HIDE DEF chosen
    <3>4. /\ route' \in [Jobs -> RouteRow] /\ route'[j].at = "queued" /\ route'[j].rig = chosen
          /\ \A k \in Jobs \ {j} : route'[k] = route[k]
      BY <2>3, <3>3, AnsweredRow
    <3>5. RoutingInv'
      BY <2>1, <3>4, JobMoves
    <3>6. RigFound(j)
      BY <2>1, <3>1, <3>4 DEF RigFound
    <3> QED
      BY <3>4, <3>5, <3>6 DEF Routed, Queues
  <2> QED
    BY <2>2, <2>3
<1>8. ASSUME NEW j \in Jobs, ClaimRouted(j)
      PROVE  Routed
  <2>1. PICK clone \in Offers(j) \cup {NoRepo} :
            route' = [route EXCEPT ![j] = [route[j] EXCEPT !.at = "claimed", !.clone = clone]]
    BY <1>0, <1>8 DEF ClaimRouted
  <2>2. \A p : WantedFor(p) \subseteq Row
    BY <1>0, WantedRows
  <2>3. clone \in Repos \cup {NoRepo}
    BY <2>2 DEF Offers, Row
  <2>4. route' \in [Jobs -> RouteRow] /\ route'[j].at = "claimed" /\ \A k \in Jobs \ {j} : route'[k] = route[k]
    BY <1>0, <2>1, <2>3 DEF RouteRow, RouteStages
  <2> QED
    BY <1>8, <2>4, NoJobIsQueued DEF ClaimRouted
<1>9. ASSUME NEW j \in Jobs, RigExists(j) \/ NothingToClone(j) \/ AddRig(j) \/ RigAdded(j) \/ RigNotAdded(j)
      PROVE  Routed
  <2>1. UNCHANGED << attached, projected >>
    BY <1>9 DEF RigExists, NothingToClone, AddRig, RigAdded, RigNotAdded
  <2>2. PICK at \in {"running", "failed", "cloning"} : route' = [route EXCEPT ![j] = [route[j] EXCEPT !.at = at]]
    BY <1>9 DEF RigExists, NothingToClone, AddRig, RigAdded, RigNotAdded
  <2>3. route' \in [Jobs -> RouteRow] /\ route'[j].at = at /\ \A k \in Jobs \ {j} : route'[k] = route[k]
    BY <1>0, <2>2 DEF RouteRow, RouteStages
  <2> QED
    BY <2>1, <2>3, NoJobIsQueued
<1>10. CASE UNCHANGED routingVars
  BY <1>10 DEF routingVars, Routed, Queues, RoutingInv, ProjectKnown
<1> QED
  BY <1>1, <1>2, <1>3, <1>4, <1>5, <1>6, <1>7, <1>8, <1>9, <1>10 DEF RoutingNext

\* Whatever rig the caller names, and whatever is attached, detached, projected or
\* registered between the queries, a job is queued for a rig that holds, or is to hold, a
\* repository of its project, or its bead has no project (POST /v1/work/{bead}/dispatch).
THEOREM RoutedInvariant == RoutingSpec => RoutedToItsProject
<1>1. ASSUME RoutingInv, [RoutingNext]_routingVars
      PROVE  [ \A j \in Jobs :
                 (route[j].at # "queued" /\ route'[j].at = "queued") =>
                    \/ projected[j] = "none"
                    \/ \E row \in HeldFor(ProjectOfJob[j]) \cup WantedFor(ProjectOfJob[j]) :
                           row.rig = route'[j].rig ]_routingVars
  BY <1>1, RoutingStep DEF Routed, Queues, RigFound
<1>2. RoutingInv /\ [RoutingNext]_routingVars => RoutingInv'
  BY RoutingStep DEF Routed
<1> QED
  BY <1>1, <1>2, RoutingInitial, PTL DEF RoutingSpec, RoutedToItsProject

(***************************************************************************)
(* Migrations.                                                             *)
(***************************************************************************)

Table == [Files -> Texts]
Process == [at : {"waiting", "counted", "skipping", "applying", "changed", "done", "failed"},
            fresh : BOOLEAN, files : Table, known : SUBSET Files]
Past == {"skipping", "applying", "changed"}     \* past run's checks

\* A release holds the first migrations, without a gap.
Segment(t) == \E k \in 0..Shipped : Names(t) = 1..k

Unknown(r) == Names(r.files) \ r.known
LeastOf(S) == CHOOSE m \in S : \A n \in S : m <= n

\* What a process that is past run's checks knows is on record, as its own release has it;
\* and the migration it has changed the schema by is the next one it would run.
Knows(r, record, schema) ==
    /\ Segment(r.files)
    /\ r.at \in Past =>
          /\ r.known \subseteq Names(record)
          /\ \A n \in r.known \cap Names(r.files) : record[n] = r.files[n]
    /\ r.at = "changed" => Unknown(r) # {} /\ schema[LeastOf(Unknown(r))] # "none"

InOrder(record, schema) ==
    /\ \A m \in Names(schema) : 1..(m - 1) \subseteq Names(record)
    /\ Names(record) \subseteq Names(schema) \cup Seeds

MigrateInv ==
    /\ files \in Table /\ changed \in Table /\ onRecord \in Table
    /\ deploy \in [Deploys -> Process]
    /\ Segment(files)
    /\ \A d \in Deploys : Knows(deploy[d], onRecord, changed)
    /\ InOrder(onRecord, changed)

\* Every set of migrations that is not empty has a first one.
LEMMA LeastExists ==
  ASSUME NEW S \in SUBSET Nat, S # {}
  PROVE  LeastOf(S) \in S /\ \A n \in S : LeastOf(S) <= n
<1> DEFINE R == { p \in Nat \X Nat : p[1] < p[2] }
<1>1. IsWellFoundedOn(R, Nat)
  BY NatLessThanWellFounded DEF OpToRel
<1>2. \A x \in Nat, y \in Nat : x < y => << x, y >> \in R
  OBVIOUS
<1> HIDE DEF R
<1>3. \E x \in S : \A y \in S : ~ (<< y, x >> \in R)
  BY <1>1, WFMin
<1>4. \A x, y \in Nat : ~(y < x) => x <= y
  OBVIOUS
<1>5. \E m \in S : \A n \in S : m <= n
  BY <1>2, <1>3, <1>4
<1> QED
  BY <1>5 DEF LeastOf

\* One more migration on record contradicts no process: none that knows it had found it there.
LEMMA RecordGrows ==
  ASSUME NEW record \in Table, NEW schema \in Table, NEW m \in Files, NEW t \in Texts \ {"none"},
         record[m] = "none", NEW r \in Process, Knows(r, record, schema)
  PROVE  Knows(r, [record EXCEPT ![m] = t], schema)
<1> DEFINE more == [record EXCEPT ![m] = t]
<1>1. more[m] = t /\ \A n \in Files \ {m} : more[n] = record[n]
  BY DEF Table
<1>2. m \notin Names(record) /\ Names(record) \subseteq Names(more)
  BY <1>1 DEF Names
<1> HIDE DEF more
<1>3. r.at \in Past => /\ r.known \subseteq Names(more)
                       /\ \A n \in r.known \cap Names(r.files) : more[n] = r.files[n]
  <2> SUFFICES ASSUME r.at \in Past
               PROVE  /\ r.known \subseteq Names(more)
                      /\ \A n \in r.known \cap Names(r.files) : more[n] = r.files[n]
    OBVIOUS
  <2>1. r.known \subseteq Names(record) /\ \A n \in r.known \cap Names(r.files) : record[n] = r.files[n]
    BY DEF Knows
  <2>2. \A n \in r.known : n \in Files \ {m}
    BY <1>2, <2>1 DEF Names
  <2> QED
    BY <1>1, <1>2, <2>1, <2>2
<1> QED
  BY <1>3 DEF Knows, more

\* Nor does one more change of the schema.
LEMMA SchemaGrows ==
  ASSUME NEW record \in Table, NEW schema \in Table, NEW m \in Files, NEW t \in Texts \ {"none"},
         NEW r \in Process, Knows(r, record, schema)
  PROVE  Knows(r, record, [schema EXCEPT ![m] = t])
<1>1. \A n : n \in Files /\ schema[n] # "none" => [schema EXCEPT ![m] = t][n] # "none"
  BY DEF Table
<1>2. r.at = "changed" => LeastOf(Unknown(r)) \in Files
  <2>1. Unknown(r) \in SUBSET Files /\ Files \subseteq Nat
    BY DEF Unknown, Names, Files
  <2> QED
    BY <2>1, LeastExists DEF Knows
<1> QED
  BY <1>1, <1>2 DEF Knows

\* What it is to set two fields of a process.
LEMMA TwoFields ==
  ASSUME NEW f \in [Deploys -> Process], NEW d \in Deploys,
         NEW a \in {"skipping", "applying"}, NEW K \in SUBSET Files
  PROVE  [f EXCEPT ![d].at = a, ![d].known = K]
         = [f EXCEPT ![d] = [at |-> a, fresh |-> f[d].fresh, files |-> f[d].files, known |-> K]]
<1> DEFINE r == [at |-> a, fresh |-> f[d].fresh, files |-> f[d].files, known |-> K]
<1>0. PICK g : g = [f EXCEPT ![d].at = a, ![d].known = K]
  OBVIOUS
<1>1. g[d] = r
  BY <1>0 DEF Process
<1>2. DOMAIN g = Deploys /\ g = [e \in Deploys |-> g[e]]
  BY <1>0
<1>3. \A e \in Deploys \ {d} : g[e] = f[e]
  BY <1>0
<1> HIDE DEF r
<1>4. g = [e \in Deploys |-> IF e = d THEN r ELSE f[e]]
  BY <1>1, <1>2, <1>3
<1>5. [f EXCEPT ![d] = r] = [e \in Deploys |-> IF e = d THEN r ELSE f[e]]
  OBVIOUS
<1>6. g = [f EXCEPT ![d] = r]
  BY <1>4, <1>5, Zenon
<1> QED
  BY <1>0, <1>6 DEF r

\* A process that goes on, with what it may know, keeps the invariant.
LEMMA ProcessGoesOn ==
  ASSUME MigrateInv, UNCHANGED << files, changed, onRecord >>, NEW d \in Deploys, NEW r \in Process,
         Knows(r, onRecord, changed), deploy' = [deploy EXCEPT ![d] = r]
  PROVE  MigrateInv'
<1>1. deploy' \in [Deploys -> Process] /\ \A e \in Deploys : deploy'[e] = r \/ deploy'[e] = deploy[e]
  BY DEF MigrateInv
<1>2. \A e \in Deploys : Knows(deploy'[e], onRecord, changed)
  BY <1>1 DEF MigrateInv
<1> QED
  BY <1>1, <1>2 DEF MigrateInv, Knows, InOrder, Segment, Names

\* Recording what was changed or set aside, and knowing it, keeps the invariant.
LEMMA RecordedOnce ==
  ASSUME MigrateInv, UNCHANGED << files, changed >>, NEW d \in Deploys, NEW m \in Names(deploy[d].files),
         onRecord[m] = "none", onRecord' = [onRecord EXCEPT ![m] = deploy[d].files[m]],
         changed[m] # "none" \/ m \in Seeds,
         deploy[d].at \in Past, NEW at \in {"skipping", "applying"},
         deploy' = [deploy EXCEPT ![d] = [at |-> at, fresh |-> deploy[d].fresh, files |-> deploy[d].files,
                                          known |-> deploy[d].known \cup {m}]]
  PROVE  MigrateInv'
<1> DEFINE t == deploy[d].files[m]
           r == [at |-> at, fresh |-> deploy[d].fresh, files |-> deploy[d].files, known |-> deploy[d].known \cup {m}]
<1>1. deploy[d] \in Process /\ m \in Files /\ t \in Texts \ {"none"}
  BY DEF MigrateInv, Process, Names, Table
<1>2. r \in Process /\ r.at = at /\ r.files = deploy[d].files /\ r.known = deploy[d].known \cup {m}
  BY <1>1 DEF Process
<1>3. deploy' = [deploy EXCEPT ![d] = r] /\ onRecord' = [onRecord EXCEPT ![m] = t]
  OBVIOUS
<1>4. onRecord \in Table /\ changed \in Table /\ Knows(deploy[d], onRecord, changed)
  BY DEF MigrateInv
<1>5. \A e \in Deploys : Knows(deploy[e], onRecord', changed)
  <2>1. SUFFICES ASSUME NEW e \in Deploys
                 PROVE  Knows(deploy[e], [onRecord EXCEPT ![m] = t], changed)
    BY <1>3
  <2>2. deploy[e] \in Process /\ Knows(deploy[e], onRecord, changed)
    BY DEF MigrateInv
  <2> HIDE DEF t
  <2> QED
    BY <1>1, <1>4, <2>2, RecordGrows
<1>6. onRecord' \in Table /\ onRecord'[m] = deploy[d].files[m] /\ Names(onRecord') = Names(onRecord) \cup {m}
  BY <1>1, <1>3, <1>4 DEF Table, Names
<1> HIDE DEF t, r
<1>7. Knows(r, onRecord', changed)
  <2>1. deploy[d].known \subseteq Names(onRecord')
        /\ \A n \in deploy[d].known \cap Names(deploy[d].files) : onRecord'[n] = deploy[d].files[n]
    BY <1>5 DEF Knows
  <2>2. r.known \subseteq Names(onRecord') /\ \A n \in r.known \cap Names(r.files) : onRecord'[n] = r.files[n]
    BY <1>2, <1>6, <2>1
  <2>3. r.at # "changed" /\ Segment(r.files)
    BY <1>2, <1>4 DEF Knows
  <2> QED
    BY <2>2, <2>3 DEF Knows
<1>8. deploy' \in [Deploys -> Process] /\ \A e \in Deploys : Knows(deploy'[e], onRecord', changed)
  BY <1>2, <1>3, <1>5, <1>7 DEF MigrateInv
<1>9. InOrder(onRecord', changed)
  BY <1>1, <1>6 DEF MigrateInv, InOrder, Names
<1>10. files' \in Table /\ changed' \in Table /\ Segment(files')
  BY DEF MigrateInv, Segment, Names
<1> QED
  BY <1>6, <1>8, <1>9, <1>10 DEF MigrateInv, Knows, InOrder, Segment, Names, Unknown

\* The initial state satisfies the invariant: there is nothing anywhere.
LEMMA MigrateStart ==
  ASSUME MigrateInit
  PROVE  MigrateInv
<1>1. First \in 0..Shipped /\ Shipped \in Nat
  BY MigrateAssumption
<1>2. Names(files) = 1..First
  BY <1>1 DEF MigrateInit, Names, Files
<1>3. Segment(files)
  BY <1>1, <1>2 DEF Segment
<1>4. Waiting \in Process /\ Names(Waiting.files) = 1..0 /\ Waiting.at = "waiting"
  BY DEF Waiting, Process, Table, Texts, Names
<1>5. Knows(Waiting, onRecord, changed)
  BY <1>1, <1>4 DEF Knows, Segment, Past
<1>6. files \in Table /\ changed \in Table /\ onRecord \in Table
  BY DEF MigrateInit, Table, Texts
<1>7. InOrder(onRecord, changed)
  BY DEF MigrateInit, InOrder, Names
<1>8. deploy \in [Deploys -> Process] /\ \A d \in Deploys : deploy[d] = Waiting
  BY <1>4 DEF MigrateInit
<1> QED
  BY <1>3, <1>5, <1>6, <1>7, <1>8 DEF MigrateInv

\* What a failed, finished or waiting process knows does not matter.
LEMMA ProcessStops ==
  ASSUME MigrateInv, UNCHANGED << files, changed, onRecord >>, NEW d \in Deploys,
         NEW at \in {"done", "failed"}, Goes(d, at)
  PROVE  MigrateInv'
<1>1. deploy[d] \in Process /\ Knows(deploy[d], onRecord, changed)
  BY DEF MigrateInv
<1>2. PICK r : r = [deploy[d] EXCEPT !.at = at]
  OBVIOUS
<1>3. r \in Process /\ r.at = at /\ r.files = deploy[d].files
  BY <1>1, <1>2 DEF Process
<1>4. Knows(r, onRecord, changed)
  BY <1>1, <1>3 DEF Knows, Past
<1>5. deploy' = [deploy EXCEPT ![d] = r]
  BY <1>2 DEF Goes
<1> QED
  BY <1>3, <1>4, <1>5, ProcessGoesOn

\* run: a process that finds a record its release contradicts goes no further.
LEMMA RunStep ==
  ASSUME MigrateInv, NEW d \in Deploys, Run(d)
  PROVE  MigrateInv'
<1>1. deploy[d] \in Process /\ Knows(deploy[d], onRecord, changed) /\ UNCHANGED << files, changed, onRecord >>
  BY DEF MigrateInv, Run
<1>2. CASE Goes(d, "failed")
  BY <1>1, <1>2, ProcessStops
<1>3. CASE ~Goes(d, "failed")
  <2>1. PICK at \in {"skipping", "applying"} :
            deploy' = [deploy EXCEPT ![d] = [at |-> at, fresh |-> deploy[d].fresh, files |-> deploy[d].files,
                                             known |-> Names(onRecord)]]
    BY <1>3 DEF Run
  <2>2. ~Edited(d)
    BY <1>3 DEF Run
  <2> DEFINE r == [at |-> at, fresh |-> deploy[d].fresh, files |-> deploy[d].files, known |-> Names(onRecord)]
  <2>3. r \in Process /\ r.at = at /\ r.files = deploy[d].files /\ r.known = Names(onRecord)
    BY <1>1 DEF Process, Names
  <2>4. deploy \in [Deploys -> Process] /\ Names(onRecord) \in SUBSET Files
    BY DEF MigrateInv, Names
  <2>5. deploy' = [deploy EXCEPT ![d] = r]
    BY <2>1
  <2> HIDE DEF r
  <2>6. Knows(r, onRecord, changed)
    BY <1>1, <2>2, <2>3 DEF Knows, Edited
  <2> QED
    BY <1>1, <2>3, <2>5, <2>6, ProcessGoesOn
<1> QED
  BY <1>2, <1>3

\* skipTenantSeeds: a seed that is set aside goes on record as the release has it.
LEMMA SkipStep ==
  ASSUME MigrateInv, NEW d \in Deploys, SkipSeed(d)
  PROVE  MigrateInv'
<1> DEFINE m == LeastOf(Unskipped(d))
<1>1. deploy[d] \in Process /\ Knows(deploy[d], onRecord, changed)
  BY DEF MigrateInv
<1>2. Unskipped(d) \in SUBSET Nat /\ Unskipped(d) # {} /\ deploy[d].at = "skipping"
  BY MigrateAssumption DEF SkipSeed, Unskipped
<1>3. m \in Unskipped(d)
  BY <1>2, LeastExists
<1>4. m \in Names(deploy[d].files) /\ m \in Seeds
  BY <1>3 DEF Unskipped
<1>5. \/ Fails(d)
      \/ /\ onRecord[m] = "none" /\ onRecord' = [onRecord EXCEPT ![m] = deploy[d].files[m]]
         /\ deploy' = [deploy EXCEPT ![d].known = @ \cup {m}] /\ UNCHANGED << files, changed >>
  BY DEF SkipSeed, LeastOf
<1> HIDE DEF m
<1>6. CASE Fails(d)
  BY <1>6, ProcessStops DEF Fails
<1>7. CASE ~Fails(d)
  <2>1. /\ onRecord[m] = "none" /\ onRecord' = [onRecord EXCEPT ![m] = deploy[d].files[m]]
        /\ deploy' = [deploy EXCEPT ![d] = [deploy[d] EXCEPT !.known = deploy[d].known \cup {m}]]
        /\ UNCHANGED << files, changed >>
    BY <1>5, <1>7
  <2>2. [deploy[d] EXCEPT !.known = deploy[d].known \cup {m}]
        = [at |-> "skipping", fresh |-> deploy[d].fresh, files |-> deploy[d].files, known |-> deploy[d].known \cup {m}]
    BY <1>1, <1>2 DEF Process
  <2>3. deploy' = [deploy EXCEPT ![d] = [at |-> "skipping", fresh |-> deploy[d].fresh, files |-> deploy[d].files,
                                         known |-> deploy[d].known \cup {m}]]
    BY <2>1, <2>2
  <2>4. deploy[d].at \in Past /\ "skipping" \in {"skipping", "applying"}
    BY <1>2 DEF Past
  <2> QED
    BY <1>4, <2>1, <2>3, <2>4, RecordedOnce
<1> QED
  BY <1>6, <1>7

\* The next migration of a process: one of its release, and every earlier one is on record.
LEMMA NextInOrder ==
  ASSUME MigrateInv, NEW d \in Deploys, Pending(d) # {}, deploy[d].at \in Past
  PROVE  /\ NextOf(d) = LeastOf(Unknown(deploy[d])) /\ NextOf(d) \in Names(deploy[d].files)
         /\ NextOf(d) \in Files /\ deploy[d].files[NextOf(d)] \in Texts \ {"none"}
         /\ 1..(NextOf(d) - 1) \subseteq Names(onRecord)
<1>1. deploy[d] \in Process /\ Knows(deploy[d], onRecord, changed)
  BY DEF MigrateInv
<1>2. Pending(d) = Unknown(deploy[d]) /\ NextOf(d) = LeastOf(Unknown(deploy[d]))
  BY DEF Pending, NextOf, Unknown, LeastOf
<1>3. Pending(d) \subseteq Names(deploy[d].files) /\ Names(deploy[d].files) \subseteq Files /\ Files \subseteq Nat
  BY DEF Pending, Names, Files
<1> DEFINE m == NextOf(d)
<1>4. m \in Pending(d) /\ \A n \in Pending(d) : m <= n
  BY <1>2, <1>3, LeastExists
<1> HIDE DEF m
<1>5. PICK k \in 0..Shipped : Names(deploy[d].files) = 1..k
  BY <1>1 DEF Knows, Segment
<1>6. 1..(m - 1) \subseteq Names(onRecord)
  <2> SUFFICES ASSUME NEW n \in 1..(m - 1)
               PROVE  n \in Names(onRecord)
    OBVIOUS
  <2>1. m \in 1..k /\ k \in Nat
    BY <1>3, <1>4, <1>5, MigrateAssumption
  <2>2. n \in 1..k /\ ~(m <= n)
    BY <2>1
  <2>3. n \in deploy[d].known
    BY <1>4, <1>5, <2>2 DEF Pending
  <2> QED
    BY <1>1, <2>3 DEF Knows
<1>7. deploy[d].files[m] \in Texts \ {"none"}
  BY <1>1, <1>3, <1>4 DEF Process, Table, Names
<1> QED
  BY <1>2, <1>3, <1>4, <1>6, <1>7 DEF m

\* apply: the schema is changed by the next migration, with every earlier one on record.
LEMMA ApplyStep ==
  ASSUME MigrateInv, NEW d \in Deploys, Apply(d)
  PROVE  MigrateInv'
<1> DEFINE m == NextOf(d)
           t == deploy[d].files[m]
<1>1. deploy[d] \in Process /\ Knows(deploy[d], onRecord, changed) /\ onRecord \in Table /\ changed \in Table
  BY DEF MigrateInv
<1>2. Pending(d) # {} /\ deploy[d].at = "applying" /\ deploy[d].at \in Past
  BY DEF Apply, Past
<1>3. /\ m = LeastOf(Unknown(deploy[d])) /\ m \in Files /\ t \in Texts \ {"none"}
      /\ 1..(m - 1) \subseteq Names(onRecord)
  BY <1>2, NextInOrder
<1>4. \/ Fails(d)
      \/ /\ changed' = [changed EXCEPT ![m] = t] /\ Goes(d, "changed")
         /\ UNCHANGED << files, onRecord >>
  BY DEF Apply
<1>5. Unknown(deploy[d]) # {}
  BY <1>2 DEF Pending, Unknown
<1> HIDE DEF m, t
<1>6. CASE Fails(d)
  BY <1>6, ProcessStops DEF Fails
<1>7. CASE ~Fails(d)
  <2>1. changed' = [changed EXCEPT ![m] = t] /\ UNCHANGED << files, onRecord >>
    BY <1>4, <1>7
  <2>2. PICK r : r = [deploy[d] EXCEPT !.at = "changed"]
    OBVIOUS
  <2>3. r \in Process /\ r.at = "changed" /\ r.files = deploy[d].files /\ r.known = deploy[d].known
    BY <1>1, <2>2 DEF Process
  <2>4. deploy' = [deploy EXCEPT ![d] = r]
    BY <1>4, <1>7, <2>2 DEF Goes
  <2>5. changed' \in Table /\ changed'[m] = t /\ Names(changed') = Names(changed) \cup {m}
    BY <1>1, <1>3, <2>1 DEF Table, Names
  <2>6. \A e \in Deploys : Knows(deploy[e], onRecord, changed')
    <3>1. SUFFICES ASSUME NEW e \in Deploys
                   PROVE  Knows(deploy[e], onRecord, [changed EXCEPT ![m] = t])
      BY <2>1
    <3>2. deploy[e] \in Process /\ Knows(deploy[e], onRecord, changed)
      BY DEF MigrateInv
    <3> QED
      BY <1>1, <1>3, <3>2, SchemaGrows
  <2>7. Unknown(r) = Unknown(deploy[d])
    BY <2>3 DEF Unknown
  <2>8. Knows(r, onRecord, changed')
    <3>1. Knows(deploy[d], onRecord, changed')
      BY <2>6
    <3>2. changed'[LeastOf(Unknown(r))] # "none" /\ Unknown(r) # {}
      BY <1>3, <1>5, <2>5, <2>7
    <3> QED
      BY <1>2, <2>3, <3>1, <3>2 DEF Knows
  <2>9. deploy' \in [Deploys -> Process] /\ \A e \in Deploys : Knows(deploy'[e], onRecord, changed')
    BY <2>3, <2>4, <2>6, <2>8 DEF MigrateInv
  <2>10. InOrder(onRecord, changed')
    BY <1>3, <2>5 DEF MigrateInv, InOrder
  <2> QED
    BY <2>1, <2>5, <2>9, <2>10 DEF MigrateInv, Knows, InOrder, Segment, Names, Unknown
<1> QED
  BY <1>6, <1>7

\* The record that follows a change.
LEMMA RecordStep ==
  ASSUME MigrateInv, NEW d \in Deploys, RecordChange(d)
  PROVE  MigrateInv'
<1> DEFINE m == NextOf(d)
<1>1. deploy[d] \in Process /\ Knows(deploy[d], onRecord, changed)
  BY DEF MigrateInv
<1>2. deploy[d].at = "changed" /\ deploy[d].at \in Past /\ "applying" \in {"skipping", "applying"}
  BY DEF RecordChange, Past
<1>3. Pending(d) # {} /\ changed[LeastOf(Unknown(deploy[d]))] # "none"
  BY <1>1, <1>2 DEF Knows, Pending, Unknown
<1>4. m \in Names(deploy[d].files) /\ changed[m] # "none"
  BY <1>2, <1>3, NextInOrder
<1>5. \/ Fails(d)
      \/ /\ onRecord[m] = "none" /\ onRecord' = [onRecord EXCEPT ![m] = deploy[d].files[m]]
         /\ deploy' = [deploy EXCEPT ![d].at = "applying", ![d].known = @ \cup {m}]
         /\ UNCHANGED << files, changed >>
  BY DEF RecordChange
<1> HIDE DEF m
<1>6. CASE Fails(d)
  BY <1>6, ProcessStops DEF Fails
<1>7. CASE ~Fails(d)
  <2>1. /\ onRecord[m] = "none" /\ onRecord' = [onRecord EXCEPT ![m] = deploy[d].files[m]]
        /\ UNCHANGED << files, changed >>
    BY <1>5, <1>7
  <2>2. deploy \in [Deploys -> Process] /\ deploy[d].known \cup {m} \in SUBSET Files
    BY <1>1, <1>4 DEF MigrateInv, Process, Names
  <2>3. deploy' = [deploy EXCEPT ![d] = [at |-> "applying", fresh |-> deploy[d].fresh, files |-> deploy[d].files,
                                         known |-> deploy[d].known \cup {m}]]
    <3>1. deploy' = [deploy EXCEPT ![d].at = "applying", ![d].known = deploy[d].known \cup {m}]
      BY <1>5, <1>7
    <3> QED
      BY <1>2, <2>2, <3>1, TwoFields, Zenon
  <2> QED
    BY <1>2, <1>4, <2>1, <2>3, RecordedOnce
<1> QED
  BY <1>6, <1>7

\* A release adds the next migration, and an edit changes what one says: neither leaves a gap.
LEMMA ReleaseStep ==
  ASSUME MigrateInv, Release \/ \E m \in Files : Edit(m)
  PROVE  MigrateInv'
<1>1. UNCHANGED << changed, onRecord, deploy >>
  BY DEF Release, Edit
<1>2. files' \in Table /\ Segment(files')
  <2>1. PICK k \in 0..Shipped : Names(files) = 1..k
    BY DEF MigrateInv, Segment
  <2>2. files \in Table /\ Shipped \in Nat /\ k \in Nat
    BY MigrateAssumption DEF MigrateInv
  <2>3. CASE Release
    <3>1. Cardinality(1..k) = k
      BY <2>2, FS_Interval
    <3>2. k # Shipped
      BY <2>1, <2>3 DEF Release, Files
    <3>3. k + 1 \in Files /\ k + 1 \in 0..Shipped /\ files' = [files EXCEPT ![k + 1] = "v1"]
      <4>1. files' = [files EXCEPT ![k + 1] = "v1"]
        BY <2>1, <2>3, <3>1 DEF Release
      <4>2. k + 1 \in 1..Shipped /\ k + 1 \in 0..Shipped
        BY <2>2, <3>2
      <4> QED
        BY <4>1, <4>2 DEF Files
    <3>4. files' \in Table /\ Names(files') = Names(files) \cup {k + 1}
      BY <2>2, <3>3 DEF Table, Names, Texts
    <3>5. (1..k) \cup {k + 1} = 1..(k + 1)
      BY <2>2
    <3> QED
      BY <2>1, <3>3, <3>4, <3>5 DEF Segment
  <2>4. CASE \E m \in Files : Edit(m)
    <3>1. PICK m \in Files : files[m] = "v1" /\ files' = [files EXCEPT ![m] = "v2"]
      BY <2>4 DEF Edit
    <3>2. files' \in Table /\ Names(files') = Names(files)
      BY <2>2, <3>1 DEF Table, Names, Texts
    <3> QED
      BY <2>1, <3>2 DEF Segment
  <2> QED
    BY <2>3, <2>4
<1> QED
  BY <1>1, <1>2 DEF MigrateInv, Knows, InOrder, Segment, Names, Unknown

\* Every step keeps the invariant.
LEMMA MigrateStep ==
  ASSUME MigrateInv, [MigrateNext]_migrateVars
  PROVE  MigrateInv'
<1>1. ASSUME NEW d \in Deploys, Count(d)
      PROVE  MigrateInv'
  <2>1. UNCHANGED << files, changed, onRecord >>
    BY <1>1 DEF Count
  <2>2. PICK fresh \in BOOLEAN :
            deploy' = [deploy EXCEPT ![d] = [at |-> "counted", fresh |-> fresh, files |-> files, known |-> {}]]
    BY <1>1 DEF Count
  <2> DEFINE r == [at |-> "counted", fresh |-> fresh, files |-> files, known |-> {}]
  <2>3. r \in Process /\ r.at = "counted" /\ r.files = files
    BY DEF Process, MigrateInv
  <2>4. deploy' = [deploy EXCEPT ![d] = r]
    BY <2>2
  <2> HIDE DEF r
  <2>5. Knows(r, onRecord, changed)
    BY <2>3 DEF Knows, Past, MigrateInv
  <2> QED
    BY <2>1, <2>3, <2>4, <2>5, ProcessGoesOn
<1>2. ASSUME NEW d \in Deploys, Skipped(d)
      PROVE  MigrateInv'
  <2>1. UNCHANGED << files, changed, onRecord >> /\ deploy[d].at = "skipping"
        /\ deploy' = [deploy EXCEPT ![d] = [deploy[d] EXCEPT !.at = "applying"]]
    BY <1>2 DEF Skipped, Goes
  <2>2. deploy[d] \in Process /\ Knows(deploy[d], onRecord, changed)
    BY DEF MigrateInv
  <2>3. PICK r : r = [deploy[d] EXCEPT !.at = "applying"]
    OBVIOUS
  <2>4. r \in Process /\ r.at = "applying" /\ r.files = deploy[d].files /\ r.known = deploy[d].known
    BY <2>2, <2>3 DEF Process
  <2>5. Knows(r, onRecord, changed)
    BY <2>1, <2>2, <2>4 DEF Knows, Past
  <2> QED
    BY <2>1, <2>3, <2>4, <2>5, ProcessGoesOn
<1>3. ASSUME NEW d \in Deploys, Done(d)
      PROVE  MigrateInv'
  BY <1>3, ProcessStops DEF Done
<1>4. ASSUME NEW d \in Deploys, Dies(d)
      PROVE  MigrateInv'
  BY <1>4, ProcessStops DEF Dies, Fails
<1>5. ASSUME NEW d \in Deploys, DeployAgain(d)
      PROVE  MigrateInv'
  <2>1. UNCHANGED << files, changed, onRecord >> /\ deploy' = [deploy EXCEPT ![d] = Waiting]
    BY <1>5 DEF DeployAgain
  <2>2. Waiting \in Process /\ Names(Waiting.files) = 1..0 /\ Waiting.at = "waiting"
    BY DEF Waiting, Process, Table, Texts, Names
  <2>3. Knows(Waiting, onRecord, changed)
    BY <2>2, MigrateAssumption DEF Knows, Segment, Past
  <2> QED
    BY <2>1, <2>2, <2>3, ProcessGoesOn
<1>6. CASE UNCHANGED migrateVars
  BY <1>6 DEF migrateVars, MigrateInv, Knows, InOrder, Segment, Names, Unknown
<1> QED
  BY <1>1, <1>2, <1>3, <1>4, <1>5, <1>6, RunStep, SkipStep, ApplyStep, RecordStep, ReleaseStep
     DEF MigrateNext, MigrateSteps

\* A migration changes the schema only when every earlier one is on record, and what is on
\* record was run or is a seed that was set aside (cmd/migrate).
THEOREM SchemaInvariant == MigrateSpec => []SchemaGrowsInOrder
<1>1. MigrateInv => SchemaGrowsInOrder
  BY DEF MigrateInv, InOrder, Knows, Past, SchemaGrowsInOrder
<1> QED
  BY <1>1, MigrateStart, MigrateStep, PTL DEF MigrateSpec

(***************************************************************************)
(* Types.                                                                  *)
(***************************************************************************)

\* The initial state of the inbox is type correct.
LEMMA AttentionStart == AttentionInit => AttentionTypeOK
  BY AttentionAssumption DEF AttentionInit, AttentionTypeOK, ItemStatuses

\* Snoozing, delegating and resolving keep the inbox type correct.
LEMMA AttentionStep ==
  ASSUME AttentionTypeOK, [AttentionNext]_attentionVars
  PROVE  AttentionTypeOK'
<1> DEFINE Item == [user : People, status : ItemStatuses, until : 0..Horizon]
<1>1. item \in [Items -> Item] /\ clock \in 0..Horizon
  BY DEF AttentionTypeOK
<1>2. ASSUME NEW u \in People, NEW i \in Items, NEW until \in 1..Horizon, Snooze(u, i, until)
      PROVE  AttentionTypeOK'
  <2>1. item' = [item EXCEPT ![i] = [item[i] EXCEPT !.status = "snoozed", !.until = until]] /\ clock' = clock
    BY <1>1, <1>2 DEF Snooze
  <2>2. until \in 0..Horizon
    BY AttentionAssumption
  <2>3. [item[i] EXCEPT !.status = "snoozed", !.until = until] \in Item
    BY <1>1, <2>2 DEF ItemStatuses
  <2> QED
    BY <1>1, <2>1, <2>3 DEF AttentionTypeOK
<1>3. ASSUME NEW u \in People, NEW i \in Items, NEW to \in People, Delegate(u, i, to)
      PROVE  AttentionTypeOK'
  <2>1. item' = [item EXCEPT ![i] = [item[i] EXCEPT !.status = "delegated", !.user = to]] /\ clock' = clock
    BY <1>1, <1>3 DEF Delegate
  <2>2. [item[i] EXCEPT !.status = "delegated", !.user = to] \in Item
    BY <1>1 DEF ItemStatuses
  <2> QED
    BY <1>1, <2>1, <2>2 DEF AttentionTypeOK
<1>4. ASSUME NEW u \in People, NEW i \in Items, Resolve(u, i)
      PROVE  AttentionTypeOK'
  <2>1. item' = [item EXCEPT ![i] = [item[i] EXCEPT !.status = "resolved"]] /\ clock' = clock
    BY <1>1, <1>4 DEF Resolve
  <2>2. [item[i] EXCEPT !.status = "resolved"] \in Item
    BY <1>1 DEF ItemStatuses
  <2> QED
    BY <1>1, <2>1, <2>2 DEF AttentionTypeOK
<1>5. CASE AttentionTick
  BY <1>5, AttentionAssumption DEF AttentionTick, AttentionTypeOK
<1>6. CASE UNCHANGED attentionVars
  BY <1>6 DEF attentionVars, AttentionTypeOK
<1> QED
  BY <1>2, <1>3, <1>4, <1>5, <1>6 DEF AttentionNext

\* A migration's upsets are counted and bounded.
UpsetsInv == MigrateInv /\ upsets \in 0..MaxUpsets

\* None has been counted at first.
LEMMA UpsetsStart == MigrateInit => UpsetsInv
  BY MigrateStart, MigrateAssumption DEF MigrateInit, UpsetsInv

\* Every step counts one or none.
LEMMA UpsetsStep ==
  ASSUME UpsetsInv, [MigrateNext]_migrateVars
  PROVE  UpsetsInv'
<1>1. UNCHANGED upsets \/ Upset
  BY DEF MigrateNext, MigrateSteps, migrateVars, Count, Run, SkipSeed, Skipped, Apply, RecordChange, Done, Dies,
         DeployAgain, Release, Edit
<1>2. upsets' \in 0..MaxUpsets
  BY <1>1, MigrateAssumption DEF UpsetsInv, Upset
<1> QED
  BY <1>2, MigrateStep DEF UpsetsInv

\* A repository with a check is somebody's, and every membership is of a project, a member
\* and a role.
HoldingsInv == OwnersInv /\ ProjectsTypeOK

\* The memberships of two owners.
LEMMA RolesAreMemberships ==
  ASSUME NEW s \in Slugs, NEW o \in Proposed
  PROVE  RolesOf(s, o) \subseteq Slugs \X Members \X ProjectRoles
  BY ProjectsAssumption DEF RolesOf, ProjectRoles

\* The initial state satisfies the invariant of what projects hold.
LEMMA HoldingsStart == ProjectsInit => HoldingsInv
  BY OwnersInit, ProjectsAssumption DEF ProjectsInit, HoldingsInv, ProjectsTypeOK

\* Every step keeps it.
LEMMA HoldingsStep ==
  ASSUME HoldingsInv, [ProjectsNext]_projectsVars
  PROVE  HoldingsInv'
<1> DEFINE Membership == Slugs \X Members \X ProjectRoles
<1>1. OwnersInv' /\ owners' \in [Slugs -> Proposed \cup {NoOwners}]
  BY OwnersStep DEF HoldingsInv, OwnersInv
<1>2. roles' \subseteq Membership /\ granted' \subseteq Membership
  <2>1. roles \subseteq Membership /\ granted \subseteq Membership
    BY DEF HoldingsInv, ProjectsTypeOK
  <2>2. ASSUME NEW s \in Slugs, NEW o \in Proposed, NEW cell \in Cells \cup {"default"}, CreateProject(s, o, cell)
        PROVE  roles' \subseteq Membership /\ granted' \subseteq Membership
    BY <2>1, <2>2, RolesAreMemberships DEF CreateProject
  <2>3. ASSUME NEW c \in OwnerChanges, OwnersCommit(c)
        PROVE  roles' \subseteq Membership /\ granted' \subseteq Membership
    <3>1. change[c].slug \in Slugs /\ change[c].to \in Proposed
      BY <2>3 DEF OwnersCommit, HoldingsInv, OwnersInv, OpenChange
    <3>2. RolesOf(change[c].slug, change[c].to) \subseteq Membership
      BY <3>1, RolesAreMemberships
    <3> QED
      BY <2>1, <2>3, <3>2 DEF OwnersCommit, Swapped
  <2>4. ASSUME NEW s \in Slugs, NEW u \in Members, NEW role \in GrantRoles, AddProjectMember(s, u, role)
        PROVE  roles' \subseteq Membership /\ granted' \subseteq Membership
    BY <2>1, <2>4, ProjectsAssumption DEF AddProjectMember, ProjectRoles
  <2>5. CASE UNCHANGED << roles, granted >>
    BY <2>1, <2>5
  <2> QED
    BY <2>2, <2>3, <2>4, <2>5
       DEF ProjectsNext, projectsVars, OwnersRead, OwnersRollBack, SetProjectCell, AttachRepositories,
           DetachRepository, SetRepositoryCheck
<1>3. cellOf' \in [Slugs -> Cells \cup {"none"}]
  <2>1. cellOf \in [Slugs -> Cells \cup {"none"}]
    BY DEF HoldingsInv, ProjectsTypeOK
  <2>2. ASSUME NEW s \in Slugs, NEW o \in Proposed, NEW cell \in Cells \cup {"default"}, CreateProject(s, o, cell)
        PROVE  cellOf' \in [Slugs -> Cells \cup {"none"}]
    <3>1. (IF cell = "default" THEN DefaultCell ELSE cell) \in Cells
      BY ProjectsAssumption
    <3> QED
      BY <2>1, <2>2, <3>1 DEF CreateProject
  <2>3. ASSUME NEW s \in Slugs, NEW cell \in Cells, SetProjectCell(s, cell)
        PROVE  cellOf' \in [Slugs -> Cells \cup {"none"}]
    BY <2>1, <2>3 DEF SetProjectCell
  <2>4. CASE UNCHANGED cellOf
    BY <2>1, <2>4
  <2> QED
    BY <2>2, <2>3, <2>4
       DEF ProjectsNext, projectsVars, OwnersRead, OwnersCommit, OwnersRollBack, AddProjectMember, AttachRepositories,
           DetachRepository, SetRepositoryCheck
<1> DEFINE Held == /\ holder \in [Checkouts -> Slugs \cup {"nobody"}]
                   /\ checked \subseteq { r \in Checkouts : holder[r] # "nobody" }
                   /\ commits \subseteq Checkouts
<1>4. Held'
  <2>1. Held
    BY DEF HoldingsInv, ProjectsTypeOK
  <2>2. ASSUME NEW s \in Slugs, NEW rs \in SUBSET Checkouts, AttachRepositories(s, rs)
        PROVE  Held'
    <3>1. /\ \A r \in Checkouts : holder'[r] = IF r \in rs /\ holder[r] = "nobody" THEN s ELSE holder[r]
          /\ holder' \in [Checkouts -> Slugs \cup {"nobody"}]
          /\ checked' = checked /\ commits' \subseteq Checkouts
      BY <2>1, <2>2 DEF AttachRepositories
    <3> QED
      BY <2>1, <3>1
  <2>3. ASSUME NEW s \in Slugs, NEW r \in Checkouts, DetachRepository(s, r)
        PROVE  Held'
    BY <2>1, <2>3 DEF DetachRepository
  <2>4. ASSUME NEW s \in Slugs, NEW r \in Checkouts, NEW on \in BOOLEAN, SetRepositoryCheck(s, r, on)
        PROVE  Held'
    <3>1. checked' \subseteq checked \cup {r} /\ holder' = holder /\ holder[r] # "nobody" /\ commits' = commits
      BY <2>4, ProjectsAssumption DEF SetRepositoryCheck
    <3> QED
      BY <2>1, <3>1
  <2>5. CASE UNCHANGED << holder, checked, commits >>
    BY <2>1, <2>5
  <2> QED
    BY <2>2, <2>3, <2>4, <2>5
       DEF ProjectsNext, projectsVars, CreateProject, OwnersRead, OwnersCommit, OwnersRollBack, AddProjectMember, SetProjectCell
<1> QED
  BY <1>1, <1>2, <1>3, <1>4 DEF HoldingsInv, ProjectsTypeOK

\* The checkouts on a cell, and what the control plane has registered of them, are
\* repositories, or nothing, or unfinished.
RigTypes ==
    /\ town \in [Rigs -> Repos \cup {"absent", "partial", NoRepo}]
    /\ held \in [Rigs -> Repos \cup {"unregistered", NoRepo}]

TownInv == RoutingInv /\ RigTypes

\* The initial state satisfies the invariant of the rigs.
LEMMA TownStart == RoutingInit => TownInv
  BY RoutingInitial, RoutingAssumption DEF RoutingInit, TownInv, RigTypes

\* Registering, adding and failing to add a rig keep it.
LEMMA TownStep ==
  ASSUME TownInv, [RoutingNext]_routingVars
  PROVE  TownInv'
<1>1. RoutingInv'
  BY RoutingStep DEF TownInv, Routed
<1>2. RigTypes
  BY DEF TownInv
<1>3. ASSUME NEW g \in Rigs, RegisterRig(g)
      PROVE  RigTypes'
  <2>1. town[g] \in Repos \cup {"unregistered", NoRepo}
    BY <1>2, <1>3 DEF RegisterRig, RigTypes
  <2> QED
    BY <1>2, <1>3, <2>1 DEF RegisterRig, RigTypes
<1>4. ASSUME NEW j \in Jobs, AddRig(j) \/ RigAdded(j) \/ RigNotAdded(j)
      PROVE  RigTypes'
  <2>1. route[j].rig \in Rigs /\ route[j].clone \in Repos \cup {NoRepo}
    BY DEF TownInv, RoutingInv, RouteRow
  <2>2. CASE AddRig(j)
    BY <1>2, <2>1, <2>2 DEF AddRig, RigTypes
  <2>3. CASE RigAdded(j)
    BY <1>2, <2>1, <2>3 DEF RigAdded, RigTypes
  <2>4. CASE RigNotAdded(j)
    BY <1>2, <2>1, <2>4 DEF RigNotAdded, RigTypes
  <2> QED
    BY <1>4, <2>2, <2>3, <2>4
<1>5. ASSUME town' = town, held' = held
      PROVE  RigTypes'
  <2>1. /\ town' \in [Rigs -> Repos \cup {"absent", "partial", NoRepo}]
        /\ held' \in [Rigs -> Repos \cup {"unregistered", NoRepo}]
    BY <1>2, <1>5 DEF RigTypes
  <2> QED
    BY <2>1 DEF RigTypes
<1>6. \/ \E g \in Rigs : RegisterRig(g)
      \/ \E j \in Jobs : AddRig(j) \/ RigAdded(j) \/ RigNotAdded(j)
      \/ town' = town /\ held' = held
  BY DEF RoutingNext, routingVars, Attach, Detach, BeadArrives, Ask, RouteHeld, RouteProject, RouteWanted, ClaimRouted,
         RigExists, NothingToClone
<1>7. RigTypes'
  BY <1>3, <1>4, <1>5, <1>6
<1> QED
  BY <1>1, <1>7 DEF TownInv

\* The calls that the limiter may have counted.
Metered == { c \in Calls : stage[c] \notin {"new", "known"} }

\* The limiter's window counts calls, each of them once.
MeterInv ==
    /\ RequestsTypeOK
    /\ RunsInv
    /\ window.count <= Cardinality(Metered)

\* Calls can be counted.
LEMMA MeteredAreFinite ==
  ASSUME NEW S \in SUBSET Calls
  PROVE  IsFiniteSet(S) /\ Cardinality(S) \in Nat /\ Cardinality(S) <= Cardinality(Calls)
  BY RequestsAssumption, FS_Subset, FS_CardinalityType

\* Nothing is counted at first.
LEMMA MeterStart == RequestsInit => MeterInv
<1> SUFFICES ASSUME RequestsInit PROVE MeterInv
  OBVIOUS
<1>1. 0 \in 0..LastTick /\ 1 \in 1..LastTick /\ 0 \in 0..Cardinality(Calls)
  BY RequestsAssumption, MeteredAreFinite
<1>2. Cardinality(Metered) \in Nat
  BY MeteredAreFinite DEF Metered
<1>3. NoWindow \in [start : 0..LastTick, count : 0..Cardinality(Calls)]
  BY <1>1 DEF NoWindow
<1>4. window.count = 0 /\ window = NoWindow
  BY DEF RequestsInit, NoWindow
<1>5. RequestsTypeOK
  BY <1>1, <1>3 DEF RequestsInit, RequestsTypeOK, CallStages, Answers
<1> QED
  BY <1>2, <1>4, <1>5, RunsInit DEF MeterInv

\* A call that is counted was not counted before, and no call is forgotten.
LEMMA MeteredGrows ==
  ASSUME RequestsTypeOK, NEW c \in Calls, NEW s \in CallStages \ {"new", "known"},
         stage' = [stage EXCEPT ![c] = s]
  PROVE  /\ Cardinality(Metered) <= Cardinality(Metered')
         /\ stage[c] = "known" => Cardinality(Metered') = Cardinality(Metered) + 1
<1>1. stage \in [Calls -> CallStages]
  BY DEF RequestsTypeOK
<1>2. Metered' = Metered \cup {c}
  BY <1>1 DEF Metered, CallStages
<1>3. IsFiniteSet(Metered) /\ Cardinality(Metered) \in Nat
  BY MeteredAreFinite DEF Metered
<1>4. stage[c] = "known" => c \notin Metered
  BY DEF Metered
<1> QED
  BY <1>2, <1>3, <1>4, FS_AddElement

\* A step that leaves the window alone, and recognises a call, moves a later one on, or
\* answers it.
LEMMA WindowStands ==
  ASSUME MeterInv, UNCHANGED window,
         \/ UNCHANGED stage
         \/ \E c \in Calls : stage[c] = "new" /\ stage' = [stage EXCEPT ![c] = "known"]
         \/ \E c \in Calls, s \in CallStages \ {"new", "known"} : stage' = [stage EXCEPT ![c] = s]
  PROVE  window'.count <= Cardinality(Metered')
<1>1. window.count \in Nat /\ window.count <= Cardinality(Metered) /\ stage \in [Calls -> CallStages]
  BY MeteredAreFinite DEF MeterInv, RequestsTypeOK
<1>2. Cardinality(Metered) \in Nat /\ Cardinality(Metered') \in Nat
  BY MeteredAreFinite DEF Metered
<1>3. ASSUME NEW c \in Calls, stage[c] = "new", stage' = [stage EXCEPT ![c] = "known"]
      PROVE  Metered' = Metered
  BY <1>1, <1>3 DEF Metered
<1>4. ASSUME NEW c \in Calls, NEW s \in CallStages \ {"new", "known"}, stage' = [stage EXCEPT ![c] = s]
      PROVE  Cardinality(Metered) <= Cardinality(Metered')
  BY <1>4, MeteredGrows DEF MeterInv
<1>5. UNCHANGED stage => Metered' = Metered
  BY DEF Metered
<1> QED
  BY <1>1, <1>2, <1>3, <1>4, <1>5

\* A call that the limiter counts makes the window one longer, or the first of a new one.
LEMMA CountedOnce ==
  ASSUME MeterInv, NEW c \in Calls, stage[c] = "known", NEW s \in CallStages \ {"new", "known"},
         stage' = [stage EXCEPT ![c] = s], window' = Counted
  PROVE  /\ window' \in [start : 0..LastTick, count : 0..Cardinality(Calls)]
         /\ window'.count <= Cardinality(Metered')
<1>1. /\ window \in [start : 0..LastTick, count : 0..Cardinality(Calls)] /\ now \in 1..LastTick
      /\ LastTick \in Nat /\ window.count \in Nat /\ window.count <= Cardinality(Metered)
  BY RequestsAssumption, MeteredAreFinite DEF MeterInv, RequestsTypeOK
<1>2. Cardinality(Metered') = Cardinality(Metered) + 1
  BY MeteredGrows DEF MeterInv
<1>3. Cardinality(Metered) \in Nat /\ Cardinality(Metered') <= Cardinality(Calls) /\ Cardinality(Calls) \in Nat
  BY MeteredAreFinite DEF Metered
<1>4. CASE FreshWindow
  <2>1. window' = [start |-> now, count |-> 1]
    BY <1>4 DEF Counted
  <2>2. now \in 0..LastTick /\ 1 \in 0..Cardinality(Calls) /\ 1 <= Cardinality(Metered')
    BY <1>1, <1>2, <1>3
  <2> QED
    BY <2>1, <2>2
<1>5. CASE ~FreshWindow
  <2>1. window' = [window EXCEPT !.count = window.count + 1]
    BY <1>5 DEF Counted
  <2>2. window.count + 1 \in 0..Cardinality(Calls) /\ window.count + 1 <= Cardinality(Metered')
    BY <1>1, <1>2, <1>3
  <2> QED
    BY <1>1, <2>1, <2>2
<1> QED
  BY <1>4, <1>5

\* Every step of a request, a restart and the clock keep the window within the calls.
LEMMA WindowStep ==
  ASSUME MeterInv, [RequestsNext]_requestsVars
  PROVE  /\ window' \in [start : 0..LastTick, count : 0..Cardinality(Calls)]
         /\ window'.count <= Cardinality(Metered')
<1> DEFINE Window == [start : 0..LastTick, count : 0..Cardinality(Calls)]
<1>1. window \in Window
  BY DEF MeterInv, RequestsTypeOK
<1>2. {"known", "admitted", "acting", "recording", "over"} \subseteq CallStages \ {"new"}
  BY DEF CallStages
<1>3. ASSUME NEW c \in Calls, Authenticate(c)
      PROVE  window' \in Window /\ window'.count <= Cardinality(Metered')
  <2>1. window' = window /\ stage[c] = "new"
        /\ (stage' = [stage EXCEPT ![c] = "known"] \/ stage' = [stage EXCEPT ![c] = "over"])
    BY <1>3 DEF Authenticate, AnswerWith, Advance
  <2> QED
    BY <1>1, <1>2, <2>1, WindowStands
<1>4. ASSUME NEW c \in Calls, NEW limitsRead \in BOOLEAN, EnforceToken(c, limitsRead)
      PROVE  window' \in Window /\ window'.count <= Cardinality(Metered')
  <2>1. /\ stage[c] = "known"
        /\ window' = window \/ window' = Counted
        /\ stage' = [stage EXCEPT ![c] = "admitted"] \/ stage' = [stage EXCEPT ![c] = "over"]
    BY <1>4 DEF EnforceToken, AnswerWith, Advance
  <2>2. PICK s \in CallStages \ {"new", "known"} : stage' = [stage EXCEPT ![c] = s]
    BY <1>2, <2>1
  <2>3. CASE window' = window
    BY <1>1, <2>2, <2>3, WindowStands
  <2>4. CASE window' = Counted
    BY <2>1, <2>2, <2>4, CountedOnce
  <2> QED
    BY <2>1, <2>3, <2>4
<1>5. ASSUME NEW c \in Calls, EnforceSession(c) \/ LookUp(c) \/ Perform(c) \/ PerformFails(c) \/ Record(c)
      PROVE  window' \in Window /\ window'.count <= Cardinality(Metered')
  <2>1. window' = window
    BY <1>5 DEF EnforceSession, LookUp, Perform, PerformFails, Record
  <2>2. \E s \in {"admitted", "acting", "recording", "over"} : stage' = [stage EXCEPT ![c] = s]
    BY <1>5 DEF EnforceSession, LookUp, Perform, PerformFails, Record, AnswerWith, Advance
  <2>3. PICK s \in CallStages \ {"new", "known"} : stage' = [stage EXCEPT ![c] = s]
    BY <1>2, <2>2
  <2> QED
    BY <1>1, <2>1, <2>3, WindowStands
<1>6. CASE RestartApi
  <2>1. window' = NoWindow
    BY <1>6 DEF RestartApi
  <2>2. Cardinality(Metered') \in Nat /\ Cardinality(Calls) \in Nat /\ LastTick \in Nat
    BY MeteredAreFinite, RequestsAssumption DEF Metered
  <2> QED
    BY <2>1, <2>2 DEF NoWindow
<1>7. CASE UNCHANGED << window, stage >>
  BY <1>1, <1>7, WindowStands
<1> QED
  BY <1>3, <1>4, <1>5, <1>6, <1>7 DEF RequestsNext, requestsVars, Revoke, SpendLands, RequestsTick

\* Every step keeps the invariant of the limiter.
LEMMA MeterStep ==
  ASSUME MeterInv, [RequestsNext]_requestsVars
  PROVE  MeterInv'
<1>1. RunsInv'
  BY RunsStep DEF MeterInv
<1>2. ran' \subseteq Calls
  BY DEF MeterInv, RequestsTypeOK, RequestsNext, requestsVars, Authenticate, EnforceSession, EnforceToken, LookUp,
         Perform, PerformFails, Record, Revoke, SpendLands, RestartApi, RequestsTick
<1>3. \A r \in recorded' : r.of \in Calls
  BY <1>1, <1>2 DEF RunsInv
<1>4. replayed' \in [Calls -> Calls]
  <2>1. replayed \in [Calls -> Calls] /\ \A r \in recorded : r.of \in Calls
    BY DEF MeterInv, RequestsTypeOK
  <2>2. ASSUME NEW c \in Calls, LookUp(c)
        PROVE  replayed' \in [Calls -> Calls]
    BY <2>1, <2>2 DEF LookUp
  <2>3. CASE replayed' = replayed
    BY <2>1, <2>3
  <2> QED
    BY <2>2, <2>3
       DEF RequestsNext, requestsVars, Authenticate, EnforceSession, EnforceToken, Perform, PerformFails, Record, Revoke,
           SpendLands, RestartApi, RequestsTick
<1>5. tokenLive' \in BOOLEAN /\ exceeded' \in BOOLEAN
  <2>1. tokenLive \in BOOLEAN /\ exceeded \in BOOLEAN
    BY DEF MeterInv, RequestsTypeOK
  <2>2. (tokenLive' = tokenLive \/ tokenLive' = FALSE) /\ (exceeded' = exceeded \/ exceeded' = TRUE)
    BY DEF RequestsNext, requestsVars, Authenticate, EnforceSession, EnforceToken, LookUp, Perform, PerformFails, Record,
           Revoke, SpendLands, RestartApi, RequestsTick
  <2> QED
    BY <2>1, <2>2
<1>6. now' \in 1..LastTick
  <2>1. now' = now \/ (now < LastTick /\ now' = now + 1)
    BY DEF RequestsNext, requestsVars, Authenticate, EnforceSession, EnforceToken, LookUp, Perform, PerformFails, Record,
           Revoke, SpendLands, RestartApi, RequestsTick
  <2> QED
    BY <2>1, RequestsAssumption DEF MeterInv, RequestsTypeOK
<1>7. stage' \in [Calls -> CallStages] /\ answer' \in [Calls -> Answers]
  BY <1>1 DEF RunsInv
<1> QED
  BY <1>1, <1>2, <1>3, <1>4, <1>5, <1>6, <1>7, WindowStep DEF MeterInv, RequestsTypeOK

\* Whoever a poll has read of a grant is a signer, and so is whom a token is for.
SignersOnly ==
    /\ \A c \in Clients : poll[c].at # "idle" => poll[c].by \in Signers
    /\ \A t \in DOMAIN token : token[t].owner \in Signers /\ token[t].grant \in Grants

\* The numbers on a grant and in a poll are none or those of tokens.
NumbersExist ==
    /\ \A g \in Grants : grant[g].token \in {NoToken} \cup DOMAIN token
    /\ \A c \in Clients : poll[c].token \in {NoToken} \cup DOMAIN token

GuessesBounded == \A g \in Grants : grant[g].failed \in 0..MaxGuesses
ClientTypes == client \in [Clients -> {"waiting", "logged in", "gone"}]

CodesInv == FlowInv /\ SignersOnly /\ NumbersExist /\ GuessesBounded /\ ClientTypes

\* The initial state satisfies the invariant of the codes.
LEMMA CodesStart == DeviceInit => CodesInv
<1> SUFFICES ASSUME DeviceInit PROVE CodesInv
  OBVIOUS
<1>1. DOMAIN token = {}
  BY DEF DeviceInit
<1>2. 0 \in 0..MaxGuesses
  BY DeviceAssumption
<1> QED
  BY <1>1, <1>2, FlowInit
     DEF DeviceInit, CodesInv, SignersOnly, NumbersExist, GuessesBounded, ClientTypes, Unstarted, NoPoll

\* A step that mints nothing, and neither names nor binds.
LEMMA NamesStand ==
  ASSUME CodesInv, FlowInv', UNCHANGED token,
         \A g \in Grants : grant'[g].token = grant[g].token /\ grant'[g].failed \in 0..MaxGuesses,
         \A c \in Clients : poll'[c] = poll[c] \/ poll'[c] = NoPoll,
         ClientTypes'
  PROVE  CodesInv'
<1>1. NoPoll.at = "idle" /\ NoPoll.token = NoToken
  BY DEF NoPoll
<1>2. SignersOnly'
  BY <1>1 DEF CodesInv, SignersOnly
<1>3. NumbersExist'
  BY <1>1 DEF CodesInv, NumbersExist
<1> QED
  BY <1>2, <1>3 DEF CodesInv, GuessesBounded

\* Every step keeps it.
LEMMA CodesStep ==
  ASSUME CodesInv, [DeviceNext]_deviceVars
  PROVE  CodesInv'
<1> USE DeviceAssumption
<1>0. FlowInv'
  BY FlowStep DEF CodesInv
<1>1. /\ grant \in [Grants -> GrantRow] /\ poll \in [Clients -> PollStep] /\ token \in Seq(TokenRow)
      /\ ClientTypes /\ \A g \in Grants : grant[g].failed \in 0..MaxGuesses
  BY DEF CodesInv, FlowInv, FlowTypes, GuessesBounded
<1>2. ASSUME NEW g \in Grants, StartDevice(g) \/ DeviceExpires(g) \/ LookupFails(g)
      PROVE  CodesInv'
  <2>1. UNCHANGED << poll, client, token >>
    BY <1>2 DEF StartDevice, DeviceExpires, LookupFails
  <2>2. PICK r : /\ grant' = [grant EXCEPT ![g] = r] /\ r.token = grant[g].token
                 /\ r.failed = grant[g].failed \/ (grant[g].failed < MaxGuesses /\ r.failed = grant[g].failed + 1)
    <3>1. grant[g] \in GrantRow
      BY <1>1
    <3>2. CASE StartDevice(g)
      <4>1. grant' = [grant EXCEPT ![g] = [grant[g] EXCEPT !.at = "live"]]
        BY <3>2 DEF StartDevice
      <4> QED
        BY <3>1, <4>1 DEF GrantRow
    <3>3. CASE DeviceExpires(g)
      <4>1. grant' = [grant EXCEPT ![g] = [grant[g] EXCEPT !.at = "expired"]]
        BY <3>3 DEF DeviceExpires
      <4> QED
        BY <3>1, <4>1 DEF GrantRow
    <3>4. CASE LookupFails(g)
      <4>1. PICK n : n = grant[g].failed + 1
        OBVIOUS
      <4>2. grant' = [grant EXCEPT ![g] = [grant[g] EXCEPT !.failed = n]] /\ grant[g].failed < MaxGuesses
        BY <3>4, <4>1 DEF LookupFails
      <4>3. [grant[g] EXCEPT !.failed = n].failed = n /\ [grant[g] EXCEPT !.failed = n].token = grant[g].token
        BY <3>1 DEF GrantRow
      <4> QED
        BY <4>1, <4>2, <4>3
    <3> QED
      BY <1>2, <3>2, <3>3, <3>4
  <2>3. \A h \in Grants : /\ grant'[h].token = grant[h].token
                          /\ \/ grant'[h].failed = grant[h].failed
                             \/ grant[h].failed < MaxGuesses /\ grant'[h].failed = grant[h].failed + 1
    BY <1>1, <2>2
  <2>4. \A h \in Grants : grant'[h].failed \in 0..MaxGuesses
    BY <1>1, <2>3
  <2>5. ClientTypes'
    BY <1>1, <2>1 DEF ClientTypes
  <2> QED
    BY <1>0, <2>1, <2>3, <2>4, <2>5, NamesStand
<1>3. ASSUME NEW u \in Signers, NEW g \in Grants, ApproveSelect(u, g)
      PROVE  CodesInv'
  <2>1. UNCHANGED << grant, poll, client, token >>
    BY <1>3 DEF ApproveSelect
  <2>2. ClientTypes'
    BY <1>1, <2>1 DEF ClientTypes
  <2> QED
    BY <1>0, <1>1, <2>1, <2>2, NamesStand
<1>4. ASSUME NEW u \in Signers, ApproveUpdate(u)
      PROVE  CodesInv'
  <2>1. UNCHANGED << poll, client, token >> /\ grant' = [grant EXCEPT ![approving[u]].by = u]
    BY <1>4 DEF ApproveUpdate
  <2>2. \A h \in Grants : grant'[h].token = grant[h].token /\ grant'[h].failed = grant[h].failed
    BY <1>1, <2>1 DEF GrantRow
  <2>3. ClientTypes'
    BY <1>1, <2>1 DEF ClientTypes
  <2> QED
    BY <1>0, <1>1, <2>1, <2>2, <2>3, NamesStand
<1>5. ASSUME NEW c \in Clients, Ends(c, "gone"), UNCHANGED << grant, token >>
      PROVE  CodesInv'
  <2>1. \A d \in Clients : poll'[d] = poll[d] \/ poll'[d] = NoPoll
    BY <1>1, <1>5 DEF Ends
  <2>2. ClientTypes'
    BY <1>1, <1>5 DEF Ends, ClientTypes
  <2> QED
    BY <1>0, <1>1, <1>5, <2>1, <2>2, NamesStand
<1>6. ASSUME NEW c \in Clients, Poll(c)
      PROVE  CodesInv'
  <2> DEFINE g == CodeOf[c]
  <2>1. UNCHANGED << grant, token >>
    BY <1>6 DEF Poll
  <2>2. CASE Polled(g) = "authorization_pending"
    <3>1. UNCHANGED << client, poll >>
      BY <1>6, <2>2 DEF Poll, Polled
    <3>2. ClientTypes'
      BY <1>1, <3>1 DEF ClientTypes
    <3> QED
      BY <1>0, <1>1, <2>1, <3>1, <3>2, NamesStand
  <2>3. CASE Polled(g) = "approved"
    <3> DEFINE read == [at |-> "approved", by |-> grant[g].by, token |-> NoToken]
    <3>1. poll' = [poll EXCEPT ![c] = read] /\ client' = client
      BY <1>6, <2>3 DEF Poll
    <3>2. read.by \in Signers /\ read.token = NoToken
      BY <1>1, <2>3 DEF Polled, GrantRow, Person
    <3> HIDE DEF read
    <3>3. SignersOnly'
      BY <1>1, <2>1, <3>1, <3>2 DEF CodesInv, SignersOnly
    <3>4. NumbersExist'
      BY <1>1, <2>1, <3>1, <3>2 DEF CodesInv, NumbersExist
    <3>5. GuessesBounded' /\ ClientTypes'
      BY <1>1, <2>1, <3>1 DEF GuessesBounded, ClientTypes
    <3> QED
      BY <1>0, <3>3, <3>4, <3>5 DEF CodesInv
  <2>4. CASE Polled(g) \notin {"authorization_pending", "approved"}
    BY <1>5, <1>6, <2>1, <2>4 DEF Poll
  <2> QED
    BY <2>2, <2>3, <2>4
<1>7. ASSUME NEW c \in Clients, MintForGrant(c)
      PROVE  CodesInv'
  <2> DEFINE row == [owner |-> poll[c].by, grant |-> CodeOf[c], revoked |-> FALSE]
             holding == [at |-> "minted", by |-> poll[c].by, token |-> Len(token) + 1]
  <2>1. poll[c].at = "approved" /\ token' = Append(token, row) /\ UNCHANGED << grant, client >>
    BY <1>7 DEF MintForGrant
  <2>2. poll[c].by \in Signers /\ row \in TokenRow
    BY <1>1, <2>1 DEF CodesInv, SignersOnly, TokenRow, PollStep
  <2>3. /\ Len(token') = Len(token) + 1 /\ Len(token) \in Nat /\ DOMAIN token = 1..Len(token)
        /\ DOMAIN token' = 1..(Len(token) + 1)
        /\ \A t \in 1..Len(token) : token'[t] = token[t]
        /\ token'[Len(token) + 1] = row
    BY <1>1, <2>1, <2>2, AppendProperties, LenProperties
  <2>4. poll' = [poll EXCEPT ![c] = holding]
    BY <1>7, <2>3 DEF MintForGrant
  <2>5. row.owner = poll[c].by /\ row.grant \in Grants /\ holding.by = poll[c].by /\ holding.token = Len(token) + 1
    OBVIOUS
  <2> HIDE DEF row, holding
  <2>6. SignersOnly'
    <3>1. \A d \in Clients : poll'[d].at # "idle" => poll'[d].by \in Signers
      BY <1>1, <2>2, <2>4, <2>5 DEF CodesInv, SignersOnly
    <3>2. \A t \in DOMAIN token' : token'[t].owner \in Signers /\ token'[t].grant \in Grants
      <4> SUFFICES ASSUME NEW t \in 1..(Len(token) + 1) PROVE token'[t].owner \in Signers /\ token'[t].grant \in Grants
        BY <2>3
      <4>1. t \in 1..Len(token) \/ t = Len(token) + 1
        BY <2>3
      <4> QED
        BY <2>2, <2>3, <2>5, <4>1 DEF CodesInv, SignersOnly
    <3> QED
      BY <3>1, <3>2 DEF SignersOnly
  <2>7. NumbersExist'
    <3>1. DOMAIN token \subseteq DOMAIN token' /\ Len(token) + 1 \in DOMAIN token'
      BY <2>3
    <3>2. \A g \in Grants : grant'[g].token \in {NoToken} \cup DOMAIN token'
      BY <2>1, <3>1 DEF CodesInv, NumbersExist
    <3>3. \A d \in Clients : poll'[d].token \in {NoToken} \cup DOMAIN token'
      BY <1>1, <2>4, <2>5, <3>1 DEF CodesInv, NumbersExist
    <3> QED
      BY <3>2, <3>3 DEF NumbersExist
  <2>8. GuessesBounded' /\ ClientTypes'
    BY <1>1, <2>1 DEF GuessesBounded, ClientTypes
  <2> QED
    BY <1>0, <2>6, <2>7, <2>8 DEF CodesInv
<1>8. ASSUME NEW c \in Clients, Bind(c)
      PROVE  CodesInv'
  <2> DEFINE g == CodeOf[c]
  <2>1. CASE Bindable(g)
    <3>1. /\ grant' = [grant EXCEPT ![g].token = poll[c].token] /\ poll' = [poll EXCEPT ![c].at = "bound"]
          /\ poll[c].at = "minted" /\ UNCHANGED << client, token >>
      BY <1>8, <2>1 DEF Bind
    <3>2. \A h \in Grants : /\ grant'[h].token \in {grant[h].token, poll[c].token}
                            /\ grant'[h].failed = grant[h].failed
      BY <1>1, <3>1 DEF GrantRow
    <3>3. \A d \in Clients : /\ poll'[d].token = poll[d].token /\ poll'[d].by = poll[d].by
                             /\ poll'[d].at # "idle" => poll[d].at # "idle"
      BY <1>1, <3>1 DEF PollStep
    <3>4. SignersOnly'
      BY <3>1, <3>3 DEF CodesInv, SignersOnly
    <3>5. NumbersExist'
      BY <3>1, <3>2, <3>3 DEF CodesInv, NumbersExist
    <3>6. GuessesBounded' /\ ClientTypes'
      BY <1>1, <3>1, <3>2 DEF GuessesBounded, ClientTypes
    <3> QED
      BY <1>0, <3>4, <3>5, <3>6 DEF CodesInv
  <2>2. CASE ~Bindable(g)
    BY <1>5, <1>8, <2>2 DEF Bind
  <2> QED
    BY <2>1, <2>2
<1>9. ASSUME NEW c \in Clients, HandOut(c)
      PROVE  CodesInv'
  <2>1. /\ poll[c].at = "bound" /\ poll' = [poll EXCEPT ![c].at = "handed out"]
        /\ client' = [client EXCEPT ![c] = "logged in"] /\ UNCHANGED << grant, token >>
    BY <1>9 DEF HandOut
  <2>2. \A d \in Clients : /\ poll'[d].token = poll[d].token /\ poll'[d].by = poll[d].by
                           /\ poll'[d].at # "idle" => poll[d].at # "idle"
    BY <1>1, <2>1 DEF PollStep
  <2>3. SignersOnly'
    BY <2>1, <2>2 DEF CodesInv, SignersOnly
  <2>4. NumbersExist'
    BY <2>1, <2>2 DEF CodesInv, NumbersExist
  <2>5. GuessesBounded' /\ ClientTypes'
    BY <1>1, <2>1 DEF GuessesBounded, ClientTypes
  <2> QED
    BY <1>0, <2>3, <2>4, <2>5 DEF CodesInv
<1>10. ASSUME NEW c \in Clients, PollFails(c)
       PROVE  CodesInv'
  BY <1>5, <1>10 DEF PollFails
<1>11. ASSUME NEW t \in 1..MaxTokens, RevokeToken(t)
       PROVE  CodesInv'
  <2>1. /\ token' = [token EXCEPT ![t].revoked = TRUE] /\ t \in DOMAIN token
        /\ UNCHANGED << grant, poll, client >>
    BY <1>11 DEF RevokeToken
  <2>2. token[t] \in TokenRow
    BY <1>1, <2>1, ElementOfSeq, LenProperties
  <2>3. /\ DOMAIN token' = DOMAIN token
        /\ \A s \in DOMAIN token : token'[s].owner = token[s].owner /\ token'[s].grant = token[s].grant
    BY <2>1, <2>2 DEF TokenRow
  <2>4. SignersOnly'
    BY <2>1, <2>3 DEF CodesInv, SignersOnly
  <2>5. NumbersExist'
    BY <2>1, <2>3 DEF CodesInv, NumbersExist
  <2>6. GuessesBounded' /\ ClientTypes'
    BY <1>1, <2>1 DEF GuessesBounded, ClientTypes
  <2> QED
    BY <1>0, <2>4, <2>5, <2>6 DEF CodesInv
<1>12. CASE UNCHANGED deviceVars
  <2>1. UNCHANGED << grant, poll, client, token >>
    BY <1>12 DEF deviceVars
  <2>2. ClientTypes'
    BY <1>1, <2>1 DEF ClientTypes
  <2> QED
    BY <1>0, <1>1, <2>1, <2>2, NamesStand
<1> QED
  BY <1>2, <1>3, <1>4, <1>6, <1>7, <1>8, <1>9, <1>10, <1>11, <1>12 DEF DeviceNext

\* One part moves, the others stand.
ControlPlaneInv ==
    /\ DecisionsInv /\ AttentionTypeOK /\ MeterInv /\ CodesInv /\ TownInv /\ HoldingsInv /\ UpsetsInv

\* The initial state satisfies the invariants of all parts.
LEMMA ControlPlaneStart == CPInit => ControlPlaneInv
  BY DecisionsInit, AttentionStart, MeterStart, CodesStart, TownStart, HoldingsStart, UpsetsStart
     DEF CPInit, ControlPlaneInv

\* So does every later one.
LEMMA ControlPlaneStep == ControlPlaneInv /\ [CPNext]_cpVars => ControlPlaneInv'
<1> SUFFICES ASSUME ControlPlaneInv, [CPNext]_cpVars PROVE ControlPlaneInv'
  OBVIOUS
<1>1. /\ [ApprovalsNext]_approvalsVars /\ [AttentionNext]_attentionVars /\ [RequestsNext]_requestsVars
      /\ [DeviceNext]_deviceVars /\ [RoutingNext]_routingVars /\ [ProjectsNext]_projectsVars
      /\ [MigrateNext]_migrateVars
  BY DEF CPNext, Others, cpVars
<1> QED
  BY <1>1, DecisionsStep, AttentionStep, MeterStep, CodesStep, TownStep, HoldingsStep, UpsetsStep DEF ControlPlaneInv

\* Every variable of the control plane has its type, among them that the limiter counts no
\* more calls than there are, that no code is guessed at more often than is allowed, that a
\* token and a membership are a known person's, and that only an attached repository has a
\* check.
THEOREM ControlPlaneTypes == CPSpec => []ControlPlaneTypesOK
<1>1. ControlPlaneInv => ControlPlaneTypesOK
  <2> SUFFICES ASSUME ControlPlaneInv PROVE ControlPlaneTypesOK
    OBVIOUS
  <2>1. ApprovalsTypeOK /\ AttentionTypeOK /\ RequestsTypeOK /\ ProjectsTypeOK
    BY DEF ControlPlaneInv, DecisionsInv, MeterInv, HoldingsInv
  <2>2. RoutingTypeOK
    BY DEF ControlPlaneInv, TownInv, RigTypes, RoutingInv, ProjectKnown, RouteRow, RoutingTypeOK
  <2>3. MigrateTypeOK
    BY DEF ControlPlaneInv, UpsetsInv, MigrateInv, Table, Process, MigrateTypeOK
  <2>4. DeviceTypeOK
    <3>1. /\ grant \in [Grants -> GrantRow] /\ poll \in [Clients -> PollStep]
          /\ approving \in [Signers -> Grants \cup {Nobody}]
      BY DEF ControlPlaneInv, CodesInv, FlowInv, FlowTypes
    <3>2. SignersOnly /\ NumbersExist /\ GuessesBounded /\ ClientTypes
      BY DEF ControlPlaneInv, CodesInv
    <3>3. \A g \in Grants : grant[g].at \in {"none", "live", "expired"} /\ grant[g].by \in Signers \cup {Nobody}
      BY <3>1 DEF GrantRow, Person
    <3>4. \A c \in Clients : poll[c].at \in {"idle", "approved", "minted", "bound", "handed out"}
      BY <3>1 DEF PollStep
    <3> QED
      BY <3>1, <3>2, <3>3, <3>4 DEF DeviceTypeOK, SignersOnly, NumbersExist, GuessesBounded, ClientTypes
  <2> QED
    BY <2>1, <2>2, <2>3, <2>4 DEF ControlPlaneTypesOK
<1> QED
  BY <1>1, ControlPlaneStart, ControlPlaneStep, PTL DEF CPSpec
===============================================================================
