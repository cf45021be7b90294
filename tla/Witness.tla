------------------------------ MODULE Witness ------------------------------
(* cmd/witness and internal/witness: on each execution node one process     *)
(* decides about every polecat of every rig, destroys what is finished and  *)
(* sends what could lose work to the control plane, which files it in the   *)
(* inbox of the people the project's rig belongs to (migration 0015).       *)
(* Gas Town and its polecats are external.                                  *)
EXTENDS Naturals, Sequences, FiniteSets

CONSTANTS
    TownRigs,       \* rigs.json, in its order: those with a prefix, and with a repository
                    \* to be reported under (of one without, nothing is sent)
    Polecats,
    RigOf,
    Recipients,     \* of the escalations of a rig: its leads, else backups, else admins
    Sweep,          \* intervals between passes nothing triggered
    Silence,        \* intervals of no report after which the monitor alerts
    MaxTroubles     \* bound: what happens to polecats and people, and what fails

ASSUME WitnessAssumption ==
    /\ Sweep \in Nat \ {0} /\ Silence \in Nat /\ Sweep < Silence /\ MaxTroubles \in Nat
    /\ TownRigs \in Seq(DOMAIN Recipients) /\ RigOf \in [Polecats -> DOMAIN Recipients]

VARIABLES
    polecat,        \* what `gt polecat list` and the heartbeat would say
    event,          \* the fingerprint of the events differs from the last one read
    sinceSweep, todo,
    listing,        \* what was listed of the rig in hand
    decisions,
    inbox,          \* attention_items of the witness that are open or snoozed
    silence,        \* intervals since agent_health_events last had a row
    troubles

witnessVars == << polecat, event, sinceSweep, todo, listing, decisions, inbox, silence, troubles >>

-----------------------------------------------------------------------------
(* What a polecat may look like: the fields the decision reads.             *)

Fields == [listed : BOOLEAN, session : BOOLEAN, heartbeat : {"none", "exiting", "fresh", "stale"}, recovery : BOOLEAN,
           submit : BOOLEAN, safe : BOOLEAN, branch : BOOLEAN, reason : {"", "git-dirty", "not-idle"}]

Idle == [listed |-> TRUE, session |-> FALSE, heartbeat |-> "none", recovery |-> FALSE, submit |-> FALSE,
         safe |-> TRUE, branch |-> FALSE, reason |-> ""]
Gone == [Idle EXCEPT !.listed = FALSE]
Working(hb) == [Idle EXCEPT !.session = TRUE, !.heartbeat = hb, !.safe = FALSE, !.branch = TRUE]
Finished == [Idle EXCEPT !.heartbeat = "stale", !.branch = TRUE]
Unsubmitted == [Finished EXCEPT !.safe = FALSE, !.submit = TRUE]
AtRisk(reason) == [Finished EXCEPT !.safe = FALSE, !.recovery = TRUE, !.reason = reason]
Conditions == {Idle, Gone, Finished, Unsubmitted} \cup {Working(hb) : hb \in {"none", "exiting", "fresh", "stale"}}
              \cup {AtRisk(r) : r \in {"", "git-dirty", "not-idle"}}

-----------------------------------------------------------------------------
(* witness.go: the decision, the situation it is about, its key.            *)

Verdict(action, reason) == [action |-> action, reason |-> reason]

\* A heartbeat that cannot be read is none.
Decide(f) ==
    IF f.session THEN
        CASE f.heartbeat = "none"    -> Verdict("observe", "no-heartbeat-yet")
          [] f.heartbeat = "exiting" -> Verdict("observe", "exiting")
          [] f.heartbeat = "stale"   -> Verdict("ambiguous", "silent-session")
          [] OTHER                   -> Verdict("observe", "working")
    ELSE IF f.recovery THEN Verdict("escalate", IF f.reason = "" THEN "needs-recovery" ELSE f.reason)
    ELSE IF f.submit THEN Verdict("escalate", "never-submitted")
    ELSE IF f.safe THEN IF f.branch THEN Verdict("nuke", "completed") ELSE Verdict("observe", "idle-pool-member")
    ELSE Verdict("observe", "idle")

UnsafelyStored == {"not-idle", "needs-recovery", "git-dirty"}

\* MUTANT of Situation: the reason Gas Town gave this time.
SituationByReason(d) == IF d.action = "ambiguous" THEN "stalled" ELSE d.reason

Situation(d) ==
    CASE d.action = "ambiguous"         -> "stalled"
      [] d.reason = "never-submitted"   -> "never-submitted"
      [] d.reason \in UnsafelyStored    -> "work-at-risk"
      [] OTHER                          -> "other"

Loud(d) == d.action \in {"escalate", "ambiguous"}

-----------------------------------------------------------------------------
Rows == [user : UNION {Recipients[r] : r \in DOMAIN Recipients}, polecat : Polecats,
         situation : {"stalled", "never-submitted", "work-at-risk", "other"} \cup UnsafelyStored,
         status : {"open", "snoozed"}]

WitnessTypeOK ==
    /\ Conditions \subseteq Fields /\ polecat \in [Polecats -> Conditions]
    /\ event \in BOOLEAN /\ sinceSweep \in 0..Sweep /\ silence \in 0..(Silence + 1)
    /\ todo \in {SubSeq(TownRigs, i, Len(TownRigs)) : i \in 1..(Len(TownRigs) + 1)}
    /\ listing \subseteq [polecat : Polecats, fields : Conditions]
    /\ \A i \in DOMAIN decisions : decisions[i].polecat \in Polecats
    /\ inbox \subseteq Rows
    /\ troubles \in 0..MaxTroubles

\* One pass at startup, over what the town holds by then.
WitnessInit ==
    /\ polecat \in [Polecats -> {Gone, Idle, Working("fresh")}]
    /\ event = FALSE /\ sinceSweep = 0 /\ todo = TownRigs
    /\ listing = {} /\ decisions = << >> /\ inbox = {} /\ silence = 0 /\ troubles = 0

Trouble == troubles < MaxTroubles /\ troubles' = troubles + 1
BetweenRigs == listing = {} /\ decisions = << >>
InPass == todo # << >>
Rig == Head(todo)

\* MUTANT of Due: a pass only when there is an event.
DueOnEvents(e, since) == e

Due(e, since) == e \/ since >= Sweep

\* The ticker. The new fingerprint is kept whether or not the pass then succeeds.
Ticker ==
    /\ ~InPass
    /\ silence' = IF silence > Silence THEN silence ELSE silence + 1
    /\ event' = FALSE
    /\ LET since == IF sinceSweep < Sweep THEN sinceSweep + 1 ELSE Sweep IN
       IF Due(event, since) THEN todo' = TownRigs /\ sinceSweep' = 0
       ELSE UNCHANGED todo /\ sinceSweep' = since
    /\ UNCHANGED << polecat, listing, decisions, inbox, troubles >>

\* rigs.json cannot be read: there is no pass, and no other until one is due.
RigsUnreadable ==
    /\ todo = TownRigs /\ BetweenRigs /\ Trouble
    /\ todo' = << >>
    /\ UNCHANGED << polecat, event, sinceSweep, listing, decisions, inbox, silence >>

\* A rig whose listing fails, or that has no polecats, is passed over in silence.
ListRig ==
    /\ InPass /\ BetweenRigs
    /\ LET here == {[polecat |-> p, fields |-> polecat[p]] : p \in {q \in Polecats : RigOf[q] = Rig /\ polecat[q].listed}} IN
       \/ here # {} /\ listing' = here /\ UNCHANGED << todo, troubles >>
       \/ here = {} /\ todo' = Tail(todo) /\ UNCHANGED << listing, troubles >>
       \/ todo' = Tail(todo) /\ Trouble /\ UNCHANGED listing
    /\ UNCHANGED << polecat, event, sinceSweep, decisions, inbox, silence >>

\* One polecat: the heartbeat is read now, the rest is as listed. A finished one is
\* destroyed; when that fails, a person is told.
DecideOne(l) ==
    /\ l \in listing /\ listing' = listing \ {l}
    /\ LET d == Decide([l.fields EXCEPT !.heartbeat = polecat[l.polecat].heartbeat])
           decided(v) == decisions' = Append(decisions, [polecat |-> l.polecat, action |-> v.action,
                                                          reason |-> v.reason])
       IN  \/ d.action # "nuke" /\ decided(d) /\ UNCHANGED << polecat, troubles >>
           \/ d.action = "nuke" /\ decided(d)
              /\ polecat' = [polecat EXCEPT ![l.polecat] = Gone] /\ UNCHANGED troubles
           \/ d.action = "nuke" /\ Trouble /\ decided(Verdict("escalate", "nuke-failed")) /\ UNCHANGED polecat
    /\ UNCHANGED << event, sinceSweep, todo, inbox, silence >>

\* system_raise_attention: a live row of the key is refreshed and its status left alone.
Raise(rows, d) ==
    rows \cup {r \in [user : Recipients[RigOf[d.polecat]], polecat : {d.polecat},
                      situation : {Situation(d)}, status : {"open"}] :
                  ~\E old \in rows : /\ old.user = r.user /\ old.polecat = r.polecat
                                     /\ old.situation = r.situation}

\* Ingest, decision by decision. Two decisions of one report about one situation raise the
\* same row, so that the result is what each adds to the rows there were.
Ingest(rows, ds) == rows \cup UNION {Raise(rows, ds[i]) : i \in {j \in DOMAIN ds : Loud(ds[j])}}

\* A report that fails part way has filed what came before, and is not sent again.
Deliver ==
    /\ InPass /\ listing = {} /\ decisions # << >>
    /\ \E n \in 0..Len(decisions) :
        /\ inbox' = Ingest(inbox, SubSeq(decisions, 1, n))
        /\ silence' = IF n = 0 THEN silence ELSE 0
        /\ IF n = Len(decisions) THEN UNCHANGED troubles ELSE Trouble
    /\ decisions' = << >> /\ todo' = Tail(todo)
    /\ UNCHANGED << polecat, event, sinceSweep, listing >>

\* The process is killed or the node restarts: it begins with a pass.
WitnessRestarts ==
    /\ Trouble
    /\ event' = FALSE /\ sinceSweep' = 0 /\ todo' = TownRigs /\ listing' = {} /\ decisions' = << >>
    /\ UNCHANGED << polecat, inbox, silence >>

-----------------------------------------------------------------------------
(* Gas Town: sessions start, go quiet and end, with an event or without one *)
(* (the OOM killer); what is at risk is described in more than one way.     *)

PolecatChanges(p) ==
    /\ Trouble
    /\ \E f \in Conditions \ {polecat[p]}, told \in BOOLEAN :
        polecat' = [polecat EXCEPT ![p] = f] /\ event' = (event \/ told)
    /\ UNCHANGED << sinceSweep, todo, listing, decisions, inbox, silence >>

\* A person resolves, delegates or snoozes an item; the index a raise looks in holds
\* neither what is resolved nor what is delegated.
PersonActs(row) ==
    /\ row \in inbox /\ Trouble
    /\ \/ inbox' = inbox \ {row}
       \/ row.status = "open" /\ inbox' = (inbox \ {row}) \cup {[row EXCEPT !.status = "snoozed"]}
    /\ UNCHANGED << polecat, event, sinceSweep, todo, listing, decisions, silence >>

PassSteps == ListRig \/ (\E l \in listing : DecideOne(l)) \/ Deliver

WitnessNext ==
    \/ Ticker \/ RigsUnreadable \/ PassSteps \/ WitnessRestarts
    \/ \E p \in Polecats : PolecatChanges(p)
    \/ \E row \in inbox : PersonActs(row)

-----------------------------------------------------------------------------
(* What is checked.                                                         *)

\* However often Gas Town renames it and whatever a person does to the item, unsafely
\* stored work is one row of each inbox (witness.go, Situation: "each polecat produced
\* two inbox rows describing one problem").
OneItemPerProblem ==
    \A r, s \in inbox :
        /\ r.user = s.user /\ r.polecat = s.polecat
        /\ {r.situation, s.situation} \subseteq UnsafelyStored \cup {"work-at-risk"}
        => r = s

\* Work that could be lost and stays so comes to be in the inbox of everybody it belongs
\* to: with or without an event, whatever rig could not be listed, report was lost,
\* witness was restarted or item was resolved before (cmd/witness: the sweep is there
\* because "not every transition emits an event").
AtRiskIsTold ==
    \A p \in Polecats :
        []<>(polecat[p].recovery /\ ~polecat[p].session =>
                \A u \in Recipients[RigOf[p]] :
                    \E row \in inbox : row.user = u /\ row.polecat = p /\ row.situation = "work-at-risk")

-----------------------------------------------------------------------------
(* What the comments say and the code does not do.                         *)

\* monitor.go, AgentHealthSilence: "Comfortably more than the witness's own sweep
\* interval, so a single missed pass is not an alert"; checks.go, EvaluateAgentHealth:
\* "judges whether the witness is still alive". A witness nothing ever failed is heard.
LiveWitnessIsHeard == troubles = 0 => silence <= Silence
=============================================================================
