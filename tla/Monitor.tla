------------------------------ MODULE Monitor ------------------------------
(* cmd/monitor and internal/monitor: a pass on a timer gathers what can be  *)
(* gathered, judges nine classes of trouble, and files each verdict in the  *)
(* admins' inboxes or clears it (migration 0020).  What can go wrong on the *)
(* platform is a set of faults; what a stopped job leaves behind is an age. *)
EXTENDS Naturals, Sequences

CONSTANTS
    Units, Mounts, Gateways, Streams, Graphs, \* what the flags declare
    Watched,            \* allow-listed Workspace sources
    IngestsWorkspace, ExpectCells,
    Admins,
    Lifetime,           \* intervals a Workspace subscription lasts
    MaxMishaps          \* bound: faults, repairs, failed queries, and what is done by hand

ASSUME LifetimeAssumption == Lifetime \in Nat /\ 3 < Lifetime /\ MaxMishaps \in Nat

VARIABLES
    faults,     \* what is wrong now
    age,        \* intervals since each job last did its work
    findings,   \* of the running pass: the verdict on each class not yet filed
    dueCheck,   \* the timer of this interval has not fired
    alert,      \* attention_items, per admin and class, with the monitor's key
    admins,     \* who holds organisation_admin now
    mishaps

monitorVars == << faults, age, findings, dueCheck, alert, admins, mishaps >>

\* Findings are filed in this order.
Classes == << "api", "service", "webhook", "agent_stall", "disk", "cost_import",
              "workspace_sources", "backup", "graph" >>
ClassNames == {Classes[i] : i \in DOMAIN Classes}
Gathered == {"webhook", "agent_stall", "disk", "cost_import", "workspace_sources"}
Queried == Gathered \ {"disk"}

\* A job that stops ages what it renews.
Jobs == {"reconcile", "witness", "import", "renewal", "backup"}

Faults ==
    ({"stopped"} \X Jobs) \cup ({"down"} \X Units) \cup ({"full", "unmeasurable"} \X Mounts)
    \cup ({"unfinished"} \X Gateways) \cup ({"suspended", "disabled"} \X Watched)
    \cup ({"illegible"} \X Streams) \cup ({"missing", "empty", "unreadable"} \X Graphs)
    \cup ({"api"} \X {"not ready", "no answer"}) \cup ({"database"} \X {"unreachable"})

Now(kind, x) == << kind, x >> \in faults

\* What separates healthy from failing, in intervals; a full disk is a fault already.
DefaultThresholds == [backlog |-> 1, silence |-> 1, import |-> 1, backup |-> 1, grace |-> 1]

\* cmd/monitor fills every threshold from its flags and leaves the grace at zero.
Thresholds == [DefaultThresholds EXCEPT !.grace = 0]

-----------------------------------------------------------------------------
(* collect.go: what a pass sees of the faults and of the ages.              *)

ProbeAPI == {a \in {"not ready", "no answer"} : Now("api", a)}
ObserveServices == {u \in Units : Now("down", u)}
ObserveWebhooks == age["reconcile"]
ObserveAgentHealth == age["witness"]
FullMounts == {m \in Mounts : Now("full", m)}
ObserveCostImports == [last |-> age["import"], unfinished |-> {g \in Gateways : Now("unfinished", g)}]
ReadBackupReceipts == [last |-> age["backup"], illegible |-> {s \in Streams : Now("illegible", s)}]

\* A row that says disabled is a decision, whatever the subscription's state was.
ObserveWorkspaceSources ==
    [s \in Watched |-> [state |-> IF Now("disabled", s) THEN "disabled"
                                  ELSE IF Now("suspended", s) THEN "suspended" ELSE "active",
                        left |-> Lifetime - age["renewal"]]]

\* A graph that is not on disk is seen as neither empty nor unreadable.
ObserveGraphs == [g \in Graphs |-> IF Now("missing", g) THEN {"missing"}
                                  ELSE {x \in {"empty", "unreadable"} : Now(x, g)}]

-----------------------------------------------------------------------------
(* checks.go: whether each class is failing.                                *)

EvaluateAPI == ProbeAPI # {}
EvaluateServices == Units = {} \/ ObserveServices # {}
EvaluateWebhook(t) == ObserveWebhooks > t.backlog
EvaluateAgentHealth(cells, silence, t) == cells # 0 /\ silence > t.silence
EvaluateDisk == Mounts = {} \/ FullMounts # {}
EvaluateCostImport(t) ==
    Gateways = {} \/ ObserveCostImports.last > t.import \/ ObserveCostImports.unfinished # {}

\* A disabled source is a decision; an active one is judged by what it has left.
SourceProblem(o, t) == o.state = "suspended" \/ (o.state = "active" /\ o.left <= t.grace)
EvaluateWorkspaceSources(t) ==
    LET seen == ObserveWorkspaceSources IN
    /\ IngestsWorkspace
    /\ \/ \A s \in Watched : seen[s].state = "disabled"
       \/ \E s \in Watched : SourceProblem(seen[s], t)

EvaluateBackup(t) ==
    Streams = {} \/ ReadBackupReceipts.last > t.backup \/ ReadBackupReceipts.illegible # {}

\* A graph nobody wrote to yet is no outage; one that is not on disk is no such graph.
GraphBroken(seen) == "missing" \in seen \/ (seen = {"unreadable"})
EvaluateGraphs == Graphs = {} \/ \E g \in Graphs : GraphBroken(ObserveGraphs[g])

Failing ==
    [api |-> EvaluateAPI, service |-> EvaluateServices, webhook |-> EvaluateWebhook(Thresholds),
     agent_stall |-> EvaluateAgentHealth(ExpectCells, ObserveAgentHealth, Thresholds),
     disk |-> EvaluateDisk, cost_import |-> EvaluateCostImport(Thresholds),
     workspace_sources |-> EvaluateWorkspaceSources(Thresholds),
     backup |-> EvaluateBackup(Thresholds), graph |-> EvaluateGraphs]

-----------------------------------------------------------------------------
NoPass == << >>
Absent == [live |-> "none", delegated |-> FALSE]
AlertRow == [live : {"none", "open", "snoozed"}, delegated : BOOLEAN]

MonitorTypeOK ==
    /\ faults \subseteq Faults
    /\ age \in [Jobs -> 0..Lifetime]
    /\ \A i \in DOMAIN findings : findings[i] \in [class : ClassNames, failing : BOOLEAN]
    /\ dueCheck \in BOOLEAN
    /\ alert \in [Admins \X ClassNames -> AlertRow]
    /\ admins \subseteq Admins
    /\ mishaps \in 0..MaxMishaps

MonitorInit ==
    /\ faults = {} /\ age = [j \in Jobs |-> 0]
    /\ findings = NoPass /\ dueCheck = TRUE
    /\ alert = [ac \in Admins \X ClassNames |-> Absent]
    /\ admins = Admins /\ mishaps = 0

Mishap == mishaps < MaxMishaps /\ mishaps' = mishaps + 1

\* MUTANT of Judge: what could not be looked at is passed over as healthy.
JudgeLeniently(c, unread) == [class |-> c, failing |-> c \notin unread /\ Failing[c]]

\* gatherFailed: a check that could not be evaluated is failing, not skipped.
Judge(c, unread) == [class |-> c, failing |-> c \in unread \/ Failing[c]]

\* What this pass cannot gather: an unmeasurable mount, and queries that fail.
Unmeasured == {c \in {"disk"} : \E m \in Mounts : Now("unmeasurable", m)}
Unread(broken) == broken \cup Unmeasured

\* A pass with a database. Without one it writes to the journal and files nothing.
Check ==
    /\ dueCheck /\ findings = NoPass
    /\ dueCheck' = FALSE
    /\ IF Now("database", "unreachable")
       THEN UNCHANGED << findings, mishaps >>
       ELSE \E broken \in {{}} \cup {{c} : c \in Queried} :
               /\ IF broken = {} THEN UNCHANGED mishaps ELSE Mishap
               /\ findings' = [i \in DOMAIN Classes |-> Judge(Classes[i], Unread(broken))]
    /\ UNCHANGED << faults, age, alert, admins >>

\* system_raise_platform_alert: one live row per admin; a snooze is left alone.
Raised(a) == IF a.live = "none" THEN [a EXCEPT !.live = "open"] ELSE a

\* system_resolve_platform_alert: open, snoozed and delegated alike.
Resolved(a) == Absent

\* Publish files one finding after another and gives up at the first that fails.
Publish ==
    /\ findings # NoPass
    /\ \/ /\ ~Now("database", "unreachable")
          /\ alert' = [ac \in Admins \X ClassNames |->
                IF ac[2] # Head(findings).class THEN alert[ac]
                ELSE IF ~Head(findings).failing THEN Resolved(alert[ac])
                ELSE IF ac[1] \in admins THEN Raised(alert[ac]) ELSE alert[ac]]
          /\ findings' = Tail(findings) /\ UNCHANGED mishaps
       \/ /\ findings' = NoPass /\ UNCHANGED alert
          /\ IF Now("database", "unreachable") THEN UNCHANGED mishaps ELSE Mishap
    /\ UNCHANGED << faults, age, dueCheck, admins >>

\* The next interval, once this one's pass has ended.
Aged(j) == IF ~Now("stopped", j) THEN 0 ELSE IF age[j] < Lifetime THEN age[j] + 1 ELSE Lifetime
NextInterval ==
    /\ ~dueCheck /\ findings = NoPass
    /\ dueCheck' = TRUE
    /\ age' = [j \in Jobs |-> Aged(j)]
    /\ UNCHANGED << faults, findings, alert, admins, mishaps >>

-----------------------------------------------------------------------------
(* The platform and its people.                                             *)

Break(f) ==
    /\ f \notin faults /\ Mishap /\ faults' = faults \cup {f}
    /\ UNCHANGED << age, findings, dueCheck, alert, admins >>

Mend(f) ==
    /\ f \in faults /\ Mishap /\ faults' = faults \ {f}
    /\ UNCHANGED << age, findings, dueCheck, alert, admins >>

ChangeAdmins(a) ==
    /\ Mishap /\ admins' = IF a \in admins THEN admins \ {a} ELSE admins \cup {a}
    /\ UNCHANGED << faults, age, findings, dueCheck, alert >>

\* What an admin does with an alert by hand; one that is handed on is somebody's again.
SnoozeAlert(a, c) ==
    /\ alert[<< a, c >>].live = "open" /\ Mishap
    /\ alert' = [alert EXCEPT ![<< a, c >>].live = "snoozed"]
    /\ UNCHANGED << faults, age, findings, dueCheck, admins >>

ResolveAlert(a, c) ==
    /\ alert[<< a, c >>] # Absent /\ Mishap
    /\ alert' = [alert EXCEPT ![<< a, c >>] = Absent]
    /\ UNCHANGED << faults, age, findings, dueCheck, admins >>

DelegateAlert(a, b, c) ==
    /\ a # b /\ alert[<< a, c >>].live # "none" /\ Mishap
    /\ alert' = [alert EXCEPT ![<< a, c >>].live = "none", ![<< b, c >>].delegated = TRUE]
    /\ UNCHANGED << faults, age, findings, dueCheck, admins >>

PlatformChanges ==
    \/ \E f \in Faults : Break(f) \/ Mend(f)
    \/ \E a \in Admins : ChangeAdmins(a)
    \/ \E a \in Admins, c \in ClassNames :
        SnoozeAlert(a, c) \/ ResolveAlert(a, c) \/ \E b \in Admins : DelegateAlert(a, b, c)

MonitorNext == Check \/ Publish \/ NextInterval \/ PlatformChanges

-----------------------------------------------------------------------------
(* What is checked.                                                         *)

Wrong(c) == Failing[c] \/ c \in Unmeasured
Told(c) == \A a \in admins : alert[<< a, c >>].live # "none"
Cleared(c) == \A a \in Admins : alert[<< a, c >>] = Absent

\* Whatever broke, was repaired, failed in a pass or was done to the inbox by hand:
\* while the database answers, what is wrong and stays wrong comes to be in every
\* admin's inbox, and what is right is cleared from all of them (sink.go, Publish:
\* "Clearing matters as much as raising"; gatherFailed: "failing, not skipped").
AlertsFollowTheFacts ==
    \A c \in ClassNames :
        []<>(Now("database", "unreachable") \/ IF Wrong(c) THEN Told(c) ELSE Cleared(c))

-----------------------------------------------------------------------------
(* What the comments say and the code does not do.                         *)

\* monitor.go, SubscriptionRenewalGrace and DefaultThresholds: "still twelve hours of
\* warning before it actually lapses"; the check fails in the interval before the
\* lapse of a subscription nothing renews, when there is one.
WarnedBeforeLapse ==
    \A s \in Watched :
        IngestsWorkspace /\ ~Now("disabled", s) /\ Lifetime - age["renewal"] = DefaultThresholds.grace => Failing["workspace_sources"]
=============================================================================
