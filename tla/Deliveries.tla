----------------------------- MODULE Deliveries -----------------------------
(* GitHub webhooks and their projection: the receiver of cmd/control-api    *)
(* with its detached goroutines, internal/githubapp's store and projection, *)
(* internal/reconcile called by cmd/worker every few seconds and by         *)
(* cmd/reconcile on a timer, and the resync from the API. One pull request. *)
(* Deliveries are lost, repeated, delayed and reordered; every process dies.*)
EXTENDS Naturals, Sequences, FiniteSets

CONSTANT MaxChanges     \* bound: events GitHub emits

ASSUME ChangesAssumption == MaxChanges \in Nat \ {0}

VARIABLES
    gh,         \* the pull request at GitHub
    sent,       \* the deliveries, by id: what each says
    wire,       \* ids GitHub is still (re)sending
    receipt,    \* github_deliveries: what became of each id
    arrived,    \* ids in order of received_at
    hands,      \* per id, what its goroutine is about to do
    replay,     \* the worker or the timer, whichever holds the advisory lock, and its batch
    resync,     \* what a resync has listed and not applied
    attached,   \* the repository is in project_repositories
    reach,      \* whether a resync is told of the pull request: it is listed among the 50
                \* most recently updated, buried under others, or the App is uninstalled
    pull         \* pull_request_projections

deliveriesVars == << gh, sent, wire, receipt, arrived, hands, replay, resync, attached, reach, pull >>

Ids == 1..MaxChanges
Heads == 0..MaxChanges
Checks == {"none", "success", "failure"}
NoRow_ == [head |-> 0, state |-> "absent", at |-> 0, checks |-> "none", checked |-> 0]
Asleep == [on |-> FALSE, todo |-> << >>, step |-> "project"]
NotListed == [head |-> 0, state |-> "absent", at |-> 0]

DeliveriesTypeOK ==
    /\ gh \in [head : Heads, state : {"open", "merged"}, at : Heads]
    /\ Len(sent) <= MaxChanges /\ wire \subseteq Ids
    /\ receipt \in [Ids -> {"absent", "pending", "parked", "discarded", "processed"}]
    /\ hands \in [Ids -> {"idle", "project", "mark"}]
    /\ replay.on \in BOOLEAN /\ replay.step \in {"project", "mark"}
    /\ attached \in BOOLEAN /\ reach \in {"listed", "buried", "uninstalled"}
    /\ pull \in [head : Heads, state : {"absent", "open", "merged"}, at : Heads,
                checks : Checks, checked : Heads]

DeliveriesInit ==
    /\ gh = [head |-> 1, state |-> "open", at |-> 1]
    /\ sent = << [event |-> "pull_request", head |-> 1, state |-> "open", at |-> 1] >>
    /\ wire = {1}
    /\ receipt = [i \in Ids |-> "absent"] /\ arrived = << >>
    /\ hands = [i \in Ids |-> "idle"] /\ replay = Asleep /\ resync = NotListed
    /\ attached \in BOOLEAN /\ reach = "listed"
    /\ pull = NoRow_

-----------------------------------------------------------------------------
(* GitHub.                                                                  *)

\* What happens where the App is not installed is not delivered.
Emit(e) ==
    /\ Len(sent) < MaxChanges
    /\ sent' = Append(sent, e)
    /\ wire' = IF reach = "uninstalled" THEN wire ELSE wire \cup {Len(sent) + 1}

\* updated_at has whole seconds: two changes may have the same.
PullRequestChanges(state) ==
    /\ gh.state = "open"
    /\ \E at \in {gh.at, gh.at + 1} :
          gh' = [head |-> IF state = "open" THEN gh.head + 1 ELSE gh.head, state |-> state, at |-> at]
    /\ Emit([event |-> "pull_request", head |-> gh'.head, state |-> state, at |-> gh'.at])
    /\ reach' = IF reach = "buried" THEN "listed" ELSE reach
    /\ UNCHANGED << receipt, arrived, hands, replay, resync, attached, pull >>

\* Fifty others of the repository change.
OthersChange ==
    /\ reach = "listed" /\ reach' = "buried"
    /\ UNCHANGED << gh, sent, wire, receipt, arrived, hands, replay, resync, attached, pull >>

Uninstall ==
    /\ reach # "uninstalled" /\ reach' = "uninstalled"
    /\ UNCHANGED << gh, sent, wire, receipt, arrived, hands, replay, resync, attached, pull >>

Install ==
    /\ reach = "uninstalled" /\ reach' \in {"listed", "buried"}
    /\ UNCHANGED << gh, sent, wire, receipt, arrived, hands, replay, resync, attached, pull >>

SuiteCompletes(result) ==
    /\ Emit([event |-> "check_suite", head |-> gh.head, state |-> result, at |-> 0])
    /\ UNCHANGED << gh, receipt, arrived, hands, replay, resync, attached, reach, pull >>

\* The endpoint was down past GitHub's retries.
Lost(i) ==
    /\ i \in wire /\ wire' = wire \ {i}
    /\ UNCHANGED << gh, sent, receipt, arrived, hands, replay, resync, attached, reach, pull >>

-----------------------------------------------------------------------------
(* The projections, which the goroutines, the replay and the resync share.  *)

\* A conflict clause that forgets the head.
PullRequestRowSansHead(e) ==
    IF pull.at < e.at THEN [pull EXCEPT !.head = IF pull.at = 0 THEN e.head ELSE @, !.state = e.state, !.at = e.at] ELSE pull

\* project_pull_request: an upsert guarded on updated_at, which leaves the checks.
PullRequestRow(e) ==
    IF pull.at < e.at THEN [pull EXCEPT !.head = e.head, !.state = e.state, !.at = e.at] ELSE pull

\* project_check_suite: matched on the commit; a suite that matches nothing is done.
CheckSuiteRow(e) ==
    IF pull.at > 0 /\ pull.head = e.head
    THEN [pull EXCEPT !.checks = e.state, !.checked = e.head] ELSE pull

Projected(e) == IF e.event = "pull_request" THEN PullRequestRow(e) ELSE CheckSuiteRow(e)

-----------------------------------------------------------------------------
(* The receiver: the receipt first, then a goroutine nobody waits for.      *)

\* A repeat is acknowledged and dropped; a receipt that cannot be stored answers 500,
\* and GitHub sends again.
ReceiveDelivery(i) ==
    /\ i \in wire
    /\ wire' \in {wire, wire \ {i}}
    /\ receipt[i] = "absent"
    /\ receipt' = [receipt EXCEPT ![i] = "pending"]
    /\ arrived' = Append(arrived, i)
    /\ hands' = [hands EXCEPT ![i] = "project"]
    /\ UNCHANGED << gh, sent, replay, resync, attached, reach, pull >>

AcknowledgeRepeat(i) ==
    /\ i \in wire /\ receipt[i] # "absent" /\ wire' = wire \ {i}
    /\ UNCHANGED << gh, sent, receipt, arrived, hands, replay, resync, attached, reach, pull >>

\* An unattached repository taken for one with nothing to project.
GoroutineShrugs(i) ==
    /\ hands[i] = "project"
    /\ pull' = IF attached THEN Projected(sent[i]) ELSE pull
    /\ hands' = [hands EXCEPT ![i] = "mark"]
    /\ UNCHANGED << gh, sent, wire, receipt, arrived, replay, resync, attached, reach >>

\* An error, or a repository nobody attached, leaves the receipt replayable.
GoroutineProjects(i) ==
    /\ hands[i] = "project"
    /\ \/ attached /\ pull' = Projected(sent[i]) /\ hands' = [hands EXCEPT ![i] = "mark"]
       \/ UNCHANGED pull /\ hands' = [hands EXCEPT ![i] = "idle"]
    /\ UNCHANGED << gh, sent, wire, receipt, arrived, replay, resync, attached, reach >>

GoroutineMarks(i) ==
    /\ hands[i] = "mark"
    /\ hands' = [hands EXCEPT ![i] = "idle"]
    /\ receipt' \in {receipt, [receipt EXCEPT ![i] = "processed"]}
    /\ UNCHANGED << gh, sent, wire, arrived, replay, resync, attached, reach, pull >>

ControlApiRestarts ==
    /\ \E i \in Ids : hands[i] # "idle"
    /\ hands' = [i \in Ids |-> "idle"]
    /\ UNCHANGED << gh, sent, wire, receipt, arrived, replay, resync, attached, reach, pull >>

-----------------------------------------------------------------------------
(* ReplayIfIdle: one replayer at a time, parked receipts behind the others. *)

Before(i, j) == \E m, n \in DOMAIN arrived : m < n /\ arrived[m] = i /\ arrived[n] = j

\* The ids of S by received_at: there is one such sequence.
Waiting(S) == { ids \in [1..Cardinality(S) -> S] : \A m, n \in DOMAIN ids : m < n => Before(ids[m], ids[n]) }

\* The batch is read, then what was parked a fortnight ago is given up.  The code gives it
\* up by setting processed_at; here that is a value of its own.
ReplayStarts ==
    \E retried \in SUBSET {i \in Ids : receipt[i] = "parked"},
       stale \in SUBSET {i \in Ids : receipt[i] = "parked"} :
        /\ ~replay.on
        /\ \E first \in Waiting({i \in Ids : receipt[i] = "pending"}), then \in Waiting(retried) :
              replay' = [Asleep EXCEPT !.on = TRUE, !.todo = first \o then]
        /\ replay'.todo # << >>
        /\ receipt' = [i \in Ids |-> IF i \in stale THEN "discarded" ELSE receipt[i]]
        /\ UNCHANGED << gh, sent, wire, arrived, hands, resync, attached, reach, pull >>

ReplayProjects ==
    LET i == Head(replay.todo) IN
    /\ replay.on /\ replay.todo # << >> /\ replay.step = "project"
    /\ \/ attached /\ pull' = Projected(sent[i]) /\ replay' = [replay EXCEPT !.step = "mark"]
          /\ UNCHANGED receipt
       \/ ~attached /\ UNCHANGED pull /\ replay' = [replay EXCEPT !.todo = Tail(@)]
          /\ receipt' = [receipt EXCEPT ![i] = IF @ \in {"pending", "parked"} THEN "parked" ELSE @]
       \/ UNCHANGED << pull, receipt >> /\ replay' = [replay EXCEPT !.todo = Tail(@)]
    /\ UNCHANGED << gh, sent, wire, arrived, hands, resync, attached, reach >>

\* A mark that fails ends the pass.
ReplayMarks ==
    LET i == Head(replay.todo) IN
    /\ replay.on /\ replay.step = "mark"
    /\ \/ receipt' = [receipt EXCEPT ![i] = "processed"]
          /\ replay' = [replay EXCEPT !.todo = Tail(@), !.step = "project"]
       \/ UNCHANGED receipt /\ replay' = Asleep
    /\ UNCHANGED << gh, sent, wire, arrived, hands, resync, attached, reach, pull >>

\* The end of the batch, or of the process: the lock goes with its connection.
ReplayStops ==
    /\ replay.on
    /\ replay' = Asleep
    /\ UNCHANGED << gh, sent, wire, receipt, arrived, hands, resync, attached, reach, pull >>

-----------------------------------------------------------------------------
(* Resync: what GitHub says now, projected as if it were a delivery.        *)

\* listPullRequests: the 50 most recently updated.  A repository the App is not installed
\* on is skipped.
ResyncLists ==
    /\ attached /\ reach = "listed" /\ resync = NotListed
    /\ resync' = gh
    /\ UNCHANGED << gh, sent, wire, receipt, arrived, hands, replay, attached, reach, pull >>

ResyncProjects ==
    /\ resync # NotListed
    /\ pull' = PullRequestRow(resync) /\ resync' = NotListed
    /\ UNCHANGED << gh, sent, wire, receipt, arrived, hands, replay, attached, reach >>

AttachRepository ==
    /\ ~attached /\ attached' = TRUE
    /\ UNCHANGED << gh, sent, wire, receipt, arrived, hands, replay, resync, reach, pull >>

DeliveriesNext ==
    \/ \E s \in {"open", "merged"} : PullRequestChanges(s)
    \/ \E r \in {"success", "failure"} : SuiteCompletes(r)
    \/ OthersChange \/ Uninstall \/ Install
    \/ \E i \in Ids : \/ Lost(i) \/ ReceiveDelivery(i) \/ AcknowledgeRepeat(i)
                      \/ GoroutineProjects(i) \/ GoroutineMarks(i)
    \/ ControlApiRestarts
    \/ ReplayStarts
    \/ ReplayProjects \/ ReplayMarks \/ ReplayStops
    \/ ResyncLists \/ ResyncProjects \/ AttachRepository

DeliveriesSpec == DeliveriesInit /\ [][DeliveriesNext]_deliveriesVars

-----------------------------------------------------------------------------
(* What is checked.                                                         *)

\* A receipt marked processed was projected: whichever of the goroutine, the worker
\* and the timer marked it, and whatever died in between, the row is at least as new
\* as what the delivery said.
ProcessedWasProjected ==
    \A i \in Ids : receipt[i] = "processed" /\ sent[i].event = "pull_request"
                   => pull.at >= sent[i].at

\* Lost, late, repeated or out of order, the deliveries cannot keep the row of an attached
\* repository, whose pull request a resync is told of, from what GitHub said in the second
\* of its last change, nor bring an older state back.
RowCatchesUp ==
    (<>[](attached /\ reach = "listed")) =>
        <>[](\E i \in DOMAIN sent :
                /\ sent[i].event = "pull_request" /\ sent[i].at = gh.at
                /\ pull.at = gh.at /\ pull.head = sent[i].head /\ pull.state = sent[i].state)

-----------------------------------------------------------------------------
(* What the comments say and the code does not do.                          *)

\* internal/reconcile/reconcile.go: the resync "is what recovers a delivery that never
\* arrived": where the pull request is among those listed, the row ends up as GitHub has
\* it.  Not if the last change fell in the same second as one already recorded: the upsert
\* takes it for an older one.
ResyncRecovers ==
    (<>[](attached /\ reach = "listed")) => <>[](pull.state = gh.state /\ pull.head = gh.head)

\* internal/githubapp/projection.go: after a force-push the older suite is no longer
\* about the code under review; the checks shown are those of the commit shown.
ChecksAreOfTheHead == pull.checks # "none" => pull.checked = pull.head
=============================================================================
