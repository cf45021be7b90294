--------------------------- MODULE Subscriptions ---------------------------
(* internal/workspace and the reconcile phase of cmd/workspaced: an hourly  *)
(* pass that loads what is recorded, lists what Google holds, adopts or     *)
(* deletes what is not recorded, decides per source and makes the calls.    *)
(* Google takes a call, refuses it, or takes it and never answers; a create *)
(* may finish long after the pass gave up on it; the pass may die anywhere. *)
EXTENDS Naturals, FiniteSets

CONSTANTS
    Sources,        \* rows of event_sources
    KindOfSource,   \* drive or meet: one list query per kind
    Names,          \* bound: subscriptions Google will ever create
    Messages,       \* Pub/Sub deliveries
    Life,           \* intervals a subscription lasts (ttl "0s" is the maximum)
    RenewBefore,    \* Policy.RenewBefore, in intervals
    MaxUpsets       \* bound: failures, deaths, suspensions, changes of the allow-list

ASSUME PolicyAssumption == Life \in Nat /\ RenewBefore \in Nat /\ 1 < RenewBefore /\ RenewBefore < Life

VARIABLES
    enabled,    \* allow-listed sources
    wants,      \* the event types of this build
    rec,        \* event_subscriptions, per source
    google,     \* what Google holds, per name
    pass,       \* the running pass and what it has read
    due,        \* the timer of this interval has not fired yet
    receipts,   \* event_receipts: the source each delivery was put down to
    upsets

subscriptionsVars == << enabled, wants, rec, google, pass, due, receipts, upsets >>

NoName == "no name"
Types == {"old", "new"}
Row == [name : Names \cup {NoName}, state : {"active", "suspended", "failed", "deleted"},
        left : 0..Life, types : Types]
NoRow == [name |-> NoName, state |-> "deleted", left |-> 0, types |-> "old"]
Held == [st : {"none", "pending", "active", "suspended"}, src : Sources, left : 0..Life, types : Types]
Actions == {"none", "create", "renew", "reactivate", "update", "replace", "delete"}
NoWrite == [src |-> "nothing"]
Idle == [pc |-> "idle", subs |-> [s \in Sources |-> NoRow], on |-> {}, kinds |-> {}, found |-> {},
         todo |-> [s \in Sources |-> "none"], write |-> NoWrite]

Live(n) == google[n].st \in {"active", "suspended"}
\* Names are never used twice: one is spare when nothing remembers it either.
Spare == {n \in Names : /\ google[n].st = "none" /\ n \notin pass.found
                        /\ \A s \in Sources : n \notin {rec[s].name, pass.subs[s].name}
                        /\ pass.write = NoWrite}
Kinds == {KindOfSource[s] : s \in Sources}

SubscriptionsTypeOK ==
    /\ enabled \subseteq Sources /\ wants \in Types
    /\ rec \in [Sources -> Row]
    /\ google \in [Names -> Held]
    /\ pass.pc \in {"idle", "listing", "adopting", "applying"}
    /\ pass.subs \in [Sources -> Row] /\ pass.on \subseteq Sources /\ pass.kinds \subseteq Kinds
    /\ pass.found \subseteq Names /\ pass.todo \in [Sources -> Actions]
    /\ due \in BOOLEAN /\ upsets \in 0..MaxUpsets
    /\ receipts \in [Messages -> Sources \cup {"absent", "unrecognised"}]

SubscriptionsInit ==
    /\ enabled = Sources /\ wants = "old"
    /\ rec = [s \in Sources |-> NoRow]
    /\ google = [n \in Names |-> [st |-> "none", src |-> CHOOSE s \in Sources : TRUE,
                                  left |-> 0, types |-> "old"]]
    /\ pass = Idle /\ due = TRUE /\ upsets = 0
    /\ receipts = [m \in Messages |-> "absent"]

Upset == upsets < MaxUpsets /\ upsets' = upsets + 1

-----------------------------------------------------------------------------
(* What a call does to a subscription Google holds.                         *)

Extended(g)    == [g EXCEPT !.left = Life]
Retyped(g)     == [g EXCEPT !.types = wants]
Reactivated(g) == [g EXCEPT !.st = "active"]
Removed(g)     == [g EXCEPT !.st = "none", !.left = 0]

\* Delete: a failure may be Google's silence after it deleted.
Deleted(n) == google' = [google EXCEPT ![n] = Removed(@)]
PerhapsDeleted(n) == Deleted(n) \/ UNCHANGED google

\* The row a success leaves: what Google said, not what was asked for.
Said(n, g) == [name |-> n, state |-> g.st, left |-> g.left, types |-> g.types]

\* The row a failure leaves: the name and types already held, no expiry, state failed.
FailedRow(existing) == [name |-> existing.name, state |-> "failed", left |-> 0, types |-> existing.types]

-----------------------------------------------------------------------------
(* Run: load, list per kind, adopt.                                         *)

Load ==
    /\ pass.pc = "idle" /\ due
    /\ pass' = [Idle EXCEPT !.pc = "listing", !.kinds = Kinds, !.on = enabled,
                            !.subs = [s \in Sources |-> IF rec[s].name = NoName THEN NoRow ELSE rec[s]]]
    /\ UNCHANGED << enabled, wants, rec, google, due, receipts, upsets >>

\* The filter must name the types it wants, so a stray of other types is not listed.
Listed(k) == {n \in Names : Live(n) /\ KindOfSource[google[n].src] = k /\ google[n].types = wants}

\* A kind that cannot be listed is skipped with a warning.
List(k) ==
    /\ pass.pc = "listing" /\ k \in pass.kinds
    /\ \/ pass' = [pass EXCEPT !.kinds = @ \ {k}, !.found = @ \cup Listed(k)] /\ UNCHANGED upsets
       \/ pass' = [pass EXCEPT !.kinds = @ \ {k}] /\ Upset
    /\ UNCHANGED << enabled, wants, rec, google, due, receipts >>

ListedAll ==
    /\ pass.pc = "listing" /\ pass.kinds = {}
    /\ pass' = [pass EXCEPT !.pc = "adopting",
                            !.found = @ \ {pass.subs[s].name : s \in Sources}]
    /\ UNCHANGED << enabled, wants, rec, google, due, receipts, upsets >>

Adoptable(s) == s \in pass.on /\ pass.subs[s].name = NoName

\* A live subscription nobody recorded: adopted when its source has none, deleted
\* otherwise. A write that fails ends the pass; a delete that fails does not.
Adopt(n) ==
    LET s == google[n].src IN
    /\ pass.pc = "adopting" /\ n \in pass.found /\ Live(n) /\ Adoptable(s)
    /\ \/ /\ rec' = [rec EXCEPT ![s] = Said(n, google[n])]
          /\ pass' = [pass EXCEPT !.subs[s] = Said(n, google[n]), !.found = @ \ {n}]
          /\ UNCHANGED << due, upsets >>
       \/ pass' = Idle /\ due' = FALSE /\ Upset /\ UNCHANGED rec
    /\ UNCHANGED << enabled, wants, google, receipts >>

DeleteStray(n) ==
    /\ pass.pc = "adopting" /\ n \in pass.found
    /\ ~Adoptable(google[n].src) \/ ~Live(n)
    /\ pass' = [pass EXCEPT !.found = @ \ {n}]
    /\ \/ Deleted(n) /\ UNCHANGED upsets
       \/ PerhapsDeleted(n) /\ Upset
    /\ UNCHANGED << enabled, wants, rec, due, receipts >>

-----------------------------------------------------------------------------
(* Reconcile: pure, from what the pass loaded and adopted.                  *)

\* MUTANT of Reconcile: renews only what has already run out.
ReconcileLate(s) ==
    LET sub == pass.subs[s] IN
    IF s \notin pass.on THEN (IF sub.name # NoName THEN "delete" ELSE "none")
    ELSE IF sub.name = NoName THEN "create"
    ELSE IF sub.state \in {"deleted", "failed"} THEN "replace"
    ELSE IF sub.state = "suspended" THEN "reactivate"
    ELSE IF sub.types # wants THEN "update"
    ELSE IF sub.left = 0 THEN "replace"
    ELSE "none"

Reconcile(s) ==
    LET sub == pass.subs[s] IN
    IF s \notin pass.on THEN (IF sub.name # NoName THEN "delete" ELSE "none")
    ELSE IF sub.name = NoName THEN "create"
    ELSE IF sub.state \in {"deleted", "failed"} THEN "replace"
    ELSE IF sub.state = "suspended" THEN "reactivate"
    ELSE IF sub.types # wants THEN "update"
    ELSE IF sub.left = 0 THEN "replace"
    ELSE IF sub.left <= RenewBefore THEN "renew"
    ELSE "none"

Decide ==
    /\ pass.pc = "adopting" /\ pass.found = {}
    /\ pass' = [pass EXCEPT !.pc = "applying", !.todo = [s \in Sources |-> Reconcile(s)]]
    /\ UNCHANGED << enabled, wants, rec, google, due, receipts, upsets >>

-----------------------------------------------------------------------------
(* apply: a call, then a write of its result.                               *)

Applying(s, a) == pass.pc = "applying" /\ pass.write = NoWrite /\ pass.todo[s] = a

Writes(s, row) == pass' = [pass EXCEPT !.todo[s] = "none", !.write = [src |-> s, row |-> row]]

\* renew and update change the subscription in place.
InPlace(s, a, Change(_)) ==
    LET sub == pass.subs[s] IN
    /\ Applying(s, a)
    /\ \/ /\ Live(sub.name)
          /\ google' = [google EXCEPT ![sub.name] = Change(@)]
          /\ \/ Writes(s, Said(sub.name, Change(google[sub.name]))) /\ UNCHANGED upsets
             \/ Writes(s, FailedRow(sub)) /\ Upset              \* taken, not answered
       \/ /\ Writes(s, FailedRow(sub)) /\ UNCHANGED google
          /\ IF Live(sub.name) THEN Upset ELSE UNCHANGED upsets  \* refused; 404 once it is gone
    /\ UNCHANGED << enabled, wants, rec, due, receipts >>

Renew(s) == InPlace(s, "renew", Extended)
SetEventTypes(s) == InPlace(s, "update", Retyped)

\* Revived, it is renewed at once: a renewal that fails, done or not, is passed over and
\* the row keeps what the revival said.
Reactivate(s) ==
    LET sub == pass.subs[s]
        revived == Reactivated(google[sub.name])
        Becomes(g) == google' = [google EXCEPT ![sub.name] = g]
    IN
    /\ Applying(s, "reactivate")
    /\ \/ /\ Live(sub.name)
          /\ \/ Becomes(Extended(revived)) /\ Writes(s, Said(sub.name, Extended(revived))) /\ UNCHANGED upsets
             \/ /\ Becomes(revived) \/ Becomes(Extended(revived))
                /\ Writes(s, Said(sub.name, revived)) /\ Upset
             \/ Becomes(revived) /\ Writes(s, FailedRow(sub)) /\ Upset
       \/ /\ Writes(s, FailedRow(sub)) /\ UNCHANGED google
          /\ IF Live(sub.name) THEN Upset ELSE UNCHANGED upsets
    /\ UNCHANGED << enabled, wants, rec, due, receipts >>

\* The first half of a replacement: a delete that fails leaves the row alone.
DeleteToReplace(s) ==
    /\ Applying(s, "replace")
    /\ \/ Deleted(pass.subs[s].name) /\ pass' = [pass EXCEPT !.todo[s] = "create"] /\ UNCHANGED upsets
       \/ PerhapsDeleted(pass.subs[s].name) /\ pass' = [pass EXCEPT !.todo[s] = "none"] /\ Upset
    /\ UNCHANGED << enabled, wants, rec, due, receipts >>

\* A create that is not answered in opTimeout is a failure, and may yet succeed.
Create(s) ==
    /\ Applying(s, "create")
    /\ \/ \E n \in Spare :
          LET g == [st |-> "active", src |-> s, left |-> Life, types |-> wants] IN
          \/ google' = [google EXCEPT ![n] = g] /\ Writes(s, Said(n, g)) /\ UNCHANGED upsets
          \/ google' = [google EXCEPT ![n] = [g EXCEPT !.st = "pending"]]
             /\ Writes(s, FailedRow(NoRow)) /\ Upset
       \/ UNCHANGED google /\ Writes(s, FailedRow(NoRow)) /\ Upset
    /\ UNCHANGED << enabled, wants, rec, due, receipts >>

\* Forget keeps the row and drops the name.
DeleteUnwanted(s) ==
    /\ Applying(s, "delete")
    /\ \/ Deleted(pass.subs[s].name) /\ Writes(s, NoRow) /\ UNCHANGED upsets
       \/ PerhapsDeleted(pass.subs[s].name) /\ pass' = [pass EXCEPT !.todo[s] = "none"] /\ Upset
    /\ UNCHANGED << enabled, wants, rec, due, receipts >>

\* Record, or Forget; a write that fails is that source's outcome and no more.
Record ==
    /\ pass.write # NoWrite
    /\ pass' = [pass EXCEPT !.write = NoWrite]
    /\ \/ rec' = [rec EXCEPT ![pass.write.src] = pass.write.row] /\ UNCHANGED upsets
       \/ UNCHANGED rec /\ Upset
    /\ UNCHANGED << enabled, wants, google, due, receipts >>

PassEnds ==
    /\ pass.pc = "applying" /\ pass.write = NoWrite /\ \A s \in Sources : pass.todo[s] = "none"
    /\ pass' = Idle /\ due' = FALSE
    /\ UNCHANGED << enabled, wants, rec, google, receipts, upsets >>

\* The pass is killed, runs into its 15 minutes, or cannot load.
PassDies ==
    /\ pass.pc # "idle" /\ Upset
    /\ pass' = Idle /\ due' = FALSE
    /\ UNCHANGED << enabled, wants, rec, google, receipts >>

-----------------------------------------------------------------------------
(* Google, Pub/Sub, the clock, and people.                                  *)

CreateFinishes(n) ==
    /\ google[n].st = "pending"
    /\ google' = [google EXCEPT ![n].st = "active"]
    /\ UNCHANGED << enabled, wants, rec, pass, due, receipts, upsets >>

GoogleSuspends(n) ==
    /\ google[n].st = "active" /\ Upset
    /\ google' = [google EXCEPT ![n].st = "suspended"]
    /\ UNCHANGED << enabled, wants, rec, pass, due, receipts >>

\* system_record_event, once per message id: attributed by the subscription's name, or
\* else by the target, which names a Meet space and, of a drive, only the file.
SourceOf(n) ==
    LET named == {s \in Sources : rec[s].name = n} IN
    CASE named # {} -> CHOOSE s \in named : TRUE
      [] named = {} /\ KindOfSource[google[n].src] = "meet" -> google[n].src
      [] OTHER -> "unrecognised"

Receive(m, n) ==
    /\ google[n].st = "active" /\ receipts[m] = "absent"
    /\ receipts' = [receipts EXCEPT ![m] = SourceOf(n)]
    /\ UNCHANGED << enabled, wants, rec, google, pass, due, upsets >>

\* The next interval: what is not renewed runs out and Google drops it.
Aged(g) == IF g.left = 1 THEN Removed(g) ELSE [g EXCEPT !.left = @ - 1]
Tick ==
    /\ pass.pc = "idle" /\ ~due
    /\ due' = TRUE
    /\ google' = [n \in Names |-> IF Live(n) THEN Aged(google[n]) ELSE google[n]]
    /\ rec' = [s \in Sources |-> IF rec[s].left = 0 THEN rec[s] ELSE [rec[s] EXCEPT !.left = @ - 1]]
    /\ UNCHANGED << enabled, wants, pass, receipts, upsets >>

AllowListChanges(s) ==
    /\ Upset
    /\ enabled' = IF s \in enabled THEN enabled \ {s} ELSE enabled \cup {s}
    /\ UNCHANGED << wants, rec, google, pass, due, receipts >>

\* A build that subscribes to other types, deployed between passes.
Deploy ==
    /\ wants = "old" /\ pass.pc = "idle" /\ Upset
    /\ wants' = "new"
    /\ UNCHANGED << enabled, rec, google, pass, due, receipts >>

PassSteps ==
    \/ Load \/ ListedAll \/ Decide \/ Record \/ PassEnds
    \/ \E k \in Kinds : List(k)
    \/ \E n \in Names : Adopt(n) \/ DeleteStray(n)
    \/ \E s \in Sources : Renew(s) \/ SetEventTypes(s) \/ Reactivate(s) \/ DeleteToReplace(s)
                          \/ Create(s) \/ DeleteUnwanted(s)

SubscriptionsNext ==
    \/ PassSteps \/ PassDies \/ Tick \/ Deploy
    \/ \E n \in Names : CreateFinishes(n) \/ GoogleSuspends(n)
    \/ \E m \in Messages, n \in Names : Receive(m, n)
    \/ \E s \in Sources : AllowListChanges(s)

-----------------------------------------------------------------------------
(* What is checked.                                                         *)

Settled ==
    \A s \in Sources :
        LET held == {n \in Names : Live(n) /\ google[n].src = s} IN
        IF s \in enabled
        THEN /\ held = {rec[s].name} /\ rec[s].state = "active"
             /\ google[rec[s].name].st = "active" /\ google[rec[s].name].types = wants
        ELSE held = {}

\* Whatever failed, died, was suspended or was changed, the passes that follow
\* bring every allow-listed source to exactly one active subscription, recorded
\* under its own name and never let run out, and every other source to none.
SourcesStaySubscribed == <>[]Settled

\* internal/workspace/reconciler.go: the cost of skipping a kind that cannot be
\* listed is that an unrecorded subscription survives one more hour; no second one
\* is created on its target.
OneSubscriptionPerTarget ==
    \A n1, n2 \in Names :
        google[n1].st = "active" /\ google[n2].st = "active" /\ google[n1].src = google[n2].src => n1 = n2
=============================================================================
