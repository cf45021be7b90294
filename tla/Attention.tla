----------------------------- MODULE Attention -----------------------------
(***************************************************************************)
(* What competes for a person's attention: internal/attention and the      *)
(* endpoints GET /v1/inbox, GET /v1/inbox/branches and                     *)
(* POST /v1/attention/{id}/snooze, delegate and resolve.  An item is one   *)
(* row, its user_id says whose it is, and two queries decide who sees it.  *)
(***************************************************************************)
EXTENDS Naturals, FiniteSets

CONSTANTS
    People,
    Items,
    Horizon      \* bound: the last time

ASSUME AttentionAssumption == Horizon \in Nat

VARIABLES
    item,     \* item[i]: its user_id, status and snoozed_until
    clock

attentionVars == << item, clock >>

ItemStatuses == {"open", "snoozed", "delegated", "resolved"}

AttentionInit ==
    /\ item \in [Items -> [user : People, status : {"open"}, until : {0}]]
    /\ clock = 0

\* The WHERE clause that Inbox and Descend share, and the one of Snooze and Delegate.
Shown(i, u) ==
    /\ item[i].user = u
    /\ \/ item[i].status = "open"
       \/ item[i].status = "snoozed" /\ item[i].until <= clock

Movable(i, u) == item[i].user = u /\ item[i].status \in {"open", "snoozed"}

Snooze(u, i, until) ==
    /\ until > clock
    /\ Movable(i, u)
    /\ item' = [item EXCEPT ![i].status = "snoozed", ![i].until = until]
    /\ UNCHANGED clock

Delegate(u, i, to) ==
    /\ to # u
    /\ Movable(i, u)
    /\ item' = [item EXCEPT ![i].status = "delegated", ![i].user = to]
    /\ UNCHANGED clock

Resolve(u, i) ==
    /\ item[i].user = u /\ item[i].status # "resolved"
    /\ item' = [item EXCEPT ![i].status = "resolved"]
    /\ UNCHANGED clock

AttentionTick ==
    /\ clock < Horizon /\ clock' = clock + 1
    /\ UNCHANGED item

AttentionNext ==
    \/ \E u \in People, i \in Items :
        \/ \E until \in 1..Horizon : Snooze(u, i, until)
        \/ \E to \in People : Delegate(u, i, to)
        \/ Resolve(u, i)
    \/ AttentionTick

----------------------------------------------------------------------------
Inbox(u) == { i \in Items : Shown(i, u) }

----------------------------------------------------------------------------
AttentionTypeOK ==
    /\ item \in [Items -> [user : People, status : ItemStatuses, until : 0..Horizon]]
    /\ clock \in 0..Horizon

\* Nothing leaves every inbox because it was deferred or handed on: an item nobody
\* resolved is shown to exactly one person, or is snoozed until a time to come
\* (attention.go: "losing the item would make snoozing a way to silently drop work",
\* "the item moves rather than being copied").
UnresolvedIsSomebodys ==
    \A i \in Items : item[i].status # "resolved" =>
        \/ Cardinality({ u \in People : i \in Inbox(u) }) = 1
        \/ item[i].status = "snoozed" /\ item[i].until > clock

============================================================================
