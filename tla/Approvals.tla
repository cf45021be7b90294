----------------------------- MODULE Approvals -----------------------------
(***************************************************************************)
(* One approval request and the people who decide it: internal/approvals   *)
(* and the handler POST /v1/approvals/{id}/decide.                         *)
(*                                                                         *)
(* Each Decide is a READ COMMITTED transaction.  It reads the request,     *)
(* refuses or goes on, inserts its decision, updates the request from the  *)
(* decisions it can see -- those committed and its own -- and commits.     *)
(* Neither UPDATE asks for the status it found, so the transactions of two *)
(* people interleave at the read, at the update and at the commit.         *)
(***************************************************************************)
EXTENDS Naturals, FiniteSets

CONSTANTS
    Approvers,          \* people who can see the request
    Requester,          \* the person who raised it, one of them or an agent
    RequiredApprovals,  \* required_approvals
    Digests             \* digests of the versions of the action

ASSUME ApprovalsAssumption ==
    /\ RequiredApprovals \in Nat \ {0}
    /\ IsFiniteSet(Approvers)

VARIABLES
    request,    \* the request's status column
    digest,     \* its action_digest, which nothing rewrites
    action,     \* the digest of the action as it stands now
    windowOver, \* expires_at has passed
    decisions,  \* decisions[u]: the committed row of approval_decisions, or "none"
    deciding    \* deciding[u]: the open transaction of u

approvalsVars == << request, digest, action, windowOver, decisions, deciding >>

RequestStatuses == {"pending", "approved", "rejected", "invalidated"}
Verdict == {"approve", "reject"}
Idle == [at |-> "idle"]
Steps == [at : {"read", "written"}, verdict : Verdict, sets : {"nothing"} \cup RequestStatuses]

ApprovalsInit ==
    /\ request = "pending" /\ windowOver = FALSE
    /\ digest \in Digests /\ action = digest
    /\ decisions = [u \in Approvers |-> "none"]
    /\ deciding = [u \in Approvers |-> Idle]

\* What the transaction of u counts: the approvals committed so far, and its own.
Seen(u, verdict) ==
    { v \in Approvers : decisions[v] = "approve" } \cup (IF verdict = "approve" THEN {u} ELSE {})

\* The row lock that an UPDATE holds until its transaction ends.
RowLocked == \E u \in Approvers : deciding[u].at = "written" /\ deciding[u].sets # "nothing"

\* The requester is compared with nobody.
DecideReadsOwn(u, verdict, seen) ==
    /\ deciding[u] = Idle
    /\ request = "pending" /\ ~windowOver
    /\ seen \in {digest, "none"}
    /\ deciding' = [deciding EXCEPT ![u] = [at |-> "read", verdict |-> verdict, sets |-> "nothing"]]
    /\ UNCHANGED << request, digest, action, windowOver, decisions >>

\* Decide reads the request and is refused nothing: it is pending, in its window, the
\* version the approver saw is the one it names, and the approver did not raise it.
DecideReads(u, verdict, seen) ==
    /\ deciding[u] = Idle
    /\ request = "pending" /\ ~windowOver
    /\ seen \in {digest, "none"}
    /\ u # Requester
    /\ deciding' = [deciding EXCEPT ![u] = [at |-> "read", verdict |-> verdict, sets |-> "nothing"]]
    /\ UNCHANGED << request, digest, action, windowOver, decisions >>

\* The UPDATE forgets to count.
OutcomeUncounted(u) == IF deciding[u].verdict = "reject" THEN "rejected" ELSE "approved"

\* The status the UPDATE after the INSERT gives the row, if its WHERE clause holds.
Outcome(u) ==
    IF deciding[u].verdict = "reject" THEN "rejected"
    ELSE IF Cardinality(Seen(u, "approve")) >= RequiredApprovals THEN "approved" ELSE "nothing"

\* INSERT and UPDATE.  An UPDATE that matches waits for the row; one that matches
\* nothing takes no lock.
DecideWrites(u) ==
    /\ deciding[u].at = "read" /\ decisions[u] = "none"
    /\ Outcome(u) # "nothing" => ~RowLocked
    /\ deciding' = [deciding EXCEPT ![u] = [at |-> "written", verdict |-> @.verdict, sets |-> Outcome(u)]]
    /\ UNCHANGED << request, digest, action, windowOver, decisions >>

\* The transaction commits, and what it wrote becomes visible.
DecideCommits(u) ==
    /\ deciding[u].at = "written"
    /\ decisions' = [decisions EXCEPT ![u] = deciding[u].verdict]
    /\ request' = IF deciding[u].sets = "nothing" THEN request ELSE deciding[u].sets
    /\ deciding' = [deciding EXCEPT ![u] = Idle]
    /\ UNCHANGED << digest, action, windowOver >>

\* A second decision of one person violates the UNIQUE constraint, and a caller who
\* goes away rolls the transaction back.
DecideRollsBack(u) ==
    /\ deciding[u] # Idle
    /\ deciding' = [deciding EXCEPT ![u] = Idle]
    /\ UNCHANGED << request, digest, action, windowOver, decisions >>

\* Invalidate: guarded by status and digest in the UPDATE itself, so that it sees
\* the row as it is when the lock is its own.
Invalidate ==
    /\ ~RowLocked
    /\ request \in {"pending", "approved"} /\ digest # action
    /\ request' = "invalidated"
    /\ UNCHANGED << digest, action, windowOver, decisions, deciding >>

ActionChanges ==
    /\ action' \in Digests \ {action}
    /\ UNCHANGED << request, digest, windowOver, decisions, deciding >>

WindowEnds ==
    /\ ~windowOver /\ windowOver' = TRUE
    /\ UNCHANGED << request, digest, action, decisions, deciding >>

ApprovalsNext ==
    \/ \E u \in Approvers :
        \/ \E verdict \in Verdict, seen \in Digests \cup {"none"} : DecideReads(u, verdict, seen)
        \/ DecideWrites(u) \/ DecideCommits(u) \/ DecideRollsBack(u)
    \/ Invalidate \/ ActionChanges \/ WindowEnds

ApprovalsSpec == ApprovalsInit /\ [][ApprovalsNext]_approvalsVars

Recorded == { u \in Approvers : decisions[u] = "approve" }

\* StateFor: may the action whose digest is current run now.
Unlocked(current) ==
    /\ request = "approved" /\ ~windowOver
    /\ Cardinality(Recorded) >= RequiredApprovals
    /\ current = digest

----------------------------------------------------------------------------
ApprovalsTypeOK ==
    /\ request \in RequestStatuses
    /\ digest \in Digests /\ action \in Digests
    /\ windowOver \in BOOLEAN
    /\ decisions \in [Approvers -> {"none"} \cup Verdict]
    /\ deciding \in [Approvers -> {Idle} \cup Steps]

\* What the row says, the decisions say: an approved request has its quorum, of
\* distinct people other than the requester, and a rejected one has a rejection,
\* although each transaction counted only what it could see (Decide, the last UPDATE).
StatusIsJustified ==
    /\ request = "approved" => Cardinality(Recorded \ {Requester}) >= RequiredApprovals
    /\ request = "rejected" => \E u \in Approvers : decisions[u] = "reject"

\* "A rejection ends it immediately" (approvals.go, Decide): once a rejection is
\* committed the request is never approved.
RejectionEndsIt ==
    [][ (\E u \in Approvers : decisions[u] = "reject") => request' # "approved" ]_approvalsVars
============================================================================
