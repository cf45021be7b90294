----------------------------- MODULE WorkQueue ------------------------------
(***************************************************************************)
(* The work_queue table of the control plane and the SQL functions that    *)
(* are its only writers: system_enqueue_work, system_claim_work and        *)
(* system_finish_work.  The control plane cannot call an execution node,   *)
(* so a dispatch is a row that a node polls for.                           *)
(*                                                                         *)
(* A claim is a transaction of its own and is modelled in two steps, the   *)
(* SELECT ... FOR UPDATE SKIP LOCKED and the commit of the UPDATE, because *)
(* several pollers run it at once and the connection may go away between   *)
(* the two.  A job is its row: the row's kind never changes, so KindOf is  *)
(* a constant, and created_at is the order of the inserts.                 *)
(***************************************************************************)
EXTENDS Naturals

CONSTANTS
    Jobs,      \* the rows that may ever be inserted (bounds the model)
    NoJob,     \* no row
    Pollers,   \* the loops that claim
    KindOf,    \* KindOf[j]: the kind column, "work" or "file"
    Wants      \* Wants[p]: the kinds poller p asks for

Kinds == {"work", "file"}

ASSUME NoJobAssumption == NoJob \notin Jobs
ASSUME KindAssumption == KindOf \in [Jobs -> Kinds] /\ Wants \in [Pollers -> SUBSET Kinds]

VARIABLES
    row,       \* row[j]: the status column, "absent" before the insert
    created,   \* created[j]: the created_at column
    clock,     \* the latest created_at given out
    txn,       \* txn[p]: the row poller p's open claim transaction has locked
    claims     \* claims[j]: history, how many claims of j were committed

queueVars == << row, created, clock, txn, claims >>

Statuses == {"absent", "queued", "running", "done", "failed"}
Settled == {"done", "failed"}

QTypeOK ==
    /\ row \in [Jobs -> Statuses]
    /\ created \in [Jobs -> Nat]
    /\ clock \in Nat
    /\ txn \in [Pollers -> Jobs \cup {NoJob}]
    /\ claims \in [Jobs -> Nat]

QInit ==
    /\ row = [j \in Jobs |-> "absent"]
    /\ created = [j \in Jobs |-> 0]
    /\ clock = 0
    /\ txn = [p \in Pollers |-> NoJob]
    /\ claims = [j \in Jobs |-> 0]

-----------------------------------------------------------------------------

\* INSERT INTO work_queue: a new row is queued and is the newest one.
Enqueue(j) ==
    /\ row[j] = "absent"
    /\ row' = [row EXCEPT ![j] = "queued"]
    /\ created' = [created EXCEPT ![j] = clock + 1]
    /\ clock' = clock + 1
    /\ UNCHANGED << txn, claims >>

\* Mutation of Claimable: without FOR UPDATE SKIP LOCKED.
ClaimableUnlocked(p) == { j \in Jobs : row[j] = "queued" /\ KindOf[j] \in Wants[p] }

\* The rows a claim by p can see and lock: SKIP LOCKED passes over a row that
\* another claim holds.
Claimable(p) ==
    { j \in Jobs : /\ row[j] = "queued"
                   /\ KindOf[j] \in Wants[p]
                   /\ \A q \in Pollers : txn[q] # j }

\* ORDER BY created_at LIMIT 1.
Oldest(js) == { j \in js : \A i \in js : created[j] <= created[i] }

ClaimSelect(p) ==
    /\ txn[p] = NoJob
    /\ \E j \in Oldest(Claimable(p)) : txn' = [txn EXCEPT ![p] = j]
    /\ UNCHANGED << row, created, clock, claims >>

\* UPDATE ... SET status = 'running' WHERE id = v_id, and the commit.  The
\* statement does not look at the status again: the row lock is what makes
\* that safe.
ClaimCommit(p) ==
    /\ txn[p] # NoJob
    /\ row' = [row EXCEPT ![txn[p]] = "running"]
    /\ claims' = [claims EXCEPT ![txn[p]] = @ + 1]
    /\ txn' = [txn EXCEPT ![p] = NoJob]
    /\ UNCHANGED << created, clock >>

\* The caller's request context ended before the commit: the transaction is
\* rolled back and the row is there for the next claim.
ClaimRollback(p) ==
    /\ txn[p] # NoJob
    /\ txn' = [txn EXCEPT ![p] = NoJob]
    /\ UNCHANGED << row, created, clock, claims >>

\* Mutation of Finish: without the status condition.
FinishUnguarded(j, ok) ==
    /\ row[j] # "absent"
    /\ row' = [row EXCEPT ![j] = IF ok THEN "done" ELSE "failed"]
    /\ UNCHANGED << created, clock, txn, claims >>

\* UPDATE ... WHERE id = p_id AND status = 'running'.  A report for any other
\* row changes nothing and is answered recorded = false.
Finish(j, ok) ==
    /\ row[j] = "running"
    /\ row' = [row EXCEPT ![j] = IF ok THEN "done" ELSE "failed"]
    /\ UNCHANGED << created, clock, txn, claims >>

\* The queue serves whoever holds the service token, so in this module any
\* report may arrive at any time.
QNext ==
    \/ \E j \in Jobs : Enqueue(j)
    \/ \E p \in Pollers : ClaimSelect(p) \/ ClaimCommit(p) \/ ClaimRollback(p)
    \/ \E j \in Jobs, ok \in BOOLEAN : Finish(j, ok)

QSpec == QInit /\ [][QNext]_queueVars

-----------------------------------------------------------------------------

\* 0035: "FOR UPDATE SKIP LOCKED so two pollers cannot take the same job."
\* No two open claims hold one row, whatever the pollers ask for, and the row a
\* claim holds is still queued when its unguarded UPDATE runs.
LocksAreExclusive ==
    /\ \A p, q \in Pollers : txn[p] = txn[q] /\ p # q => txn[p] = NoJob
    /\ \A p \in Pollers : txn[p] # NoJob => row[txn[p]] = "queued"

\* A job is handed out once in its whole life, and the count of hand-outs can
\* be read off the status column: the queue has no other memory of who took
\* what.
HandedOutOnce ==
    \A j \in Jobs : claims[j] = IF row[j] \in {"absent", "queued"} THEN 0 ELSE 1

\* The queue promises what JobLifecycle says of every job.
Lifecycle == INSTANCE JobLifecycle WITH phase <- row, starts <- claims
ImplementsLifecycle == Lifecycle!Spec

=============================================================================
