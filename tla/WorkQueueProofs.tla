--------------------------- MODULE WorkQueueProofs --------------------------
(***************************************************************************)
(* The queue's safety for every set of rows and pollers, and that it       *)
(* implements JobLifecycle.                                                *)
(***************************************************************************)
EXTENDS WorkQueue, TLAPS

\* The type of the queue's state is inductive by itself.
LEMMA QTypeStep == QTypeOK /\ [QNext]_queueVars => QTypeOK'
<1> SUFFICES ASSUME QTypeOK, [QNext]_queueVars PROVE QTypeOK'
    OBVIOUS
<1> USE DEF QTypeOK, Statuses
<1>1. ASSUME NEW j \in Jobs, Enqueue(j) PROVE QTypeOK'
    BY <1>1 DEF Enqueue
<1>2. ASSUME NEW p \in Pollers, ClaimSelect(p) PROVE QTypeOK'
    BY <1>2 DEF ClaimSelect, Oldest, Claimable
<1>3. ASSUME NEW p \in Pollers, ClaimCommit(p) PROVE QTypeOK'
    BY <1>3 DEF ClaimCommit
<1>4. ASSUME NEW p \in Pollers, ClaimRollback(p) PROVE QTypeOK'
    BY <1>4 DEF ClaimRollback
<1>5. ASSUME NEW j \in Jobs, NEW ok \in BOOLEAN, Finish(j, ok) PROVE QTypeOK'
    BY <1>5 DEF Finish
<1>6. CASE UNCHANGED queueVars
    BY <1>6 DEF queueVars
<1> QED
    BY <1>1, <1>2, <1>3, <1>4, <1>5, <1>6 DEF QNext

\* The state of the queue always has its type.
THEOREM QTypeInvariant == QSpec => []QTypeOK
<1>1. QInit => QTypeOK
    BY DEF QInit, QTypeOK, Statuses
<1> QED
    BY <1>1, QTypeStep, PTL DEF QSpec

\* The locks alone do not say enough after a Finish or a commit: that the
\* locked row is still queued is part of the induction, and so is the count of
\* claims that the unguarded UPDATE relies on.
QueueInv == QTypeOK /\ LocksAreExclusive /\ HandedOutOnce

\* The inductive step, one action at a time.
LEMMA QueueStep == QueueInv /\ [QNext]_queueVars => QueueInv'
<1> SUFFICES ASSUME QueueInv, [QNext]_queueVars PROVE QueueInv'
    OBVIOUS
<1> USE NoJobAssumption DEF QueueInv
<1>0. QTypeOK'
    BY QTypeStep
<1>1. ASSUME NEW j \in Jobs, Enqueue(j) PROVE LocksAreExclusive' /\ HandedOutOnce'
    BY <1>1 DEF Enqueue, QTypeOK, LocksAreExclusive, HandedOutOnce
<1>2. ASSUME NEW p \in Pollers, ClaimSelect(p) PROVE LocksAreExclusive' /\ HandedOutOnce'
  <2>1. PICK j \in Claimable(p) : txn' = [txn EXCEPT ![p] = j]
      BY <1>2 DEF ClaimSelect, Oldest
  <2>2. row[j] = "queued" /\ (\A q \in Pollers : txn[q] # j) /\ j \in Jobs
      BY <2>1 DEF Claimable
  <2>3. LocksAreExclusive'
      BY <1>2, <2>1, <2>2 DEF ClaimSelect, QTypeOK, LocksAreExclusive
  <2>4. HandedOutOnce'
      BY <1>2 DEF ClaimSelect, HandedOutOnce
  <2> QED
      BY <2>3, <2>4
<1>3. ASSUME NEW p \in Pollers, ClaimCommit(p) PROVE LocksAreExclusive' /\ HandedOutOnce'
  <2>1. txn[p] \in Jobs /\ row[txn[p]] = "queued"
      BY <1>3 DEF ClaimCommit, QTypeOK, LocksAreExclusive
  <2>2. \A q \in Pollers : q # p => txn[q] # txn[p]
      BY <1>3 DEF ClaimCommit, LocksAreExclusive
  <2>3. LocksAreExclusive'
      BY <1>3, <2>1, <2>2 DEF ClaimCommit, QTypeOK, LocksAreExclusive
  <2>4. HandedOutOnce'
      BY <1>3, <2>1 DEF ClaimCommit, QTypeOK, HandedOutOnce
  <2> QED
      BY <2>3, <2>4
<1>4. ASSUME NEW p \in Pollers, ClaimRollback(p) PROVE LocksAreExclusive' /\ HandedOutOnce'
    BY <1>4 DEF ClaimRollback, QTypeOK, LocksAreExclusive, HandedOutOnce
<1>5. ASSUME NEW j \in Jobs, NEW ok \in BOOLEAN, Finish(j, ok)
      PROVE LocksAreExclusive' /\ HandedOutOnce'
    BY <1>5 DEF Finish, QTypeOK, LocksAreExclusive, HandedOutOnce
<1>6. CASE UNCHANGED queueVars
    BY <1>6 DEF queueVars, QTypeOK, LocksAreExclusive, HandedOutOnce
<1>7. CASE QNext
    BY <1>0, <1>1, <1>2, <1>3, <1>4, <1>5, <1>7 DEF QNext
<1> QED
    BY <1>6, <1>7

\* QueueInv holds in every reachable state.
THEOREM QueueInvariant == QSpec => []QueueInv
<1>1. QInit => QueueInv
    BY DEF QInit, QueueInv, QTypeOK, Statuses, LocksAreExclusive, HandedOutOnce
<1> QED
    BY <1>1, QueueStep, PTL DEF QSpec

\* No two open claims hold one row: FOR UPDATE SKIP LOCKED does what 0035 says.
THEOREM LocksInvariant == QSpec => []LocksAreExclusive
<1>1. QueueInv => LocksAreExclusive
    BY DEF QueueInv
<1> QED
    BY <1>1, QueueInvariant, PTL

\* A row is claimed at most once in its life, whoever polls.
THEOREM HandedOutInvariant == QSpec => []HandedOutOnce
<1>1. QueueInv => HandedOutOnce
    BY DEF QueueInv
<1> QED
    BY <1>1, QueueInvariant, PTL

\* Every step of the queue is a step of the lifecycle or changes nothing of it.
LEMMA LifecycleStep ==
    QueueInv /\ [QNext]_queueVars => [Lifecycle!Next]_(Lifecycle!vars)
<1> SUFFICES ASSUME QueueInv, [QNext]_queueVars PROVE [Lifecycle!Next]_(Lifecycle!vars)
    OBVIOUS
<1> USE DEF QueueInv
<1>1. ASSUME NEW j \in Jobs, Enqueue(j) PROVE Lifecycle!Submit(j)
    BY <1>1 DEF Enqueue, Lifecycle!Submit
<1>2. ASSUME NEW p \in Pollers, ClaimSelect(p) \/ ClaimRollback(p)
      PROVE UNCHANGED Lifecycle!vars
    BY <1>2 DEF ClaimSelect, ClaimRollback, Lifecycle!vars
<1>3. ASSUME NEW p \in Pollers, ClaimCommit(p) PROVE \E j \in Jobs : Lifecycle!Start(j)
  <2>1. txn[p] \in Jobs /\ row[txn[p]] = "queued"
      BY <1>3 DEF ClaimCommit, QTypeOK, LocksAreExclusive
  <2>2. claims[txn[p]] = 0
      BY <2>1 DEF HandedOutOnce
  <2>3. Lifecycle!Start(txn[p])
      BY <1>3, <2>1, <2>2 DEF ClaimCommit, QTypeOK, Lifecycle!Start
  <2> QED
      BY <2>1, <2>3
<1>4. ASSUME NEW j \in Jobs, NEW ok \in BOOLEAN, Finish(j, ok) PROVE Lifecycle!Settle(j)
    BY <1>4 DEF Finish, Lifecycle!Settle
<1>5. CASE UNCHANGED queueVars
    BY <1>5 DEF queueVars, Lifecycle!vars
<1> QED
    BY <1>1, <1>2, <1>3, <1>4, <1>5 DEF QNext, Lifecycle!Next

\* The queue implements JobLifecycle: a job is started at most once and its
\* outcome is final.
THEOREM QueueImplementsLifecycle == QSpec => ImplementsLifecycle
<1>1. QInit => Lifecycle!Init
    BY DEF QInit, Lifecycle!Init
<1> QED
    BY <1>1, LifecycleStep, QueueInvariant, PTL DEF QSpec, ImplementsLifecycle, Lifecycle!Spec
=============================================================================
