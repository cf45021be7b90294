---------------------------- MODULE JobLifecycle ----------------------------
(***************************************************************************)
(* What the work queue promises the people who dispatch work, with the     *)
(* database, the network and the execution node left out: a job is         *)
(* submitted, it is started at most once, and its outcome, once recorded,  *)
(* is final.  WorkQueue implements this specification, and Dispatcher      *)
(* implements WorkQueue.                                                   *)
(***************************************************************************)
EXTENDS Naturals

CONSTANT Jobs

VARIABLES
    phase,     \* phase[j]: where job j stands
    starts     \* starts[j]: how many times job j was handed to a runner

vars == << phase, starts >>

Init ==
    /\ phase = [j \in Jobs |-> "absent"]
    /\ starts = [j \in Jobs |-> 0]

Submit(j) ==
    /\ phase[j] = "absent"
    /\ phase' = [phase EXCEPT ![j] = "queued"]
    /\ UNCHANGED starts

Start(j) ==
    /\ phase[j] = "queued"
    /\ starts[j] = 0
    /\ phase' = [phase EXCEPT ![j] = "running"]
    /\ starts' = [starts EXCEPT ![j] = 1]

Settle(j) ==
    /\ phase[j] = "running"
    /\ \E end \in {"done", "failed"} : phase' = [phase EXCEPT ![j] = end]
    /\ UNCHANGED starts

Next == \E j \in Jobs : Submit(j) \/ Start(j) \/ Settle(j)

Spec == Init /\ [][Next]_vars
=============================================================================
