------------------------------ MODULE MCQueues ------------------------------
(* The two tables of the control plane that several processes take work     *)
(* from, each on a small instance of its own: work_queue, whose rows a      *)
(* claim locks one by one, and github_deliveries, which is replayed under   *)
(* one advisory lock.  A behaviour is one table's, and the other stands.    *)
EXTENDS WorkQueue, Deliveries

CONSTANTS w1, w2, f1, passA, passB, files

VARIABLE table

queuesVars == << table, queueVars, deliveriesVars >>

\* Two pollers that compete for work, and one for filings, which one of the two takes too.
MCKindOf == [j \in Jobs |-> IF j = f1 THEN "file" ELSE "work"]
MCWants == [p \in Pollers |-> IF p = files THEN {"file"}
                              ELSE IF p = passB THEN Kinds ELSE {"work"}]

QueuesInit == table \in {"work_queue", "github_deliveries"} /\ QInit /\ DeliveriesInit

OfDeliveries(step) ==
    table = "github_deliveries" /\ step /\ UNCHANGED << table, queueVars >>

QueuesNext ==
    \/ table = "work_queue" /\ QNext /\ UNCHANGED << table, deliveriesVars >>
    \/ OfDeliveries(DeliveriesNext)

\* The reconciliation timer resyncs every quarter of an hour, whatever becomes of the
\* deliveries and of the replay.  Nothing is assumed of those, nor of the pollers.
QueuesFairness ==
    WF_queuesVars(OfDeliveries(ResyncLists)) /\ WF_queuesVars(OfDeliveries(ResyncProjects))

QueuesSpec == QueuesInit /\ [][QueuesNext]_queuesVars /\ QueuesFairness

\* RowCatchesUp, of the behaviours that are the deliveries': internal/reconcile.
ProjectionCatchesUp == table = "github_deliveries" => RowCatchesUp
=============================================================================
