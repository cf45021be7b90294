--------------------------- MODULE MCDispatcher -----------------------------
(* Two dispatches and a filing, on one node.                               *)
EXTENDS Dispatcher

CONSTANTS w1, w2, f1, b1, b2

MCKindOf == [j \in Jobs |-> IF j = f1 THEN "file" ELSE "work"]
MCWants == [p \in Pollers |-> IF p = FileLoop THEN {"file"} ELSE {"work"}]
OwnBeads == [j \in Jobs |-> IF j = w1 THEN b1 ELSE b2]
SameBead == [j \in Jobs |-> b1]
=============================================================================
