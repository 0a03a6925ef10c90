---------------------------- MODULE MCTransfers ----------------------------
(* Small instances of Transfers. *)
EXTENDS Transfers

CONSTANTS c1, c2

\* Both clients pull the whole chain; no two layers are the same.
AllTop == [c \in Clients |-> Depth]
AllDistinct == [i \in 1..Depth |-> 0]
\* The last layer repeats the data of the first.
LastRepeats == [i \in 1..Depth |-> IF i = Depth THEN 1 ELSE 0]
\* The first client pulls the whole chain, the second its first layer.
OneTop == [c \in Clients |-> IF c = c1 THEN Depth ELSE 1]

\* Two pushes of the same layers; the second names one of them twice.
BothOrders == [c \in Clients |-> IF c = c1 THEN <<1, 2>> ELSE <<2, 1, 2>>]
=============================================================================
