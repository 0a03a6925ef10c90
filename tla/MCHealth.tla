------------------------------ MODULE MCHealth ------------------------------
(***************************************************************************)
(* One monitor, one probe, and a container that exits.                     *)
(***************************************************************************)
EXTENDS Health

MCHlLoads == {[turns |-> 2, ticks |-> 1, stops |-> 0, what |-> {"exit"}, retries |-> 2]}
=============================================================================
