---------------------------- MODULE MCLiveRestore ----------------------------
(***************************************************************************)
(* A container with restart policy always that is restored while its past  *)
(* event is still in the stream of events.                                 *)
(***************************************************************************)
EXTENDS LiveRestore

MCLrLoads == {[reqs |-> 3, exits |-> 1, crashes |-> 1, live |-> TRUE, always |-> TRUE,
               prompt |-> FALSE, slow |-> FALSE, fresh |-> FALSE]}
==============================================================================
