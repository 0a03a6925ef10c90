----------------------------- MODULE NamedMutex -----------------------------
(***************************************************************************)
(* What pkg/locker promises to its callers: one mutex per name, created    *)
(* when it is first wanted and gone when nobody wants it.  The volume      *)
(* store (volume/store) and the containerd client (libcontainerd) rely on  *)
(* nothing else of it.                                                     *)
(***************************************************************************)
CONSTANTS Procs, Names, NoName

VARIABLES wants,   \* the name a process has asked for and not released, or NoName
          holds    \* the processes whose Lock has taken effect

vars == <<wants, holds>>

Init == /\ wants = [p \in Procs |-> NoName]
        /\ holds = {}

Request(p, n) == /\ wants[p] = NoName
                 /\ wants' = [wants EXCEPT ![p] = n]
                 /\ UNCHANGED holds

Acquire(p) == /\ wants[p] # NoName
              /\ p \notin holds
              /\ \A q \in holds : wants[q] # wants[p]
              /\ holds' = holds \cup {p}
              /\ UNCHANGED wants

Release(p) == /\ p \in holds
              /\ holds' = holds \ {p}
              /\ wants' = [wants EXCEPT ![p] = NoName]

Next == \E p \in Procs : \/ \E n \in Names : Request(p, n)
                         \/ Acquire(p)
                         \/ Release(p)

Spec == Init /\ [][Next]_vars
=============================================================================
