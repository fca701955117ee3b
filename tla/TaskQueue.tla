------------------------------ MODULE TaskQueue ------------------------------
(***************************************************************************)
(* What a task of the ETS kernel may rely on: an accepted event waits in a *)
(* queue of bounded length, and the events of one priority are handled in  *)
(* the order in which they were accepted, each of them once.               *)
(***************************************************************************)
EXTENDS Integers, Sequences

CONSTANTS
    Prios,  \* priorities
    Size    \* length of the queue of each priority

VARIABLES
    queue,  \* events accepted and not yet handled
    ran     \* events handled so far

Init ==
    /\ queue = [p \in Prios |-> << >>]
    /\ ran = [p \in Prios |-> << >>]

\* The next event of priority p is accepted.
Accept(p) ==
    /\ Len(queue[p]) < Size[p]
    /\ queue' = [queue EXCEPT ![p] = Append(@, Len(ran[p]) + Len(@) + 1)]
    /\ UNCHANGED ran

\* The oldest event of priority p is handled.
Handle(p) ==
    /\ queue[p] # << >>
    /\ queue' = [queue EXCEPT ![p] = Tail(@)]
    /\ ran' = [ran EXCEPT ![p] = Append(@, Head(queue[p]))]

Next == \E p \in Prios : Accept(p) \/ Handle(p)

Spec == Init /\ [][Next]_<<queue, ran>>
=============================================================================
