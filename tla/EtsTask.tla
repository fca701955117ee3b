------------------------------- MODULE EtsTask -------------------------------
(***************************************************************************)
(* The event queues of the ETS kernel, as delay() uses them.  Tasks are    *)
(* run by the kernel's loop, one after the other; delay() (esp8266/init.c) *)
(* runs further ones nested in the caller, with ets_run_once               *)
(* (esp8266/ets.c), which works on the kernel's own table.                 *)
(*                                                                         *)
(* The kernel locks interrupts around each use of the table; ets_run_once  *)
(* does not.  An interrupt may post an event between any two of its memory *)
(* accesses, so each of them is a step here.                               *)
(***************************************************************************)
EXTENDS Integers, Sequences, SequencesExt

CONSTANTS
    TaskPrios,  \* priorities that only tasks post to
    IsrPrios,   \* priorities that interrupts post to as well
    Mask,       \* the priorities delay() serves          (0xFF000000)
    Size,       \* the length of the queue of each priority
    MaxPosts,   \* bound: events accepted for one priority
    MaxDepth    \* bound: how deep delay() nests

Prios == TaskPrios \cup IsrPrios

\* The bits of a word.
ASSUME EtsAssumption ==
    /\ TaskPrios \cap IsrPrios = {}
    /\ Prios \subseteq 0 .. 31
    /\ Mask \subseteq Prios
    /\ Size \in [Prios -> 1 .. 255]

VARIABLES
    bits,      \* ets_bit_count_task, the set of the priorities whose bit is set
    reserved,  \* per priority: where the next event is put
    offset,    \* per priority: where the next event is taken
    count,     \* per priority: events waiting
    slot,      \* per priority: the events in the ring
    stack,     \* what the processor executes, the innermost last
    posted,    \* ghost: events accepted
    ran        \* ghost: the events the task of a priority was called with

vars == <<bits, reserved, offset, count, slot, stack, posted, ran>>

\* A frame: a task at work, or a call of ets_run_once and where it stands: the
\* priority and the event it has chosen, and what it has loaded and not yet
\* stored, a count or the word of the bits.
Frame(pc, p, event) == [pc |-> pc, prio |-> p, event |-> event, held |-> 0, word |-> {}]
RunOnce == {"index", "count", "store", "bits", "clear", "call"}

Top == stack[Len(stack)]
Become(f) == stack' = [stack EXCEPT ![Len(stack)] = f]
Step(from) == stack # << >> /\ Top.pc = from

\* The next place in the ring of priority p.
After(p, i) == IF i + 1 = Size[p] THEN 0 ELSE i + 1

Highest(ps) == CHOOSE p \in ps : \A q \in ps : q <= p

Init ==
    /\ bits = {}
    /\ reserved = [p \in Prios |-> 0]
    /\ offset = [p \in Prios |-> 0]
    /\ count = [p \in Prios |-> 0]
    /\ slot = [p \in Prios |-> [i \in 0 .. (Size[p] - 1) |-> 0]]
    /\ stack = << >>
    /\ posted = [p \in Prios |-> 0]
    /\ ran = [p \in Prios |-> << >>]

-----------------------------------------------------------------------------
\* The kernel's ets_post, interrupts locked.  A full queue refuses the event.
ets_post(p) ==
    /\ posted[p] < MaxPosts
    /\ count[p] # Size[p]
    /\ slot' = [slot EXCEPT ![p][reserved[p]] = posted[p] + 1]
    /\ reserved' = [reserved EXCEPT ![p] = After(p, @)]
    /\ count' = [count EXCEPT ![p] = @ + 1]
    /\ bits' = bits \cup {p}
    /\ posted' = [posted EXCEPT ![p] = @ + 1]
    /\ UNCHANGED <<offset, stack, ran>>

\* An interrupt handler posts, whatever the processor is doing.
Interrupt(p) == p \in IsrPrios /\ ets_post(p)

\* The task at work posts.
TaskPosts(p) == Step("task") /\ ets_post(p)

\* Code that runs when no task does posts: the kernel's start, init_down.
InitPosts(p) == stack = << >> /\ ets_post(p)

\* The kernel's loop: interrupts locked, the event of the highest priority.
ets_run ==
    /\ stack = << >>
    /\ bits # {}
    /\ LET p == Highest(bits)
       IN  /\ offset' = [offset EXCEPT ![p] = After(p, @)]
           /\ count' = [count EXCEPT ![p] = @ - 1]
           /\ bits' = IF count[p] = 1 THEN bits \ {p} ELSE bits
           /\ ran' = [ran EXCEPT ![p] = Append(@, slot[p][offset[p]])]
           /\ stack' = <<Frame("task", p, 0)>>
    /\ UNCHANGED <<reserved, slot, posted>>

\* A task returns; after a nested one delay() looks for the next.
Return ==
    /\ Step("task")
    /\ stack' = Front(stack)
    /\ UNCHANGED <<bits, reserved, offset, count, slot, posted, ran>>

-----------------------------------------------------------------------------
\* The task at work is in delay(), and ets_run_once finds a priority to serve.
\* (When it finds none, it returns false and nothing changes.)
Select ==
    /\ Step("task")
    /\ Len(stack) < MaxDepth
    /\ bits \cap Mask # {}
    /\ stack' = Append(stack, Frame("index", Highest(bits \cap Mask), 0))
    /\ UNCHANGED <<bits, reserved, offset, count, slot, posted, ran>>

\* event = &tab->event[tab->offset++], and the index wraps.
Index ==
    /\ Step("index")
    /\ LET p == Top.prio
       IN  /\ offset' = [offset EXCEPT ![p] = After(p, @)]
           /\ Become(Frame("count", p, offset[p]))
    /\ UNCHANGED <<bits, reserved, count, slot, posted, ran>>

\* --tab->count: the load ...
LoadCount ==
    /\ Step("count")
    /\ Become([Top EXCEPT !.pc = "store", !.held = count[Top.prio]])
    /\ UNCHANGED <<bits, reserved, offset, count, slot, posted, ran>>

\* ... and the store, a byte.
StoreCount ==
    /\ Step("store")
    /\ count' = [count EXCEPT ![Top.prio] = (Top.held - 1) % 256]
    /\ Become([Top EXCEPT !.pc = IF Top.held = 1 THEN "bits" ELSE "call", !.held = 0])
    /\ UNCHANGED <<bits, reserved, offset, slot, posted, ran>>

\* (Clears the bits of all priorities.)
ClearAll ==
    /\ Step("clear")
    /\ bits' = {}
    /\ Become([Top EXCEPT !.pc = "call", !.word = {}])
    /\ UNCHANGED <<reserved, offset, count, slot, posted, ran>>

\* ets_bit_count_task &= ~tab->priority: the load ...
LoadBits ==
    /\ Step("bits")
    /\ Become([Top EXCEPT !.pc = "clear", !.word = bits])
    /\ UNCHANGED <<bits, reserved, offset, count, slot, posted, ran>>

\* ... and the store.
ClearBit ==
    /\ Step("clear")
    /\ bits' = Top.word \ {Top.prio}
    /\ Become([Top EXCEPT !.pc = "call", !.word = {}])
    /\ UNCHANGED <<reserved, offset, count, slot, posted, ran>>

\* (The task gets the slot the index has moved to.)
CallNext ==
    /\ Step("call")
    /\ ran' = [ran EXCEPT ![Top.prio] = Append(@, slot[Top.prio][offset[Top.prio]])]
    /\ Become(Frame("task", Top.prio, 0))
    /\ UNCHANGED <<bits, reserved, offset, count, slot, posted>>

\* tab->task(event): only now the task reads what the event points to.
Call ==
    /\ Step("call")
    /\ ran' = [ran EXCEPT ![Top.prio] = Append(@, slot[Top.prio][Top.event])]
    /\ Become(Frame("task", Top.prio, 0))
    /\ UNCHANGED <<bits, reserved, offset, count, slot, posted>>

ets_run_once == Select \/ Index \/ LoadCount \/ StoreCount \/ LoadBits \/ ClearBit \/ Call

Next ==
    \/ \E p \in Prios : Interrupt(p) \/ TaskPosts(p) \/ InitPosts(p)
    \/ ets_run
    \/ Return
    \/ ets_run_once

(***************************************************************************)
(* The kernel's loop does not stop, tasks return, and a call that has been *)
(* begun goes on.                                                          *)
(***************************************************************************)
Fairness ==
    /\ WF_vars(ets_run)
    /\ WF_vars(Return)
    /\ WF_vars(Index \/ LoadCount \/ StoreCount \/ LoadBits \/ ClearBit \/ Call)

Spec == Init /\ [][Next]_vars
FairSpec == Spec /\ Fairness

-----------------------------------------------------------------------------
\* The call of ets_run_once that has taken an event of p and not delivered it.
Taking(p) == stack # << >> /\ Top.prio = p /\ Top.pc \in RunOnce \ {"index"}
Uncounted(p) == Taking(p) /\ Top.pc \in {"count", "store"}

(***************************************************************************)
(* A queue that only tasks post to is announced by its bit exactly when it *)
(* holds an event, whenever no call of ets_run_once is changing it: no     *)
(* event is left behind, although interrupts post to other queues through  *)
(* the same word.                                                          *)
(***************************************************************************)
BitTellsCount ==
    \A p \in TaskPrios : ~ (stack # << >> /\ Top.prio = p /\ Top.pc \in RunOnce) =>
        (p \in bits <=> count[p] > 0)

(***************************************************************************)
(* The queues that only tasks post to behave as TaskQueue says: in order,  *)
(* once each, nothing lost, however deep the calls of delay() nest.  An    *)
(* event leaves its queue when its task is called.                         *)
(***************************************************************************)
First(p) == IF Taking(p) THEN Top.event ELSE offset[p]
Pending(p) == IF Taking(p) /\ ~ Uncounted(p) THEN count[p] + 1 ELSE count[p]
Waiting(p) == [k \in 1 .. Pending(p) |-> slot[p][(First(p) + k - 1) % Size[p]]]

Queues == [p \in TaskPrios |-> Waiting(p)]
Handled == [p \in TaskPrios |-> ran[p]]

Abstract == INSTANCE TaskQueue WITH
    Prios <- TaskPrios,
    queue <- Queues,
    ran   <- Handled

QueuesAreFifo == Abstract!Spec

(***************************************************************************)
(* Every event that was accepted for such a queue is handled.              *)
(***************************************************************************)
AcceptedIsHandled ==
    \A p \in TaskPrios : \A n \in 1 .. MaxPosts : posted[p] = n ~> Len(ran[p]) >= n

-----------------------------------------------------------------------------
Frames == [pc : RunOnce \cup {"task"}, prio : Prios, event : Nat, held : Nat,
           word : SUBSET Prios]

TypeOK ==
    /\ bits \subseteq Prios
    /\ reserved \in [Prios -> Nat]
    /\ offset \in [Prios -> Nat]
    /\ count \in [Prios -> Nat]
    /\ posted \in [Prios -> Nat]
    /\ slot = [p \in Prios |-> slot[p]]
    /\ \A p \in Prios :
           /\ reserved[p] < Size[p] /\ offset[p] < Size[p] /\ count[p] <= Size[p]
           /\ slot[p] \in [0 .. (Size[p] - 1) -> Nat]
    /\ stack \in Seq(Frames)
    /\ ran \in [Prios -> Seq(Nat)]

\* The call of ets_run_once that has found the queue of p empty.
Clearing(p) == stack # << >> /\ Top.prio = p /\ Top.pc \in {"bits", "clear"}

\* Only the innermost frame stands in ets_run_once.  It has an event to take,
\* and what it has loaded and not yet stored is not more than there is now: an
\* interrupt only adds.
CallInv ==
    /\ \A k \in 1 .. (Len(stack) - 1) : stack[k].pc = "task"
    /\ stack # << >> =>
           /\ Top.pc # "task" => Top.event < Size[Top.prio]
           /\ Top.pc \in {"index", "count", "store"} => count[Top.prio] > 0
           /\ Top.pc = "store" => Top.held \in 1 .. count[Top.prio]
           /\ Top.pc = "clear" => Top.word \subseteq bits

\* No bit is set over an empty queue but the one that is about to be cleared.
\* (The other direction fails for a queue that interrupts post to.)
BitsInv == \A p \in bits : count[p] > 0 \/ Clearing(p)

\* For a queue that only tasks post to, what was loaded is still what there is.
Loaded(p) ==
    /\ count[p] > 0 => p \in bits
    /\ Clearing(p) => count[p] = 0
    /\ stack # << >> /\ Top.pc = "store" /\ Top.prio = p => Top.held = count[p]
    /\ stack # << >> /\ Top.pc = "clear" /\ p \in bits => p \in Top.word

\* Its ring holds the events that wait, the oldest first, up to the last one
\* accepted.
Ring(p) ==
    /\ Taking(p) => offset[p] = After(p, Top.event)
    /\ Pending(p) <= Size[p]
    /\ reserved[p] = (First(p) + Pending(p)) % Size[p]
    /\ posted[p] = Len(ran[p]) + Pending(p)
    /\ \A k \in 1 .. Pending(p) : Waiting(p)[k] = Len(ran[p]) + k

TaskInv == \A p \in TaskPrios : Loaded(p) /\ Ring(p)

(***************************************************************************)
(* The inductive invariant behind BitTellsCount and QueuesAreFifo.         *)
(***************************************************************************)
EtsInv == CallInv /\ BitsInv /\ TaskInv
=============================================================================
