---------------------------- MODULE CommandQueues ----------------------------
(***************************************************************************)
(* What the controllers promise for the commands that are queued: each     *)
(* controller serves its own strictly in order.  The one in front is tried *)
(* until a response comes or it was tried MaxTries times.  No other way    *)
(* leads out of the queue but a restart of the node and, where responses   *)
(* interrupt the controller, being dropped in the place of a command that  *)
(* has just been answered.  A response does not say whose it is: it        *)
(* answers the front of every queue.  The answered commands are processed  *)
(* in the same order, each once.                                           *)
(***************************************************************************)
EXTENDS Naturals, Sequences

CONSTANTS
    Controllers,
    Items,       \* what a command may be about
    MaxTries,    \* how often a command is tried before it is given up
    Duplicates,  \* may an item be queued again before it was served?
    Interrupts   \* may a response come while a command is given up?

VARIABLE queues  \* queues[c]: the items that wait, the tries of the first, the answered

Empty == [pending |-> <<>>, tries |-> 0, answered |-> <<>>]

Init == queues = [c \in Controllers |-> Empty]

Submit(c, item) ==
    /\ Duplicates \/ \A i \in 1 .. Len(queues[c].pending) : queues[c].pending[i] # item
    /\ queues' = [queues EXCEPT ![c].pending = Append(@, item)]

Try(c) ==
    /\ queues[c].pending # <<>>
    /\ queues[c].tries < MaxTries
    /\ queues' = [queues EXCEPT ![c].tries = @ + 1]

WithoutFront(q) == [pending |-> Tail(q.pending), tries |-> 0, answered |-> q.answered]

GiveUp(c) ==
    /\ queues[c].pending # <<>>
    /\ queues[c].tries = MaxTries
    /\ queues' = [queues EXCEPT ![c] = WithoutFront(@)]

\* the response to the command that is given up was quicker
Lose(c) ==
    /\ Interrupts
    /\ queues[c].pending # <<>>
    /\ queues[c].tries = 0
    /\ queues[c].answered # <<>>
    /\ queues' = [queues EXCEPT ![c] = WithoutFront(@)]

Answered(q) ==
    [pending |-> Tail(q.pending), tries |-> 0, answered |-> Append(q.answered, Head(q.pending))]

Respond ==
    queues' = [c \in Controllers |->
                 IF queues[c].pending = <<>> THEN queues[c] ELSE Answered(queues[c])]

Process(c) ==
    /\ queues[c].answered # <<>>
    /\ queues' = [queues EXCEPT ![c].answered = Tail(@)]

Restart == queues' = [c \in Controllers |-> Empty]

Step ==
    \/ \E c \in Controllers :
         \/ \E item \in Items : Submit(c, item)
         \/ Try(c)
         \/ GiveUp(c)
         \/ Lose(c)
         \/ Process(c)
    \/ Respond
    \/ Restart

\* steps that change nothing are stuttering
Next == queues' # queues /\ Step

Spec == Init /\ [][Next]_queues
=============================================================================
