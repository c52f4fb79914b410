------------------------------ MODULE LogQueue ------------------------------
(***************************************************************************)
(* What the message queue between loggers and their worker threads         *)
(* promises: a first-in first-out queue of bounded length.  A message is   *)
(* put in when there is room, or, if its logger may overrun, in place of   *)
(* the oldest one; a worker takes the oldest message and finishes it       *)
(* before it takes another.                                                *)
(***************************************************************************)
EXTENDS Naturals, Sequences

CONSTANTS
  Messages,    \* what may be put into the queue
  Workers,     \* the consumers
  Capacity,    \* the most messages it holds
  None         \* no message

VARIABLES
  overrunners, \* the messages that may push out the oldest one, fixed
  queue,       \* the messages waiting, oldest first
  hand         \* the message each worker is busy with, or None

Init ==
  /\ overrunners \subseteq Messages
  /\ queue = <<>>
  /\ hand = [w \in Workers |-> None]

Put(m) ==
  /\ Len(queue) < Capacity
  /\ queue' = Append(queue, m)
  /\ UNCHANGED <<hand, overrunners>>

Overrun(m) ==
  /\ m \in overrunners
  /\ Len(queue) = Capacity
  /\ queue' = Append(Tail(queue), m)
  /\ UNCHANGED <<hand, overrunners>>

Take(w) ==
  /\ hand[w] = None
  /\ queue # <<>>
  /\ hand' = [hand EXCEPT ![w] = Head(queue)]
  /\ queue' = Tail(queue)
  /\ UNCHANGED overrunners

Finish(w) ==
  /\ hand[w] # None
  /\ hand' = [hand EXCEPT ![w] = None]
  /\ UNCHANGED <<queue, overrunners>>

Next ==
  \/ \E m \in Messages : Put(m) \/ Overrun(m)
  \/ \E w \in Workers : Take(w) \/ Finish(w)

Spec == Init /\ [][Next]_<<overrunners, queue, hand>>
=============================================================================
