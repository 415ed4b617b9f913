------------------------------ MODULE Channels ------------------------------
(***************************************************************************)
(* ClosableQueue of channels.py, as a value: the items in FIFO order and   *)
(* the closed flag.  A dequeue is one step: whatever try_get and get       *)
(* answer was true at one instant of the call (TrueAnswers of              *)
(* ClosableQueue, which has the code's steps).  An enqueue is not one:     *)
(* put reads keep_going and closed, and only then waits for room, so its   *)
(* callers have a step for each.                                           *)
(***************************************************************************)
EXTENDS Naturals, Sequences

Channel(Item) == [q : Seq(Item), closed : BOOLEAN]

NewChannel == [q |-> <<>>, closed |-> FALSE]

\* queue.Queue(maxsize=max(1, maxsize)) bounds the items held.
Capacity(maxsize) == IF maxsize < 1 THEN 1 ELSE maxsize

HasRoom(ch, maxsize) == Len(ch.q) < Capacity(maxsize)

Enqueued(ch, item) == [ch EXCEPT !.q = Append(@, item)]

HasItem(ch) == ch.q # <<>>

Dequeued(ch) == [ch EXCEPT !.q = Tail(@)]

Closed(ch) == [ch EXCEPT !.closed = TRUE]
=============================================================================
