--------------------------- MODULE ClosableQueue ----------------------------
(***************************************************************************)
(* channels.py step by step: one ClosableQueue, the threads that put into  *)
(* it and those that take from it, and a close at any time.  queue.Queue   *)
(* locks itself, so each use of it is a step, and so is each reading of    *)
(* the closed event.  The other modules take a dequeue for one step; that  *)
(* rests on TrueAnswers.                                                   *)
(* A producer is "idle", or in put: about to read keep_going ("going"),    *)
(* closed ("open") or to enqueue ("enq").  A consumer is "idle", or in     *)
(* try_get or get: in the first dequeue ("probe"), about to read closed    *)
(* ("check"), in the last look ("last"), with an answer ("answered"); or   *)
(* it has stopped ("done").                                                *)
(***************************************************************************)
EXTENDS Channels

CONSTANTS
    Producers,
    Steadfast,     \* those whose keep_going() is always true: results.put
    TryConsumers,  \* use try_get
    TimedConsumers,\* use get
    Maxsize,
    MaxPuts        \* bound on the calls of put, of each producer

ASSUME QueueAssumption ==
    /\ Steadfast \subseteq Producers
    /\ TryConsumers \intersect TimedConsumers = {}
    /\ Maxsize \in Nat
    /\ MaxPuts \in Nat

Consumers == TryConsumers \union TimedConsumers

VARIABLES
    queue,
    RUNNING,    \* what the other producers' keep_going() reads
    ppc, puts,
    cpc, answer,
    late,       \* how many items each producer enqueued after the close
    truths      \* the answers without an item that were true at some
                \* instant since each consumer's call began

history == <<late, truths>>
vars == <<queue, RUNNING, ppc, puts, cpc, answer, history>>

Init ==
    /\ queue = NewChannel
    /\ RUNNING = TRUE
    /\ ppc = [p \in Producers |-> "idle"]
    /\ puts = [p \in Producers |-> 0]
    /\ cpc = [c \in Consumers |-> "idle"]
    /\ answer = [c \in Consumers |-> "none"]
    /\ late = [p \in Producers |-> 0]
    /\ truths = [c \in Consumers |-> {}]

TypeOK ==
    /\ queue \in Channel(Producers)
    /\ RUNNING \in BOOLEAN
    /\ ppc \in [Producers -> {"idle", "going", "open", "enq"}]
    /\ puts \in [Producers -> Nat]
    /\ cpc \in [Consumers -> {"idle", "probe", "check", "last", "answered", "done"}]
    /\ answer \in [Consumers -> {"none", "ITEM", "EMPTY", "CLOSED"}]
    /\ late \in [Producers -> Nat]
    /\ truths \in [Consumers -> SUBSET {"EMPTY", "CLOSED"}]

-----------------------------------------------------------------------------
(* put *)

PutGoto(p, label) == ppc' = [ppc EXCEPT ![p] = label]

PutCall(p) ==
    /\ ppc[p] = "idle"
    /\ puts[p] < MaxPuts
    /\ puts' = [puts EXCEPT ![p] = @ + 1]
    /\ PutGoto(p, "going")
    /\ UNCHANGED <<queue, RUNNING, cpc, answer, late>>

PutGoing(p) ==
    /\ ppc[p] = "going"
    /\ PutGoto(p, IF p \in Steadfast \/ RUNNING THEN "open" ELSE "idle")
    /\ UNCHANGED <<queue, RUNNING, puts, cpc, answer, late>>

\* Faulty: close does not keep producers out.
MayEnqueueAlways == TRUE
MayEnqueue == ~queue.closed

PutOpen(p) ==
    /\ ppc[p] = "open"
    /\ PutGoto(p, IF MayEnqueue THEN "enq" ELSE "idle")
    /\ UNCHANGED <<queue, RUNNING, puts, cpc, answer, late>>

PutEnqueue(p) ==
    /\ ppc[p] = "enq"
    /\ HasRoom(queue, Maxsize)
    /\ queue' = Enqueued(queue, p)
    /\ late' = IF queue.closed THEN [late EXCEPT ![p] = @ + 1] ELSE late
    /\ PutGoto(p, "idle")
    /\ UNCHANGED <<RUNNING, puts, cpc, answer>>

\* Full: around the loop.  Faulty: only the enqueue is tried again.
AfterFullRetry == "enq"
AfterFull == "going"

PutFull(p) ==
    /\ ppc[p] = "enq"
    /\ ~HasRoom(queue, Maxsize)
    /\ PutGoto(p, AfterFull)
    /\ UNCHANGED <<queue, RUNNING, puts, cpc, answer, late>>

PutStep(p) == PutCall(p) \/ PutGoing(p) \/ PutOpen(p) \/ PutEnqueue(p) \/ PutFull(p)

-----------------------------------------------------------------------------
(* try_get and get *)

GetGoto(c, label) == cpc' = [cpc EXCEPT ![c] = label]

Answer(c, what) ==
    /\ GetGoto(c, "answered")
    /\ answer' = [answer EXCEPT ![c] = what]

Take(c) ==
    /\ HasItem(queue)
    /\ queue' = Dequeued(queue)
    /\ Answer(c, "ITEM")

GetCall(c) ==
    /\ cpc[c] = "idle"
    /\ GetGoto(c, "probe")
    /\ UNCHANGED <<queue, RUNNING, ppc, puts, answer, late>>

\* The first dequeue; that of get waits, until it times out on an empty queue.
Probe(c) ==
    /\ cpc[c] = "probe"
    /\ \/ Take(c)
       \/ ~HasItem(queue) /\ GetGoto(c, "check") /\ UNCHANGED <<queue, answer>>
    /\ UNCHANGED <<RUNNING, ppc, puts, late>>

Check(c) ==
    /\ cpc[c] = "check"
    /\ IF queue.closed
       THEN GetGoto(c, "last") /\ UNCHANGED answer
       ELSE Answer(c, "EMPTY")
    /\ UNCHANGED <<queue, RUNNING, ppc, puts, late>>

\* Closed: try_get dequeues once more and get looks whether the queue is empty.
\* Faulty: neither does; or what they see is never the end.
LastLookNone(c) == Answer(c, "CLOSED") /\ UNCHANGED queue
LastLookEmpty(c) ==
    \/ Take(c)
    \/ ~HasItem(queue) /\ Answer(c, "EMPTY") /\ UNCHANGED queue
LastLook(c) ==
    \/ c \in TryConsumers /\ Take(c)
    \/ c \in TimedConsumers /\ HasItem(queue) /\ Answer(c, "EMPTY") /\ UNCHANGED queue
    \/ ~HasItem(queue) /\ Answer(c, "CLOSED") /\ UNCHANGED queue

Last(c) ==
    /\ cpc[c] = "last"
    /\ LastLook(c)
    /\ UNCHANGED <<RUNNING, ppc, puts, late>>

\* The caller calls again unless the queue is closed.
AfterAnswer(c) == IF answer[c] = "CLOSED" THEN "done" ELSE "idle"

Return(c) ==
    /\ cpc[c] = "answered"
    /\ GetGoto(c, AfterAnswer(c))
    /\ answer' = [answer EXCEPT ![c] = "none"]
    /\ UNCHANGED <<queue, RUNNING, ppc, puts, late>>

GetStep(c) == GetCall(c) \/ Probe(c) \/ Check(c) \/ Last(c) \/ Return(c)

\* A consumer may stop for its own reasons: shutdown, a fatal error.
Quit(c) ==
    /\ cpc[c] = "idle"
    /\ GetGoto(c, "done")
    /\ UNCHANGED <<queue, RUNNING, ppc, puts, answer, late>>

-----------------------------------------------------------------------------

Close ==
    /\ ~queue.closed
    /\ queue' = Closed(queue)
    /\ UNCHANGED <<RUNNING, ppc, puts, cpc, answer, late>>

Shutdown ==
    /\ RUNNING
    /\ RUNNING' = FALSE
    /\ UNCHANGED <<queue, ppc, puts, cpc, answer, late>>

\* The answer without an item that is true of a queue.
Truth(ch) == IF HasItem(ch) THEN {} ELSE IF ch.closed THEN {"CLOSED"} ELSE {"EMPTY"}

InCall(label) == label \in {"probe", "check", "last", "answered"}

Observe ==
    truths' = [c \in Consumers |->
                  IF InCall(cpc'[c]) THEN truths[c] \union Truth(queue') ELSE {}]

Next ==
    /\ \/ \E p \in Producers : PutStep(p)
       \/ \E c \in Consumers : GetStep(c) \/ Quit(c)
       \/ Close
       \/ Shutdown
    /\ Observe

Spec == Init /\ [][Next]_vars

\* Threads keep being scheduled, and a timed wait ends.
FairSpec ==
    /\ Spec
    /\ \A p \in Producers : WF_vars(PutStep(p) /\ Observe)
    /\ \A c \in Consumers : WF_vars(GetStep(c) /\ Observe)

-----------------------------------------------------------------------------
(* What the queue promises *)

\* try_get's EMPTY and CLOSED, and get's CLOSED, are the truth of one instant of
\* the call, whatever was put, taken or closed between its looks: so a worker
\* never takes a queue with an item in it for the end (channels.py:51).
TrueAnswers ==
    \A c \in Consumers :
        answer[c] = "CLOSED" \/ (answer[c] = "EMPTY" /\ c \in TryConsumers) =>
            answer[c] \in truths[c]

\* A close keeps producers out but for the enqueue each had begun: what lands
\* behind the consumers' backs is at most one item of each.
AtMostOneLate == \A p \in Producers : late[p] <= 1

\* A producer in put returns once the queue is closed or its keep_going() is
\* false, whoever has stopped consuming (channels.py:70-71).
PutReleased ==
    \A p \in Producers :
        queue.closed \/ (~RUNNING /\ p \notin Steadfast) ~> ppc[p] = "idle"

\* A close ends every consumer, after what was queued (channels.py:33).
ConsumersEnd == \A c \in Consumers : queue.closed ~> cpc[c] = "done"
=============================================================================
