---------------------------- MODULE QueueProofs -----------------------------
(***************************************************************************)
(* A ClosableQueue of any capacity between any producers and consumers:    *)
(* what try_get and get answer is true, and what a close lets through.     *)
(***************************************************************************)
EXTENDS ClosableQueue, TLAPS

\* Nothing reopens a queue, and each step leaves a queue.
LEMMA QueueType ==
    ASSUME TypeOK, [Next]_vars
    PROVE  /\ queue' \in Channel(Producers)
           /\ queue.closed => queue'.closed
  <1>0. queue \in Channel(Producers)
    BY DEF TypeOK
  <1>1. CASE UNCHANGED queue
    BY <1>0, <1>1
  <1>2. ASSUME NEW p \in Producers, queue' = Enqueued(queue, p)
        PROVE  /\ queue' \in Channel(Producers)
               /\ queue.closed => queue'.closed
    <2>1. Append(queue.q, p) \in Seq(Producers)
      BY <1>0 DEF Channel
    <2> QED
      BY <1>0, <1>2, <2>1 DEF Channel, Enqueued
  <1>3. CASE HasItem(queue) /\ queue' = Dequeued(queue)
    <2>1. queue.q \in Seq(Producers) /\ queue.q # <<>>
      BY <1>0, <1>3 DEF Channel, HasItem
    <2>2. Tail(queue.q) \in Seq(Producers)
      BY <2>1
    <2> QED
      BY <1>0, <1>3, <2>2 DEF Channel, Dequeued
  <1>4. CASE queue' = Closed(queue)
    BY <1>0, <1>4 DEF Closed, Channel
  <1>5. ASSUME NEW p \in Producers, PutStep(p)
        PROVE  UNCHANGED queue \/ queue' = Enqueued(queue, p)
    BY <1>5 DEF PutStep, PutCall, PutGoing, PutOpen, PutEnqueue, PutFull
  <1>6. ASSUME NEW c \in Consumers, GetStep(c)
        PROVE  UNCHANGED queue \/ (HasItem(queue) /\ queue' = Dequeued(queue))
    BY <1>6 DEF GetStep, GetCall, Probe, Check, Last, LastLook, Take, Return
  <1> QED
    BY <1>1, <1>2, <1>3, <1>4, <1>5, <1>6 DEF Next, Quit, Close, Shutdown, vars

\* The variables of a ClosableQueue keep their types.
LEMMA InitType == Init => TypeOK
  <1>1. <<>> \in Seq(Producers)
    OBVIOUS
  <1> QED
    BY <1>1 DEF Init, TypeOK, Channel, NewChannel

\* So do they in every step.
LEMMA NextType ==
    ASSUME TypeOK, [Next]_vars
    PROVE  TypeOK'
  <1> USE DEF TypeOK
  <1>1. queue' \in Channel(Producers)
    BY QueueType
  <1>2. CASE UNCHANGED vars
    BY <1>2 DEF vars, history
  <1>3. CASE Next
    <2>1. truths' \in [Consumers -> SUBSET {"EMPTY", "CLOSED"}]
      BY <1>3 DEF Next, Observe, Truth
    <2>2. ASSUME NEW p \in Producers, PutStep(p) PROVE TypeOK'
      BY <1>1, <2>1, <2>2
      DEF PutStep, PutCall, PutGoing, PutOpen, PutEnqueue, PutFull, PutGoto, AfterFull
    <2>3. ASSUME NEW c \in Consumers, GetStep(c) \/ Quit(c) PROVE TypeOK'
      BY <1>1, <2>1, <2>3
      DEF GetStep, GetCall, Probe, Check, Last, LastLook, Take, Return, Quit, GetGoto,
          Answer, AfterAnswer
    <2>4. CASE Close \/ Shutdown
      BY <1>1, <2>1, <2>4 DEF Close, Shutdown
    <2> QED
      BY <1>3, <2>2, <2>3, <2>4 DEF Next
  <1> QED
    BY <1>2, <1>3

-----------------------------------------------------------------------------
(* What a consumer has seen on its way to an answer *)

Seen(c) ==
    /\ cpc[c] = "check" => queue.closed \/ "EMPTY" \in truths[c]
    /\ cpc[c] = "last" => queue.closed
    /\ answer[c] # "none" => cpc[c] = "answered"
    /\ answer[c] = "CLOSED" => "CLOSED" \in truths[c]
    /\ answer[c] = "EMPTY" /\ c \in TryConsumers => "EMPTY" \in truths[c]

\* What is true of the queue when a step ends is noted for every call it ends in.
LEMMA Noted ==
    ASSUME TypeOK, Next, NEW c \in Consumers, InCall(cpc'[c])
    PROVE  truths'[c] = truths[c] \union Truth(queue')
  BY DEF Next, Observe

\* Its own steps take a consumer to an answer it has seen to be true.
LEMMA OwnStepSeen ==
    ASSUME QueueAssumption, TypeOK, Next, NEW c \in Consumers, Seen(c), GetStep(c)
    PROVE  Seen(c)'
  <1> USE DEF TypeOK, Seen, GetGoto, Answer, InCall
  <1>1. CASE GetCall(c) \/ Return(c)
    BY <1>1 DEF GetCall, Return, AfterAnswer
  <1>2. CASE Probe(c)
    <2>1. CASE Take(c)
      BY <1>2, <2>1 DEF Probe, Take
    <2>2. CASE ~HasItem(queue) /\ GetGoto(c, "check") /\ UNCHANGED <<queue, answer>>
      <3>1. cpc'[c] = "check" /\ queue' = queue /\ answer' = answer
        BY <2>2
      <3>2. truths'[c] = truths[c] \union Truth(queue')
        BY <3>1, Noted
      <3>3. queue.closed \/ "EMPTY" \in Truth(queue)
        BY <2>2 DEF Truth
      <3>4. queue'.closed \/ "EMPTY" \in truths'[c]
        BY <3>1, <3>2, <3>3
      <3>5. answer'[c] = "none"
        BY <1>2, <3>1 DEF Probe
      <3> QED
        BY <3>1, <3>4, <3>5
    <2> QED
      BY <1>2, <2>1, <2>2 DEF Probe
  <1>3. CASE Check(c)
    <2>1. CASE queue.closed
      BY <1>3, <2>1 DEF Check
    <2>2. CASE ~queue.closed
      <3>1. cpc'[c] = "answered" /\ answer'[c] = "EMPTY" /\ "EMPTY" \in truths[c]
        BY <1>3, <2>2 DEF Check
      <3> QED
        BY <3>1, Noted
    <2> QED
      BY <2>1, <2>2
  <1>4. CASE Last(c)
    <2>1. CASE Take(c)
      BY <1>4, <2>1 DEF Last, Take
    <2>2. CASE c \in TimedConsumers /\ Answer(c, "EMPTY")
      BY <1>4, <2>2 DEF Last, QueueAssumption
    <2>3. CASE ~HasItem(queue) /\ Answer(c, "CLOSED") /\ UNCHANGED queue
      <3>1. cpc'[c] = "answered" /\ answer'[c] = "CLOSED" /\ queue.closed
        BY <1>4, <2>3 DEF Last
      <3>2. truths'[c] = truths[c] \union {"CLOSED"}
        BY <2>3, <3>1, Noted DEF Truth
      <3> QED
        BY <3>1, <3>2
    <2> QED
      BY <1>4, <2>1, <2>2, <2>3 DEF Last, LastLook
  <1> QED
    BY <1>1, <1>2, <1>3, <1>4 DEF GetStep

\* The steps of the others take nothing away from what it has seen.
LEMMA OtherStepSeen ==
    ASSUME TypeOK, Next, NEW c \in Consumers, Seen(c),
           cpc'[c] = cpc[c], answer'[c] = answer[c]
    PROVE  Seen(c)'
  <1>1. queue.closed => queue'.closed
    BY QueueType
  <1>2. InCall(cpc[c]) => truths[c] \subseteq truths'[c]
    BY Noted
  <1> QED
    BY <1>1, <1>2 DEF Seen, InCall

\* Every step of the queue keeps what every consumer has seen.
LEMMA NextSeen ==
    ASSUME QueueAssumption, TypeOK, \A c \in Consumers : Seen(c), [Next]_vars
    PROVE  \A c \in Consumers : Seen(c)'
  <1>1. CASE UNCHANGED vars
    BY <1>1 DEF vars, history, Seen
  <1>2. ASSUME Next, NEW c \in Consumers PROVE Seen(c)'
    <2>1. CASE GetStep(c)
      BY <1>2, <2>1, OwnStepSeen
    <2>2. CASE Quit(c)
      BY <1>2, <2>2 DEF Quit, GetGoto, Seen, TypeOK
    <2>3. ASSUME NEW d \in Consumers \ {c}, GetStep(d) \/ Quit(d) PROVE Seen(c)'
      <3>1. cpc'[c] = cpc[c] /\ answer'[c] = answer[c]
        BY <2>3 DEF GetStep, GetCall, Probe, Check, Last, LastLook, Take, Return, Quit,
                    GetGoto, Answer, TypeOK
      <3> QED
        BY <1>2, <3>1, OtherStepSeen
    <2>4. ASSUME NEW p \in Producers, PutStep(p) PROVE Seen(c)'
      <3>1. cpc' = cpc /\ answer' = answer
        BY <2>4 DEF PutStep, PutCall, PutGoing, PutOpen, PutEnqueue, PutFull
      <3> QED
        BY <1>2, <3>1, OtherStepSeen
    <2>5. CASE Close \/ Shutdown
      <3>1. cpc' = cpc /\ answer' = answer
        BY <2>5 DEF Close, Shutdown
      <3> QED
        BY <1>2, <3>1, OtherStepSeen
    <2> QED
      BY <1>2, <2>1, <2>2, <2>3, <2>4, <2>5 DEF Next
  <1> QED
    BY <1>1, <1>2

\* try_get's EMPTY and CLOSED and get's CLOSED are true of one instant of the
\* call, for every capacity and whoever else puts, takes or closes.
THEOREM AnswersAreTrue == Spec => []TrueAnswers
  <1>1. Init => TypeOK /\ \A c \in Consumers : Seen(c)
    BY InitType DEF Init, Seen
  <1>2. TypeOK /\ (\A c \in Consumers : Seen(c)) /\ [Next]_vars
            => TypeOK' /\ (\A c \in Consumers : Seen(c))'
    BY QueueAssumption, NextType, NextSeen
  <1>3. (\A c \in Consumers : Seen(c)) => TrueAnswers
    BY DEF Seen, TrueAnswers
  <1> QED
    BY <1>1, <1>2, <1>3, PTL DEF Spec

-----------------------------------------------------------------------------
(* What a close lets through *)

\* A producer that got an item in after the close is past its enqueue, and the
\* check keeps it out from then on.
KeptOut(p) ==
    late[p] = 0 \/ (late[p] = 1 /\ queue.closed /\ ppc[p] # "enq")

\* Every step keeps the producers out of a closed queue.
LEMMA NextKeptOut ==
    ASSUME TypeOK, \A p \in Producers : KeptOut(p), [Next]_vars
    PROVE  \A p \in Producers : KeptOut(p)'
  <1>0. queue.closed => queue'.closed
    BY QueueType
  <1> USE DEF KeptOut, TypeOK
  <1>1. ASSUME NEW p \in Producers, UNCHANGED <<late, ppc>> PROVE KeptOut(p)'
    BY <1>0, <1>1
  <1>2. ASSUME NEW p \in Producers, NEW r \in Producers, PutStep(r) PROVE KeptOut(p)'
    <2>1. CASE PutEnqueue(r)
      <3>1. queue'.closed = queue.closed
        BY <2>1 DEF PutEnqueue, Enqueued, Channel
      <3> QED
        BY <2>1, <3>1 DEF PutEnqueue, PutGoto
    <2>2. CASE PutOpen(r)
      BY <2>2 DEF PutOpen, MayEnqueue, PutGoto
    <2>3. CASE PutCall(r) \/ PutGoing(r) \/ PutFull(r)
      BY <2>3 DEF PutCall, PutGoing, PutFull, AfterFull, PutGoto
    <2> QED
      BY <1>2, <2>1, <2>2, <2>3 DEF PutStep
  <1>3. ASSUME NEW c \in Consumers, GetStep(c) \/ Quit(c) PROVE UNCHANGED <<late, ppc>>
    BY <1>3 DEF GetStep, GetCall, Probe, Check, Last, Return, Quit
  <1>4. CASE Close \/ Shutdown \/ UNCHANGED vars
    BY <1>1, <1>4 DEF Close, Shutdown, vars, history
  <1> QED
    BY <1>1, <1>2, <1>3, <1>4 DEF Next

\* After the close at most one item of each producer lands in the queue.
THEOREM CloseKeepsOut == Spec => []AtMostOneLate
  <1>1. Init => TypeOK /\ \A p \in Producers : KeptOut(p)
    BY InitType DEF Init, KeptOut
  <1>2. TypeOK /\ (\A p \in Producers : KeptOut(p)) /\ [Next]_vars
            => TypeOK' /\ (\A p \in Producers : KeptOut(p))'
    BY NextType, NextKeptOut
  <1>3. (\A p \in Producers : KeptOut(p)) => AtMostOneLate
    BY DEF KeptOut, AtMostOneLate
  <1> QED
    BY <1>1, <1>2, <1>3, PTL DEF Spec
=============================================================================
