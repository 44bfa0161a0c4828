------------------------ MODULE DiskSchedulerProofs ------------------------
(***************************************************************************)
(* Proofs about DiskScheduler, for any number of clients and pages: the    *)
(* worker leaves nothing undone, and each request takes effect once, at    *)
(* one instant between its call and its answer.                            *)
(***************************************************************************)
EXTENDS DiskScheduler, TLAPS

-----------------------------------------------------------------------------
(* The inductive invariant                                                 *)

\* A client whose request is on its way.
Calling(t) == pc[t] \in {"notify", "await"}

\* The element by which a client's request is queued.
Element(t) == [thread |-> t, isWrite |-> call[t].isWrite, page |-> call[t].page]

\* An element that stands for the request of a client which still waits for it.
Pending(e) ==
    /\ e \in Queued
    /\ e = Element(e.thread)
    /\ Calling(e.thread)
    /\ e.thread \notin ready

\* The worker is between the taking of a request and its answer.
Serving == worker \in {"serve", "answer"}

\* What is queued is pending; a client has one request; the nullopt comes last.
QueueOK ==
    /\ \A i \in DOMAIN queue : IF queue[i] = Stop THEN i = Len(queue) ELSE Pending(queue[i])
    /\ \A i, j \in DOMAIN queue :
          queue[i] # Stop /\ queue[j] # Stop /\ queue[i].thread = queue[j].thread => i = j

\* So is what the worker serves.
ServingOK ==
    Serving =>
        /\ Pending(current)
        /\ \A i \in DOMAIN queue : queue[i] # Stop => queue[i].thread # current.thread

\* Every client that waits has been answered, is being served, or is queued.
CallersServed ==
    \A t \in Threads :
        /\ pc[t] # "joined"
        /\ Calling(t) => \/ t \in ready
                         \/ Serving /\ current.thread = t
                         \/ \E i \in DOMAIN queue : queue[i] # Stop /\ queue[i].thread = t
        /\ t \in ready => Calling(t)

\* The nullopt is queued by the destructor only, and nothing is queued after it.
StopOK ==
    /\ Alive => worker # "done" /\ \A i \in DOMAIN queue : queue[i] # Stop
    /\ worker = "done" => queue = <<>>

IInv == TypeOK /\ QueueOK /\ ServingOK /\ CallersServed /\ StopOK

\* The refinement mapping.
Content == [p \in Pages |-> OnDisk(p)]
PhaseOf(t) ==
    IF pc[t] = "idle" THEN "idle"
    ELSE IF t \in ready \/ (worker = "answer" /\ current.thread = t) THEN "done" ELSE "called"
Phase == [t \in Threads |-> PhaseOf(t)]

-----------------------------------------------------------------------------
(* Lemmas                                                                  *)

\* A page the disk holds has a value, and one it does not hold reads as zeroes.
LEMMA OnDiskType ==
  ASSUME TypeOK, NEW p \in Pages
  PROVE  OnDisk(p) \in Values
BY SchedulerAssumption DEF TypeOK, OnDisk

\* Storing a page changes what is on disk for that page only.
LEMMA StoredPage ==
  ASSUME TypeOK, NEW p \in Pages, NEW v \in Values, stored' = Stored(p, v)
  PROVE  /\ DOMAIN stored' \subseteq Pages /\ stored' \in [DOMAIN stored' -> Values]
         /\ \A q \in Pages : OnDisk(q)' = IF q = p THEN v ELSE OnDisk(q)
BY DEF TypeOK, Stored, OnDisk

\* The invariant holds initially.
LEMMA InitIInv == Init => IInv
<1> SUFFICES ASSUME Init PROVE IInv
  OBVIOUS
<1>1. NoCall \in Request
  BY SchedulerAssumption DEF NoCall, Request
<1>2. TypeOK
  BY <1>1, SchedulerAssumption DEF Init, TypeOK
<1>3. QueueOK /\ ServingOK /\ CallersServed /\ StopOK
  BY SchedulerAssumption DEF Init, QueueOK, ServingOK, Serving, CallersServed, Calling, StopOK, Alive
<1> QED BY <1>2, <1>3 DEF IInv

-----------------------------------------------------------------------------
(* The steps: each keeps the invariant and is a step of the atomic disk    *)

\* A client fills its frame only while the worker has no request for it.
LEMMA FillStep ==
  ASSUME IInv, NEW t \in Threads, NEW v \in Values, Fill(t, v)
  PROVE  IInv' /\ Disk!Fill(t, v)
<1> USE DEF Fill
<1>1. TypeOK'
  BY DEF IInv, TypeOK
<1>2. QueueOK' /\ ServingOK' /\ CallersServed' /\ StopOK'
  BY DEF IInv, QueueOK, Pending, Element, Calling, ServingOK, Serving, CallersServed, StopOK, Alive
<1>3. Disk!Fill(t, v)
  BY DEF Disk!Fill, OnDisk
<1> QED BY <1>1, <1>2, <1>3 DEF IInv

\* A request joins the queue behind what is there.
LEMMA ScheduleStep ==
  ASSUME IInv, NEW t \in Threads, NEW r \in Request, Schedule(t, r)
  PROVE  IInv' /\ Disk!Invoke(t, r)
<1> DEFINE e == [thread |-> t, isWrite |-> r.isWrite, page |-> r.page]
           n == Len(queue)
<1> USE DEF Schedule, Put, Goto
<1>1. e \in Queued /\ e # Stop
  BY StopAssumption DEF Queued, Request
<1>2. /\ queue \in Seq(Queued \cup {Stop}) /\ n \in Nat /\ DOMAIN queue = 1..n
      /\ DOMAIN queue' = 1..(n + 1) /\ Len(queue') = n + 1
      /\ queue'[n + 1] = e /\ \A i \in 1..n : queue'[i] = queue[i]
  BY <1>1 DEF IInv, TypeOK
<1>3. TypeOK'
  BY <1>1, <1>2, SchedulerAssumption DEF IInv, TypeOK
<1>4. pc[t] = "idle" /\ t \notin ready /\ pc'[t] = "notify" /\ call'[t] = r
      /\ \A u \in Threads \ {t} : pc'[u] = pc[u] /\ call'[u] = call[u]
  BY DEF IInv, TypeOK, CallersServed, Calling
<1>5. \A i \in 1..n : queue[i] # Stop /\ Pending(queue[i]) /\ queue[i].thread # t
  BY <1>2, <1>4 DEF IInv, QueueOK, StopOK, Pending, Calling
<1>6. ASSUME NEW x, Pending(x) PROVE Pending(x)'
  BY <1>4, <1>6 DEF Pending, Element, Calling, Queued
<1>7. QueueOK'
  <2>1. ASSUME NEW i \in DOMAIN queue' PROVE queue'[i] # Stop /\ Pending(queue[i])'
    <3>1. CASE i \in 1..n
      BY <3>1, <1>2, <1>4, <1>5 DEF Pending, Element, Calling, Queued
    <3>2. CASE i = n + 1
      BY <3>2, <1>1, <1>2, <1>4 DEF Pending, Element, Calling
    <3> QED BY <3>1, <3>2, <1>2
  <2>2. ASSUME NEW i \in DOMAIN queue', NEW j \in DOMAIN queue', queue'[i] # Stop, queue'[j] # Stop,
               queue'[i].thread = queue'[j].thread
        PROVE  i = j
    <3>1. CASE i \in 1..n /\ j \in 1..n
      BY <2>2, <3>1, <1>2, <1>5 DEF IInv, QueueOK
    <3>2. CASE i = n + 1 \/ j = n + 1
      BY <2>2, <3>2, <1>2, <1>5
    <3> QED BY <3>1, <3>2, <1>2
  <2> QED BY <2>1, <2>2 DEF QueueOK
<1>8. ServingOK'
  <2> SUFFICES ASSUME Serving
               PROVE  Pending(current)' /\ \A i \in DOMAIN queue' : queue'[i].thread # current.thread
    BY DEF ServingOK, Serving
  <2>1. Pending(current) /\ current.thread # t
    BY <1>4 DEF IInv, ServingOK, Pending, Calling
  <2> QED BY <2>1, <1>2, <1>5, <1>6 DEF IInv, ServingOK
<1>9. CallersServed'
  <2> SUFFICES ASSUME NEW u \in Threads
               PROVE  /\ pc'[u] # "joined"
                      /\ Calling(u)' => \/ u \in ready
                                        \/ Serving /\ current.thread = u
                                        \/ \E i \in DOMAIN queue' : queue'[i] # Stop /\ queue'[i].thread = u
                      /\ u \in ready => Calling(u)'
    BY DEF CallersServed, Serving
  <2>1. CASE u = t
    BY <2>1, <1>1, <1>2, <1>4
  <2>2. CASE u # t
    BY <2>2, <1>2, <1>4 DEF IInv, CallersServed, Calling
  <2> QED BY <2>1, <2>2
<1>10. StopOK'
  BY <1>1, <1>2, <1>5 DEF IInv, StopOK, Alive
<1>11. Disk!Invoke(t, r)
  <2>1. Phase' = [Phase EXCEPT ![t] = "called"] /\ Phase[t] = "idle"
    <3>1. PhaseOf(t)' = "called" /\ PhaseOf(t) = "idle"
      <4>1. ~(worker = "answer" /\ current.thread = t)
        BY <1>4 DEF IInv, ServingOK, Serving, Pending, Calling
      <4> QED BY <4>1, <1>4 DEF PhaseOf
    <3>2. \A u \in Threads \ {t} : PhaseOf(u)' = PhaseOf(u)
      BY <1>4 DEF PhaseOf
    <3> QED BY <3>1, <3>2 DEF Phase
  <2> QED BY <2>1 DEF Disk!Invoke, Phase, PhaseOf, OnDisk
<1> QED BY <1>3, <1>7, <1>8, <1>9, <1>10, <1>11 DEF IInv

\* Steps that move neither the queue nor the requests keep most of the invariant.
LEMMA QuietStep ==
  ASSUME IInv, UNCHANGED <<queue, call>>, ready' \subseteq ready,
         \A t \in Threads : Calling(t) /\ t \notin ready => Calling(t)'
  PROVE  QueueOK'
BY DEF IInv, QueueOK, Pending, Element, Calling, Queued

\* A notification may wake the worker; the request is already queued.
LEMMA NotifyStep ==
  ASSUME IInv, NEW t \in Threads \cup {Owner}, Notify(t)
  PROVE  IInv' /\ Disk!vars' = Disk!vars
<1> USE DEF Notify, Goto, Woken
<1>1. TypeOK'
  BY DEF IInv, TypeOK
<1>2. \A u \in Threads : Calling(u) <=> Calling(u)'
  BY DEF IInv, TypeOK, Calling
<1>3. QueueOK'
  BY <1>2, QuietStep
<1>4. ServingOK'
  BY <1>2 DEF IInv, ServingOK, Serving, Pending, Element, Queued
<1>5. CallersServed'
  BY <1>2 DEF IInv, TypeOK, CallersServed, Serving, Calling
<1>6. StopOK'
  BY DEF IInv, TypeOK, StopOK, Alive
<1>7. Disk!vars' = Disk!vars
  <2>1. \A u \in Threads : PhaseOf(u)' = PhaseOf(u)
    BY DEF IInv, TypeOK, PhaseOf
  <2> QED BY <2>1 DEF Disk!vars, PhaseOf, OnDisk
<1> QED BY <1>1, <1>3, <1>4, <1>5, <1>6, <1>7 DEF IInv

\* A client that has its answer has nothing queued and is not being served.
LEMMA ReceiveStep ==
  ASSUME IInv, NEW t \in Threads, Receive(t)
  PROVE  IInv' /\ Disk!Return(t)
<1> USE DEF Receive, Goto
<1>1. NoCall \in Request
  BY SchedulerAssumption DEF NoCall, Request
<1>2. TypeOK'
  BY <1>1 DEF IInv, TypeOK
<1>3. ASSUME NEW e, Pending(e)
      PROVE  /\ e \in Queued /\ e.thread # t /\ e = Element(e.thread)'
             /\ Calling(e.thread)' /\ e.thread \notin ready'
  BY <1>3 DEF Pending, Element, Calling, Queued, IInv, TypeOK
<1>4. QueueOK'
  BY <1>3 DEF IInv, QueueOK, Pending
<1>5. ServingOK'
  BY <1>3 DEF IInv, ServingOK, Serving, Pending
<1>6. CallersServed'
  BY DEF IInv, TypeOK, CallersServed, Serving, Calling
<1>7. StopOK'
  BY SchedulerAssumption DEF IInv, TypeOK, StopOK, Alive
<1>8. Disk!Return(t)
  <2>1. PhaseOf(t) = "done" /\ PhaseOf(t)' = "idle"
    BY DEF IInv, TypeOK, PhaseOf
  <2>2. \A u \in Threads \ {t} : PhaseOf(u)' = PhaseOf(u)
    BY DEF IInv, TypeOK, PhaseOf
  <2>3. Phase[t] = "done" /\ Phase' = [Phase EXCEPT ![t] = "idle"]
    BY <2>1, <2>2 DEF Phase
  <2> QED BY <2>3 DEF Disk!Return, Phase, PhaseOf, OnDisk, NoCall, Disk!NoCall, Request, Disk!Request
<1> QED BY <1>2, <1>4, <1>5, <1>6, <1>7, <1>8 DEF IInv

\* The nullopt goes behind everything: no client can be in Schedule any more.
LEMMA DestroyStep ==
  ASSUME IInv, Destroy
  PROVE  IInv' /\ Disk!vars' = Disk!vars
<1> DEFINE n == Len(queue)
<1> USE DEF Destroy, Put, Goto
<1>1. /\ queue \in Seq(Queued \cup {Stop}) /\ n \in Nat /\ DOMAIN queue = 1..n
      /\ DOMAIN queue' = 1..(n + 1) /\ Len(queue') = n + 1
      /\ queue'[n + 1] = Stop /\ \A i \in 1..n : queue'[i] = queue[i]
  BY DEF IInv, TypeOK
<1>2. TypeOK'
  BY <1>1 DEF IInv, TypeOK
<1>3. pc'[Owner] = "notify" /\ \A u \in Threads : pc'[u] = pc[u]
  BY SchedulerAssumption DEF IInv, TypeOK
<1>4. \A i \in 1..n : queue[i] # Stop /\ Pending(queue[i])
  BY <1>1 DEF IInv, QueueOK, StopOK
<1>5. \A i \in 1..n : Pending(queue[i])'
  BY <1>3, <1>4, <1>1 DEF Pending, Element, Calling, Queued
<1>6. QueueOK'
  <2>1. ASSUME NEW i \in DOMAIN queue'
        PROVE  IF queue'[i] = Stop THEN i = Len(queue') ELSE Pending(queue[i])'
    <3>1. CASE i \in 1..n
      BY <3>1, <1>1, <1>4, <1>5 DEF Pending
    <3> QED BY <3>1, <1>1
  <2>2. ASSUME NEW i \in DOMAIN queue', NEW j \in DOMAIN queue', queue'[i] # Stop, queue'[j] # Stop,
               queue'[i].thread = queue'[j].thread
        PROVE  i = j
    BY <2>2, <1>1 DEF IInv, QueueOK
  <2> QED BY <2>1, <2>2 DEF QueueOK
<1>7. ServingOK'
  BY <1>1, <1>3 DEF IInv, ServingOK, Serving, Pending, Element, Calling, Queued
<1>8. CallersServed'
  <2> SUFFICES ASSUME NEW u \in Threads, Calling(u)
               PROVE  \/ u \in ready
                      \/ Serving /\ current.thread = u
                      \/ \E i \in DOMAIN queue' : queue'[i] # Stop /\ queue'[i].thread = u
    BY <1>3 DEF IInv, CallersServed, Serving, Calling
  <2>1. CASE u \in ready \/ (Serving /\ current.thread = u)
    BY <2>1
  <2>2. CASE ~(u \in ready \/ (Serving /\ current.thread = u))
    <3>1. PICK i \in 1..n : queue[i] # Stop /\ queue[i].thread = u
      BY <2>2, <1>1 DEF IInv, CallersServed
    <3>2. i \in DOMAIN queue' /\ queue'[i] = queue[i]
      BY <1>1
    <3> QED BY <3>1, <3>2
  <2> QED BY <2>1, <2>2
<1>9. StopOK'
  BY <1>3 DEF IInv, StopOK, Alive
<1>10. Disk!vars' = Disk!vars
  <2>1. \A u \in Threads : PhaseOf(u)' = PhaseOf(u)
    BY <1>3 DEF PhaseOf
  <2> QED BY <2>1 DEF Disk!vars, PhaseOf, OnDisk
<1> QED BY <1>2, <1>6, <1>7, <1>8, <1>9, <1>10 DEF IInv

\* The owner returns; nobody else notices.
LEMMA JoinStep ==
  ASSUME IInv, Join
  PROVE  IInv' /\ Disk!vars' = Disk!vars
<1> USE DEF Join, Goto
<1>1. TypeOK' /\ pc'[Owner] = "joined" /\ \A u \in Threads : pc'[u] = pc[u]
  BY SchedulerAssumption DEF IInv, TypeOK
<1>2. QueueOK'
  BY <1>1, QuietStep DEF Calling
<1>3. ServingOK' /\ CallersServed' /\ StopOK'
  BY <1>1 DEF IInv, ServingOK, Serving, CallersServed, Calling, StopOK, Alive
<1>4. Disk!vars' = Disk!vars
  <2>1. \A u \in Threads : PhaseOf(u)' = PhaseOf(u)
    BY <1>1 DEF PhaseOf
  <2> QED BY <2>1 DEF Disk!vars, PhaseOf, OnDisk
<1> QED BY <1>1, <1>2, <1>3, <1>4 DEF IInv

\* The request that is taken out is the only one of its client.
LEMMA GetStep ==
  ASSUME IInv, Get
  PROVE  IInv' /\ Disk!vars' = Disk!vars
<1> DEFINE n == Len(queue)
<1> USE DEF Get, Taken
<1>1. /\ queue \in Seq(Queued \cup {Stop}) /\ n \in Nat \ {0} /\ DOMAIN queue = 1..n
      /\ queue' \in Seq(Queued \cup {Stop}) /\ DOMAIN queue' = 1..(n - 1) /\ Len(queue') = n - 1
      /\ current' = queue[1] /\ queue[1] \in Queued \cup {Stop}
      /\ \A i \in 1..(n - 1) : queue'[i] = queue[i + 1]
  BY DEF IInv, TypeOK
<1>2. TypeOK'
  BY <1>1 DEF IInv, TypeOK
<1>3. ASSUME NEW i \in 1..n, queue[i] # Stop PROVE Pending(queue[i])
  BY <1>1, <1>3 DEF IInv, QueueOK
<1>4. \A i \in 1..(n - 1) : i + 1 \in 1..n
  BY <1>1
<1>5. QueueOK'
  <2>1. ASSUME NEW i \in DOMAIN queue', queue'[i] = Stop PROVE i = Len(queue')
    BY <2>1, <1>1, <1>4 DEF IInv, QueueOK
  <2>2. ASSUME NEW i \in DOMAIN queue', queue'[i] # Stop PROVE Pending(queue[i])'
    BY <2>2, <1>1, <1>3, <1>4 DEF Pending, Element, Calling
  <2>3. ASSUME NEW i \in DOMAIN queue', NEW j \in DOMAIN queue', queue'[i] # Stop, queue'[j] # Stop,
               queue'[i].thread = queue'[j].thread
        PROVE  i = j
    <3>1. i + 1 = j + 1
      BY <2>3, <1>1, <1>4 DEF IInv, QueueOK
    <3> QED BY <3>1, <1>1
  <2> QED BY <2>1, <2>2, <2>3 DEF QueueOK
<1>6. ServingOK'
  <2> SUFFICES ASSUME Serving'
               PROVE  /\ Pending(current)'
                      /\ \A i \in DOMAIN queue' : queue'[i] # Stop => queue'[i].thread # current'.thread
    BY DEF ServingOK
  <2>1. queue[1] # Stop /\ 1 \in 1..n
    BY <1>1 DEF Serving
  <2>2. Pending(current)'
    BY <1>1, <1>3, <2>1 DEF Pending, Element, Calling
  <2>3. ASSUME NEW i \in DOMAIN queue', queue'[i] # Stop PROVE queue'[i].thread # current'.thread
    BY <2>1, <2>3, <1>1, <1>4 DEF IInv, QueueOK
  <2> QED BY <2>2, <2>3
<1>7. CallersServed'
  <2> SUFFICES ASSUME NEW u \in Threads, Calling(u), u \notin ready
               PROVE  \/ Serving' /\ current'.thread = u
                      \/ \E i \in DOMAIN queue' : queue'[i] # Stop /\ queue'[i].thread = u
    BY DEF IInv, CallersServed, Calling
  <2>1. PICK i \in DOMAIN queue : queue[i] # Stop /\ queue[i].thread = u
    BY DEF IInv, CallersServed, Serving
  <2>2. CASE i = 1
    BY <2>1, <2>2, <1>1 DEF Serving
  <2>3. CASE i # 1
    <3>1. i - 1 \in 1..(n - 1) /\ queue'[i - 1] = queue[i]
      BY <2>3, <1>1
    <3> QED BY <3>1, <2>1, <1>1
  <2> QED BY <2>2, <2>3
<1>8. StopOK'
  <2>1. ASSUME Alive' PROVE worker' # "done" /\ \A i \in DOMAIN queue' : queue'[i] # Stop
    <3>1. Alive /\ 1 \in 1..n
      BY <2>1, <1>1 DEF Alive
    <3> QED BY <3>1, <1>1, <1>4 DEF IInv, StopOK
  <2>2. ASSUME worker' = "done" PROVE queue' = <<>>
    <3>1. queue[1] = Stop
      BY <2>2, <1>1
    <3>2. n = 1
      BY <3>1, <1>1 DEF IInv, QueueOK
    <3> QED BY <3>2, <1>1
  <2> QED BY <2>1, <2>2 DEF StopOK
<1>9. Disk!vars' = Disk!vars
  <2>1. \A u \in Threads : PhaseOf(u)' = PhaseOf(u)
    BY DEF PhaseOf
  <2> QED BY <2>1 DEF Disk!vars, PhaseOf, OnDisk
<1> QED BY <1>2, <1>5, <1>6, <1>7, <1>8, <1>9 DEF IInv

\* The worker falls asleep or wakes for no reason: nothing else changes.
LEMMA RestStep ==
  ASSUME IInv, Sleep \/ SpuriousWake
  PROVE  IInv' /\ Disk!vars' = Disk!vars
<1> USE DEF Sleep, SpuriousWake
<1>1. TypeOK'
  BY DEF IInv, TypeOK
<1>2. QueueOK'
  BY QuietStep DEF Calling
<1>3. ServingOK' /\ CallersServed' /\ StopOK'
  BY DEF IInv, ServingOK, Serving, CallersServed, Calling, StopOK, Alive
<1>4. Disk!vars' = Disk!vars
  <2>1. \A u \in Threads : PhaseOf(u)' = PhaseOf(u)
    BY DEF PhaseOf
  <2> QED BY <2>1 DEF Disk!vars, PhaseOf, OnDisk
<1> QED BY <1>1, <1>2, <1>3, <1>4 DEF IInv

\* The instant at which a request takes effect.
LEMMA ServeStep ==
  ASSUME IInv, Serve
  PROVE  IInv' /\ \E t \in Threads : Disk!Perform(t)
<1> DEFINE p == current.page
<1> USE DEF Serve
<1>0. PICK t \in Threads : t = current.thread
  BY DEF IInv, ServingOK, Serving, Pending, Queued
<1>1. /\ current \in Queued /\ p \in Pages
      /\ current.isWrite = call[t].isWrite /\ p = call[t].page
      /\ Calling(t) /\ t \notin ready
  BY <1>0 DEF IInv, ServingOK, Serving, Pending, Element, Queued
<1>2. OnDisk(p) \in Values /\ buf[t] \in Values
  BY <1>1, OnDiskType DEF IInv, TypeOK
<1>3. \E v \in Values : /\ stored' = Stored(p, v)
                        /\ v = IF current.isWrite THEN buf[t] ELSE OnDisk(p)
  BY <1>0, <1>2
<1>4. /\ DOMAIN stored' \subseteq Pages /\ stored' \in [DOMAIN stored' -> Values]
      /\ \A q \in Pages :
            OnDisk(q)' = IF q = p /\ current.isWrite THEN buf[t] ELSE OnDisk(q)
  BY <1>1, <1>3, StoredPage DEF IInv
<1>5. buf' \in [Threads -> Values]
  BY <1>0, <1>2 DEF IInv, TypeOK
<1>6. TypeOK'
  BY <1>4, <1>5 DEF IInv, TypeOK
<1>7. QueueOK'
  BY QuietStep DEF Calling
<1>8. ServingOK' /\ CallersServed' /\ StopOK'
  BY DEF IInv, ServingOK, Serving, Pending, Element, CallersServed, Calling, StopOK, Alive
<1>9. Phase[t] = "called" /\ Phase' = [Phase EXCEPT ![t] = "done"]
  <2>1. PhaseOf(t) = "called" /\ PhaseOf(t)' = "done"
    BY <1>0, <1>1 DEF PhaseOf, Calling
  <2>2. \A u \in Threads \ {t} : PhaseOf(u)' = PhaseOf(u)
    BY <1>0 DEF PhaseOf
  <2> QED BY <1>1, <2>1, <2>2 DEF Phase
<1>10. IF current.isWrite THEN Content' = [Content EXCEPT ![p] = buf[t]] /\ buf' = buf
       ELSE buf' = [buf EXCEPT ![t] = Content[p]] /\ Content' = Content
  BY <1>0, <1>1, <1>4 DEF Content
<1>11. Disk!Perform(t)
  BY <1>1, <1>9, <1>10 DEF Disk!Perform, Phase, PhaseOf, Content
<1> QED BY <1>6, <1>7, <1>8, <1>11 DEF IInv

\* The answer is for the request that was served.
LEMMA AnswerStep ==
  ASSUME IInv, Answer
  PROVE  IInv' /\ Disk!vars' = Disk!vars
<1> DEFINE t == current.thread
<1> USE DEF Answer
<1>1. /\ current \in Queued /\ t \in Threads /\ Calling(t)
      /\ \A i \in DOMAIN queue : queue[i] # Stop => queue[i].thread # t
  BY DEF IInv, ServingOK, Serving, Pending, Queued
<1>2. TypeOK'
  BY <1>1 DEF IInv, TypeOK
<1>3. QueueOK'
  BY <1>1 DEF IInv, QueueOK, Pending, Element, Calling
<1>4. ServingOK' /\ CallersServed' /\ StopOK'
  BY <1>1 DEF IInv, ServingOK, Serving, CallersServed, Calling, StopOK, Alive
<1>5. Disk!vars' = Disk!vars
  <2>1. \A u \in Threads : PhaseOf(u)' = PhaseOf(u)
    BY DEF PhaseOf
  <2> QED BY <2>1 DEF Disk!vars, PhaseOf, OnDisk
<1> QED BY <1>2, <1>3, <1>4, <1>5 DEF IInv

-----------------------------------------------------------------------------
(* The theorems                                                            *)

\* The invariant is inductive, and each step is a step of the atomic disk or none.
LEMMA NextStep ==
  ASSUME IInv, [Next]_vars
  PROVE  IInv' /\ [Disk!Next]_(Disk!vars)
<1>1. CASE UNCHANGED vars
  <2>1. TypeOK'
    BY <1>1 DEF IInv, TypeOK, vars
  <2>2. QueueOK' /\ ServingOK' /\ CallersServed' /\ StopOK'
    BY <1>1 DEF IInv, QueueOK, Pending, Element, ServingOK, Serving, CallersServed, Calling, StopOK,
       Alive, vars
  <2>3. Disk!vars' = Disk!vars
    <3>1. \A u \in Threads : PhaseOf(u)' = PhaseOf(u)
      BY <1>1 DEF PhaseOf, vars
    <3> QED BY <1>1, <3>1 DEF Disk!vars, PhaseOf, OnDisk, vars
  <2> QED BY <2>1, <2>2, <2>3 DEF IInv
<1>2. ASSUME NEW t \in Threads, NEW v \in Values, Fill(t, v) PROVE IInv' /\ Disk!Next
  BY <1>2, FillStep DEF Disk!Next
<1>3. ASSUME NEW t \in Threads, NEW r \in Request, Schedule(t, r) PROVE IInv' /\ Disk!Next
  BY <1>3, ScheduleStep DEF Disk!Next, Request, Disk!Request
<1>4. ASSUME NEW t \in Threads, Receive(t) PROVE IInv' /\ Disk!Next
  BY <1>4, ReceiveStep DEF Disk!Next
<1>5. CASE Serve
  BY <1>5, ServeStep DEF Disk!Next
<1>6. CASE (\E t \in Threads \cup {Owner} : Notify(t)) \/ Destroy \/ Join \/ Get \/ Sleep \/ SpuriousWake
           \/ Answer
  BY <1>6, NotifyStep, DestroyStep, JoinStep, GetStep, RestStep, AnswerStep
<1> QED BY <1>1, <1>2, <1>3, <1>4, <1>5, <1>6 DEF Next, Work

\* The invariant behind what follows: a request is in one place between its call
\* and its answer, and the nullopt is behind all of them.
THEOREM SchedulerInvariant == Spec => []IInv
<1>1. IInv /\ [Next]_vars => IInv'
  BY NextStep
<1> QED BY <1>1, InitIInv, PTL DEF Spec

\* Every variable has its type.
THEOREM SchedulerTypeCorrect == Spec => []TypeOK
<1>1. IInv => TypeOK
  BY DEF IInv
<1> QED BY <1>1, SchedulerInvariant, PTL

\* The destructor breaks no promise: when the worker returns every request has
\* been answered.
THEOREM NothingEverAbandoned == Spec => []NothingAbandoned
<1>1. IInv => NothingAbandoned
  BY DEF IInv, StopOK, CallersServed, Calling, Serving, NothingAbandoned
<1> QED BY <1>1, SchedulerInvariant, PTL

\* A request takes effect once, between its call and its answer, on a disk whose
\* pages start as zeroes.
THEOREM SchedulerImplementsAtomicDisk == Spec => ImplementsAtomicDisk
<1>1. Init => Disk!Init
  BY DEF Init, Disk!Init, OnDisk, NoCall, Disk!NoCall, Request, Disk!Request
<1>2. IInv /\ [Next]_vars => [Disk!Next]_(Disk!vars)
  BY NextStep
<1> QED BY <1>1, <1>2, SchedulerInvariant, PTL DEF Spec, ImplementsAtomicDisk, Disk!Spec
=============================================================================
