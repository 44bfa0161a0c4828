---------------------------- MODULE DiskScheduler ----------------------------
(***************************************************************************)
(* The disk scheduler (src/src/disk_scheduler.cpp), its channel            *)
(* (src/include/disk_scheduler.h) and the in-memory disk behind it         *)
(* (src/src/disk_manager_memory.cpp).                                      *)
(*                                                                         *)
(* Clients put requests into the channel and wait for their futures, as    *)
(* PageSwitch and the Flush of the guards do; one worker takes them out in *)
(* order.  Put releases the mutex of the channel before it notifies, so    *)
(* the push and the notification are two steps, and a worker that found    *)
(* the queue empty sleeps on the condition variable in between.  The       *)
(* destructor puts a nullopt behind whatever is queued and joins.          *)
(***************************************************************************)
EXTENDS Naturals, Sequences

CONSTANTS Threads,   \* client threads
          Owner,     \* the thread that destroys the scheduler
          Pages, Values, Zero,
          Stop       \* std::nullopt in the queue

ASSUME SchedulerAssumption == Owner \notin Threads /\ Zero \in Values /\ Pages # {}

VARIABLES queue,     \* the channel's queue of requests
          worker,    \* "check", "asleep", "serve", "answer" or "done"
          current,   \* the request the worker has taken
          stored,    \* pages_: the pages the disk has allocated, with their content
          ready,     \* the clients whose promise has been fulfilled
          buf,       \* the frame each client's request points to
          call,      \* the request each client waits for
          pc         \* where each client and the owner are

vars == <<queue, worker, current, stored, ready, buf, call, pc>>

Request == [isWrite : BOOLEAN, page : Pages]
NoCall == [isWrite |-> FALSE, page |-> CHOOSE p \in Pages : TRUE]
Queued == [thread : Threads, isWrite : BOOLEAN, page : Pages]
ASSUME StopAssumption == Stop \notin Queued

Goto(t, s) == pc' = [pc EXCEPT ![t] = s]

Init ==
    /\ queue = <<>>
    /\ worker = "check"
    /\ current = Stop
    /\ stored = [p \in {} |-> Zero]
    /\ ready = {}
    /\ buf = [t \in Threads |-> Zero]
    /\ call = [t \in Threads |-> NoCall]
    /\ pc = [t \in Threads \cup {Owner} |-> "idle"]

-----------------------------------------------------------------------------
(* Clients                                                                 *)

Fill(t, v) ==
    /\ pc[t] = "idle"
    /\ buf' = [buf EXCEPT ![t] = v]
    /\ UNCHANGED <<queue, worker, current, stored, ready, call, pc>>

\* Put: the element is pushed under the mutex, the notification follows.
Put(t, element) ==
    /\ queue' = Append(queue, element)
    /\ Goto(t, "notify")

\* The scheduler outlives its clients' calls: the pool and every guard share it.
Alive == pc[Owner] = "idle"

Schedule(t, r) ==
    /\ pc[t] = "idle"
    /\ Alive
    /\ Put(t, [thread |-> t, isWrite |-> r.isWrite, page |-> r.page])
    /\ call' = [call EXCEPT ![t] = r]
    /\ UNCHANGED <<worker, current, stored, ready, buf>>

\* Mutated form of Woken: the notification does not reach the worker.
Woken_Lost == worker

\* notify_all wakes the worker if it sleeps, and is lost otherwise.
Woken == IF worker = "asleep" THEN "check" ELSE worker

Notify(t) ==
    /\ pc[t] = "notify"
    /\ worker' = Woken
    /\ Goto(t, "await")
    /\ UNCHANGED <<queue, current, stored, ready, buf, call>>

\* future.get() returns.
Receive(t) ==
    /\ pc[t] = "await"
    /\ t \in ready
    /\ ready' = ready \ {t}
    /\ Goto(t, "idle")
    /\ call' = [call EXCEPT ![t] = NoCall]
    /\ UNCHANGED <<queue, worker, current, stored, buf>>

-----------------------------------------------------------------------------
(* The owner: ~DiskScheduler.  The class asks no more of its users than    *)
(* that none of them is inside Schedule; they may still wait for futures.  *)

Destroy ==
    /\ Alive
    /\ \A t \in Threads : pc[t] # "notify"
    /\ Put(Owner, Stop)
    /\ UNCHANGED <<worker, current, stored, ready, buf, call>>

Join ==
    /\ pc[Owner] = "await"
    /\ worker = "done"
    /\ Goto(Owner, "joined")
    /\ UNCHANGED <<queue, worker, current, stored, ready, buf, call>>

-----------------------------------------------------------------------------
(* The worker: Get, then the disk, then set_value.                         *)

\* Mutated form of Taken: a nullopt is served before what is queued ahead of it.
Taken_StopFirst == IF \E i \in DOMAIN queue : queue[i] = Stop THEN Stop ELSE Head(queue)

\* The oldest element.
Taken == Head(queue)

Get ==
    /\ worker = "check"
    /\ queue # <<>>
    /\ current' = Taken
    /\ queue' = Tail(queue)
    /\ worker' = IF current' = Stop THEN "done" ELSE "serve"
    /\ UNCHANGED <<stored, ready, buf, call, pc>>

\* The predicate of the wait is false: the mutex is released and the worker sleeps.
Sleep ==
    /\ worker = "check"
    /\ queue = <<>>
    /\ worker' = "asleep"
    /\ UNCHANGED <<queue, current, stored, ready, buf, call, pc>>

\* A condition variable may wake its waiter for no reason.
SpuriousWake ==
    /\ worker = "asleep"
    /\ worker' = "check"
    /\ UNCHANGED <<queue, current, stored, ready, buf, call, pc>>

\* Mutated form of OnDisk: a page that is allocated is not cleared.
OnDisk_Raw(p) == IF p \in DOMAIN stored THEN stored[p] ELSE Stop

\* What the disk gives for page p: a page it does not have is allocated, as zeroes.
OnDisk(p) == IF p \in DOMAIN stored THEN stored[p] ELSE Zero

\* Mutated form of Stored: a write that allocates its page does not copy the frame.
Stored_Empty(p, v) ==
    [q \in (DOMAIN stored) \cup {p} |->
        IF q \notin DOMAIN stored THEN Zero ELSE IF q = p THEN v ELSE stored[q]]

\* pages_ once page p holds v.
Stored(p, v) == [q \in (DOMAIN stored) \cup {p} |-> IF q = p THEN v ELSE stored[q]]

Serve ==
    /\ worker = "serve"
    /\ IF current.isWrite
       THEN stored' = Stored(current.page, buf[current.thread]) /\ UNCHANGED buf
       ELSE /\ buf' = [buf EXCEPT ![current.thread] = OnDisk(current.page)]
            /\ stored' = Stored(current.page, OnDisk(current.page))
    /\ worker' = "answer"
    /\ UNCHANGED <<queue, current, ready, call, pc>>

Answer ==
    /\ worker = "answer"
    /\ ready' = ready \cup {current.thread}
    /\ worker' = "check"
    /\ UNCHANGED <<queue, current, stored, buf, call, pc>>

Work == Get \/ Sleep \/ Serve \/ Answer

-----------------------------------------------------------------------------
Next ==
    \/ \E t \in Threads :
          \/ \E v \in Values : Fill(t, v)
          \/ \E r \in Request : Schedule(t, r)
          \/ Receive(t)
    \/ \E t \in Threads \cup {Owner} : Notify(t)
    \/ Destroy \/ Join
    \/ Work \/ SpuriousWake

Spec == Init /\ [][Next]_vars

\* Every thread that is inside a call goes on with it; nobody has to start one.
Fairness ==
    /\ WF_vars(Work)
    /\ WF_vars(Join)
    /\ \A t \in Threads : WF_vars(Receive(t))
    /\ \A t \in Threads \cup {Owner} : WF_vars(Notify(t))
FairSpec == Spec /\ Fairness

-----------------------------------------------------------------------------
(* Properties                                                              *)

\* Every variable has its type.
TypeOK ==
    /\ queue \in Seq(Queued \cup {Stop})
    /\ worker \in {"check", "asleep", "serve", "answer", "done"}
    /\ current \in Queued \cup {Stop}
    /\ DOMAIN stored \subseteq Pages /\ stored \in [DOMAIN stored -> Values]
    /\ ready \subseteq Threads
    /\ buf \in [Threads -> Values]
    /\ call \in [Threads -> Request]
    /\ pc \in [Threads \cup {Owner} -> {"idle", "notify", "await", "joined"}]

\* The worker stops only when nothing is left to do: no request stays in the
\* queue and no promise is broken when the scheduler is destroyed.
NothingAbandoned ==
    worker = "done" => queue = <<>> /\ \A t \in Threads : pc[t] = "await" => t \in ready

\* Each request takes effect once between its call and its answer, reads see the
\* last write, and a page never written reads as zeroes.
Disk == INSTANCE AtomicDisk WITH
    content <- [p \in Pages |-> OnDisk(p)],
    phase <- [t \in Threads |->
                 IF pc[t] = "idle" THEN "idle"
                 ELSE IF t \in ready \/ (worker = "answer" /\ current.thread = t)
                      THEN "done" ELSE "called"]
ImplementsAtomicDisk == Disk!Spec

\* Every call returns: no wakeup is lost between the push and the notification.
CallsReturn == \A t \in Threads : pc[t] # "idle" ~> pc[t] = "idle"

\* The destructor joins.
DestructorReturns == pc[Owner] # "idle" ~> pc[Owner] = "joined"
=============================================================================
