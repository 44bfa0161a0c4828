----------------------------- MODULE AtomicDisk -----------------------------
(***************************************************************************)
(* What DiskScheduler promises to a thread that schedules a request and    *)
(* waits for its future: the request takes effect once, at one instant     *)
(* between the call and the answer, on a disk whose pages start as zeroes. *)
(***************************************************************************)
EXTENDS Naturals

CONSTANTS Threads, Pages, Values, Zero

VARIABLES content,  \* page -> what the disk holds
          buf,      \* thread -> the frame its request points to
          call,     \* thread -> the request it waits for
          phase     \* thread -> "idle", "called" or "done"

vars == <<content, buf, call, phase>>

Request == [isWrite : BOOLEAN, page : Pages]
NoCall == [isWrite |-> FALSE, page |-> CHOOSE p \in Pages : TRUE]

Init ==
    /\ content = [p \in Pages |-> Zero]
    /\ buf = [t \in Threads |-> Zero]
    /\ call = [t \in Threads |-> NoCall]
    /\ phase = [t \in Threads |-> "idle"]

\* A thread changes its frame only while no request of its own points to it.
Fill(t, v) ==
    /\ phase[t] = "idle"
    /\ buf' = [buf EXCEPT ![t] = v]
    /\ UNCHANGED <<content, call, phase>>

Invoke(t, r) ==
    /\ phase[t] = "idle"
    /\ phase' = [phase EXCEPT ![t] = "called"]
    /\ call' = [call EXCEPT ![t] = r]
    /\ UNCHANGED <<content, buf>>

Perform(t) ==
    /\ phase[t] = "called"
    /\ phase' = [phase EXCEPT ![t] = "done"]
    /\ LET p == call[t].page
       IN  IF call[t].isWrite
           THEN content' = [content EXCEPT ![p] = buf[t]] /\ UNCHANGED buf
           ELSE buf' = [buf EXCEPT ![t] = content[p]] /\ UNCHANGED content
    /\ UNCHANGED call

Return(t) ==
    /\ phase[t] = "done"
    /\ phase' = [phase EXCEPT ![t] = "idle"]
    /\ call' = [call EXCEPT ![t] = NoCall]
    /\ UNCHANGED <<content, buf>>

Next ==
    \E t \in Threads :
        \/ \E v \in Values : Fill(t, v)
        \/ \E r \in Request : Invoke(t, r)
        \/ Perform(t)
        \/ Return(t)

Spec == Init /\ [][Next]_vars
=============================================================================
