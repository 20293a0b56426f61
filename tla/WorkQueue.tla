----------------------------- MODULE WorkQueue ------------------------------
(***************************************************************************)
(* work_queue.c: a ring buffer under a mutex, with a condition variable    *)
(* for each end.  The mutex is held from the entry of a call to its return *)
(* or its wait, so a thread's step is one pass through the loop at the     *)
(* head of the call.                                                       *)
(***************************************************************************)
EXTENDS Integers, Sequences

CONSTANTS Items,      \* notifications
          Producers,  \* the task of the pool
          Consumers,  \* create_jobs_task
          Clearers,   \* tasks that only clear the queue: the protocol coordinator
          QueueSize,  \* QUEUE_SIZE
          NULL

Threads == Producers \cup Consumers \cup Clearers
Slots   == 0..QueueSize - 1

ASSUME QueueAssumption == QueueSize \in Nat \ {0} /\ NULL \notin Items

VARIABLES buffer, head, tail, count,
          at,    \* per thread: "out", or the call it is in
          item,  \* new_work of a thread in queue_enqueue
          got    \* what the latest dequeue of a thread returned

ring == <<buffer, head, tail, count>>
vars == <<ring, at, item, got>>

(* In the calls "enqueue", "dequeue" and "timed" (queue_dequeue_timeout) a *)
(* thread is about to look at the count; the others are waits.             *)
Places == {"out", "enqueue", "not_full", "dequeue", "not_empty", "timed", "timed_wait", "expired"}

Init ==
    /\ buffer = [i \in Slots |-> NULL] /\ head = 0 /\ tail = 0 /\ count = 0
    /\ at = [t \in Threads |-> "out"] /\ item = [t \in Threads |-> NULL]
    /\ got = [t \in Threads |-> NULL]

-----------------------------------------------------------------------------
Put(t, place) == [at EXCEPT ![t] = place]

WaitingFull  == {t \in Threads : at[t] = "not_full"}
WaitingEmpty == {t \in Threads : at[t] \in {"not_empty", "timed_wait"}}
Woken(t)     == IF at[t] = "not_full" THEN "enqueue" ELSE IF at[t] = "not_empty" THEN "dequeue" ELSE "timed"

(* A call returns; pthread_cond_signal wakes one thread, if any waits.     *)
ReturnAndSignal(t, waiting) ==
    \/ waiting = {} /\ at' = Put(t, "out")
    \/ \E u \in waiting : at' = [at EXCEPT ![t] = "out", ![u] = Woken(u)]

CallEnqueue(t) ==
    /\ t \in Producers /\ at[t] = "out"
    /\ \E x \in Items : item' = [item EXCEPT ![t] = x]
    /\ at' = Put(t, "enqueue")
    /\ UNCHANGED <<ring, got>>

(* The item goes in at the tail.                                           *)
Store(t) ==
    /\ buffer' = [buffer EXCEPT ![tail] = item[t]]
    /\ tail' = (tail + 1) % QueueSize
    /\ count' = count + 1
    /\ item' = [item EXCEPT ![t] = NULL]
    /\ UNCHANGED <<head, got>>

Enqueue(t) == at[t] = "enqueue" /\ count # QueueSize /\ Store(t) /\ ReturnAndSignal(t, WaitingEmpty)

AwaitRoom(t) ==
    /\ at[t] = "enqueue" /\ count = QueueSize
    /\ at' = Put(t, "not_full")
    /\ UNCHANGED <<ring, item, got>>

(* A pool's task gives up its oldest, create_jobs_task takes the next.     *)
CallDequeue(t) ==
    /\ t \in Producers \cup Consumers /\ at[t] = "out"
    /\ \E call \in {"dequeue", "timed"} : at' = Put(t, call)
    /\ UNCHANGED <<ring, item, got>>

Fetch(t) ==
    /\ at[t] \in {"dequeue", "timed"} /\ count # 0
    /\ got' = [got EXCEPT ![t] = buffer[head]]
    /\ head' = (head + 1) % QueueSize
    /\ count' = count - 1
    /\ UNCHANGED <<buffer, tail, item>>
DequeueSilent(t) == Fetch(t) /\ at' = Put(t, "out")    \* a faulty variant

Dequeue(t) == Fetch(t) /\ ReturnAndSignal(t, WaitingFull)

AwaitItem(t) ==
    /\ at[t] \in {"dequeue", "timed"} /\ count = 0
    /\ at' = Put(t, IF at[t] = "timed" THEN "timed_wait" ELSE "not_empty")
    /\ UNCHANGED <<ring, item, got>>

(* The time is up.  The thread comes back with nothing once it has the     *)
(* mutex, whatever the count is by then.                                   *)
Expire(t) ==
    /\ at[t] = "timed_wait"
    /\ at' = Put(t, "expired")
    /\ UNCHANGED <<ring, item, got>>

ReturnNull(t) ==
    /\ at[t] = "expired"
    /\ got' = [got EXCEPT ![t] = NULL]
    /\ at' = Put(t, "out")
    /\ UNCHANGED <<ring, item>>

(* A wait may end for no reason.                                           *)
WakeUp(t) ==
    /\ at[t] \in {"not_full", "not_empty", "timed_wait"}
    /\ at' = Put(t, Woken(t))
    /\ UNCHANGED <<ring, item, got>>

(* queue_clear advances the head over every item; the faulty variant only  *)
(* resets the count.                                                       *)
ClearCountOnly(t) ==
    /\ t \in Producers \cup Clearers /\ at[t] = "out"
    /\ count' = 0
    /\ UNCHANGED <<buffer, head, tail, item, got>>
    /\ ReturnAndSignal(t, WaitingFull)

Clear(t) ==
    /\ t \in Producers \cup Clearers /\ at[t] = "out"
    /\ head' = (head + count) % QueueSize
    /\ count' = 0
    /\ UNCHANGED <<buffer, tail, item, got>>
    /\ ReturnAndSignal(t, WaitingFull)

Proceed(t) == Enqueue(t) \/ AwaitRoom(t) \/ Dequeue(t) \/ AwaitItem(t) \/ ReturnNull(t) \/ Expire(t)

Next == \E t \in Threads : Proceed(t) \/ WakeUp(t) \/ CallEnqueue(t) \/ CallDequeue(t) \/ Clear(t)

Spec == Init /\ [][Next]_vars

(* Threads that can run do, a wait with a timeout ends, and                *)
(* create_jobs_task comes back for more.                                   *)
FairSpec == /\ Spec
            /\ \A t \in Threads : WF_vars(Proceed(t))
            /\ \A t \in Consumers : WF_vars(CallDequeue(t))
-----------------------------------------------------------------------------
TypeOK ==
    /\ buffer \in [Slots -> Items \cup {NULL}]
    /\ head \in Slots /\ tail \in Slots /\ count \in 0..QueueSize
    /\ at \in [Threads -> Places]
    /\ item \in [Threads -> Items \cup {NULL}] /\ got \in [Threads -> Items \cup {NULL}]

(* The ring is a first-in first-out queue: what its slots hold, from head  *)
(* on, is the contents of Fifo, in whatever order its calls interleave.    *)
Contents == [k \in 1..count |-> buffer[(head + k - 1) % QueueSize]]
Queue == INSTANCE Fifo WITH contents <- Contents
QueueSpec == Queue!Spec

(* No signal is lost: with the one producer and one consumer a queue has,  *)
(* a thread waits for room only while the ring is full, and for an item    *)
(* only while it is empty.                                                 *)
NoLostSignal ==
    /\ WaitingFull # {} => count = QueueSize
    /\ WaitingEmpty # {} => count = 0

(* An enqueue comes back, however long the ring was full.                  *)
EnqueueReturns == \A t \in Producers : (at[t] = "enqueue") ~> (at[t] = "out")
=============================================================================
