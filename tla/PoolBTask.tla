----------------------------- MODULE PoolBTask -----------------------------
(***************************************************************************)
(* Pool B's connection: main/tasks/stratum_poolb_task.c driving the        *)
(* endpoint selector of PoolFailover, with the two tasks that touch its    *)
(* state: asic_result_task submits shares on transportB under              *)
(* transportB_lock, create_jobs_task takes templates out of stratum_queueB.*)
(* A transport handle is memory: it is initialised, connected, published,  *)
(* destroyed, and may then be handed out again.                            *)
(***************************************************************************)
EXTENDS PoolFailover, Sequences, FiniteSets

CONSTANTS Handles,      \* transport handles the allocator can return
          NoHandle,     \* NULL
          MaxRetries,   \* POOLB_MAX_RETRIES
          QueueSize,    \* QUEUE_SIZE of the notify queue
          DelayCoversSubmit  \* the 1 s delay of poolb_close outlasts the few
                             \* instructions between the choice of the user and
                             \* the lock in asic_result_task (timing assumption)

ASSUME PoolBAssumption ==
    /\ IsFiniteSet(Handles) /\ Handles # {}
    /\ NoHandle \notin Handles
    /\ MaxRetries \in Nat \ {0}
    /\ QueueSize \in Nat \ {0}
    /\ DelayCoversSubmit \in BOOLEAN

Endpoints == {0, 1}
Up        == {"primary", "failover"}

VARIABLES
    \* what the environment and the other components decide
    dual_enable,    \* the setting, re-read live by create_jobs_task
    ready,          \* ASIC_initalized and the Wi-Fi link is up
    reachable,      \* [Endpoints -> BOOLEAN]: the server answers and keeps the link
    \* stratum_poolb_task
    pc,             \* where the task is
    fo,             \* its pool_failover_t
    t,              \* its local handle
    poolB_is_using_failover,
    \* shared
    transportB,
    lock,           \* holder of transportB_lock: "none", "poolb" or "submit"
    handle,         \* what each handle is: "free", "open" (initialised), or the
                    \* endpoint it is connected to, "primary" or "failover"
    queueB,         \* stratum_queueB: the handle each template arrived on
    \* asic_result_task, submitting a Pool B share
    sub,            \* "idle", "chosen", "writing", "dropped"
    subHandle,      \* its handle
    subFailover,    \* it submits as poolB_fb_user rather than poolB_user
    \* history
    failures        \* disconnects and failed attempts since the last connect or switch

env    == <<dual_enable, ready, reachable>>
task   == <<pc, fo, t, poolB_is_using_failover>>
submit == <<sub, subHandle, subFailover>>
vars   == <<env, task, transportB, lock, handle, queueB, submit, failures>>

Configured(e) == e = 0 \/ fo.has_failover

Init ==
    /\ dual_enable \in BOOLEAN /\ ready = FALSE
    /\ reachable \in [Endpoints -> BOOLEAN]
    /\ pc = "outer"
    /\ \E has \in BOOLEAN : fo = FailoverInit(MaxRetries, has)
    /\ t = NoHandle /\ poolB_is_using_failover = FALSE
    /\ transportB = NoHandle /\ lock = "none"
    /\ handle = [h \in Handles |-> "free"]
    /\ queueB = <<>>
    /\ sub = "idle" /\ subHandle = NoHandle /\ subFailover = FALSE
    /\ failures = 0

-----------------------------------------------------------------------------
(* stratum_poolb_task: the outer loop.                                     *)

MayConnect == pc = "outer" /\ dual_enable /\ ready

Disconnected ==
    /\ StepDisconnected(fo, fo')
    /\ failures' = IF Endpoint(fo') = Endpoint(fo) /\ fo.state # ON_FAILOVER
                   THEN failures + 1 ELSE 0

(* Both endpoints exhausted: start over with the primary.                  *)
RetryFromDown ==
    /\ MayConnect
    /\ Endpoint(fo) = -1
    /\ Disconnected
    /\ UNCHANGED <<env, pc, t, poolB_is_using_failover, transportB, lock, handle, queueB, submit>>

(* The endpoint has no URL, does not resolve, or no transport can be made. *)
CannotStart ==
    /\ MayConnect
    /\ Endpoint(fo) # -1
    /\ ~reachable[Endpoint(fo)]
    /\ poolB_is_using_failover' = (Endpoint(fo) = 1)
    /\ Disconnected
    /\ UNCHANGED <<env, pc, t, transportB, lock, handle, queueB, submit>>

(* Faulty variants: the choice of user does not follow the endpoint; the   *)
(* handle of a failed attempt is never destroyed.                          *)
TransportInitKeepsUser ==
    /\ MayConnect
    /\ Endpoint(fo) # -1
    /\ \E h \in Handles :
          /\ handle[h] = "free"
          /\ handle' = [handle EXCEPT ![h] = "open"]
          /\ t' = h
    /\ pc' = "connect"
    /\ UNCHANGED <<env, fo, poolB_is_using_failover, transportB, lock, queueB, submit, failures>>

ConnectFailsLeaks ==
    /\ pc = "connect"
    /\ ~reachable[Endpoint(fo)]
    /\ UNCHANGED handle
    /\ t' = NoHandle
    /\ Disconnected
    /\ pc' = "outer"
    /\ UNCHANGED <<env, poolB_is_using_failover, transportB, lock, queueB, submit>>

(* A transport is initialised on a local handle.                           *)
TransportInit ==
    /\ MayConnect
    /\ Endpoint(fo) # -1
    /\ poolB_is_using_failover' = (Endpoint(fo) = 1)
    /\ \E h \in Handles :
          /\ handle[h] = "free"
          /\ handle' = [handle EXCEPT ![h] = "open"]
          /\ t' = h
    /\ pc' = "connect"
    /\ UNCHANGED <<env, fo, transportB, lock, queueB, submit, failures>>

ConnectFails ==
    /\ pc = "connect"
    /\ ~reachable[Endpoint(fo)]
    /\ handle' = [handle EXCEPT ![t] = "free"]
    /\ t' = NoHandle
    /\ Disconnected
    /\ pc' = "outer"
    /\ UNCHANGED <<env, poolB_is_using_failover, transportB, lock, queueB, submit>>

ConnectSucceeds ==
    /\ pc = "connect"
    /\ reachable[Endpoint(fo)]
    /\ handle' = [handle EXCEPT ![t] = IF Endpoint(fo) = 0 THEN "primary" ELSE "failover"]
    /\ pc' = "publish"
    /\ UNCHANGED <<env, fo, t, poolB_is_using_failover, transportB, lock, queueB, submit, failures>>

(* Publish under transportB_lock, then configure, subscribe, authorize.    *)
Publish ==
    /\ pc = "publish"
    /\ lock = "none"
    /\ DelayCoversSubmit => sub # "chosen"
    /\ transportB' = t
    /\ t' = NoHandle
    /\ StepConnected(fo, fo')
    /\ failures' = 0
    /\ pc' = "check"
    /\ UNCHANGED <<env, poolB_is_using_failover, lock, handle, queueB, submit>>

-----------------------------------------------------------------------------
(* The inner loop: test dual_enable, block in receive, handle one line.    *)

CheckEnabled ==
    /\ pc = "check"
    /\ pc' = IF dual_enable THEN "receive" ELSE "close"
    /\ UNCHANGED <<env, fo, t, poolB_is_using_failover, transportB, lock, handle, queueB, submit, failures>>

(* A line that leaves this state alone: a set_difficulty, a share result.  *)
ReceiveOther ==
    /\ pc = "receive"
    /\ pc' = "check"
    /\ UNCHANGED <<env, fo, t, poolB_is_using_failover, transportB, lock, handle, queueB, submit, failures>>

(* mining.notify: a clean one empties the queue first.                     *)
ReceiveNotify ==
    /\ pc = "receive"
    /\ \/ queueB' = <<>>
       \/ UNCHANGED queueB
    /\ pc' = "room"
    /\ UNCHANGED <<env, fo, t, poolB_is_using_failover, transportB, lock, handle, submit, failures>>

(* Faulty variant: the queue is taken from with the blocking queue_dequeue,*)
(* as Pool A's task does.                                                  *)
DropBlocking ==
    /\ pc = "drop"
    /\ queueB # <<>>
    /\ queueB' = Tail(queueB)
    /\ pc' = "enqueue"
    /\ UNCHANGED <<env, fo, t, poolB_is_using_failover, transportB, lock, handle, submit, failures>>

(* The queue is found full, or not ...                                     *)
SeeRoom ==
    /\ pc = "room"
    /\ pc' = IF Len(queueB) = QueueSize THEN "drop" ELSE "enqueue"
    /\ UNCHANGED <<env, fo, t, poolB_is_using_failover, transportB, lock, handle, queueB, submit, failures>>

(* ... and loses its oldest template, unless it has been emptied meanwhile *)
(* and queue_dequeue_timeout gives up.                                     *)
DropOldest ==
    /\ pc = "drop"
    /\ queueB' = IF queueB = <<>> THEN <<>> ELSE Tail(queueB)
    /\ pc' = "enqueue"
    /\ UNCHANGED <<env, fo, t, poolB_is_using_failover, transportB, lock, handle, submit, failures>>

(* queue_enqueue blocks while the queue is full.                           *)
Enqueue ==
    /\ pc = "enqueue"
    /\ Len(queueB) < QueueSize
    /\ queueB' = Append(queueB, transportB)
    /\ pc' = "check"
    /\ UNCHANGED <<env, fo, t, poolB_is_using_failover, transportB, lock, handle, submit, failures>>

(* client.reconnect: close without telling the endpoint selector.          *)
ReceiveReconnect ==
    /\ pc = "receive"
    /\ pc' = "close"
    /\ UNCHANGED <<env, fo, t, poolB_is_using_failover, transportB, lock, handle, queueB, submit, failures>>

(* The link is lost: close, then step the endpoint selector.               *)
ReceiveFails ==
    /\ pc = "receive"
    /\ ~reachable[Endpoint(fo)]
    /\ pc' = "closeLost"
    /\ UNCHANGED <<env, fo, t, poolB_is_using_failover, transportB, lock, handle, queueB, submit, failures>>

(* Faulty variants: poolb_close without transportB_lock; without           *)
(* queue_clear.                                                            *)
CloseWithoutLock ==
    /\ pc \in {"close", "closeLost"}
    /\ t' = transportB
    /\ transportB' = NoHandle
    /\ pc' = IF pc = "close" THEN "destroy" ELSE "destroyLost"
    /\ UNCHANGED <<env, fo, poolB_is_using_failover, lock, handle, queueB, submit, failures>>

ClearNothing ==
    /\ pc \in {"clear", "clearLost"}
    /\ \/ pc = "clear" /\ UNCHANGED <<fo, failures>>
       \/ pc = "clearLost" /\ Disconnected
    /\ pc' = "outer"
    /\ UNCHANGED <<env, t, poolB_is_using_failover, transportB, lock, handle, queueB, submit>>

(* poolb_close: take transportB out of circulation ...                     *)
CloseTake ==
    /\ pc \in {"close", "closeLost"}
    /\ lock = "none"
    /\ lock' = "poolb"
    /\ t' = transportB
    /\ transportB' = NoHandle
    /\ pc' = IF pc = "close" THEN "destroy" ELSE "destroyLost"
    /\ UNCHANGED <<env, fo, poolB_is_using_failover, handle, queueB, submit, failures>>

(* ... close and destroy it, still under the lock ...                      *)
CloseDestroy ==
    /\ pc \in {"destroy", "destroyLost"}
    /\ handle' = [handle EXCEPT ![t] = "free"]
    /\ t' = NoHandle
    /\ lock' = "none"
    /\ pc' = IF pc = "destroy" THEN "clear" ELSE "clearLost"
    /\ UNCHANGED <<env, fo, poolB_is_using_failover, transportB, queueB, submit, failures>>

(* ... and drop the templates of the session that ended.                   *)
CloseClear ==
    /\ pc \in {"clear", "clearLost"}
    /\ queueB' = <<>>
    /\ \/ pc = "clear" /\ UNCHANGED <<fo, failures>>
       \/ pc = "clearLost" /\ Disconnected
    /\ pc' = "outer"
    /\ UNCHANGED <<env, t, poolB_is_using_failover, transportB, lock, handle, submit>>

TaskNext ==
    \/ RetryFromDown \/ CannotStart \/ TransportInit \/ ConnectFails \/ ConnectSucceeds
    \/ Publish \/ CheckEnabled \/ ReceiveFails \/ SeeRoom \/ DropOldest \/ Enqueue
    \/ CloseTake \/ CloseDestroy \/ CloseClear

ServerNext == ReceiveOther \/ ReceiveNotify \/ ReceiveReconnect

-----------------------------------------------------------------------------
(* asic_result_task, a share of a Pool B job (poolb_submit_share_locked).  *)

(* The user is chosen by the endpoint in use ...                           *)
SubmitChooseUser ==
    /\ sub = "idle"
    /\ sub' = "chosen"
    /\ subFailover' = poolB_is_using_failover
    /\ UNCHANGED <<env, task, transportB, lock, handle, queueB, subHandle, failures>>

(* ... then the handle is read and written to under the lock.              *)
SubmitLock ==
    /\ sub = "chosen"
    /\ lock = "none"
    /\ lock' = "submit"
    /\ subHandle' = transportB
    /\ sub' = IF transportB = NoHandle THEN "dropped" ELSE "writing"
    /\ UNCHANGED <<subFailover, env, task, transportB, handle, queueB, failures>>

(* The write has returned (or there was nobody to write to).               *)
SubmitUnlock ==
    /\ sub \in {"writing", "dropped"}
    /\ lock' = "none"
    /\ subHandle' = NoHandle
    /\ sub' = "idle"
    /\ UNCHANGED <<subFailover, env, task, transportB, handle, queueB, failures>>

(* create_jobs_task takes a template.                                      *)
Dequeue ==
    /\ queueB # <<>>
    /\ queueB' = Tail(queueB)
    /\ UNCHANGED <<env, task, transportB, lock, handle, submit, failures>>

-----------------------------------------------------------------------------
(* Settings, start-up and the network.                                     *)
Environment ==
    /\ \/ dual_enable' = ~dual_enable /\ UNCHANGED <<ready, reachable>>
       \/ ready' = ~ready /\ UNCHANGED <<dual_enable, reachable>>
       \/ \E e \in Endpoints : /\ Configured(e)
                               /\ reachable' = [reachable EXCEPT ![e] = ~@]
                               /\ UNCHANGED <<dual_enable, ready>>
    /\ UNCHANGED <<task, transportB, lock, handle, queueB, submit, failures>>

Next == TaskNext \/ ServerNext \/ SubmitChooseUser \/ SubmitLock \/ SubmitUnlock \/ Dequeue \/ Environment

Spec == Init /\ [][Next]_vars

(* The task always runs on; it gets a contended mutex eventually, because  *)
(* the submitter gives it up after one bounded write.  The server, the     *)
(* settings and the network owe nothing.                                   *)
Fairness ==
    /\ WF_vars(TaskNext)
    /\ SF_vars(Publish) /\ SF_vars(CloseTake)
    /\ WF_vars(SubmitUnlock) /\ SF_vars(SubmitLock)

FairSpec == Spec /\ Fairness

-----------------------------------------------------------------------------
(* Every variable has its type.                                            *)
TypeOK ==
    /\ dual_enable \in BOOLEAN /\ ready \in BOOLEAN
    /\ reachable \in [Endpoints -> BOOLEAN]
    /\ pc \in {"outer", "connect", "publish", "check", "receive", "room", "drop", "enqueue", "close",
               "closeLost", "destroy", "destroyLost", "clear", "clearLost"}
    /\ fo \in FailoverValues
    /\ t \in Handles \cup {NoHandle} /\ transportB \in Handles \cup {NoHandle}
    /\ poolB_is_using_failover \in BOOLEAN
    /\ lock \in {"none", "poolb", "submit"}
    /\ handle \in [Handles -> {"free", "open"} \cup Up]
    /\ queueB \in Seq(Handles \cup {NoHandle}) /\ Len(queueB) <= QueueSize
    /\ sub \in {"idle", "chosen", "writing", "dropped"}
    /\ subHandle \in Handles \cup {NoHandle} /\ subFailover \in BOOLEAN
    /\ failures \in Nat

(* A share is never written to a handle that poolb_close has destroyed, or *)
(* that is not connected (stratum_poolb_task.c:42-45,                      *)
(* asic_result_task.c:22-24).                                              *)
NoUseAfterFree == sub = "writing" => subHandle # NoHandle /\ handle[subHandle] \in Up

(* A half-open transport is never visible to the submit path               *)
(* (stratum_poolb_task.c:115-117).                                         *)
PublishedIsConnected == transportB # NoHandle => handle[transportB] \in Up

(* Over any number of reconnects no transport is leaked: whatever is not   *)
(* free is reachable from the task or published.                           *)
NoLeak == \A h \in Handles : handle[h] # "free" => h \in {t, transportB}

(* While Pool B is connected, its queue holds templates of this connection *)
(* alone: nothing of the previous pool survives a reconnect in the queue.  *)
QueueOfThisSession ==
    transportB # NoHandle => \A i \in 1..Len(queueB) : queueB[i] = transportB

(* The unguarded read of .count never leads to an enqueue that blocks the  *)
(* receive loop (stratum_poolb_task.c:200-203).                            *)
EnqueueNeverBlocks == pc = "enqueue" => Len(queueB) < QueueSize

(* Whatever the consumer takes between the look at the count and the       *)
(* dequeue, the receive loop gets back to its socket                       *)
(* (stratum_poolb_task.c:200-208).                                         *)
ReceiveLoopReturns == (pc \in {"room", "drop", "enqueue"}) ~> (pc = "check")

(* A share is written with the user of the endpoint it is written to, when *)
(* the delay of poolb_close covers the gap between the choice of the user  *)
(* and the lock (asic_result_task.c:135-143, stratum_poolb_task.c:93).     *)
CredentialsMatch ==
    (DelayCoversSubmit /\ sub = "writing") => (subFailover <=> handle[subHandle] = "failover")

(* The primary is given up after exactly MaxRetries + 1 failures in a row, *)
(* counting the drop that began them; a client.reconnect or a settings     *)
(* change in between does not shorten or lengthen the count.               *)
SwitchWhenExhausted ==
    [][(Endpoint(fo) = 0 /\ Endpoint(fo') # 0) => failures = MaxRetries]_vars

(* If one configured endpoint stays reachable, Pool B is connected again   *)
(* and again, whatever the other endpoint does.                            *)
ServedWhileReachable ==
    \A e \in Endpoints :
        (<>[](dual_enable /\ ready /\ reachable[e] /\ Configured(e))) => []<>(transportB # NoHandle)
=============================================================================
