-------------------------- MODULE PoolBTask_proofs --------------------------
(***************************************************************************)
(* Proofs about PoolBTask, for any set of handles, retry limit and queue   *)
(* size.  The inductive invariant has three layers, each proved from the   *)
(* one before: Control (which handle is where, who holds the lock), Queue  *)
(* (whose templates are queued) and Selector (what failures counts).       *)
(***************************************************************************)
EXTENDS PoolBTask, TLAPS

(* Program points at which a transport is published.                       *)
Online == {"check", "receive", "room", "drop", "enqueue", "close", "closeLost"}
Destroying == {"destroy", "destroyLost"}
Clearing == {"clear", "clearLost"}
Places == {"outer", "connect", "publish"} \cup Online \cup Destroying \cup Clearing

(* A handle is local to the task while it is made or destroyed, and is     *)
(* published in between; the lock is held exactly by whoever destroys it   *)
(* or writes to it.                                                        *)
Control ==
    /\ pc \in Places
    /\ sub \in {"idle", "chosen", "writing", "dropped"}
    /\ handle \in [Handles -> {"free", "open"} \cup Up]
    /\ t \in Handles \cup {NoHandle} /\ transportB \in Handles \cup {NoHandle}
    /\ pc = "connect" => t \in Handles /\ handle[t] = "open"
    /\ pc \in {"publish"} \cup Destroying => t \in Handles /\ handle[t] \in Up
    /\ pc \in {"outer"} \cup Online \cup Clearing => t = NoHandle
    /\ pc \in Online => transportB \in Handles /\ handle[transportB] \in Up
    /\ pc \notin Online => transportB = NoHandle
    /\ lock = "poolb" <=> pc \in Destroying
    /\ lock = "submit" <=> sub \in {"writing", "dropped"}
    /\ lock \in {"none", "poolb", "submit"}
    /\ sub = "writing" => pc \in Online /\ subHandle = transportB
    /\ NoLeak

LEMMA ControlInit == Init => Control
  BY PoolBAssumption DEF Init, Control, Places, Online, Destroying, Clearing, NoLeak, Up

(* No step of the task, of a server, of the submitter or of the consumer   *)
(* breaks Control.                                                         *)
LEMMA ControlNext == Control /\ [Next]_vars => Control'
  <1> SUFFICES ASSUME Control, [Next]_vars PROVE Control'
    OBVIOUS
  <1>1. CASE RetryFromDown
    BY <1>1, PoolBAssumption DEF RetryFromDown, Control, Places, Online, Destroying, Clearing, NoLeak, Up, env, task, submit, MayConnect
  <1>2. CASE CannotStart
    BY <1>2, PoolBAssumption DEF CannotStart, Control, Places, Online, Destroying, Clearing, NoLeak, Up, env, task, submit, MayConnect
  <1>3. CASE TransportInit
    BY <1>3, PoolBAssumption DEF TransportInit, Control, Places, Online, Destroying, Clearing, NoLeak, Up, env, task, submit, MayConnect
  <1>4. CASE ConnectFails
    BY <1>4, PoolBAssumption DEF ConnectFails, Control, Places, Online, Destroying, Clearing, NoLeak, Up, env, task, submit
  <1>5. CASE ConnectSucceeds
    BY <1>5, PoolBAssumption DEF ConnectSucceeds, Control, Places, Online, Destroying, Clearing, NoLeak, Up, env, task, submit
  <1>6. CASE Publish
    BY <1>6, PoolBAssumption DEF Publish, Control, Places, Online, Destroying, Clearing, NoLeak, Up, env, task, submit
  <1>7. CASE CheckEnabled
    BY <1>7, PoolBAssumption DEF CheckEnabled, Control, Places, Online, Destroying, Clearing, NoLeak, Up, env, task, submit
  <1>8. CASE ReceiveFails
    BY <1>8, PoolBAssumption DEF ReceiveFails, Control, Places, Online, Destroying, Clearing, NoLeak, Up, env, task, submit
  <1>9. CASE SeeRoom
    BY <1>9, PoolBAssumption DEF SeeRoom, Control, Places, Online, Destroying, Clearing, NoLeak, Up, env, task, submit
  <1>9a. CASE DropOldest
    BY <1>9a, PoolBAssumption DEF DropOldest, Control, Places, Online, Destroying, Clearing, NoLeak, Up, env, task, submit
  <1>10. CASE Enqueue
    BY <1>10, PoolBAssumption DEF Enqueue, Control, Places, Online, Destroying, Clearing, NoLeak, Up, env, task, submit
  <1>11. CASE CloseTake
    BY <1>11, PoolBAssumption DEF CloseTake, Control, Places, Online, Destroying, Clearing, NoLeak, Up, env, task, submit
  <1>12. CASE CloseDestroy
    BY <1>12, PoolBAssumption DEF CloseDestroy, Control, Places, Online, Destroying, Clearing, NoLeak, Up, env, task, submit
  <1>13. CASE CloseClear
    BY <1>13, PoolBAssumption DEF CloseClear, Control, Places, Online, Destroying, Clearing, NoLeak, Up, env, task, submit
  <1>14. CASE ReceiveOther
    BY <1>14, PoolBAssumption DEF ReceiveOther, Control, Places, Online, Destroying, Clearing, NoLeak, Up, env, task, submit
  <1>15. CASE ReceiveNotify
    BY <1>15, PoolBAssumption DEF ReceiveNotify, Control, Places, Online, Destroying, Clearing, NoLeak, Up, env, task, submit
  <1>16. CASE ReceiveReconnect
    BY <1>16, PoolBAssumption DEF ReceiveReconnect, Control, Places, Online, Destroying, Clearing, NoLeak, Up, env, task, submit
  <1>17. CASE SubmitChooseUser
    BY <1>17, PoolBAssumption DEF SubmitChooseUser, Control, Places, Online, Destroying, Clearing, NoLeak, Up, env, task, submit
  <1>18. CASE SubmitLock
    BY <1>18, PoolBAssumption DEF SubmitLock, Control, Places, Online, Destroying, Clearing, NoLeak, Up, env, task, submit
  <1>19. CASE SubmitUnlock
    BY <1>19, PoolBAssumption DEF SubmitUnlock, Control, Places, Online, Destroying, Clearing, NoLeak, Up, env, task, submit
  <1>20. CASE Dequeue
    BY <1>20, PoolBAssumption DEF Dequeue, Control, Places, Online, Destroying, Clearing, NoLeak, Up, env, task, submit
  <1>21. CASE Environment
    BY <1>21, PoolBAssumption DEF Environment, Control, Places, Online, Destroying, Clearing, NoLeak, Up, env, task, submit
  <1>22. CASE UNCHANGED vars
    BY <1>22, PoolBAssumption DEF vars, Control, Places, Online, Destroying, Clearing, NoLeak, Up, env, task, submit
  <1>23. QED
    BY <1>1, <1>2, <1>3, <1>4, <1>5, <1>6, <1>7, <1>8, <1>9, <1>9a, <1>10, <1>11, <1>12, <1>13, <1>14, <1>15, <1>16, <1>17, <1>18, <1>19, <1>20, <1>21, <1>22 DEF Next, TaskNext, ServerNext

(* Spec keeps Control.                                                     *)
THEOREM ControlCorrect == Spec => []Control
  <1>1. QED
    BY ControlInit, ControlNext, PTL DEF Spec

(* A share is never written to a handle that poolb_close has destroyed.    *)
THEOREM SafeSubmit == Spec => []NoUseAfterFree
  <1>1. Control => NoUseAfterFree
    BY PoolBAssumption DEF Control, NoUseAfterFree, Online
  <1>2. QED
    BY <1>1, ControlCorrect, PTL

(* Only a connected transport is visible to the submit path.               *)
THEOREM OnlyConnectedPublished == Spec => []PublishedIsConnected
  <1>1. Control => PublishedIsConnected
    BY DEF Control, PublishedIsConnected
  <1>2. QED
    BY <1>1, ControlCorrect, PTL

(* No transport is leaked.                                                 *)
THEOREM LeakFree == Spec => []NoLeak
  <1>1. Control => NoLeak
    BY DEF Control
  <1>2. QED
    BY <1>1, ControlCorrect, PTL

-----------------------------------------------------------------------------
(* While no transport is published and no close is under way the queue is  *)
(* empty; it never holds more than QueueSize templates, and while Pool B   *)
(* is connected they are all of that connection.                           *)
Queue ==
    /\ queueB \in Seq(Handles \cup {NoHandle}) /\ Len(queueB) <= QueueSize
    /\ pc \in {"outer", "connect", "publish"} => queueB = <<>>
    /\ QueueOfThisSession
    /\ EnqueueNeverBlocks

LEMMA QueueInit == Init => Queue
  BY PoolBAssumption DEF Init, Queue, QueueOfThisSession, EnqueueNeverBlocks

LEMMA QueueNext == Control /\ Queue /\ [Next]_vars => Queue'
  <1> SUFFICES ASSUME Control, Queue, [Next]_vars PROVE Queue'
    OBVIOUS
  <1>1. CASE SeeRoom
    BY <1>1, PoolBAssumption DEF SeeRoom, Control, Places, Online, Destroying, Clearing, Queue, QueueOfThisSession, EnqueueNeverBlocks, env, task, submit
  <1>1a. CASE DropOldest
    BY <1>1a, PoolBAssumption DEF DropOldest, Control, Places, Online, Destroying, Clearing, Queue, QueueOfThisSession, EnqueueNeverBlocks, env, task, submit
  <1>2. CASE Enqueue
    BY <1>2, PoolBAssumption DEF Enqueue, Control, Places, Online, Destroying, Clearing, Queue, QueueOfThisSession, EnqueueNeverBlocks, env, task, submit
  <1>3. CASE Dequeue
    BY <1>3, PoolBAssumption DEF Dequeue, Control, Places, Online, Destroying, Clearing, Queue, QueueOfThisSession, EnqueueNeverBlocks, env, task, submit
  <1>4. CASE CloseClear
    BY <1>4, PoolBAssumption DEF CloseClear, Control, Places, Online, Destroying, Clearing, Queue, QueueOfThisSession, EnqueueNeverBlocks, env, task, submit
  <1>5. CASE ReceiveNotify
    <2> USE DEF ReceiveNotify, Control, Places, Online, Destroying, Clearing, Queue,
                QueueOfThisSession, EnqueueNeverBlocks
    <2>1. CASE queueB' = <<>>
      BY <1>5, <2>1, PoolBAssumption
    <2>2. CASE UNCHANGED queueB
      BY <1>5, <2>2, PoolBAssumption
    <2>3. QED
      BY <1>5, <2>1, <2>2
  <1>6. CASE Publish
    BY <1>6, PoolBAssumption DEF Publish, Control, Places, Online, Destroying, Clearing, Queue, QueueOfThisSession, EnqueueNeverBlocks, env, task, submit
  <1>7. CASE CloseTake
    BY <1>7, PoolBAssumption DEF CloseTake, Control, Places, Online, Destroying, Clearing, Queue, QueueOfThisSession, EnqueueNeverBlocks, env, task, submit
  <1>8. CASE RetryFromDown
    BY <1>8, PoolBAssumption DEF RetryFromDown, MayConnect, Control, Places, Online, Destroying, Clearing, Queue, QueueOfThisSession, EnqueueNeverBlocks, env, task, submit
  <1>9. CASE CannotStart
    BY <1>9, PoolBAssumption DEF CannotStart, MayConnect, Control, Places, Online, Destroying, Clearing, Queue, QueueOfThisSession, EnqueueNeverBlocks, env, task, submit
  <1>10. CASE TransportInit
    BY <1>10, PoolBAssumption DEF TransportInit, MayConnect, Control, Places, Online, Destroying, Clearing, Queue, QueueOfThisSession, EnqueueNeverBlocks, env, task, submit
  <1>11. CASE ConnectFails
    BY <1>11, PoolBAssumption DEF ConnectFails, Control, Places, Online, Destroying, Clearing, Queue, QueueOfThisSession, EnqueueNeverBlocks, env, task, submit
  <1>12. CASE ConnectSucceeds
    BY <1>12, PoolBAssumption DEF ConnectSucceeds, Control, Places, Online, Destroying, Clearing, Queue, QueueOfThisSession, EnqueueNeverBlocks, env, task, submit
  <1>13. CASE CheckEnabled
    BY <1>13, PoolBAssumption DEF CheckEnabled, Control, Places, Online, Destroying, Clearing, Queue, QueueOfThisSession, EnqueueNeverBlocks, env, task, submit
  <1>14. CASE ReceiveFails
    BY <1>14, PoolBAssumption DEF ReceiveFails, Control, Places, Online, Destroying, Clearing, Queue, QueueOfThisSession, EnqueueNeverBlocks, env, task, submit
  <1>15. CASE CloseDestroy
    BY <1>15, PoolBAssumption DEF CloseDestroy, Control, Places, Online, Destroying, Clearing, Queue, QueueOfThisSession, EnqueueNeverBlocks, env, task, submit
  <1>16. CASE ReceiveOther
    BY <1>16, PoolBAssumption DEF ReceiveOther, Control, Places, Online, Destroying, Clearing, Queue, QueueOfThisSession, EnqueueNeverBlocks, env, task, submit
  <1>17. CASE ReceiveReconnect
    BY <1>17, PoolBAssumption DEF ReceiveReconnect, Control, Places, Online, Destroying, Clearing, Queue, QueueOfThisSession, EnqueueNeverBlocks, env, task, submit
  <1>18. CASE SubmitChooseUser
    BY <1>18, PoolBAssumption DEF SubmitChooseUser, Control, Places, Online, Destroying, Clearing, Queue, QueueOfThisSession, EnqueueNeverBlocks, env, task, submit
  <1>19. CASE SubmitLock
    BY <1>19, PoolBAssumption DEF SubmitLock, Control, Places, Online, Destroying, Clearing, Queue, QueueOfThisSession, EnqueueNeverBlocks, env, task, submit
  <1>20. CASE SubmitUnlock
    BY <1>20, PoolBAssumption DEF SubmitUnlock, Control, Places, Online, Destroying, Clearing, Queue, QueueOfThisSession, EnqueueNeverBlocks, env, task, submit
  <1>21. CASE Environment
    BY <1>21, PoolBAssumption DEF Environment, Control, Places, Online, Destroying, Clearing, Queue, QueueOfThisSession, EnqueueNeverBlocks, env, task, submit
  <1>22. CASE UNCHANGED vars
    BY <1>22, PoolBAssumption DEF vars, Control, Places, Online, Destroying, Clearing, Queue, QueueOfThisSession, EnqueueNeverBlocks, env, task, submit
  <1>23. QED
    BY <1>1, <1>1a, <1>2, <1>3, <1>4, <1>5, <1>6, <1>7, <1>8, <1>9, <1>10, <1>11, <1>12, <1>13, <1>14, <1>15, <1>16, <1>17, <1>18, <1>19, <1>20, <1>21, <1>22 DEF Next, TaskNext, ServerNext

(* Nothing of the previous pool survives a reconnect in the queue.         *)
THEOREM OwnTemplatesQueued == Spec => []QueueOfThisSession
  <1>1. Queue => QueueOfThisSession
    BY DEF Queue
  <1>2. QED
    BY <1>1, QueueInit, QueueNext, ControlCorrect, PTL DEF Spec

(* The receive loop never blocks in queue_enqueue.                         *)
THEOREM ReceiveLoopRuns == Spec => []EnqueueNeverBlocks
  <1>1. Queue => EnqueueNeverBlocks
    BY DEF Queue
  <1>2. QED
    BY <1>1, QueueInit, QueueNext, ControlCorrect, PTL DEF Spec

-----------------------------------------------------------------------------
(* retry_count counts the failures since the last connect or switch, and   *)
(* never passes the limit.                                                 *)
Selector ==
    /\ fo \in FailoverValues
    /\ fo.max_retries = MaxRetries
    /\ failures \in Nat
    /\ fo.state # DOWN => fo.retry_count = failures /\ failures <= MaxRetries
    /\ fo.state = ON_PRIMARY => failures = 0

LEMMA SelectorInit == Init => Selector
  <1> SUFFICES ASSUME Init PROVE Selector
    OBVIOUS
  <1>1. PICK has \in BOOLEAN : fo = FailoverInit(MaxRetries, has)
    BY DEF Init
  <1>2. failures = 0
    BY DEF Init
  <1>3. QED
    BY <1>1, <1>2, PoolBAssumption
    DEF Selector, FailoverInit, FailoverValues, PFStates, TRY_PRIMARY, ON_PRIMARY, DOWN

(* A failure counts one up, or switches at the limit.                      *)
LEMMA DisconnectedSelector ==
  ASSUME Selector, Disconnected
  PROVE  /\ Selector'
         /\ (Endpoint(fo) = 0 /\ Endpoint(fo') # 0) => failures = MaxRetries
  BY PoolBAssumption
  DEF Selector, Disconnected, StepDisconnected, To, Exhausted, Endpoint, FailoverValues, PFStates,
      TRY_PRIMARY, ON_PRIMARY, TRY_FAILOVER, ON_FAILOVER, DOWN

LEMMA SelectorNext ==
  ASSUME Selector, [Next]_vars
  PROVE  /\ Selector'
         /\ (Endpoint(fo) = 0 /\ Endpoint(fo') # 0) => failures = MaxRetries
  <1>1. CASE Disconnected
    BY <1>1, DisconnectedSelector
  <1>2. CASE UNCHANGED <<fo, failures>>
    BY <1>2 DEF Selector
  <1>3. CASE Publish
    BY <1>3, PoolBAssumption
    DEF Publish, StepConnected, To, Selector, Endpoint, FailoverValues, PFStates,
        TRY_PRIMARY, ON_PRIMARY, TRY_FAILOVER, ON_FAILOVER, DOWN
  <1>4. Disconnected \/ UNCHANGED <<fo, failures>> \/ Publish
    BY DEF Next, TaskNext, ServerNext, vars, task, RetryFromDown, CannotStart, TransportInit, ConnectFails, ConnectSucceeds, Publish, CheckEnabled, ReceiveFails, SeeRoom, DropOldest, Enqueue, CloseTake, CloseDestroy, CloseClear, ReceiveOther, ReceiveNotify, ReceiveReconnect, SubmitChooseUser, SubmitLock, SubmitUnlock, Dequeue, Environment
  <1>5. QED
    BY <1>1, <1>2, <1>3, <1>4

(* The primary is given up after exactly MaxRetries + 1 failures.          *)
THEOREM SwitchesWhenExhausted == Spec => SwitchWhenExhausted
  <1>1. Selector /\ [Next]_vars => Selector'
    BY SelectorNext
  <1>2. Selector /\ [Next]_vars =>
            [(Endpoint(fo) = 0 /\ Endpoint(fo') # 0) => failures = MaxRetries]_vars
    BY SelectorNext
  <1>3. QED
    BY <1>1, <1>2, SelectorInit, PTL DEF Spec, SwitchWhenExhausted

-----------------------------------------------------------------------------
(* From the choice of the endpoint to the end of the connection, the flag  *)
(* that selects the user follows the handle, and so does the user a        *)
(* submission has chosen.                                                  *)
OnFailover(h) == handle[h] = "failover"
Credentials ==
    /\ poolB_is_using_failover \in BOOLEAN /\ subFailover \in BOOLEAN
    /\ pc \in {"connect", "publish"} =>
          Endpoint(fo) # -1 /\ (poolB_is_using_failover <=> Endpoint(fo) = 1)
    /\ pc = "publish" => (poolB_is_using_failover <=> OnFailover(t))
    /\ pc \in Online => (poolB_is_using_failover <=> OnFailover(transportB))
    /\ (DelayCoversSubmit /\ sub = "chosen" /\ pc \in Online) => (subFailover <=> OnFailover(transportB))
    /\ (DelayCoversSubmit /\ sub = "writing") => (subFailover <=> OnFailover(transportB))

LEMMA CredentialsInit == Init => Credentials
  BY DEF Init, Credentials, Online

LEMMA CredentialsNext == Control /\ Control' /\ Credentials /\ [Next]_vars => Credentials'
  <1> SUFFICES ASSUME Control, Control', Credentials, [Next]_vars PROVE Credentials'
    OBVIOUS
  <1>1. CASE RetryFromDown
    BY <1>1, PoolBAssumption DEF RetryFromDown, MayConnect, Control, Places, Online, Destroying, Clearing, NoLeak, Up, Credentials, OnFailover, env, task, submit
  <1>2. CASE CannotStart
    BY <1>2, PoolBAssumption DEF CannotStart, MayConnect, Control, Places, Online, Destroying, Clearing, NoLeak, Up, Credentials, OnFailover, env, task, submit
  <1>3. CASE TransportInit
    BY <1>3, PoolBAssumption DEF TransportInit, MayConnect, Endpoint, Control, Places, Online, Destroying, Clearing, NoLeak, Up, Credentials, OnFailover, env, task, submit
  <1>4. CASE ConnectFails
    BY <1>4, PoolBAssumption DEF ConnectFails, Control, Places, Online, Destroying, Clearing, NoLeak, Up, Credentials, OnFailover, env, task, submit
  <1>5. CASE ConnectSucceeds
    BY <1>5, PoolBAssumption DEF ConnectSucceeds, Endpoint, Control, Places, Online, Destroying, Clearing, NoLeak, Up, Credentials, OnFailover, env, task, submit
  <1>6. CASE Publish
    BY <1>6, PoolBAssumption DEF Publish, StepConnected, To, Endpoint, TRY_PRIMARY, ON_PRIMARY, TRY_FAILOVER, ON_FAILOVER, DOWN, Control, Places, Online, Destroying, Clearing, NoLeak, Up, Credentials, OnFailover, env, task, submit
  <1>7. CASE CheckEnabled
    BY <1>7, PoolBAssumption DEF CheckEnabled, Control, Places, Online, Destroying, Clearing, NoLeak, Up, Credentials, OnFailover, env, task, submit
  <1>8. CASE ReceiveFails
    BY <1>8, PoolBAssumption DEF ReceiveFails, Control, Places, Online, Destroying, Clearing, NoLeak, Up, Credentials, OnFailover, env, task, submit
  <1>9. CASE SeeRoom
    BY <1>9, PoolBAssumption DEF SeeRoom, Control, Places, Online, Destroying, Clearing, NoLeak, Up, Credentials, OnFailover, env, task, submit
  <1>9a. CASE DropOldest
    BY <1>9a, PoolBAssumption DEF DropOldest, Control, Places, Online, Destroying, Clearing, NoLeak, Up, Credentials, OnFailover, env, task, submit
  <1>10. CASE Enqueue
    BY <1>10, PoolBAssumption DEF Enqueue, Control, Places, Online, Destroying, Clearing, NoLeak, Up, Credentials, OnFailover, env, task, submit
  <1>11. CASE CloseTake
    BY <1>11, PoolBAssumption DEF CloseTake, Control, Places, Online, Destroying, Clearing, NoLeak, Up, Credentials, OnFailover, env, task, submit
  <1>12. CASE CloseDestroy
    BY <1>12, PoolBAssumption DEF CloseDestroy, Control, Places, Online, Destroying, Clearing, NoLeak, Up, Credentials, OnFailover, env, task, submit
  <1>13. CASE CloseClear
    BY <1>13, PoolBAssumption DEF CloseClear, Control, Places, Online, Destroying, Clearing, NoLeak, Up, Credentials, OnFailover, env, task, submit
  <1>14. CASE ReceiveOther
    BY <1>14, PoolBAssumption DEF ReceiveOther, Control, Places, Online, Destroying, Clearing, NoLeak, Up, Credentials, OnFailover, env, task, submit
  <1>15. CASE ReceiveNotify
    BY <1>15, PoolBAssumption DEF ReceiveNotify, Control, Places, Online, Destroying, Clearing, NoLeak, Up, Credentials, OnFailover, env, task, submit
  <1>16. CASE ReceiveReconnect
    BY <1>16, PoolBAssumption DEF ReceiveReconnect, Control, Places, Online, Destroying, Clearing, NoLeak, Up, Credentials, OnFailover, env, task, submit
  <1>17. CASE SubmitChooseUser
    BY <1>17, PoolBAssumption DEF SubmitChooseUser, Control, Places, Online, Destroying, Clearing, NoLeak, Up, Credentials, OnFailover, env, task, submit
  <1>18. CASE SubmitLock
    BY <1>18, PoolBAssumption DEF SubmitLock, Control, Places, Online, Destroying, Clearing, NoLeak, Up, Credentials, OnFailover, env, task, submit
  <1>19. CASE SubmitUnlock
    BY <1>19, PoolBAssumption DEF SubmitUnlock, Control, Places, Online, Destroying, Clearing, NoLeak, Up, Credentials, OnFailover, env, task, submit
  <1>20. CASE Dequeue
    BY <1>20, PoolBAssumption DEF Dequeue, Control, Places, Online, Destroying, Clearing, NoLeak, Up, Credentials, OnFailover, env, task, submit
  <1>21. CASE Environment
    BY <1>21, PoolBAssumption DEF Environment, Control, Places, Online, Destroying, Clearing, NoLeak, Up, Credentials, OnFailover, env, task, submit
  <1>22. CASE UNCHANGED vars
    BY <1>22, PoolBAssumption DEF vars, Control, Places, Online, Destroying, Clearing, NoLeak, Up, Credentials, OnFailover, env, task, submit
  <1>23. QED
    BY <1>1, <1>2, <1>3, <1>4, <1>5, <1>6, <1>7, <1>8, <1>9, <1>9a, <1>10, <1>11, <1>12, <1>13, <1>14, <1>15, <1>16, <1>17, <1>18, <1>19, <1>20, <1>21, <1>22 DEF Next, TaskNext, ServerNext

(* Under the timing assumption, a share is written with the user of the    *)
(* endpoint it is written to.                                              *)
THEOREM RightUser == Spec => []CredentialsMatch
  <1>1. Control /\ Credentials => CredentialsMatch
    BY DEF Control, Credentials, CredentialsMatch, OnFailover
  <1>2. QED
    BY <1>1, CredentialsInit, CredentialsNext, ControlCorrect, PTL DEF Spec

-----------------------------------------------------------------------------
(* What no other layer types.                                              *)
Inputs ==
    /\ dual_enable \in BOOLEAN /\ ready \in BOOLEAN
    /\ reachable \in [Endpoints -> BOOLEAN]
    /\ subHandle \in Handles \cup {NoHandle}

LEMMA InputsNext == Control /\ Inputs /\ [Next]_vars => Inputs'
  <1> SUFFICES ASSUME Control, Inputs, [Next]_vars PROVE Inputs'
    OBVIOUS
  <1>1. CASE Environment
    <2>1. subHandle' \in Handles \cup {NoHandle}
      BY <1>1 DEF Environment, submit, Inputs
    <2>2. dual_enable' \in BOOLEAN /\ ready' \in BOOLEAN /\ reachable' \in [Endpoints -> BOOLEAN]
      BY <1>1, Zenon DEF Environment, Inputs
    <2>3. QED
      BY <2>1, <2>2 DEF Inputs
  <1>2. CASE SubmitLock
    BY <1>2 DEF SubmitLock, Inputs, Control, env
  <1>3. CASE UNCHANGED <<env, subHandle>>
    BY <1>3 DEF Inputs, env
  <1>4. CASE SubmitUnlock
    BY <1>4 DEF SubmitUnlock, Inputs, env
  <1>5. Environment \/ SubmitLock \/ SubmitUnlock \/ UNCHANGED <<env, subHandle>>
    BY DEF Next, TaskNext, ServerNext, vars, env, submit,
      RetryFromDown, CannotStart, TransportInit, ConnectFails, ConnectSucceeds, Publish, CheckEnabled,
      ReceiveFails, SeeRoom, DropOldest, Enqueue, CloseTake, CloseDestroy, CloseClear, ReceiveOther,
      ReceiveNotify, ReceiveReconnect, SubmitChooseUser, SubmitUnlock, Dequeue
  <1>6. QED
    BY <1>1, <1>2, <1>3, <1>4, <1>5

(* Type correctness.                                                       *)
THEOREM TypeCorrect == Spec => []TypeOK
  <1>1. Init => Inputs
    BY DEF Init, Inputs
  <1>2. Control /\ Queue /\ Selector /\ Credentials /\ Inputs => TypeOK
    BY DEF Control, Queue, Selector, Credentials, Inputs, TypeOK, Places, Online, Destroying, Clearing
  <1>3. Selector /\ [Next]_vars => Selector'
    BY SelectorNext
  <1>4. QED
    BY <1>1, <1>2, <1>3, InputsNext, ControlCorrect, QueueInit, QueueNext, SelectorInit,
       CredentialsInit, CredentialsNext, PTL DEF Spec
=============================================================================
