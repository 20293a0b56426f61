-------------------------- MODULE MiningPower_proofs --------------------------
(***************************************************************************)
(* The coordinator, its protocol tasks and the power gate, for every       *)
(* setting, number of retries and length of the event queue: there is      *)
(* never more than one protocol task, it is on the pool that the           *)
(* coordinator runs, and the power gate's flag agrees with the             *)
(* coordinator's state.                                                    *)
(***************************************************************************)
EXTENDS MiningPower, FiniteSetTheorems, TLAPS

USE CoordinatorAssumption

(* The inductive invariant.  A task counts its tries and may count one     *)
(* more from wherever it is.                                               *)
TaskType ==
    /\ task \in [TaskIds -> Task \cup {NoTask}]
    /\ \A t \in Live : task[t].tries <= MaxRetries /\ (task[t].at # "top" => task[t].tries < MaxRetries)

(* What the coordinator believes.                                          *)
Beliefs ==
    /\ UnavailableIffPaused
    /\ s_state # "PAUSED" => s_consecutive_pool_failures < Threshold /\ (is_using_fallback <=> s_state = "FALLBACK")
    /\ s_heartbeat_enabled => s_state = "FALLBACK"
    /\ at \in {"heartbeat", "stop"} => s_state = "FALLBACK"
    /\ at = "recover" => s_state = "PAUSED"
    /\ at # "stop" /\ s_state # "PAUSED" => ~should_shutdown[config.protocol[s_state]]

(* A task tells of its end once, and last: the queue holds nothing of a    *)
(* later time, and by then the task is gone.                               *)
Alone == Live = {} \/ \E t \in TaskIds : Live = {t}
EndIsLast ==
    /\ \A i \in DOMAIN s_event_queue : s_event_queue[i] # SUCCESS => i = Len(s_event_queue) /\ Live = {}
    /\ at # "stop" => \A i \in DOMAIN s_event_queue : s_event_queue[i] \in {SUCCESS, FAILED}
    /\ s_state = "PAUSED" => s_event_queue = <<>> /\ Live = {}

TInv == TypeOK /\ TaskType /\ s_event_queue \in Seq(Events)
IInv == TInv /\ Beliefs /\ Alone /\ EndIsLast /\ RightPool

LEMMA InitIInv == MiningInit => IInv
<1> SUFFICES ASSUME MiningInit PROVE IInv
  OBVIOUS
<1> USE DEF MiningInit, Init
<1> DEFINE u == CHOOSE u \in TaskIds : TRUE
<1>1. u \in TaskIds
  OBVIOUS
<1>2. config \in Configuration /\ s_state \in POOLS /\ Fresh(s_state) \in Task
  BY DEF UsedPool, POOLS, Configuration, Fresh, Task
<1>3. task = [t \in TaskIds |-> IF t = u THEN Fresh(s_state) ELSE NoTask]
  OBVIOUS
<1>4. Live = {u} /\ task[u] = Fresh(s_state)
  BY <1>1, <1>2, <1>3 DEF Live
<1>5. TaskType
  BY <1>2, <1>3, <1>4 DEF TaskType, Fresh
<1>6. TypeOK /\ s_event_queue \in Seq(Events)
  <2>1. s_event_queue \in Seq(Events) /\ Len(s_event_queue) <= QueueLength /\ DOMAIN s_event_queue = {}
    OBVIOUS
  <2>2. \A t \in Live : task[t] \in Task /\ task[t].tries <= MaxRetries
    BY <1>2, <1>4, <1>5 DEF TaskType
  <2>3. ASIC_initalized = (power = "on")
    OBVIOUS
  <2>4. is_using_fallback \in BOOLEAN
    BY <1>2 DEF Configuration
  <2>5. pool \in [POOLS -> PoolStates] /\ should_shutdown \in [Protocols -> BOOLEAN]
    BY DEF PoolStates
  <2>6. s_consecutive_pool_failures \in 0 .. 2 /\ \A i \in DOMAIN s_event_queue : s_event_queue[i] \in Events
    BY <2>1
  <2> QED
    BY <1>2, <2>1, <2>2, <2>3, <2>4, <2>5, <2>6, Zenon DEF TypeOK
<1>7. Beliefs /\ RightPool
  BY <1>2, <1>4 DEF Beliefs, UnavailableIffPaused, Threshold, UsedPool, RightPool, Fresh, POOLS, Configuration
<1>8. Alone
  BY <1>1, <1>4 DEF Alone
<1>9. EndIsLast
  <2>1. s_state # "PAUSED" /\ DOMAIN s_event_queue = {}
    BY <1>2 DEF POOLS
  <2> QED
    BY <2>1 DEF EndIsLast
<1> QED
  BY <1>5, <1>6, <1>7, <1>8, <1>9 DEF IInv, TInv

-----------------------------------------------------------------------------
(* Tasks that go on, tasks that end, a task that starts.                   *)

LEMMA MoveLive ==
    ASSUME TaskType, NEW t \in Live, NEW r \in Task, Move(t, r)
    PROVE  /\ task' \in [TaskIds -> Task \cup {NoTask}] /\ Live' = Live /\ task'[t] = r
           /\ \A u \in TaskIds \ {t} : task'[u] = task[u]
BY DEF TaskType, Move, Live

LEMMA EndLive ==
    ASSUME TaskType, Alone, NEW t \in Live, Move(t, NoTask)
    PROVE  task' \in [TaskIds -> Task \cup {NoTask}] /\ Live' = {}
BY DEF TaskType, Alone, Move, Live

LEMMA StartLive ==
    ASSUME TInv, Live = {}, NEW p \in POOLS, config \in Configurations, Start(p)
    PROVE  /\ task' \in [TaskIds -> Task \cup {NoTask}]
           /\ \E t \in TaskIds : Live' = {t} /\ task'[t] = Fresh(p)
           /\ Fresh(p) \in Task
           /\ should_shutdown' \in [Protocols -> BOOLEAN] /\ ~should_shutdown'[config.protocol[p]]
<1> DEFINE u == CHOOSE t \in TaskIds \ Live : TRUE
<1>1. u \in TaskIds
  OBVIOUS
<1>2. config.protocol[p] \in Protocols /\ Fresh(p) \in Task
  BY DEF Configuration, Fresh, Task
<1>3. task' = [task EXCEPT ![u] = Fresh(p)]
  BY DEF Start, Create
<1>4. Live' = {u} /\ task'[u] = Fresh(p) /\ task' \in [TaskIds -> Task \cup {NoTask}]
  BY <1>1, <1>2, <1>3 DEF TInv, TaskType, Live
<1>5. should_shutdown' \in [Protocols -> BOOLEAN] /\ ~should_shutdown'[config.protocol[p]]
  BY <1>2 DEF Start, TInv, TypeOK
<1> QED
  BY <1>1, <1>2, <1>4, <1>5

(* Cut connections change nothing of what the invariant is about.          *)
LEMMA CutLive ==
    ASSUME TaskType, NEW C \in SUBSET TaskIds,
           task' = [t \in TaskIds |-> IF t \in Live /\ t \in C THEN [task[t] EXCEPT !.cut = TRUE] ELSE task[t]]
    PROVE  /\ TaskType' /\ Live' = Live
           /\ \A t \in Live : task'[t] \in Task /\ task'[t].pool = task[t].pool /\ task'[t].protocol = task[t].protocol
                              /\ task'[t].tries = task[t].tries
<1>1. ASSUME NEW t \in TaskIds
      PROVE  task'[t] = IF t \in Live /\ t \in C THEN [task[t] EXCEPT !.cut = TRUE] ELSE task[t]
  OBVIOUS
<1>2. ASSUME NEW t \in Live
      PROVE  /\ task'[t] \in Task /\ task'[t].pool = task[t].pool /\ task'[t].protocol = task[t].protocol
             /\ task'[t].tries = task[t].tries /\ task'[t].at = task[t].at
  BY <1>1, <1>2 DEF TaskType, Live, Task
<1>3. Live' = Live /\ task' \in [TaskIds -> Task \cup {NoTask}]
  BY <1>1, <1>2 DEF TaskType, Live
<1> QED
  BY <1>2, <1>3 DEF TaskType

(* The events.                                                             *)
LEMMA SendQueue ==
    ASSUME TInv, NEW e \in Events, Send(e)
    PROVE  /\ s_event_queue' \in Seq(Events) /\ Len(s_event_queue') <= QueueLength
           /\ \A i \in DOMAIN s_event_queue' :
                 \/ i \in DOMAIN s_event_queue /\ s_event_queue'[i] = s_event_queue[i]
                 \/ i = Len(s_event_queue') /\ s_event_queue'[i] = e
           /\ Len(s_event_queue') \in {Len(s_event_queue), Len(s_event_queue) + 1}
<1>1. CASE Len(s_event_queue) < QueueLength
  BY <1>1 DEF Send, TInv
<1>2. CASE ~(Len(s_event_queue) < QueueLength)
  BY <1>2 DEF Send, TInv, TypeOK
<1> QED
  BY <1>1, <1>2

LEMMA TailQueue ==
    ASSUME TInv, s_event_queue # <<>>, s_event_queue' = Tail(s_event_queue)
    PROVE  /\ Head(s_event_queue) = s_event_queue[1] /\ 1 \in DOMAIN s_event_queue
           /\ s_event_queue' \in Seq(Events) /\ Len(s_event_queue') = Len(s_event_queue) - 1
           /\ Len(s_event_queue') <= QueueLength
           /\ \A i \in DOMAIN s_event_queue' :
                 i \in Nat /\ i + 1 \in DOMAIN s_event_queue /\ s_event_queue'[i] = s_event_queue[i + 1]
BY DEF TInv, TypeOK

-----------------------------------------------------------------------------
(* The protocol tasks.                                                     *)

Kept == UNCHANGED <<config, environment, ASIC_initalized, should_shutdown, shared, coordinator,
                    mining_paused, power, transportB>>

LEMMA GoesOn ==
    ASSUME IInv, NEW t \in Live, NEW r \in Task, Move(t, r), Kept,
           r.pool = s_state, r.protocol = task[t].protocol,
           r.tries <= MaxRetries, r.at # "top" => r.tries < MaxRetries,
           UNCHANGED s_event_queue \/ Send(SUCCESS)
    PROVE  IInv' /\ Live' = Live
<1> USE DEF IInv
<1>1. /\ task' \in [TaskIds -> Task \cup {NoTask}] /\ Live' = Live /\ task'[t] = r
      /\ \A u \in TaskIds \ {t} : task'[u] = task[u]
  BY MoveLive DEF TInv
<1>2. Live \subseteq TaskIds
  BY DEF Live
<1>3. TaskType'
  BY <1>1, <1>2 DEF TInv, TaskType
<1>4. RightPool'
  BY <1>1, <1>2 DEF RightPool, Kept, coordinator
<1>5. Alone' /\ Beliefs'
  BY <1>1 DEF Alone, Beliefs, UnavailableIffPaused, Threshold, Kept, shared, coordinator
<1>6. /\ s_event_queue' \in Seq(Events) /\ Len(s_event_queue') <= QueueLength
      /\ \A i \in DOMAIN s_event_queue' : s_event_queue'[i] = SUCCESS
      /\ s_state # "PAUSED"
  <2>1. (\A i \in DOMAIN s_event_queue : s_event_queue[i] = SUCCESS) /\ s_state # "PAUSED"
    BY DEF EndIsLast
  <2>2. CASE UNCHANGED s_event_queue
    BY <2>1, <2>2 DEF TInv, TypeOK
  <2>3. CASE Send(SUCCESS)
    BY <2>1, <2>3, SendQueue DEF Events
  <2> QED
    BY <2>1, <2>2, <2>3
<1>7. EndIsLast'
  BY <1>6 DEF EndIsLast, Kept, coordinator
<1>8. TypeOK'
  <2>1. \A u \in Live' : task'[u] \in Task /\ task'[u].tries <= MaxRetries
    BY <1>1, <1>2, <1>3 DEF TaskType, Live
  <2>2. \A i \in DOMAIN s_event_queue' : s_event_queue'[i] \in Events
    BY <1>6 DEF Events
  <2> QED
    BY <1>6, <2>1, <2>2 DEF TInv, TypeOK, Kept, environment, shared, coordinator
<1> QED
  BY <1>1, <1>3, <1>4, <1>5, <1>6, <1>7, <1>8 DEF TInv

LEMMA Ends ==
    ASSUME IInv, NEW t \in Live, Move(t, NoTask), Kept,
           Send(FAILED) \/ (at = "stop" /\ \E p \in Protocols : Send(Exited(p)))
    PROVE  IInv'
<1> USE DEF IInv
<1>1. task' \in [TaskIds -> Task \cup {NoTask}] /\ Live' = {}
  BY EndLive DEF TInv
<1>2. TaskType' /\ RightPool' /\ Alone'
  BY <1>1 DEF TaskType, RightPool, Alone
<1>3. Beliefs'
  BY DEF Beliefs, UnavailableIffPaused, Threshold, Kept, shared, coordinator
<1>4. PICK e \in Events : Send(e) /\ (e # FAILED => at = "stop")
  BY DEF Events
<1>5. /\ s_event_queue' \in Seq(Events) /\ Len(s_event_queue') <= QueueLength
      /\ \A i \in DOMAIN s_event_queue' :
            \/ i \in DOMAIN s_event_queue /\ s_event_queue'[i] = s_event_queue[i]
            \/ i = Len(s_event_queue') /\ s_event_queue'[i] = e
  BY <1>4, SendQueue
<1>6. (\A i \in DOMAIN s_event_queue : s_event_queue[i] = SUCCESS) /\ s_state # "PAUSED"
  BY DEF EndIsLast
<1>7. EndIsLast'
  BY <1>1, <1>4, <1>5, <1>6 DEF EndIsLast, Kept, coordinator
<1>8. TypeOK'
  BY <1>1, <1>5 DEF TInv, TypeOK, Kept, environment, shared, coordinator
<1> QED
  BY <1>2, <1>3, <1>5, <1>7, <1>8 DEF TInv

LEMMA TaskKeeps ==
    ASSUME IInv, NEW t \in TaskIds, TaskNext(t), Steady
    PROVE  IInv' /\ (Live' = Live \/ GiveUp(t) \/ Quit(t))
<1> USE DEF IInv
<1>1. Kept
  BY DEF TaskNext, Steady, Kept
<1>2. ASSUME t \in Live
      PROVE  /\ task[t] \in Task /\ task[t].tries \in 0..MaxRetries
             /\ task[t].at # "top" => task[t].tries < MaxRetries
             /\ task[t].pool = s_state /\ task[t].protocol = config.protocol[s_state]
             /\ s_state \in POOLS
  <2>1. s_state # "PAUSED"
    BY <1>2 DEF EndIsLast
  <2> QED
    BY <1>2, <2>1 DEF TInv, TypeOK, TaskType, RightPool, Live, Task
<1>3. CASE Begin(t)
  <2>1. t \in Live /\ task[t].tries < MaxRetries
    BY <1>3 DEF Begin, Runs
  <2>2. UsedPool = s_state
    BY <1>2, <2>1 DEF UsedPool, Beliefs, POOLS
  <2> DEFINE r == [task[t] EXCEPT !.at = "connect", !.cut = FALSE,
                                  !.pool = IF task[t].protocol = "V1" THEN UsedPool ELSE @]
  <2>3. r \in Task /\ r.pool = s_state /\ r.protocol = task[t].protocol /\ r.tries = task[t].tries
    BY <1>2, <2>1, <2>2 DEF Task
  <2>4. Move(t, r) /\ UNCHANGED s_event_queue
    BY <1>3 DEF Begin, Dials
  <2> HIDE DEF r
  <2> QED
    BY <1>1, <1>2, <2>1, <2>3, <2>4, GoesOn
<1>4. CASE GiveUp(t)
  BY <1>1, <1>4, Ends DEF GiveUp, Runs
<1>5. CASE Quit(t)
  <2>1. t \in Live /\ should_shutdown[task[t].protocol]
    BY <1>5 DEF Quit
  <2>2. at = "stop" /\ task[t].protocol \in Protocols
    BY <1>2, <2>1 DEF Beliefs, POOLS, Task
  <2> QED
    BY <1>1, <1>5, <2>1, <2>2, Ends DEF Quit
<1>6. CASE ConnectFails(t) \/ ReceiveFails(t)
  <2>1. t \in Live /\ task[t].at # "top" /\ UNCHANGED s_event_queue
    BY <1>6 DEF ConnectFails, ReceiveFails, Connected
  <2> DEFINE r == [task[t] EXCEPT !.at = "top", !.tries = @ + 1]
  <2>a. task[t].tries + 1 \in Nat /\ task[t].tries + 1 <= MaxRetries
    BY <1>2, <2>1
  <2>2. r \in Task /\ r.pool = s_state /\ r.protocol = task[t].protocol /\ r.tries <= MaxRetries /\ r.at = "top"
    BY <1>2, <2>1, <2>a DEF Task
  <2>3. Move(t, r)
    BY <1>6 DEF ConnectFails, ReceiveFails, Loses
  <2> HIDE DEF r
  <2> QED
    BY <1>1, <2>1, <2>2, <2>3, GoesOn
<1>7. CASE Connect(t)
  <2>1. t \in Live /\ task[t].at = "connect" /\ UNCHANGED s_event_queue
    BY <1>7 DEF Connect
  <2> DEFINE r == [task[t] EXCEPT !.at = "setup", !.cut = FALSE]
  <2>2. r \in Task /\ r.pool = s_state /\ r.protocol = task[t].protocol /\ r.tries = task[t].tries
    BY <1>2, <2>1 DEF Task
  <2>3. Move(t, r)
    BY <1>7 DEF Connect
  <2> HIDE DEF r
  <2> QED
    BY <1>1, <1>2, <2>1, <2>2, <2>3, GoesOn
<1>8. CASE Configure(t)
  <2>1. t \in Live /\ task[t].at = "setup" /\ Send(SUCCESS)
    BY <1>8 DEF Configure, Succeeds
  <2> DEFINE r == [task[t] EXCEPT !.at = "configured"]
  <2>2. r \in Task /\ r.pool = s_state /\ r.protocol = task[t].protocol /\ r.tries = task[t].tries
    BY <1>2, <2>1 DEF Task
  <2>3. Move(t, r)
    BY <1>8 DEF Configure
  <2> HIDE DEF r
  <2> QED
    BY <1>1, <1>2, <2>1, <2>2, <2>3, GoesOn
<1>9. CASE Establish(t)
  <2>1. t \in Live /\ Send(SUCCESS)
    BY <1>9 DEF Establish, Succeeds
  <2> DEFINE r == [task[t] EXCEPT !.at = "session", !.tries = 0]
  <2>2. r \in Task /\ r.pool = s_state /\ r.protocol = task[t].protocol /\ r.tries = 0
    BY <1>2, <2>1 DEF Task
  <2>3. Move(t, r)
    BY <1>9 DEF Establish
  <2> HIDE DEF r
  <2> QED
    BY <1>1, <1>2, <2>1, <2>2, <2>3, GoesOn
<1>10. CASE Disconnect(t)
  <2>1. t \in Live /\ UNCHANGED s_event_queue
    BY <1>10 DEF Disconnect
  <2> DEFINE n == IF ASIC_initalized THEN task[t].tries ELSE 0
             r == [task[t] EXCEPT !.at = "top", !.tries = n]
  <2>a. n \in Nat /\ n <= MaxRetries
    BY <1>2, <2>1, n = task[t].tries \/ n = 0
  <2>2. r \in Task /\ r.pool = s_state /\ r.protocol = task[t].protocol /\ r.tries <= MaxRetries /\ r.at = "top"
    <3> HIDE DEF n
    <3> QED
      BY <1>2, <2>1, <2>a DEF Task
  <2>3. Move(t, r)
    BY <1>10 DEF Disconnect
  <2> HIDE DEF r
  <2> QED
    BY <1>1, <1>2, <2>1, <2>2, <2>3, GoesOn
<1> QED
  BY <1>3, <1>4, <1>5, <1>6, <1>7, <1>8, <1>9, <1>10 DEF TaskNext, Attempt, Leave

-----------------------------------------------------------------------------
(* The coordinator.                                                        *)

Outside == UNCHANGED <<config, environment, ASIC_initalized, mining_paused, power, transportB>>

(* A task is started when there is none and nothing waits to be heard.     *)
LEMMA Started ==
    ASSUME IInv, Outside, NEW p \in POOLS, Live = {}, Start(p),
           s_state' = p, at' = "receive", s_event_queue' = <<>>, pools_unavailable' = FALSE,
           is_using_fallback' \in BOOLEAN, is_using_fallback' <=> p = "FALLBACK",
           s_consecutive_pool_failures' \in 0..2, s_consecutive_pool_failures' < Threshold,
           s_heartbeat_enabled' \in BOOLEAN, s_heartbeat_enabled' => p = "FALLBACK"
    PROVE  IInv'
<1> USE DEF IInv
<1>1. config \in Configurations /\ config' = config
  BY DEF TInv, TypeOK, Outside
<1>2. /\ task' \in [TaskIds -> Task \cup {NoTask}] /\ Fresh(p) \in Task
      /\ should_shutdown' \in [Protocols -> BOOLEAN] /\ ~should_shutdown'[config.protocol[p]]
  BY <1>1, StartLive
<1>3. PICK t \in TaskIds : Live' = {t} /\ task'[t] = Fresh(p)
  BY <1>1, StartLive
<1>4. TaskType' /\ Alone'
  BY <1>2, <1>3 DEF TaskType, Alone, Fresh
<1>5. RightPool'
  BY <1>1, <1>3 DEF RightPool, Fresh
<1>6. p # "PAUSED"
  BY DEF POOLS
<1>7. Beliefs'
  BY <1>1, <1>2, <1>6 DEF Beliefs, UnavailableIffPaused, Threshold
<1>8. EndIsLast'
  <2>1. DOMAIN s_event_queue' = {}
    OBVIOUS
  <2> QED
    BY <1>6, <2>1 DEF EndIsLast
<1>9. TypeOK' /\ s_event_queue' \in Seq(Events)
  <2>1. \A u \in Live' : task'[u] \in Task /\ task'[u].tries <= MaxRetries
    BY <1>2, <1>3, <1>4 DEF TaskType
  <2>2. s_event_queue' \in Seq(Events) /\ Len(s_event_queue') <= QueueLength /\ DOMAIN s_event_queue' = {}
    OBVIOUS
  <2>3. /\ config' \in Configurations /\ pool' \in [POOLS -> PoolStates] /\ wifi' \in BOOLEAN
        /\ power' \in {"on", "paused", "cooling"} /\ ASIC_initalized' = (power' = "on")
        /\ mining_paused' \in BOOLEAN /\ transportB' \in BOOLEAN
    BY DEF Outside, environment, TInv, TypeOK
  <2>4. pools_unavailable' \in BOOLEAN /\ s_state' \in POOLS \cup {"PAUSED"}
    OBVIOUS
  <2> QED
    BY <1>2, <2>1, <2>2, <2>3, <2>4, Zenon DEF TypeOK
<1> QED
  BY <1>4, <1>5, <1>7, <1>8, <1>9 DEF TInv

(* Nothing but the queue, the place in the loop or a flag changes.         *)
LEMMA StillThere ==
    ASSUME IInv, Outside, UNCHANGED <<task, is_using_fallback, pools_unavailable, s_state, s_heartbeat_enabled>>,
           TypeOK', Beliefs', s_event_queue' \in Seq(Events), EndIsLast'
    PROVE  IInv'
BY DEF IInv, TInv, TaskType, Live, Alone, RightPool, Outside

LEMMA HandleKeeps == ASSUME IInv, Outside, HandleEvent PROVE IInv'
<1> USE DEF IInv
<1> DEFINE evt == Head(s_event_queue)
<1>1. /\ at' = at /\ at = "receive" /\ s_event_queue' = Tail(s_event_queue)
      /\ evt = s_event_queue[1] /\ 1 \in DOMAIN s_event_queue
      /\ s_event_queue' \in Seq(Events) /\ Len(s_event_queue') = Len(s_event_queue) - 1 /\ Len(s_event_queue') <= QueueLength
      /\ \A i \in DOMAIN s_event_queue' :
            i \in Nat /\ i + 1 \in DOMAIN s_event_queue /\ s_event_queue'[i] = s_event_queue[i + 1]
  BY TailQueue DEF HandleEvent
<1>2. s_state \in POOLS
  BY <1>1 DEF EndIsLast, TInv, TypeOK
<1>3. evt \in {SUCCESS, FAILED}
  BY <1>1 DEF EndIsLast
<1>4. CASE evt = FAILED /\ Failed
  <2>1. Live = {} /\ s_event_queue' = <<>>
    <3>1. Live = {} /\ 1 = Len(s_event_queue)
      BY <1>1, <1>4 DEF EndIsLast, FAILED, SUCCESS
    <3>2. Len(s_event_queue') = 0
      BY <1>1, <3>1
    <3> QED
      BY <1>1, <3>1, <3>2
  <2>2. /\ s_consecutive_pool_failures' = s_consecutive_pool_failures + 1
        /\ s_consecutive_pool_failures \in Nat /\ s_consecutive_pool_failures < Threshold /\ Threshold \in 1..2
    BY <1>2, <1>4 DEF Failed, Beliefs, Threshold, TInv, TypeOK, POOLS
  <2>3. CASE s_consecutive_pool_failures' < Threshold
    <3>1. PICK p \in POOLS : Run(p) /\ s_heartbeat_enabled' = (p = "FALLBACK" /\ ~config.use_fallback_stratum)
      BY <1>4, <2>2, <2>3 DEF Failed
    <3>2. pools_unavailable' = FALSE
      <4>1. pools_unavailable' = pools_unavailable
        BY <1>4, <2>2, <2>3 DEF Failed
      <4>2. pools_unavailable \in BOOLEAN /\ ~pools_unavailable
        BY <1>2 DEF TInv, TypeOK, Beliefs, UnavailableIffPaused, POOLS
      <4> QED
        BY <4>1, <4>2
    <3>3. /\ s_heartbeat_enabled' \in BOOLEAN /\ is_using_fallback' \in BOOLEAN
          /\ s_heartbeat_enabled' => p = "FALLBACK"
          /\ is_using_fallback' <=> p = "FALLBACK"
      BY <3>1 DEF Run
    <3>4. Start(p) /\ s_state' = p
      BY <3>1 DEF Run
    <3>5. s_consecutive_pool_failures' \in 0..2
      BY <2>2, <2>3
    <3> QED
      BY <1>1, <2>1, <2>3, <3>2, <3>3, <3>4, <3>5, Started
  <2>4. CASE ~(s_consecutive_pool_failures' < Threshold)
    <3>1. /\ s_state' = "PAUSED" /\ pools_unavailable' = TRUE /\ s_heartbeat_enabled' = FALSE
          /\ UNCHANGED <<task, should_shutdown, is_using_fallback>>
      BY <1>4, <2>2, <2>4 DEF Failed
    <3>2. Live' = {} /\ TaskType' /\ Alone' /\ RightPool'
      BY <2>1, <3>1 DEF Live, TInv, TaskType, Alone, RightPool
    <3>3. Beliefs' /\ EndIsLast'
      BY <1>1, <2>1, <3>1, <3>2 DEF Beliefs, UnavailableIffPaused, EndIsLast
    <3>4. TypeOK'
      <4>1. s_consecutive_pool_failures' \in 0..2
        BY <2>2
      <4>2. \A i \in DOMAIN s_event_queue' : s_event_queue'[i] \in Events
        BY <1>1
      <4>3. /\ config' \in Configurations /\ pool' \in [POOLS -> PoolStates] /\ wifi' \in BOOLEAN
            /\ power' \in {"on", "paused", "cooling"} /\ ASIC_initalized' = (power' = "on")
            /\ mining_paused' \in BOOLEAN /\ transportB' \in BOOLEAN
        BY DEF Outside, environment, TInv, TypeOK
      <4>4. /\ should_shutdown' \in [Protocols -> BOOLEAN] /\ is_using_fallback' \in BOOLEAN
            /\ at' \in {"receive", "heartbeat", "stop", "recover"}
        BY <1>1, <3>1 DEF TInv, TypeOK
      <4> QED
        BY <1>1, <3>1, <3>2, <4>1, <4>2, <4>3, <4>4, Zenon DEF TypeOK
    <3> QED
      BY <1>1, <3>2, <3>3, <3>4 DEF TInv
  <2> QED
    BY <2>3, <2>4
<1>5. CASE evt = SUCCESS /\ Succeeded
  <2>1. /\ s_consecutive_pool_failures' = 0 /\ pools_unavailable' = FALSE
        /\ UNCHANGED <<task, should_shutdown, is_using_fallback, s_state, s_heartbeat_enabled>>
    BY <1>5 DEF Succeeded
  <2>2. ~pools_unavailable /\ pools_unavailable \in BOOLEAN
    BY <1>2 DEF Beliefs, UnavailableIffPaused, POOLS, TInv, TypeOK
  <2>3. Live' = Live
    BY <2>1 DEF Live
  <2>4. TypeOK'
    <3>1. 0 \in 0..2 /\ \A i \in DOMAIN s_event_queue' : s_event_queue'[i] \in Events
      BY <1>1
    <3> QED
      BY <1>1, <2>1, <2>2, <2>3, <3>1 DEF TInv, TypeOK, Outside, environment
  <2>5. Beliefs'
    <3>1. Threshold' = Threshold /\ 0 < Threshold /\ config' = config
      BY DEF Threshold, Outside
    <3> QED
      BY <1>1, <2>1, <2>2, <3>1 DEF Beliefs, UnavailableIffPaused
  <2>6. EndIsLast'
    BY <1>1, <1>2, <2>1, <2>3 DEF EndIsLast, POOLS
  <2> QED
    BY <1>1, <2>1, <2>2, <2>4, <2>5, <2>6, StillThere
<1> QED
  BY <1>2, <1>3, <1>4, <1>5 DEF HandleEvent, POOLS, FAILED, SUCCESS

(* Only the place in the loop changes.                                     *)
LEMMA MovesOn ==
    ASSUME IInv, Outside,
           UNCHANGED <<task, s_event_queue, should_shutdown, shared, s_state, s_heartbeat_enabled, s_consecutive_pool_failures>>,
           at # "stop", at' \in {"receive", "heartbeat", "recover"},
           at' = "heartbeat" => s_state = "FALLBACK", at' = "recover" => s_state = "PAUSED"
    PROVE  IInv'
<1> USE DEF IInv
<1>1. TypeOK'
  BY DEF TInv, TypeOK, Outside, environment, shared, Live
<1>2. Beliefs'
  BY DEF Beliefs, UnavailableIffPaused, Threshold, Outside, shared
<1>3. EndIsLast'
  BY DEF EndIsLast, Live
<1>4. s_event_queue' \in Seq(Events)
  BY DEF TInv
<1> QED
  BY <1>1, <1>2, <1>3, <1>4, StillThere DEF shared

LEMMA StopKeeps == ASSUME IInv, Outside, Stop PROVE IInv'
<1> USE DEF IInv
<1> DEFINE C == {t \in TaskIds : task[t].at \in Connected}
<1>1. /\ at = "heartbeat" /\ at' = "stop"
      /\ should_shutdown' = [should_shutdown EXCEPT ![config.protocol[s_state]] = TRUE]
      /\ UNCHANGED <<s_event_queue, shared, s_state, s_heartbeat_enabled, s_consecutive_pool_failures>>
  BY DEF Stop
<1>2. task' = [t \in TaskIds |-> IF t \in Live /\ t \in C THEN [task[t] EXCEPT !.cut = TRUE] ELSE task[t]]
  BY DEF Stop, Live
<1>3. /\ TaskType' /\ Live' = Live
      /\ \A t \in Live : task'[t] \in Task /\ task'[t].pool = task[t].pool /\ task'[t].protocol = task[t].protocol
                         /\ task'[t].tries = task[t].tries
  <2> HIDE DEF C
  <2>1. C \in SUBSET TaskIds
    BY DEF C
  <2> QED
    BY <1>2, <2>1, CutLive DEF TInv
<1>4. Alone' /\ RightPool'
  BY <1>1, <1>3 DEF Alone, RightPool, Outside
<1>5. Beliefs'
  BY <1>1 DEF Beliefs, UnavailableIffPaused, Threshold, Outside, shared
<1>6. EndIsLast'
  BY <1>1, <1>3 DEF EndIsLast
<1>7. TypeOK'
  <2>1. should_shutdown' \in [Protocols -> BOOLEAN]
    BY <1>1 DEF TInv, TypeOK
  <2> QED
    BY <1>1, <1>3, <2>1 DEF TInv, TypeOK, Outside, environment, shared
<1>8. s_event_queue' \in Seq(Events)
  BY <1>1 DEF TInv
<1> QED
  BY <1>3, <1>4, <1>5, <1>6, <1>7, <1>8 DEF TInv

LEMMA SwitchKeeps ==
    ASSUME IInv, Outside, at = "stop", Live = {}, SwitchToPrimary, s_event_queue' = <<>>
    PROVE  IInv'
<1> USE DEF IInv
<1>1. s_state = "FALLBACK" /\ s_state # "PAUSED"
  BY DEF Beliefs
<1>2. pools_unavailable' = FALSE
  <2>1. pools_unavailable' = pools_unavailable
    BY DEF SwitchToPrimary, Switched
  <2>2. pools_unavailable \in BOOLEAN /\ ~pools_unavailable
    BY <1>1 DEF TInv, TypeOK, Beliefs, UnavailableIffPaused
  <2> QED
    BY <2>1, <2>2
<1>3. s_consecutive_pool_failures' \in 0..2 /\ s_consecutive_pool_failures' < Threshold
  BY <1>1 DEF SwitchToPrimary, Switched, TInv, TypeOK, Beliefs
<1>4. /\ is_using_fallback' = FALSE /\ s_heartbeat_enabled' = FALSE
      /\ Start("PRIMARY") /\ s_state' = "PRIMARY" /\ at' = "receive"
  BY DEF SwitchToPrimary, Switched
<1>5. is_using_fallback' \in BOOLEAN /\ s_heartbeat_enabled' \in BOOLEAN /\ ~is_using_fallback' /\ ~s_heartbeat_enabled'
  BY <1>4
<1>6. is_using_fallback' <=> "PRIMARY" = "FALLBACK"
  BY <1>5
<1> QED
  BY <1>2, <1>3, <1>4, <1>5, <1>6, Started DEF POOLS

LEMMA AwaitKeeps == ASSUME IInv, Outside, AwaitExit PROVE IInv'
<1> USE DEF IInv
<1> DEFINE evt == Head(s_event_queue)
<1>1. /\ at = "stop" /\ s_event_queue' = Tail(s_event_queue) /\ s_state = "FALLBACK"
      /\ evt = s_event_queue[1] /\ 1 \in DOMAIN s_event_queue
      /\ s_event_queue' \in Seq(Events) /\ Len(s_event_queue') = Len(s_event_queue) - 1 /\ Len(s_event_queue') <= QueueLength
      /\ \A i \in DOMAIN s_event_queue' :
            i \in Nat /\ i + 1 \in DOMAIN s_event_queue /\ s_event_queue'[i] = s_event_queue[i + 1]
  BY TailQueue DEF AwaitExit, Beliefs
<1>2. CASE Gone(evt) /\ SwitchToPrimary
  <2>1. evt # SUCCESS
    BY <1>2 DEF Gone, Exited, FAILED, SUCCESS
  <2>2. 1 = Len(s_event_queue) /\ Live = {}
    BY <1>1, <2>1 DEF EndIsLast
  <2>3. s_event_queue' = <<>>
    BY <1>1, <2>2
  <2> QED
    BY <1>1, <1>2, <2>2, <2>3, SwitchKeeps
<1>3. CASE ~Gone(evt) /\ UNCHANGED <<task, should_shutdown, shared, coordinator>>
  <2>1. Live' = Live /\ at' = "stop"
    BY <1>1, <1>3 DEF Live, coordinator
  <2>2. TypeOK'
    <3>1. \A i \in DOMAIN s_event_queue' : s_event_queue'[i] \in Events
      BY <1>1
    <3> QED
      BY <1>1, <1>3, <2>1, <3>1 DEF TInv, TypeOK, Outside, environment, shared, coordinator
  <2>3. Beliefs'
    BY <1>3 DEF Beliefs, UnavailableIffPaused, Threshold, Outside, shared, coordinator
  <2>4. EndIsLast'
    BY <1>1, <1>3, <2>1 DEF EndIsLast, coordinator
  <2> QED
    BY <1>1, <1>3, <2>2, <2>3, <2>4, StillThere DEF shared, coordinator
<1> QED
  BY <1>2, <1>3 DEF AwaitExit

LEMMA StopTimeoutKeeps == ASSUME IInv, StopsInTime = TRUE, Outside, StopTimeout PROVE IInv'
<1> USE DEF IInv
<1>1. at = "stop" /\ s_event_queue = <<>> /\ s_event_queue' = <<>> /\ SwitchToPrimary
  BY DEF StopTimeout
<1>2. Live = {}
  BY DEF StopTimeout, RightPool
<1> QED
  BY <1>1, <1>2, SwitchKeeps

LEMMA ResumeKeeps == ASSUME IInv, Outside, TryResume PROVE IInv'
<1> USE DEF IInv
<1>1. /\ at = "recover" /\ at' = "receive" /\ UNCHANGED s_event_queue
      /\ s_state = "PAUSED" /\ s_event_queue = <<>> /\ Live = {}
  BY DEF TryResume, Beliefs, EndIsLast
<1>2. CASE Ignored
  BY <1>1, <1>2, MovesOn DEF Ignored
<1>3. ASSUME NEW p \in POOLS, ResumeOn(p) PROVE IInv'
  <2>1. /\ s_state' = p /\ Start(p) /\ pools_unavailable' = FALSE /\ s_consecutive_pool_failures' = 0
        /\ is_using_fallback' = (p = "FALLBACK")
        /\ s_heartbeat_enabled' = (p = "FALLBACK" /\ ~config.use_fallback_stratum)
    BY <1>3 DEF ResumeOn, Resumed, Run
  <2>2. /\ is_using_fallback' \in BOOLEAN /\ s_heartbeat_enabled' \in BOOLEAN
        /\ is_using_fallback' <=> p = "FALLBACK"
        /\ s_heartbeat_enabled' => p = "FALLBACK"
    BY <2>1
  <2>3. s_consecutive_pool_failures' \in 0..2 /\ s_consecutive_pool_failures' < Threshold
    BY <2>1 DEF Threshold
  <2> QED
    BY <1>1, <2>1, <2>2, <2>3, Started
<1> QED
  BY <1>2, <1>3 DEF TryResume

LEMMA CoordinatorKeeps == ASSUME IInv, StopsInTime = TRUE, CoordinatorNext, Steady PROVE IInv'
<1>1. Outside
  BY DEF CoordinatorNext, Steady, Outside
<1>2. CASE HandleEvent
  BY <1>1, <1>2, HandleKeeps
<1>3. CASE HeartbeatTimeout
  <2>1. s_state = "FALLBACK"
    BY <1>3 DEF HeartbeatTimeout, IInv, Beliefs
  <2> QED
    BY <1>1, <1>3, <2>1, MovesOn DEF HeartbeatTimeout
<1>4. CASE ProbeFails
  BY <1>1, <1>4, MovesOn DEF ProbeFails
<1>5. CASE Stop
  BY <1>1, <1>5, StopKeeps
<1>6. CASE AwaitExit
  BY <1>1, <1>6, AwaitKeeps
<1>7. CASE StopTimeout
  BY <1>1, <1>7, StopTimeoutKeeps
<1>8. CASE RecoveryTimeout
  BY <1>1, <1>8, MovesOn DEF RecoveryTimeout
<1>9. CASE TryResume
  BY <1>1, <1>9, ResumeKeeps
<1> QED
  BY <1>2, <1>3, <1>4, <1>5, <1>6, <1>7, <1>8, <1>9 DEF CoordinatorNext

-----------------------------------------------------------------------------
(* The pools, the power task, Pool B and the user.                         *)

LEMMA EnvironmentCuts ==
    ASSUME IInv, Environment
    PROVE  /\ TaskType' /\ Live' = Live
           /\ \A t \in Live : task'[t] \in Task /\ task'[t].pool = task[t].pool /\ task'[t].protocol = task[t].protocol
                              /\ task'[t].tries = task[t].tries
<1>1. PICK C \in SUBSET TaskIds :
        task' = [t \in TaskIds |-> IF t \in Live /\ t \in C THEN [task[t] EXCEPT !.cut = TRUE] ELSE task[t]]
  <2>1. PICK P \in SUBSET POOLS : CutAll(P)
    BY DEF Environment, WifiChanges, PoolChanges
  <2> DEFINE C == {t \in TaskIds : task[t].at \in Connected /\ task[t].pool \in P}
  <2>2. task' = [t \in TaskIds |-> IF t \in Live /\ t \in C THEN [task[t] EXCEPT !.cut = TRUE] ELSE task[t]]
    BY <2>1 DEF CutAll, Live
  <2> QED
    BY <2>2
<1> QED
  BY <1>1, CutLive DEF IInv, TInv

LEMMA EnvironmentKeeps == ASSUME IInv, Environment, Steady PROVE IInv'
<1> USE DEF IInv
<1>1. UNCHANGED <<config, ASIC_initalized, s_event_queue, should_shutdown, shared, coordinator, mining_paused, power, transportB>>
  BY DEF Environment, Steady
<1>3. /\ TaskType' /\ Live' = Live
      /\ \A t \in Live : task'[t] \in Task /\ task'[t].pool = task[t].pool /\ task'[t].protocol = task[t].protocol
                         /\ task'[t].tries = task[t].tries
  BY EnvironmentCuts
<1>4. pool' \in [POOLS -> PoolStates] /\ wifi' \in BOOLEAN
  <2>1. CASE WifiChanges
    BY <2>1 DEF WifiChanges, TInv, TypeOK
  <2>2. CASE \E p \in POOLS : PoolChanges(p)
    BY <2>2 DEF PoolChanges, TInv, TypeOK
  <2> QED
    BY <2>1, <2>2 DEF Environment
<1>5. Alone' /\ RightPool' /\ EndIsLast'
  BY <1>1, <1>3 DEF Alone, RightPool, EndIsLast, coordinator
<1>6. Beliefs'
  BY <1>1 DEF Beliefs, UnavailableIffPaused, Threshold, shared, coordinator
<1>7. TypeOK'
  BY <1>1, <1>3, <1>4 DEF TInv, TypeOK, shared, coordinator
<1>8. s_event_queue' \in Seq(Events)
  BY <1>1 DEF TInv
<1> QED
  BY <1>3, <1>5, <1>6, <1>7, <1>8 DEF TInv

(* The rest leaves the coordinator and the tasks alone.                    *)
LEMMA OthersKeep ==
    ASSUME IInv,
           UNCHANGED <<config, environment, task, s_event_queue, should_shutdown, shared, coordinator>>,
           power' \in {"on", "paused", "cooling"}, ASIC_initalized' = (power' = "on"),
           mining_paused' \in BOOLEAN, transportB' \in BOOLEAN
    PROVE  IInv'
<1> USE DEF IInv
<1>1. Live' = Live
  BY DEF Live
<1>2. TypeOK'
  <2>1. /\ config' \in Configurations /\ pool' \in [POOLS -> PoolStates] /\ wifi' \in BOOLEAN
        /\ \A t \in Live' : task'[t] \in Task /\ task'[t].tries <= MaxRetries
        /\ Len(s_event_queue') <= QueueLength /\ \A i \in DOMAIN s_event_queue' : s_event_queue'[i] \in Events
        /\ should_shutdown' \in [Protocols -> BOOLEAN]
        /\ is_using_fallback' \in BOOLEAN /\ pools_unavailable' \in BOOLEAN
        /\ at' \in {"receive", "heartbeat", "stop", "recover"}
        /\ s_state' \in POOLS \cup {"PAUSED"} /\ s_heartbeat_enabled' \in BOOLEAN
        /\ s_consecutive_pool_failures' \in 0 .. 2
    BY <1>1 DEF TInv, TypeOK, environment, shared, coordinator
  <2> QED
    BY <2>1, Zenon DEF TypeOK
<1>3. TaskType' /\ Alone' /\ RightPool' /\ EndIsLast' /\ s_event_queue' \in Seq(Events)
  BY <1>1 DEF TInv, TaskType, Alone, RightPool, EndIsLast, coordinator
<1>4. Beliefs'
  BY DEF Beliefs, UnavailableIffPaused, Threshold, shared, coordinator
<1> QED
  BY <1>2, <1>3, <1>4 DEF TInv

LEMMA NextKeeps == ASSUME IInv, StopsInTime = TRUE, [MiningNext]_all PROVE IInv'
<1>1. CASE Supervise
  BY <1>1, CoordinatorKeeps DEF Supervise
<1>2. CASE Environment /\ Steady
  BY <1>2, EnvironmentKeeps
<1>3. ASSUME NEW t \in TaskIds, TaskNext(t), Steady PROVE IInv'
  BY <1>3, TaskKeeps
<1>4. power \in {"on", "paused", "cooling"} /\ mining_paused \in BOOLEAN /\ transportB \in BOOLEAN
  BY DEF IInv, TInv, TypeOK
<1>5. ASIC_initalized = (power = "on")
  BY DEF IInv, TInv, TypeOK
<1>6. CASE PowerNext
  <2>1. PICK to \in {"on", "paused", "cooling"} : Switch(to)
    BY <1>6 DEF PowerNext, PowerDown, PowerUp, Overheat, CoolDown
  <2>2. power' = to /\ ASIC_initalized' = (power' = "on")
    BY <2>1, Zenon DEF Switch
  <2> QED
    BY <1>4, <1>6, <2>2, OthersKeep DEF PowerNext
<1>7. CASE PoolBNext
  <2>1. transportB' \in BOOLEAN
    BY <1>7 DEF PoolBNext, ConnectB, LoseB
  <2>2. UNCHANGED <<power, ASIC_initalized, mining_paused, config, environment, task, s_event_queue, should_shutdown, shared, coordinator>>
    BY <1>7 DEF PoolBNext, vars
  <2>3. ASIC_initalized' = (power' = "on")
    BY <1>5, <2>2, Zenon
  <2> QED
    BY <1>4, <2>1, <2>2, <2>3, OthersKeep
<1>8. CASE User
  <2>1. mining_paused' \in BOOLEAN
    BY <1>4, <1>8 DEF User
  <2>2. UNCHANGED <<power, ASIC_initalized, transportB, config, environment, task, s_event_queue, should_shutdown, shared, coordinator>>
    BY <1>8 DEF User, vars
  <2>3. ASIC_initalized' = (power' = "on")
    BY <1>5, <2>2, Zenon
  <2> QED
    BY <1>4, <2>1, <2>2, <2>3, OthersKeep
<1>9. CASE UNCHANGED all
  <2>1. UNCHANGED <<power, ASIC_initalized, mining_paused, transportB, config, environment, task, s_event_queue, should_shutdown, shared, coordinator>>
    BY <1>9 DEF all, vars
  <2>2. ASIC_initalized' = (power' = "on")
    BY <1>5, <2>1, Zenon
  <2> QED
    BY <1>4, <2>1, <2>2, OthersKeep
<1> QED
  BY <1>1, <1>2, <1>3, <1>6, <1>7, <1>8, <1>9 DEF MiningNext, Tasks

-----------------------------------------------------------------------------

LEMMA Invariant == ASSUME StopsInTime = TRUE PROVE Spec => []IInv
<1>1. MiningInit => IInv
  BY InitIInv
<1>2. IInv /\ [MiningNext]_all => IInv'
  BY NextKeeps
<1> QED
  BY <1>1, <1>2, PTL DEF Spec

(* Every variable keeps its type, and the chips are marked as the power    *)
(* task left them, for a coordinator whose stops end in time.              *)
THEOREM TypeCorrect == ASSUME StopsInTime = TRUE PROVE Spec => []TypeOK
<1>1. IInv => TypeOK
  BY DEF IInv, TInv
<1> QED
  BY <1>1, Invariant, PTL

(* Never two protocol tasks on Pool A's transport and queue, none once     *)
(* paused: the stop waits for the exit, and a failure is told by a task    *)
(* that has left.                                                          *)
THEOREM OnePoolATask == ASSUME StopsInTime = TRUE PROVE Spec => []OneTask
<1>1. IInv => OneTask
  <2> SUFFICES ASSUME IInv PROVE OneTask
    OBVIOUS
  <2>1. s_state = "PAUSED" => Live = {}
    BY DEF IInv, EndIsLast
  <2>2. Cardinality(Live) <= 1
    <3>1. CASE Live = {}
      BY <3>1, FS_EmptySet
    <3>2. CASE \E t \in TaskIds : Live = {t}
      <4>1. PICK t \in TaskIds : Live = {t}
        BY <3>2
      <4>2. Cardinality({t}) = 1
        BY FS_Singleton
      <4> QED
        BY <4>1, <4>2
    <3> QED
      BY <3>1, <3>2 DEF IInv, Alone
  <2> QED
    BY <2>1, <2>2 DEF OneTask
<1> QED
  BY <1>1, Invariant, PTL

(* A task is on the pool that the coordinator runs, with that pool's       *)
(* protocol, although V1 reads is_using_fallback anew at each attempt.     *)
THEOREM TaskOnRightPool == ASSUME StopsInTime = TRUE PROVE Spec => []RightPool
<1>1. IInv => RightPool
  BY DEF IInv
<1> QED
  BY <1>1, Invariant, PTL

(* The power gate sees Pool A unavailable exactly while it is paused.      *)
THEOREM GateAgrees == ASSUME StopsInTime = TRUE PROVE Spec => []UnavailableIffPaused
<1>1. IInv => UnavailableIffPaused
  BY DEF IInv, Beliefs
<1> QED
  BY <1>1, Invariant, PTL

-----------------------------------------------------------------------------
(* One pool is worked on at a time (Supervision).  Beside the invariant    *)
(* this needs that the heartbeat, and a stop, are for a fallback that the  *)
(* user did not choose.                                                    *)
Working == {[pool |-> task[t].pool, protocol |-> task[t].protocol] : t \in Live}
Alert   == s_heartbeat_enabled \/ at \in {"heartbeat", "stop"} => ~config.use_fallback_stratum
OneWork == Working = IF Live = {} THEN {} ELSE {Supervised!On(s_state)}
SInv    == IInv /\ Alert /\ OneWork

LEMMA WorkIsOne == IInv => OneWork
<1> SUFFICES ASSUME IInv PROVE OneWork
  OBVIOUS
<1>1. \A t \in Live : [pool |-> task[t].pool, protocol |-> task[t].protocol] = Supervised!On(s_state)
  BY DEF IInv, RightPool, Supervised!On
<1>2. Live = {} => Working = {}
  BY DEF Working
<1>3. Live # {} => Working = {Supervised!On(s_state)}
  BY <1>1 DEF Working
<1> QED
  BY <1>2, <1>3 DEF OneWork

LEMMA AlertStays ==
    ASSUME IInv, Alert, [MiningNext]_all
    PROVE  Alert' /\ config' = config
<1>1. CASE Supervise
  <2>1. config' = config
    BY <1>1 DEF Supervise, CoordinatorNext
  <2>2. CASE HandleEvent
    <3>1. at' = at
      BY <2>2 DEF HandleEvent
    <3>2. \/ s_heartbeat_enabled' = s_heartbeat_enabled
          \/ s_heartbeat_enabled' = FALSE
          \/ \E p \in POOLS : s_heartbeat_enabled' = (p = "FALLBACK" /\ ~config.use_fallback_stratum)
      BY <2>2 DEF HandleEvent, Failed, Succeeded, Ignored
    <3>3. s_heartbeat_enabled' => s_heartbeat_enabled \/ ~config.use_fallback_stratum
      BY <3>2, Zenon
    <3> QED
      BY <2>1, <3>1, <3>3 DEF Alert
  <2>3. CASE TryResume
    <3>1. at' = "receive"
      BY <2>3 DEF TryResume
    <3>2. \/ s_heartbeat_enabled' = s_heartbeat_enabled
          \/ \E p \in POOLS : s_heartbeat_enabled' = (p = "FALLBACK" /\ ~config.use_fallback_stratum)
      BY <2>3 DEF TryResume, Ignored, ResumeOn, Resumed
    <3>3. s_heartbeat_enabled' => s_heartbeat_enabled \/ ~config.use_fallback_stratum
      BY <3>2, Zenon
    <3> QED
      BY <2>1, <3>1, <3>3 DEF Alert
  <2>4. CASE HeartbeatTimeout \/ ProbeFails \/ Stop \/ RecoveryTimeout
    BY <2>1, <2>4 DEF HeartbeatTimeout, ProbeFails, Stop, RecoveryTimeout, Alert
  <2>5. CASE AwaitExit \/ StopTimeout
    BY <2>1, <2>5 DEF AwaitExit, StopTimeout, SwitchToPrimary, Switched, coordinator, Alert
  <2> QED
    BY <1>1, <2>1, <2>2, <2>3, <2>4, <2>5 DEF Supervise, CoordinatorNext
<1>2. CASE UNCHANGED <<config, s_heartbeat_enabled, at>>
  BY <1>2 DEF Alert
<1>3. Supervise \/ UNCHANGED <<config, s_heartbeat_enabled, at>>
  BY DEF MiningNext, Tasks, Environment, TaskNext, PowerNext, PoolBNext, User, all, vars, coordinator
<1> QED
  BY <1>1, <1>2, <1>3

LEMMA SInvariant == ASSUME StopsInTime = TRUE PROVE Spec => []SInv
<1>1. MiningInit => Alert
  BY DEF MiningInit, Init, Alert
<1>2. IInv /\ Alert /\ [MiningNext]_all => Alert'
  BY AlertStays
<1>3. IInv => OneWork
  BY WorkIsOne
<1> QED
  BY <1>1, <1>2, <1>3, Invariant, PTL DEF Spec, SInv

(* What changes of it is the choice, and whether anybody works.            *)
SameWork == Live' = Live /\ UNCHANGED <<config, s_state, pools_unavailable, s_consecutive_pool_failures>>

LEMMA SameWorkStutters == ASSUME SInv, SInv', SameWork PROVE UNCHANGED Supervised!vars
<1>1. Supervised!On(s_state)' = Supervised!On(s_state)
  BY DEF SameWork, Supervised!On
<1>2. Working' = Working
  BY <1>1 DEF SameWork, SInv, OneWork
<1> QED
  BY <1>2 DEF SameWork, Supervised!vars, Working

LEMMA Turned ==
    ASSUME SInv, SInv', NEW p \in POOLS, Live = {}, Start(p), s_state' = p, config' = config,
           pools_unavailable' = FALSE
    PROVE  Supervised!Turn(p)
<1>1. Working = {}
  BY DEF SInv, OneWork
<1>2. Live' # {}
  BY StartLive DEF SInv, IInv, TInv, TypeOK
<1>3. Working' = {Supervised!On(p)}
  BY <1>2 DEF SInv, OneWork, Supervised!On
<1> QED
  BY <1>1, <1>3 DEF Supervised!Turn, Working

LEMMA Heard == ASSUME SInv, SInv', HandleEvent, config' = config PROVE Supervised!Next \/ SameWork
<1> USE DEF SInv, IInv
<1> DEFINE evt == Head(s_event_queue)
<1>1. evt = s_event_queue[1] /\ 1 \in DOMAIN s_event_queue
  BY TailQueue DEF HandleEvent
<1>2. s_state \in POOLS /\ ~pools_unavailable /\ pools_unavailable \in BOOLEAN
  BY <1>1 DEF EndIsLast, TInv, TypeOK, Beliefs, UnavailableIffPaused
<1>3. s_consecutive_pool_failures \in Nat /\ Threshold = Supervised!Threshold
  BY DEF TInv, TypeOK, Threshold, Supervised!Threshold
<1>4. CASE evt = FAILED /\ Failed
  <2>1. Live = {}
    BY <1>1, <1>4 DEF EndIsLast, FAILED, SUCCESS
  <2>2. s_consecutive_pool_failures' = s_consecutive_pool_failures + 1
    BY <1>4 DEF Failed
  <2>3. CASE s_consecutive_pool_failures' < Threshold
    <3>1. PICK p \in POOLS \ {s_state} : Run(p) /\ pools_unavailable' = pools_unavailable
      BY <1>3, <1>4, <2>2, <2>3 DEF Failed, Threshold
    <3>2. Supervised!Turn(p)
      BY <1>2, <2>1, <3>1, Turned DEF Run
    <3>3. config.has_fallback
      BY <1>3, <2>2, <2>3 DEF Threshold
    <3>4. Supervised!FailOver(p)
      BY <1>2, <1>3, <2>2, <2>3, <3>1, <3>2, <3>3 DEF Supervised!FailOver
    <3> QED
      BY <3>1, <3>4 DEF Supervised!Next
  <2>4. CASE s_consecutive_pool_failures' >= Threshold
    <3>1. s_state' = "PAUSED" /\ pools_unavailable' = TRUE /\ task' = task
      BY <1>3, <1>4, <2>2, <2>4 DEF Failed, Threshold
    <3>2. Working = {} /\ Working' = {}
      BY <2>1, <3>1 DEF Working, Live
    <3>3. Supervised!Pause
      BY <1>2, <1>3, <2>2, <2>4, <3>1, <3>2 DEF Supervised!Pause, Working
    <3> QED
      BY <3>3 DEF Supervised!Next
  <2> QED
    BY <1>3, <2>2, <2>3, <2>4 DEF Threshold
<1>5. CASE Succeeded
  <2>1. UNCHANGED <<task, s_state, pools_unavailable>> /\ s_consecutive_pool_failures' = 0
    BY <1>2, <1>5 DEF Succeeded
  <2>2. Supervised!Succeed
    BY <1>2, <2>1 DEF Supervised!Succeed, Live
  <2> QED
    BY <2>2 DEF Supervised!Next
<1>6. CASE Ignored
  BY <1>6 DEF Ignored, shared, SameWork, Live
<1> QED
  BY <1>4, <1>5, <1>6 DEF HandleEvent

LEMMA Returned ==
    ASSUME SInv, SInv', at = "stop", Live = {}, SwitchToPrimary, config' = config
    PROVE  Supervised!Next
<1>1. s_state = "FALLBACK" /\ s_state # "PAUSED" /\ ~config.use_fallback_stratum
  BY DEF SInv, IInv, Beliefs, Alert
<1>2. pools_unavailable' = FALSE
  <2>1. pools_unavailable' = pools_unavailable
    BY DEF SwitchToPrimary, Switched
  <2>2. pools_unavailable \in BOOLEAN /\ ~pools_unavailable
    BY <1>1 DEF SInv, IInv, TInv, TypeOK, Beliefs, UnavailableIffPaused
  <2> QED
    BY <2>1, <2>2
<1>3. Start("PRIMARY") /\ s_state' = "PRIMARY" /\ UNCHANGED s_consecutive_pool_failures
  BY DEF SwitchToPrimary, Switched
<1>4. Supervised!Turn("PRIMARY")
  BY <1>2, <1>3, Turned DEF POOLS
<1>5. Supervised!Return
  BY <1>1, <1>3, <1>4 DEF Supervised!Return, Supervised!Choice
<1> QED
  BY <1>5 DEF Supervised!Next

LEMMA CoordinatorSupervises ==
    ASSUME SInv, SInv', StopsInTime = TRUE, CoordinatorNext
    PROVE  Supervised!Next \/ SameWork
<1> USE DEF SInv, IInv
<1>0. config' = config
  BY DEF CoordinatorNext
<1>1. CASE HandleEvent
  BY <1>0, <1>1, Heard
<1>2. CASE HeartbeatTimeout \/ ProbeFails \/ RecoveryTimeout
  BY <1>0, <1>2 DEF HeartbeatTimeout, ProbeFails, RecoveryTimeout, shared, SameWork, Live
<1>3. CASE Stop
  <2> DEFINE C == {t \in TaskIds : task[t].at \in Connected}
  <2>1. task' = [t \in TaskIds |-> IF t \in Live /\ t \in C THEN [task[t] EXCEPT !.cut = TRUE] ELSE task[t]]
    BY <1>3 DEF Stop, Live
  <2>2. Live' = Live
    <3>1. C \in SUBSET TaskIds
      OBVIOUS
    <3> HIDE DEF C
    <3> QED
      BY <2>1, <3>1, CutLive DEF TInv
  <2> QED
    BY <1>0, <1>3, <2>2 DEF Stop, shared, SameWork
<1>4. CASE AwaitExit
  <2> DEFINE evt == Head(s_event_queue)
  <2>1. at = "stop" /\ evt = s_event_queue[1] /\ 1 \in DOMAIN s_event_queue
    BY <1>4, TailQueue DEF AwaitExit
  <2>2. CASE Gone(evt) /\ SwitchToPrimary
    <3>1. evt # SUCCESS
      BY <2>2 DEF Gone, Exited, FAILED, SUCCESS
    <3>2. Live = {}
      BY <2>1, <3>1 DEF EndIsLast
    <3> QED
      BY <1>0, <2>1, <2>2, <3>2, Returned
  <2>3. CASE UNCHANGED <<task, should_shutdown, shared, coordinator>>
    BY <1>0, <2>3 DEF shared, coordinator, SameWork, Live
  <2> QED
    BY <1>4, <2>2, <2>3 DEF AwaitExit
<1>5. CASE StopTimeout
  <2>1. at = "stop" /\ SwitchToPrimary /\ Live = {}
    BY <1>5 DEF StopTimeout, RightPool
  <2> QED
    BY <1>0, <2>1, Returned
<1>6. CASE TryResume
  <2>1. CASE Ignored
    BY <1>0, <2>1 DEF Ignored, shared, SameWork, Live
  <2>2. ASSUME NEW p \in POOLS, Probe(p), ResumeOn(p) PROVE Supervised!Next
    <3>1. s_state = "PAUSED" /\ Live = {}
      BY <1>6 DEF TryResume, Beliefs, EndIsLast
    <3>2. /\ s_state' = p /\ Start(p) /\ pools_unavailable' = FALSE /\ s_consecutive_pool_failures' = 0
          /\ p = "FALLBACK" => config.has_fallback
      BY <2>2 DEF ResumeOn, Resumed, Run, Probe
    <3>3. Supervised!Resume(p)
      BY <1>0, <3>1, <3>2, Turned DEF Supervised!Resume
    <3> QED
      BY <3>3 DEF Supervised!Next
  <2> QED
    BY <1>6, <2>1, <2>2 DEF TryResume
<1> QED
  BY <1>1, <1>2, <1>3, <1>4, <1>5, <1>6 DEF CoordinatorNext

LEMMA Supervises ==
    ASSUME SInv, SInv', StopsInTime = TRUE, [MiningNext]_all
    PROVE  [Supervised!Next]_(Supervised!vars)
<1> USE DEF SInv, IInv
<1>1. config' = config
  BY AlertStays
<1>2. CASE Supervise
  BY <1>2, CoordinatorSupervises, SameWorkStutters DEF Supervise
<1>3. CASE Environment /\ Steady
  <2>1. SameWork
    BY <1>3, EnvironmentCuts DEF Environment, shared, coordinator, SameWork
  <2> QED
    BY <2>1, SameWorkStutters
<1>4. ASSUME NEW t \in TaskIds, TaskNext(t), Steady
      PROVE  [Supervised!Next]_(Supervised!vars)
  <2>1. UNCHANGED <<config, s_state, pools_unavailable, s_consecutive_pool_failures>>
    BY <1>4 DEF TaskNext, shared, coordinator
  <2>2. CASE Live' = Live
    BY <2>1, <2>2, SameWorkStutters DEF SameWork
  <2>3. CASE GiveUp(t) \/ Quit(t)
    <3>1. t \in Live /\ Move(t, NoTask)
      BY <2>3 DEF GiveUp, Runs, Quit
    <3>2. Live' = {} /\ Live # {}
      BY <3>1, EndLive DEF TInv
    <3>3. Working # {} /\ Working' = {}
      BY <3>2 DEF OneWork
    <3>4. Supervised!End
      BY <2>1, <3>3 DEF Supervised!End, Working
    <3> QED
      BY <3>4 DEF Supervised!Next
  <2> QED
    BY <1>4, <2>2, <2>3, TaskKeeps
<1>5. CASE PowerNext \/ PoolBNext \/ User \/ UNCHANGED all
  <2>1. SameWork
    BY <1>5 DEF PowerNext, PoolBNext, User, all, vars, shared, coordinator, SameWork, Live
  <2> QED
    BY <2>1, SameWorkStutters
<1> QED
  BY <1>2, <1>3, <1>4, <1>5 DEF MiningNext, Tasks

(* Coordinator, tasks, events and power gate do for Pool A what            *)
(* Supervision says, for every setting, number of retries and length of    *)
(* the event queue (protocol_coordinator.c).                               *)
THEOREM SupervisionKept == ASSUME StopsInTime = TRUE PROVE Spec => SupervisionSpec
<1>1. MiningInit => Supervised!Init
  <2> SUFFICES ASSUME MiningInit PROVE Supervised!Init
    OBVIOUS
  <2>1. OneWork
    BY InitIInv, WorkIsOne
  <2>2. Live # {}
    <3> DEFINE u == CHOOSE u \in TaskIds : TRUE
    <3>1. u \in TaskIds /\ Fresh(s_state) \in Task
      BY DEF MiningInit, Init, UsedPool, POOLS, Configuration, Fresh, Task
    <3>2. task[u] = Fresh(s_state)
      BY <3>1 DEF MiningInit, Init
    <3> QED
      BY <3>1, <3>2 DEF Live
  <2>3. s_state = Supervised!Choice
    BY DEF MiningInit, Init, UsedPool, Supervised!Choice
  <2> QED
    BY <2>1, <2>2, <2>3 DEF MiningInit, Init, Supervised!Init, OneWork, Working
<1>2. SInv /\ SInv' /\ [MiningNext]_all => [Supervised!Next]_(Supervised!vars)
  BY Supervises
<1> QED
  BY <1>1, <1>2, SInvariant, PTL DEF Spec, SupervisionSpec, Supervised!Spec

-----------------------------------------------------------------------------
(* Pool A is not abandoned as long as the queue has room for a failure     *)
(* behind the successes that wait in it.                                   *)

NInv ==
    /\ at \in {"receive", "heartbeat"} /\ s_state # "PAUSED" =>
          Live # {} \/ \E i \in DOMAIN s_event_queue : s_event_queue[i] = FAILED
    /\ Live # {} => Len(s_event_queue) <= MaxSuccesses

LEMMA SuccessBound ==
    ASSUME IInv, NEW t \in Live, Succeeds(t)
    PROVE  Send(SUCCESS) /\ Len(s_event_queue) + 1 <= MaxSuccesses
<1> DEFINE q == s_event_queue
           S == {i \in DOMAIN q : q[i] = SUCCESS}
<1>1. q \in Seq(Events) /\ Len(q) \in Nat
  BY DEF IInv, TInv
<1>2. \A i \in DOMAIN q : q[i] = SUCCESS
  BY DEF IInv, EndIsLast
<1>3. S = 1 .. Len(q)
  BY <1>1, <1>2
<1>4. Cardinality(1 .. Len(q)) = Len(q)
  <2>1. 1 \in Int /\ Len(q) \in Int /\ (1 > Len(q) => Len(q) = 0)
    BY <1>1
  <2> QED
    BY <2>1, FS_Interval
<1>5. Cardinality(S) < MaxSuccesses /\ Send(SUCCESS)
  BY DEF Succeeds
<1>6. Len(s_event_queue) < MaxSuccesses
  BY <1>3, <1>4, <1>5
<1> QED
  BY <1>1, <1>5, <1>6

LEMMA TaskKeepsN ==
    ASSUME IInv, NInv, MaxSuccesses < QueueLength, NEW t \in TaskIds, TaskNext(t), Steady
    PROVE  NInv'
<1>1. UNCHANGED <<at, s_state>> /\ s_event_queue \in Seq(Events)
  BY DEF TaskNext, coordinator, IInv, TInv
<1>2. CASE GiveUp(t)
  <2>1. t \in Live /\ Move(t, NoTask) /\ Send(FAILED)
    BY <1>2 DEF GiveUp, Runs
  <2>2. Live' = {}
    BY <2>1, EndLive DEF IInv, TInv
  <2>3. s_event_queue' = Append(s_event_queue, FAILED)
    BY <1>1, <2>1 DEF NInv, Send
  <2>4. \E i \in DOMAIN s_event_queue' : s_event_queue'[i] = FAILED
    <3>1. Len(s_event_queue) + 1 \in DOMAIN s_event_queue' /\ s_event_queue'[Len(s_event_queue) + 1] = FAILED
      BY <1>1, <2>3 DEF Events
    <3> QED
      BY <3>1
  <2> QED
    BY <2>2, <2>4 DEF NInv
<1>3. CASE Quit(t)
  <2>1. t \in Live /\ should_shutdown[task[t].protocol] /\ Move(t, NoTask)
    BY <1>3 DEF Quit
  <2>2. Live' = {}
    BY <2>1, EndLive DEF IInv, TInv
  <2>3. s_state # "PAUSED" /\ task[t].protocol = config.protocol[s_state]
    BY <2>1 DEF IInv, EndIsLast, RightPool
  <2>4. at = "stop"
    BY <2>1, <2>3 DEF IInv, Beliefs
  <2> QED
    BY <1>1, <2>2, <2>4 DEF NInv
<1>4. CASE ~GiveUp(t) /\ ~Quit(t)
  <2>1. Live' = Live /\ t \in Live
    BY <1>4, TaskKeeps DEF TaskNext, Attempt, Leave, Begin, Connect, ConnectFails, Configure, Establish,
                           ReceiveFails, Disconnect, Runs
  <2>2. CASE UNCHANGED s_event_queue
    BY <1>1, <2>1, <2>2 DEF NInv
  <2>3. CASE Succeeds(t)
    <3>1. s_event_queue' \in {s_event_queue, Append(s_event_queue, SUCCESS)} /\ Len(s_event_queue) + 1 <= MaxSuccesses
      BY <2>1, <2>3, SuccessBound DEF Send
    <3>2. Len(s_event_queue') <= MaxSuccesses
      BY <1>1, <3>1
    <3> QED
      BY <2>1, <3>2 DEF NInv
  <2> QED
    BY <1>4, <2>2, <2>3 DEF TaskNext, Attempt, Leave, Begin, Connect, ConnectFails, Configure, Establish,
                            ReceiveFails, Disconnect, Dials
<1> QED
  BY <1>2, <1>3, <1>4

(* A start leaves a task and an empty queue.                               *)
LEMMA StartedN ==
    ASSUME IInv, Live = {}, NEW p \in POOLS, Start(p), s_event_queue' = <<>>
    PROVE  NInv'
<1>1. Live' # {}
  BY StartLive DEF IInv, TInv, TypeOK
<1>2. Len(s_event_queue') = 0 /\ MaxSuccesses \in Nat
  OBVIOUS
<1> QED
  BY <1>1, <1>2 DEF NInv

LEMMA HandleKeepsN == ASSUME IInv, NInv, HandleEvent PROVE NInv'
<1> DEFINE evt == Head(s_event_queue)
<1>1. /\ at' = at /\ at = "receive" /\ s_event_queue' = Tail(s_event_queue)
      /\ evt = s_event_queue[1] /\ 1 \in DOMAIN s_event_queue
      /\ s_event_queue \in Seq(Events) /\ s_event_queue' \in Seq(Events) /\ Len(s_event_queue') = Len(s_event_queue) - 1
  BY TailQueue DEF HandleEvent, IInv, TInv
<1>2. s_state # "PAUSED" /\ evt \in {SUCCESS, FAILED}
  BY <1>1 DEF IInv, EndIsLast
<1>3. CASE evt = FAILED /\ Failed
  <2>1. Live = {} /\ 1 = Len(s_event_queue)
    BY <1>1, <1>3 DEF IInv, EndIsLast, FAILED, SUCCESS
  <2>2. s_event_queue' = <<>>
    BY <1>1, <2>1
  <2>3. CASE \E p \in POOLS : Run(p)
    BY <2>1, <2>2, <2>3, StartedN DEF Run
  <2>4. CASE s_state' = "PAUSED" /\ task' = task
    BY <2>1, <2>4 DEF NInv, Live
  <2> QED
    BY <1>3, <2>3, <2>4 DEF Failed
<1>4. CASE evt = SUCCESS /\ Succeeded
  <2>1. Live' = Live /\ s_state' = s_state
    BY <1>4 DEF Succeeded, Live
  <2>2. ASSUME NEW i \in DOMAIN s_event_queue, s_event_queue[i] = FAILED
        PROVE  \E j \in DOMAIN s_event_queue' : s_event_queue'[j] = FAILED
    <3>1. i # 1 /\ i \in 1 .. Len(s_event_queue)
      BY <1>1, <1>4, <2>2 DEF SUCCESS, FAILED
    <3>2. i - 1 \in DOMAIN s_event_queue' /\ s_event_queue'[i - 1] = s_event_queue[i]
      BY <1>1, <3>1
    <3> QED
      BY <2>2, <3>2
  <2>3. Live # {} => Len(s_event_queue') <= MaxSuccesses
    BY <1>1 DEF NInv
  <2> QED
    BY <1>1, <1>2, <2>1, <2>2, <2>3 DEF NInv
<1> QED
  BY <1>2, <1>3, <1>4 DEF HandleEvent, FAILED, SUCCESS

LEMMA CoordinatorKeepsN == ASSUME IInv, NInv, StopsInTime = TRUE, CoordinatorNext PROVE NInv'
<1>1. s_event_queue \in Seq(Events)
  BY DEF IInv, TInv
<1>2. CASE HandleEvent
  BY <1>2, HandleKeepsN
<1>3. CASE HeartbeatTimeout
  <2>1. at = "receive" /\ UNCHANGED <<s_event_queue, s_state, task>>
    BY <1>3 DEF HeartbeatTimeout
  <2> QED
    BY <2>1 DEF NInv, Live
<1>4. CASE ProbeFails
  <2>1. at = "heartbeat" /\ UNCHANGED <<s_event_queue, s_state, task>>
    BY <1>4 DEF ProbeFails
  <2> QED
    BY <2>1 DEF NInv, Live
<1>5. CASE Stop
  <2>1. /\ at' = "stop" /\ UNCHANGED s_event_queue
        /\ Live' # {} => Live # {}
    BY <1>5 DEF Stop, Live
  <2> QED
    BY <2>1 DEF NInv
<1>6. CASE AwaitExit
  <2>1. /\ s_event_queue # <<>> /\ s_event_queue' = Tail(s_event_queue) /\ at = "stop"
        /\ s_event_queue' \in Seq(Events) /\ Len(s_event_queue') = Len(s_event_queue) - 1
        /\ Head(s_event_queue) = s_event_queue[1] /\ 1 \in DOMAIN s_event_queue
    BY <1>6, TailQueue DEF AwaitExit, IInv
  <2>2. CASE Gone(Head(s_event_queue)) /\ SwitchToPrimary
    <3>1. Head(s_event_queue) # SUCCESS
      BY <2>2 DEF Gone, Exited, FAILED, SUCCESS
    <3>2. Live = {} /\ 1 = Len(s_event_queue)
      BY <2>1, <3>1 DEF IInv, EndIsLast
    <3>3. s_event_queue' = <<>>
      BY <1>1, <2>1, <3>2
    <3> QED
      BY <2>2, <3>2, <3>3, StartedN DEF SwitchToPrimary, Switched, POOLS
  <2>3. CASE UNCHANGED <<task, coordinator>>
    <3>1. at' = "stop" /\ Live' = Live
      BY <2>1, <2>3 DEF coordinator, Live
    <3>2. Live # {} => Len(s_event_queue') <= MaxSuccesses
      BY <1>1, <2>1 DEF NInv
    <3> QED
      BY <3>1, <3>2 DEF NInv
  <2> QED
    BY <1>6, <2>2, <2>3 DEF AwaitExit
<1>7. CASE StopTimeout
  <2>1. Live = {} /\ s_event_queue' = <<>> /\ Start("PRIMARY")
    BY <1>7 DEF StopTimeout, IInv, RightPool, SwitchToPrimary, Switched
  <2> QED
    BY <2>1, StartedN DEF POOLS
<1>8. CASE RecoveryTimeout
  <2>1. at' = "recover" /\ UNCHANGED <<s_event_queue, task>>
    BY <1>8 DEF RecoveryTimeout
  <2> QED
    BY <2>1 DEF NInv, Live
<1>9. CASE TryResume
  <2>1. s_state = "PAUSED" /\ s_event_queue = <<>> /\ Live = {} /\ s_event_queue' = s_event_queue
    BY <1>9 DEF TryResume, IInv, Beliefs, EndIsLast
  <2>2. CASE \E p \in POOLS : ResumeOn(p)
    BY <2>1, <2>2, StartedN DEF ResumeOn, Resumed, Run
  <2>3. CASE Ignored
    BY <2>1, <2>3 DEF NInv, Ignored, Live
  <2> QED
    BY <1>9, <2>2, <2>3 DEF TryResume
<1> QED
  BY <1>2, <1>3, <1>4, <1>5, <1>6, <1>7, <1>8, <1>9 DEF CoordinatorNext

LEMMA NextKeepsN ==
    ASSUME IInv, NInv, StopsInTime = TRUE, MaxSuccesses < QueueLength, [MiningNext]_all
    PROVE  NInv'
<1>1. CASE Supervise
  BY <1>1, CoordinatorKeepsN DEF Supervise
<1>2. CASE Environment
  <2>1. UNCHANGED <<at, s_state, s_event_queue>>
    BY <1>2 DEF Environment, coordinator
  <2>2. PICK P \in SUBSET POOLS : CutAll(P)
    BY <1>2 DEF Environment, WifiChanges, PoolChanges
  <2> DEFINE C == {t \in TaskIds : task[t].at \in Connected /\ task[t].pool \in P}
  <2>3. task' = [t \in TaskIds |-> IF t \in Live /\ t \in C THEN [task[t] EXCEPT !.cut = TRUE] ELSE task[t]]
    BY <2>2 DEF CutAll, Live
  <2>4. Live' = Live
    <3>1. C \in SUBSET TaskIds
      OBVIOUS
    <3> HIDE DEF C
    <3> QED
      BY <2>3, <3>1, CutLive DEF IInv, TInv
  <2> QED
    BY <2>1, <2>4 DEF NInv
<1>3. ASSUME NEW t \in TaskIds, TaskNext(t), Steady PROVE NInv'
  BY <1>3, TaskKeepsN
<1>4. CASE UNCHANGED <<at, s_state, s_event_queue, task>>
  BY <1>4 DEF NInv, Live
<1> QED
  BY <1>1, <1>2, <1>3, <1>4 DEF MiningNext, Tasks, PowerNext, PoolBNext, User, all, vars, coordinator

LEMMA InitN == MiningInit => NInv
<1> SUFFICES ASSUME MiningInit PROVE NInv
  OBVIOUS
<1>1. s_event_queue = <<>> /\ at = "receive" /\ MaxSuccesses \in Nat
  BY DEF MiningInit, Init
<1>2. Live # {}
  <2> DEFINE u == CHOOSE u \in TaskIds : TRUE
  <2>1. u \in TaskIds
    OBVIOUS
  <2>2. Fresh(s_state) \in Task
    BY DEF MiningInit, Init, UsedPool, POOLS, Configuration, Fresh, Task
  <2>3. task[u] = Fresh(s_state)
    BY <2>1 DEF MiningInit, Init
  <2> QED
    BY <2>1, <2>2, <2>3 DEF Live
<1> QED
  BY <1>1, <1>2 DEF NInv

(* Whatever order failures, probes, stops and exits come in, an idle       *)
(* coordinator has a task or will hear that it failed, as long as fewer    *)
(* successes wait than the event queue holds.                              *)
THEOREM PoolANeverAbandoned ==
    ASSUME StopsInTime = TRUE, MaxSuccesses < QueueLength
    PROVE  Spec => []NeverAbandoned
<1>1. MiningInit => NInv
  BY InitN
<1>2. IInv /\ NInv /\ [MiningNext]_all => NInv'
  BY NextKeepsN
<1>3. NInv => NeverAbandoned
  BY DEF NInv, NeverAbandoned
<1> QED
  BY <1>1, <1>2, <1>3, Invariant, PTL DEF Spec

=============================================================================
