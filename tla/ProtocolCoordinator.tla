------------------------ MODULE ProtocolCoordinator ------------------------
(***************************************************************************)
(* Pool A's supervisor, main/tasks/protocol_coordinator.c, and the life of *)
(* the protocol tasks it starts and stops (stratum_v1_task and             *)
(* stratum_v2_task, without what they receive): which pool Pool A is on,   *)
(* when it fails over, pauses and comes back.  They talk through a bounded *)
(* event queue that drops what does not fit, two shutdown flags, and the   *)
(* coordinator closing the transport under a task's receive.               *)
(* gs->stratum_protocol and s_running_protocol are functions of s_state.   *)
(***************************************************************************)
EXTENDS Integers, Sequences, FiniteSets

CONSTANTS Configurations, \* the settings, fixed until a restart
          MaxRetries,     \* MAX_RETRY_ATTEMPTS
          QueueLength,    \* of s_event_queue
          MaxSuccesses,   \* bound: SUCCESS events waiting in it
          TaskIds,        \* bound: tasks alive at once
          NoTask,
          StopsInTime     \* a task told to stop is gone within the 10 s that
                          \* the coordinator waits (timing assumption)

POOLS     == {"PRIMARY", "FALLBACK"}
Protocols == {"V1", "V2"}
Configuration == [protocol : [POOLS -> Protocols],
                  has_fallback : BOOLEAN,          \* fallback_pool_url is set
                  use_fallback_stratum : BOOLEAN]  \* the user chose the fallback
Task == [protocol : Protocols, pool : POOLS, tries : Nat, cut : BOOLEAN,
         at : {"top", "connect", "setup", "configured", "session"}]
PoolStates == {"down", "listening", "serving"} \* listening: accepts, then drops unanswered

ASSUME CoordinatorAssumption ==
    /\ Configurations \subseteq Configuration
    /\ MaxRetries \in Nat \ {0} /\ QueueLength \in Nat \ {0} /\ MaxSuccesses \in Nat \ {0}
    /\ IsFiniteSet(TaskIds) /\ TaskIds # {} /\ NoTask \notin Task
    /\ StopsInTime \in BOOLEAN

VARIABLES
    config,
    \* the environment
    pool, wifi,
    ASIC_initalized,
    \* the protocol tasks
    task,
    \* shared
    s_event_queue,
    should_shutdown,      \* s_v1_should_shutdown, s_v2_should_shutdown
    is_using_fallback,
    pools_unavailable,
    \* the coordinator
    at,                   \* where it is in its loop
    s_state,              \* the pool it runs, or "PAUSED"
    s_heartbeat_enabled,
    s_consecutive_pool_failures

environment == <<pool, wifi>>
shared      == <<is_using_fallback, pools_unavailable>>
coordinator == <<at, s_state, s_heartbeat_enabled, s_consecutive_pool_failures>>
vars == <<config, environment, ASIC_initalized, task, s_event_queue, should_shutdown, shared, coordinator>>

FAILED  == "PROTOCOL_FAILED"
SUCCESS == "PROTOCOL_SUCCESS"
Exited(protocol) == IF protocol = "V1" THEN "V1_TASK_EXITED" ELSE "V2_TASK_EXITED"
Events  == {FAILED, SUCCESS} \cup {Exited(p) : p \in Protocols}

Connected == {"setup", "configured", "session"}
Live      == {t \in TaskIds : task[t] # NoTask}

UsedPool == IF is_using_fallback THEN "FALLBACK" ELSE "PRIMARY"

(* xQueueSend without a wait: a full queue loses the event.                *)
Send(event) ==
    s_event_queue' = IF Len(s_event_queue) < QueueLength
                     THEN Append(s_event_queue, event) ELSE s_event_queue

-----------------------------------------------------------------------------
(* A protocol task.  What is cut no longer receives.                       *)

Fresh(p) == [protocol |-> config.protocol[p], pool |-> p, tries |-> 0, cut |-> FALSE, at |-> "top"]

ServedTask(t) == wifi /\ pool[task[t].pool] = "serving" /\ ~task[t].cut

Move(t, changed) == task' = [task EXCEPT ![t] = changed]

Loses(t) == Move(t, [task[t] EXCEPT !.at = "top", !.tries = @ + 1])

(* The loop's top: V1 waits for the ASIC, both wait for the Wi-Fi.         *)
Runs(t) ==
    /\ t \in Live /\ task[t].at = "top"
    /\ ~should_shutdown[task[t].protocol]
    /\ wifi /\ (task[t].protocol = "V1" => ASIC_initalized)

(* V1 asks for the pool at each attempt, V2 keeps the one it started with. *)
Dials(t) ==
    /\ Move(t, [task[t] EXCEPT !.at = "connect", !.cut = FALSE,
                               !.pool = IF task[t].protocol = "V1" THEN UsedPool ELSE @])
    /\ UNCHANGED s_event_queue

Begin(t) == Runs(t) /\ task[t].tries < MaxRetries /\ Dials(t)

GiveUp(t) ==
    /\ Runs(t) /\ task[t].tries >= MaxRetries
    /\ Move(t, NoTask)
    /\ Send(FAILED)

(* V2 looks at its flag only at the top, V1 also before each receive.      *)
Quit(t) ==
    /\ t \in Live /\ should_shutdown[task[t].protocol]
    /\ task[t].at \in {"top"} \cup (IF task[t].protocol = "V1" THEN Connected ELSE {})
    /\ Move(t, NoTask)
    /\ Send(Exited(task[t].protocol))

ConnectFails(t) ==
    /\ t \in Live /\ task[t].at = "connect"
    /\ ~wifi \/ pool[task[t].pool] = "down"
    /\ Loses(t)
    /\ UNCHANGED s_event_queue

Connect(t) ==
    /\ t \in Live /\ task[t].at = "connect"
    /\ wifi /\ pool[task[t].pool] # "down"
    /\ Move(t, [task[t] EXCEPT !.at = "setup", !.cut = FALSE])
    /\ UNCHANGED s_event_queue

Succeeds(t) ==
    /\ ServedTask(t)
    /\ Cardinality({i \in DOMAIN s_event_queue : s_event_queue[i] = SUCCESS}) < MaxSuccesses
    /\ Send(SUCCESS)

(* V1's mining.configure is answered: a success that leaves retry_attempts.*)
Configure(t) ==
    /\ t \in Live /\ task[t].at = "setup" /\ task[t].protocol = "V1" /\ ASIC_initalized
    /\ Succeeds(t)
    /\ Move(t, [task[t] EXCEPT !.at = "configured"])

(* V1: a set-up result, accepted or not.  V2: the channel is open.         *)
Establish(t) ==
    /\ t \in Live /\ task[t].at \in {"setup", "configured"}
    /\ task[t].protocol = "V1" => ASIC_initalized
    /\ Succeeds(t)
    /\ Move(t, [task[t] EXCEPT !.at = "session", !.tries = 0])

(* The receive, or V2's handshake, fails.                                  *)
ReceiveFails(t) ==
    /\ t \in Live /\ task[t].at \in Connected /\ ~ServedTask(t)
    /\ Loses(t)
    /\ UNCHANGED s_event_queue

(* V1 leaves a live connection: at client.reconnect, or as mining stopped. *)
(* A pool in service answers the set-up before it asks for a reconnect.    *)
Disconnect(t) ==
    /\ t \in Live /\ task[t].protocol = "V1" /\ ServedTask(t)
    /\ task[t].at = "session" \/ (task[t].at \in Connected /\ ~ASIC_initalized)
    /\ Move(t, [task[t] EXCEPT !.at = "top", !.tries = IF ASIC_initalized THEN @ ELSE 0])
    /\ UNCHANGED s_event_queue

Attempt(t) == Begin(t) \/ Connect(t) \/ ConnectFails(t) \/ Configure(t) \/ Establish(t)
Leave(t)   == GiveUp(t) \/ Quit(t) \/ ReceiveFails(t)

TaskNext(t) ==
    /\ Attempt(t) \/ Leave(t) \/ Disconnect(t)
    /\ UNCHANGED <<config, environment, ASIC_initalized, should_shutdown, shared, coordinator>>

-----------------------------------------------------------------------------
(* The coordinator.                                                        *)

Create(p) ==
    /\ Live # TaskIds
    /\ task' = [task EXCEPT ![CHOOSE t \in TaskIds \ Live : TRUE] = Fresh(p)]

(* Faulty variant: the flag of an earlier stop is left set.                *)
StartStillFlagged(p) == Create(p) /\ UNCHANGED should_shutdown

(* start_protocol_task                                                     *)
Start(p) ==
    /\ Create(p)
    /\ should_shutdown' = [should_shutdown EXCEPT ![config.protocol[p]] = FALSE]

Run(p) ==
    /\ s_state' = p
    /\ is_using_fallback' = (p = "FALLBACK")
    /\ Start(p)

Threshold == IF config.has_fallback THEN 2 ELSE 1

(* PROTOCOL_FAILED: to the other pool, until as many failed as there are.  *)
Failed ==
    /\ s_consecutive_pool_failures' = s_consecutive_pool_failures + 1
    /\ \/ /\ s_consecutive_pool_failures' >= Threshold
          /\ s_state' = "PAUSED" /\ pools_unavailable' = TRUE
          /\ s_heartbeat_enabled' = FALSE
          /\ UNCHANGED <<task, should_shutdown, is_using_fallback>>
       \/ /\ s_consecutive_pool_failures' < Threshold
          /\ \E p \in POOLS \ {s_state} :
                /\ Run(p)
                /\ s_heartbeat_enabled' = (p = "FALLBACK" /\ ~config.use_fallback_stratum)
          /\ UNCHANGED pools_unavailable

Succeeded ==
    /\ s_consecutive_pool_failures' = 0
    /\ pools_unavailable' = FALSE
    /\ UNCHANGED <<task, should_shutdown, is_using_fallback, s_state, s_heartbeat_enabled>>

Ignored == UNCHANGED <<task, should_shutdown, shared, s_state, s_heartbeat_enabled, s_consecutive_pool_failures>>

HandleEvent ==
    /\ at = "receive" /\ s_event_queue # <<>>
    /\ s_event_queue' = Tail(s_event_queue)
    /\ LET evt == Head(s_event_queue)
       IN \/ evt = FAILED /\ s_state # "PAUSED" /\ Failed
          \/ evt = SUCCESS /\ Succeeded
          \/ evt = FAILED /\ s_state = "PAUSED" /\ Ignored
          \/ evt \notin {FAILED, SUCCESS} /\ Ignored
    /\ UNCHANGED at

(* 60 s without an event while on the fallback.                            *)
HeartbeatTimeout ==
    /\ at = "receive" /\ s_event_queue = <<>>
    /\ s_heartbeat_enabled /\ wifi
    /\ at' = "heartbeat"
    /\ UNCHANGED <<task, s_event_queue, should_shutdown, shared, s_state, s_heartbeat_enabled, s_consecutive_pool_failures>>

(* V1 is asked for its answer, V2 only for a TCP connection.               *)
Probe(p) ==
    /\ p = "FALLBACK" => config.has_fallback
    /\ wifi
    /\ pool[p] = "serving" \/ (config.protocol[p] = "V2" /\ pool[p] = "listening")

(* Faulty variant: the first probe that fails is the last.                 *)
ProbeFailsForGood ==
    /\ at = "heartbeat" /\ ~Probe("PRIMARY")
    /\ at' = "receive" /\ s_heartbeat_enabled' = FALSE
    /\ UNCHANGED <<task, s_event_queue, should_shutdown, shared, s_state, s_consecutive_pool_failures>>

ProbeFails ==
    /\ at = "heartbeat" /\ ~Probe("PRIMARY")
    /\ at' = "receive"
    /\ UNCHANGED <<task, s_event_queue, should_shutdown, shared, s_state, s_heartbeat_enabled, s_consecutive_pool_failures>>

(* The first half of stop_v1_task and stop_v2_task.                        *)
Stop ==
    /\ at = "heartbeat" /\ Probe("PRIMARY")
    /\ at' = "stop"
    /\ should_shutdown' = [should_shutdown EXCEPT ![config.protocol[s_state]] = TRUE]
    /\ task' = [t \in TaskIds |->
                   IF t \in Live /\ task[t].at \in Connected THEN [task[t] EXCEPT !.cut = TRUE] ELSE task[t]]
    /\ UNCHANGED <<s_event_queue, shared, s_state, s_heartbeat_enabled, s_consecutive_pool_failures>>

Switched ==
    /\ s_state' = "PRIMARY" /\ Start("PRIMARY")
    /\ s_heartbeat_enabled' = FALSE
    /\ at' = "receive"
    /\ UNCHANGED <<pools_unavailable, s_consecutive_pool_failures>>

(* Faulty variant: is_using_fallback stays.                                *)
SwitchKeepsPool == Switched /\ UNCHANGED is_using_fallback

SwitchToPrimary == Switched /\ is_using_fallback' = FALSE

(* Faulty variant: the first event is taken for the exit.                  *)
GoneAtOnce(evt) == evt \in Events

(* Its second half waits for the task to go.                               *)
Gone(evt) == evt \in {FAILED, Exited(config.protocol[s_state])}

AwaitExit ==
    /\ at = "stop" /\ s_event_queue # <<>>
    /\ s_event_queue' = Tail(s_event_queue)
    /\ \/ Gone(Head(s_event_queue)) /\ SwitchToPrimary
       \/ ~Gone(Head(s_event_queue)) /\ UNCHANGED <<task, should_shutdown, shared, coordinator>>

StopTimeout ==
    /\ at = "stop" /\ s_event_queue = <<>>
    /\ StopsInTime => \A t \in Live : task[t].protocol # config.protocol[s_state]
    /\ SwitchToPrimary
    /\ UNCHANGED s_event_queue

(* PAUSED: every 30 s the pools are probed, the user's choice first.       *)
RecoveryTimeout ==
    /\ at = "receive" /\ s_event_queue = <<>> /\ s_state = "PAUSED" /\ wifi
    /\ at' = "recover"
    /\ UNCHANGED <<task, s_event_queue, should_shutdown, shared, s_state, s_heartbeat_enabled, s_consecutive_pool_failures>>

Preferred == IF config.use_fallback_stratum /\ config.has_fallback THEN "FALLBACK" ELSE "PRIMARY"

(* Faulty variant: the heartbeat starts on a fallback that the user chose. *)
ResumedAlert(p) ==
    /\ Run(p)
    /\ s_consecutive_pool_failures' = 0
    /\ s_heartbeat_enabled' = (p = "FALLBACK")

Resumed(p) ==
    /\ Run(p)
    /\ s_consecutive_pool_failures' = 0
    /\ s_heartbeat_enabled' = (p = "FALLBACK" /\ ~config.use_fallback_stratum)

ResumeOn(p) == Resumed(p) /\ pools_unavailable' = FALSE

(* Faulty variant: only the user's choice is probed.                       *)
TryPreferred ==
    /\ at = "recover" /\ at' = "receive"
    /\ \/ Probe(Preferred) /\ ResumeOn(Preferred)
       \/ ~Probe(Preferred) /\ Ignored
    /\ UNCHANGED s_event_queue

TryResume ==
    /\ at = "recover" /\ at' = "receive"
    /\ \/ \E p \in POOLS : Probe(p) /\ (p = Preferred \/ ~Probe(Preferred)) /\ ResumeOn(p)
       \/ ~(\E p \in POOLS : Probe(p)) /\ Ignored
    /\ UNCHANGED s_event_queue

CoordinatorNext ==
    /\ \/ HandleEvent \/ HeartbeatTimeout \/ ProbeFails \/ Stop
       \/ AwaitExit \/ StopTimeout \/ RecoveryTimeout \/ TryResume
    /\ UNCHANGED <<config, environment, ASIC_initalized>>

-----------------------------------------------------------------------------
(* Pools and the Wi-Fi come and go; a connection does not survive either.  *)

CutAll(p) == task' = [t \in TaskIds |->
    IF t \in Live /\ task[t].at \in Connected /\ task[t].pool \in p
    THEN [task[t] EXCEPT !.cut = TRUE] ELSE task[t]]

PoolChanges(p) ==
    /\ p = "FALLBACK" => config.has_fallback
    /\ \E s \in PoolStates \ {pool[p]} : pool' = [pool EXCEPT ![p] = s]
    /\ CutAll({p})
    /\ UNCHANGED wifi

WifiChanges ==
    /\ wifi' = ~wifi
    /\ CutAll(POOLS)
    /\ UNCHANGED pool

Environment ==
    /\ WifiChanges \/ \E p \in POOLS : PoolChanges(p)
    /\ UNCHANGED <<config, ASIC_initalized, s_event_queue, should_shutdown, shared, coordinator>>

(* protocol_coordinator_task up to its loop, its first task started.       *)
Init ==
    /\ config \in Configurations
    /\ pool = [p \in POOLS |-> "down"] /\ wifi = TRUE
    /\ ASIC_initalized = TRUE
    /\ is_using_fallback = config.use_fallback_stratum
    /\ s_state = UsedPool
    /\ task = [t \in TaskIds |-> IF t = CHOOSE u \in TaskIds : TRUE THEN Fresh(s_state) ELSE NoTask]
    /\ s_event_queue = <<>>
    /\ should_shutdown = [p \in Protocols |-> FALSE]
    /\ pools_unavailable = FALSE
    /\ at = "receive"
    /\ s_heartbeat_enabled = FALSE
    /\ s_consecutive_pool_failures = 0

=============================================================================
