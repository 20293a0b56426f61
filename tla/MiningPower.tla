---------------------------- MODULE MiningPower ----------------------------
(***************************************************************************)
(* Who keeps the ASIC powered: main/tasks/power_management_task.c closes a *)
(* circle through ProtocolCoordinator and Pool B's task.  An ASIC without  *)
(* power stops V1 and Pool B from connecting, Pool A's pools failing (with *)
(* Pool B unconnected) cut the power, and the coordinator's probes, which  *)
(* need no ASIC, bring it back.                                            *)
(***************************************************************************)
EXTENDS ProtocolCoordinator

VARIABLES
    mining_paused,  \* the user's pause, or a hardware fault
    power,          \* "on"; "paused" (is_paused); "cooling", in the overheat loop
    transportB      \* Pool B is connected

all == <<vars, mining_paused, power, transportB>>

MiningInit == Init /\ mining_paused = FALSE /\ power = "on" /\ transportB = FALSE

WantsStop == mining_paused \/ (pools_unavailable /\ ~transportB)

(* mining_stop and mining_start; the chips are assumed to answer.          *)
Switch(to) ==
    /\ power' = to
    /\ ASIC_initalized' = (to = "on")

PowerDown == power = "on" /\ WantsStop /\ Switch("paused")
PowerUp   == power = "paused" /\ ~WantsStop /\ Switch("on")
Overheat  == power = "on" /\ ~WantsStop /\ Switch("cooling")
CoolDown  == power = "cooling" /\ Switch("on")

PowerNext ==
    /\ PowerDown \/ PowerUp \/ Overheat \/ CoolDown
    /\ UNCHANGED <<config, environment, task, s_event_queue, should_shutdown, shared, coordinator, mining_paused, transportB>>

(* stratum_poolb_task as far as the power goes; its server is always there.*)
ConnectB == ~transportB /\ wifi /\ ASIC_initalized /\ transportB' = TRUE
LoseB    == transportB /\ transportB' = FALSE

PoolBNext == (ConnectB \/ LoseB) /\ UNCHANGED <<vars, mining_paused, power>>

User == mining_paused' = ~mining_paused /\ UNCHANGED <<vars, power, transportB>>

Steady == UNCHANGED <<mining_paused, power, transportB>>

(* Timing assumption: within the 60 s of the heartbeat the power task is   *)
(* done and an attempt at a pool that answers has come to its end, unless  *)
(* V1 waits for an ASIC that stays off.                                    *)
Settled == \A t \in Live :
    task[t].at # "session" /\ ServedTask(t) =>
        task[t].protocol = "V1" /\ (WantsStop \/ power = "cooling")

Supervise == CoordinatorNext /\ (HeartbeatTimeout => Settled) /\ Steady

Tasks == Supervise \/ ((Environment \/ \E t \in TaskIds : TaskNext(t)) /\ Steady)

MiningNext == Tasks \/ PowerNext \/ PoolBNext \/ User

Spec == MiningInit /\ [][MiningNext]_all

(* Every task of FreeRTOS runs on; Pool B's drops, overheating, the user,  *)
(* the pools and V1's voluntary reconnects are the environment's.          *)
Fairness ==
    /\ WF_all(Supervise)
    /\ \A t \in TaskIds : WF_all(Attempt(t) /\ TaskNext(t) /\ Steady)
    /\ \A t \in TaskIds : WF_all(Leave(t) /\ TaskNext(t) /\ Steady)
    /\ WF_all((PowerDown \/ PowerUp) /\ PowerNext)
    /\ WF_all(CoolDown /\ PowerNext)
    /\ WF_all(ConnectB /\ PoolBNext)
FairSpec == Spec /\ Fairness

-----------------------------------------------------------------------------
(* Types, and what the power task has switched off is marked so.           *)
TypeOK ==
    /\ config \in Configurations
    /\ pool \in [POOLS -> PoolStates] /\ wifi \in BOOLEAN
    /\ \A t \in Live : task[t] \in Task /\ task[t].tries <= MaxRetries
    /\ Len(s_event_queue) <= QueueLength /\ \A i \in DOMAIN s_event_queue : s_event_queue[i] \in Events
    /\ should_shutdown \in [Protocols -> BOOLEAN]
    /\ is_using_fallback \in BOOLEAN /\ pools_unavailable \in BOOLEAN
    /\ at \in {"receive", "heartbeat", "stop", "recover"}
    /\ s_state \in POOLS \cup {"PAUSED"} /\ s_heartbeat_enabled \in BOOLEAN
    /\ s_consecutive_pool_failures \in 0 .. 2
    /\ power \in {"on", "paused", "cooling"} /\ ASIC_initalized = (power = "on")
    /\ mining_paused \in BOOLEAN /\ transportB \in BOOLEAN

(* Never two protocol tasks, which would fight over gs->transport and the  *)
(* notify queue, whatever order failures, probes, stops and exits come in; *)
(* none once paused (protocol_coordinator.c:23-27, 311-312).               *)
OneTask ==
    /\ Cardinality(Live) <= 1
    /\ s_state = "PAUSED" => Live = {}

(* A coordinator that is running a pool and idle in its loop either has a  *)
(* task or will hear that it failed: no shutdown flag left over from an    *)
(* earlier stop and no event taken by the wrong reader leaves Pool A dead. *)
NeverAbandoned ==
    at = "receive" /\ s_state # "PAUSED" =>
        Live # {} \/ \E i \in DOMAIN s_event_queue : s_event_queue[i] = FAILED

(* The power gate sees Pool A as unavailable exactly while the coordinator *)
(* is paused: no late SUCCESS, and no stop that swallows one, separates    *)
(* the flag from the state.                                                *)
UnavailableIffPaused == pools_unavailable <=> s_state = "PAUSED"

(* A task is on the pool the coordinator believes it runs, with the        *)
(* protocol of that pool, also across V1's live reads of is_using_fallback.*)
RightPool == \A t \in Live : /\ task[t].pool = s_state
                             /\ task[t].protocol = config.protocol[s_state]

(* What the coordinator, its tasks and their events come to for Pool A     *)
(* (protocol_coordinator.c): one pool is worked on at a time, the one that *)
(* is chosen; pools are changed, given up and taken up again in between.   *)
Supervised == INSTANCE Supervision WITH
    state       <- s_state,
    working     <- {[pool |-> task[t].pool, protocol |-> task[t].protocol] : t \in Live},
    unavailable <- pools_unavailable,
    failures    <- s_consecutive_pool_failures
SupervisionSpec == Supervised!Spec

Ready(p) == wifi /\ ~mining_paused /\ power # "cooling" /\ pool[p] = "serving"
Mining   == ASIC_initalized /\ \E t \in Live : task[t].at = "session" /\ ServedTask(t)

(* While either pool stays in service Pool A is mined again and again: the *)
(* circle of power, connection and pause always opens, whatever the other  *)
(* pool does and however the ASIC overheats.                               *)
Recovers == \A p \in POOLS : <>[]Ready(p) => []<>Mining

(* After an automatic failover Pool A goes back to a primary that stays in *)
(* service.  Only once the fallback neither comes and goes nor asks for    *)
(* reconnects: each SUCCESS starts the 60 s of the heartbeat anew (line    *)
(* 536), so one that reconnects every minute is kept for ever.             *)
Quiet == <>[][UNCHANGED pool /\ \A t \in TaskIds : ~Disconnect(t)]_vars
ReturnsToPrimary ==
    ~config.use_fallback_stratum /\ <>[]Ready("PRIMARY") /\ Quiet => <>[](s_state = "PRIMARY")

(* "Pool A and Pool B each ... fail over independently, without            *)
(* interrupting the other pool" (README.md:30-31): while Pool A's pools    *)
(* are out for good, Pool B, whose server is always there, is mined again  *)
(* and again.  The run pool_b_stops shows that it is not.                  *)
PoolBKeepsMining ==
    <>[](wifi /\ ~mining_paused /\ power # "cooling" /\ \A p \in POOLS : pool[p] = "down")
        => []<>(ASIC_initalized /\ transportB)

=============================================================================
