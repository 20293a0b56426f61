--------------------------- MODULE StratumManager ---------------------------
(***************************************************************************)
(* NerdAxe's two pools: a StratumTask for each, with its reconnect timer,  *)
(* under a StratumManagerFallback (failover: one pool at a time) or a      *)
(* StratumManagerDualPool (both, by turns), with V1 pools.  What the       *)
(* manager does under m_mutex is one action; so is what a task does        *)
(* between two moments at which somebody else could tell the difference.   *)
(* A 10 s delay of a task, like the 30 s of a timer, is any stretch of     *)
(* time.                                                                   *)
(***************************************************************************)
EXTENDS Integers

CONSTANTS Balances,  \* the values of poolBalance: the share of PRIMARY, in percent
          Forced     \* the pools with coinbaseVerifyForce

Modes == {"FAILOVER", "DUAL"}
Pools == {"PRIMARY", "SECONDARY"}
Other(p) == IF p = "PRIMARY" THEN "SECONDARY" ELSE "PRIMARY"

ASSUME ManagerAssumption ==
    /\ Balances \subseteq 0..100
    /\ Forced \subseteq Pools

VARIABLES
    up,             \* the pools that can be reached and answer
    honest,         \* those whose coinbase passes the verification
    \* StratumManager
    m_poolmode,
    m_selected,     \* failover
    m_balance, m_error_accum,  \* dual
    blocked,        \* m_verifyBlockedReason is other than NULL
    \* the tasks
    at,             \* where each is in its loop
    m_stopFlag, m_isConnected, m_reconnect,
    timer,          \* the reconnect timers that run
    \* miningInfo
    extranonce_str, \* whether it is other than NULL
    valid,          \* isValid, as m_validNotify is
    passed          \* history: turns given in a row to the other of two valid pools

outside == <<up, honest>>
manager == <<m_poolmode, m_selected, m_balance, m_error_accum, blocked>>
flags   == <<m_stopFlag, m_isConnected, m_reconnect>>
jobs    == <<extranonce_str, valid, passed>>
vars == <<outside, manager, at, flags, timer, jobs>>

(* called: connectedCallback has run, with the answer to mining.subscribe  *)
(* in hand; closed: the transport is.                                      *)
Places == {"top", "receive", "called", "closed"}

Init ==
    /\ up \in SUBSET Pools /\ honest \in SUBSET Pools /\ Pools \ Forced \subseteq honest
    /\ m_poolmode \in Modes /\ m_selected = "PRIMARY"
    /\ m_balance \in Balances /\ m_error_accum = 0
    /\ blocked = {}
    /\ at = [p \in Pools |-> "top"]
    /\ m_stopFlag = IF m_poolmode = "DUAL" THEN {} ELSE {"SECONDARY"}
    /\ m_isConnected = {} /\ m_reconnect = {}
    /\ timer = Pools
    /\ extranonce_str = {} /\ valid = {}
    /\ passed = [p \in Pools |-> 0]

-----------------------------------------------------------------------------
(* StratumTaskBase::task and StratumTaskV1::protocolLoop.                  *)

Goto(p, place) == at' = [at EXCEPT ![p] = place]

(* The configuration is copied and m_reconnect reset; unless the stop flag *)
(* holds it back the task connects and sends the set-up.                   *)
Connect(p) ==
    /\ at[p] = "top"
    /\ m_reconnect' = m_reconnect \ {p}
    /\ Goto(p, IF p \in up \ m_stopFlag THEN "receive" ELSE "top")
    /\ UNCHANGED <<outside, manager, m_stopFlag, m_isConnected, timer, jobs>>

(* The session is over: no submits from here on, the transport is closed.  *)
Leave(p) == Goto(p, "closed") /\ m_isConnected' = m_isConnected \ {p}

(* Faulty variant, used only to show that a property can fail: PRIMARY     *)
(* does not take over from a SECONDARY that is connected.                  *)
FallbackConnectedNoReturn(p) ==
    LET accepted == p \notin blocked /\ Other(p) \notin m_isConnected \ blocked
    IN  /\ m_selected' = IF accepted THEN p ELSE m_selected
        /\ m_stopFlag' = IF accepted THEN m_stopFlag ELSE m_stopFlag \cup {p}
        /\ UNCHANGED timer

(* Faulty variant, used only to show that a property can fail: PRIMARY     *)
(* does not send SECONDARY away.                                           *)
FallbackConnectedKeepsBoth(p) ==
    LET accepted == p \notin blocked /\ (p = "PRIMARY" \/ "PRIMARY" \notin m_isConnected \ blocked)
    IN  /\ m_selected' = IF accepted THEN p ELSE m_selected
        /\ m_stopFlag' = IF accepted THEN m_stopFlag ELSE m_stopFlag \cup {p}
        /\ UNCHANGED timer

(* StratumManagerFallback::connectedCallback.  A blocked pool is told to   *)
(* leave, and so is SECONDARY when PRIMARY is connected and not blocked.   *)
FallbackConnected(p) ==
    LET accepted == p \notin blocked /\ (p = "PRIMARY" \/ "PRIMARY" \notin m_isConnected \ blocked)
        leaving  == IF p \in blocked THEN {p} ELSE IF p = "PRIMARY" \/ ~accepted THEN {"SECONDARY"} ELSE {}
    IN  /\ m_selected' = IF accepted THEN p ELSE m_selected
        /\ m_stopFlag' = m_stopFlag \cup leaving
        /\ timer' = IF p \in blocked THEN timer ELSE timer \ leaving

(* StratumManagerDualPool::connectedCallback.                              *)
DualConnected(p) ==
    /\ m_stopFlag' = m_stopFlag \cup ({p} \cap blocked)
    /\ UNCHANGED <<m_selected, timer>>

(* A line wakes the task up.  A reconnect that was asked for comes first.  *)
Line(p) == at[p] = "receive" /\ p \in up

Reconnect(p) ==
    /\ Line(p) /\ p \in m_reconnect
    /\ Leave(p)
    /\ UNCHANGED <<outside, manager, m_stopFlag, m_reconnect, timer, jobs>>

(* The first line of a session.                                            *)
FirstLine(p) ==
    /\ Line(p) /\ p \notin m_reconnect \cup m_isConnected
    /\ IF m_poolmode = "DUAL" THEN DualConnected(p) ELSE FallbackConnected(p)
    /\ Goto(p, "called")
    /\ UNCHANGED <<outside, m_poolmode, m_balance, m_error_accum, blocked, m_isConnected, m_reconnect, jobs>>

acceptsNotifyFrom(p) == m_poolmode = "DUAL" \/ p = m_selected

(* m_isConnected is set, and the line dispatched: the answer to subscribe. *)
DispatchFirst(p) ==
    /\ at[p] = "called" /\ p \notin m_stopFlag
    /\ m_isConnected' = m_isConnected \cup {p}
    /\ extranonce_str' = IF acceptsNotifyFrom(p) THEN extranonce_str \cup {p} ELSE extranonce_str
    /\ Goto(p, "receive")
    /\ UNCHANGED <<outside, manager, m_stopFlag, m_reconnect, timer, valid, passed>>

(* When a stop is requested nothing is dispatched.                         *)
Stop(p) ==
    /\ \/ at[p] = "called"
       \/ Line(p) /\ p \in m_isConnected \ m_reconnect
    /\ p \in m_stopFlag
    /\ Leave(p)
    /\ UNCHANGED <<outside, manager, m_stopFlag, m_reconnect, timer, jobs>>

(* Faulty variant, used only to show that a property can fail: a blocked   *)
(* pool is not made to reconnect.                                          *)
runVerificationOnlyMarks(p) ==
    /\ blocked' = IF p \in honest THEN blocked \ {p} ELSE blocked \cup {p}
    /\ UNCHANGED m_reconnect

(* runVerification blocks a pool and makes it reconnect, or takes the      *)
(* block back.                                                             *)
runVerification(p) ==
    IF p \in honest THEN blocked' = blocked \ {p} /\ UNCHANGED m_reconnect
    ELSE /\ blocked' = blocked \cup {p}
         /\ m_reconnect' = IF p \in blocked THEN m_reconnect ELSE m_reconnect \cup {p}

(* mining.notify; any other line leaves all of this as it is.              *)
DispatchNotify(p) ==
    /\ Line(p) /\ p \in m_isConnected \ (m_reconnect \cup m_stopFlag)
    /\ acceptsNotifyFrom(p)
    /\ runVerification(p)
    /\ valid' = valid \cup {p}
    /\ UNCHANGED <<outside, m_poolmode, m_selected, m_balance, m_error_accum, at, m_stopFlag, m_isConnected,
                   timer, extranonce_str, passed>>

(* The connection is lost.                                                 *)
Lose(p) ==
    /\ at[p] = "receive" /\ p \notin up
    /\ Leave(p)
    /\ UNCHANGED <<outside, manager, m_stopFlag, m_reconnect, timer, jobs>>

(* Faulty variant, used only to show that a property can fail: the strings *)
(* are freed, ntime is kept.                                               *)
DisconnectedKeepsNtime(p) ==
    /\ at[p] = "closed"
    /\ extranonce_str' = extranonce_str \ {p}
    /\ timer' = timer \cup (IF m_poolmode = "DUAL" THEN {p} ELSE IF p = "PRIMARY" THEN {"SECONDARY"} ELSE {})
    /\ Goto(p, "top")
    /\ UNCHANGED <<outside, manager, flags, valid, passed>>

(* Faulty variant, used only to show that a property can fail: SECONDARY   *)
(* is not started when PRIMARY is lost.                                    *)
DisconnectedOwnTimer(p) ==
    /\ at[p] = "closed"
    /\ extranonce_str' = extranonce_str \ {p}
    /\ valid' = valid \ {p}
    /\ timer' = timer \cup {p}
    /\ Goto(p, "top")
    /\ UNCHANGED <<outside, manager, flags, passed>>

(* disconnectedCallback: the jobs are invalidated, and a timer is started: *)
(* SECONDARY's in failover, when PRIMARY is lost, and its own in dual.     *)
DisconnectedCallback(p) ==
    /\ at[p] = "closed"
    /\ extranonce_str' = extranonce_str \ {p}
    /\ valid' = valid \ {p}
    /\ timer' = timer \cup (IF m_poolmode = "DUAL" THEN {p} ELSE IF p = "PRIMARY" THEN {"SECONDARY"} ELSE {})
    /\ Goto(p, "top")
    /\ UNCHANGED <<outside, manager, flags, passed>>

-----------------------------------------------------------------------------
(* Faulty variant, used only to show that a property can fail: dual mode   *)
(* keeps SECONDARY away, as failover does.                                 *)
reconnectTimerCallbackFailover(p) ==
    LET wanted == p = "PRIMARY" \/ "PRIMARY" \notin m_isConnected \ blocked
    IN  /\ p \in timer
        /\ m_stopFlag' = IF p \in blocked THEN m_stopFlag
                         ELSE IF wanted THEN m_stopFlag \ {p} ELSE m_stopFlag \cup {p}
        /\ UNCHANGED <<outside, manager, at, m_isConnected, m_reconnect, timer, jobs>>

(* The timer task: a timer that runs expires every 30 s.                   *)

reconnectTimerCallback(p) ==
    LET wanted == m_poolmode = "DUAL" \/ p = "PRIMARY" \/ "PRIMARY" \notin m_isConnected \ blocked
    IN  /\ p \in timer
        /\ m_stopFlag' = IF p \in blocked THEN m_stopFlag
                         ELSE IF wanted THEN m_stopFlag \ {p} ELSE m_stopFlag \cup {p}
        /\ UNCHANGED <<outside, manager, at, m_isConnected, m_reconnect, timer, jobs>>

-----------------------------------------------------------------------------
(* create_jobs_task asks getNextActivePool.  In failover mode it is        *)
(* m_selected.  In dual mode an accumulator spreads the turns of SECONDARY *)
(* over those of PRIMARY; it starts anew whenever one has nothing valid.   *)

usable == valid \ blocked

TakeTurnAlone ==
    /\ m_poolmode = "DUAL" /\ usable # Pools
    /\ m_error_accum' = 0
    /\ passed' = [p \in Pools |-> 0]
    /\ UNCHANGED <<outside, m_poolmode, m_selected, m_balance, blocked, at, flags, timer, extranonce_str, valid>>

(* Faulty variant, used only to show that a property can fail: the         *)
(* accumulator may reach 100.                                              *)
TakeTurnLate ==
    /\ m_poolmode = "DUAL" /\ usable = Pools
    /\ LET pressure == m_error_accum + 100 - m_balance
           p == IF pressure > 100 THEN "SECONDARY" ELSE "PRIMARY"
       IN  /\ m_error_accum' = IF pressure > 100 THEN pressure - 100 ELSE pressure
           /\ passed' = [passed EXCEPT ![p] = 0, ![Other(p)] = @ + 1]
    /\ UNCHANGED <<outside, m_poolmode, m_selected, m_balance, blocked, at, flags, timer, extranonce_str, valid>>

TakeTurn ==
    /\ m_poolmode = "DUAL" /\ usable = Pools
    /\ LET pressure == m_error_accum + 100 - m_balance
           p == IF pressure >= 100 THEN "SECONDARY" ELSE "PRIMARY"
       IN  /\ m_error_accum' = IF pressure >= 100 THEN pressure - 100 ELSE pressure
           /\ passed' = [passed EXCEPT ![p] = 0, ![Other(p)] = @ + 1]
    /\ UNCHANGED <<outside, m_poolmode, m_selected, m_balance, blocked, at, flags, timer, extranonce_str, valid>>

-----------------------------------------------------------------------------
(* What comes from outside.                                                *)

(* The verification settings of a pool are changed: its block is taken     *)
(* back, then the coinbase decoded last, if there is one, is verified.     *)
ChangeVerification(p) ==
    /\ p \in Forced
    /\ \E passes, decoded \in BOOLEAN :
          /\ honest' = IF passes THEN honest \cup {p} ELSE honest \ {p}
          /\ blocked' = IF decoded /\ ~passes THEN blocked \cup {p} ELSE blocked \ {p}
          /\ m_reconnect' = IF decoded /\ ~passes THEN m_reconnect \cup {p} ELSE m_reconnect
    /\ UNCHANGED <<up, m_poolmode, m_selected, m_balance, m_error_accum, at, m_stopFlag, m_isConnected, timer, jobs>>

(* loadSettings, after the configuration of some pools was changed, or,    *)
(* which concerns both, the balance.                                       *)
LoadSettings ==
    \E changed \in (SUBSET Pools) \ {{}}, balance \in Balances :
        /\ balance # m_balance => m_poolmode = "DUAL" /\ changed = Pools
        /\ m_balance' = balance
        /\ m_error_accum' = IF balance # m_balance THEN 0 ELSE m_error_accum
        /\ passed' = IF balance # m_balance THEN [p \in Pools |-> 0] ELSE passed
        /\ m_reconnect' = m_reconnect \cup changed
        /\ blocked' = blocked \ changed
        /\ UNCHANGED <<outside, m_poolmode, m_selected, at, m_stopFlag, m_isConnected, timer,
                       extranonce_str, valid>>

(* The preferred route changes: reconnectAll.                              *)
ReconnectAll ==
    /\ m_reconnect' = Pools
    /\ UNCHANGED <<outside, manager, at, m_stopFlag, m_isConnected, timer, jobs>>

(* A pool goes away or comes back, or changes who its coinbase pays.       *)
PoolChanges(p) ==
    /\ \/ up' \in {up \cup {p}, up \ {p}} /\ UNCHANGED honest
       \/ p \in Forced /\ honest' \in {honest \cup {p}, honest \ {p}} /\ UNCHANGED up
    /\ UNCHANGED <<manager, at, flags, timer, jobs>>

Settings == LoadSettings \/ ReconnectAll \/ \E p \in Pools : ChangeVerification(p)

-----------------------------------------------------------------------------

Task(p) ==
    \/ Connect(p) \/ Reconnect(p) \/ FirstLine(p) \/ DispatchFirst(p) \/ Stop(p) \/ DispatchNotify(p)
    \/ Lose(p) \/ DisconnectedCallback(p)

Next ==
    \/ \E p \in Pools : Task(p) \/ reconnectTimerCallback(p) \/ PoolChanges(p)
    \/ TakeTurnAlone \/ TakeTurn
    \/ Settings

Spec == Init /\ [][Next]_vars

(* Tasks keep running, timers expire, and a pool that is up keeps sending. *)
Fairness == \A p \in Pools : WF_vars(Task(p)) /\ WF_vars(reconnectTimerCallback(p))

FairSpec == Spec /\ Fairness

-----------------------------------------------------------------------------

TypeOK ==
    /\ up \subseteq Pools /\ honest \subseteq Pools
    /\ m_poolmode \in Modes /\ m_selected \in Pools
    /\ m_balance \in Balances /\ m_error_accum \in 0..99
    /\ blocked \subseteq Pools /\ at \in [Pools -> Places]
    /\ m_stopFlag \subseteq Pools /\ m_isConnected \subseteq Pools /\ m_reconnect \subseteq Pools
    /\ timer \subseteq Pools
    /\ extranonce_str \subseteq Pools /\ valid \subseteq Pools
    /\ passed \in [Pools -> Nat]

(* A job that passes isValid has an extranonce: buildBmJob takes its       *)
(* length without looking (create_jobs_task.cpp:81).                       *)
ValidHasExtranonce == valid \subseteq extranonce_str

(* In failover mode what a pool sends is dropped unless it is selected: a  *)
(* pool that is heard, and has not been told to leave or to reconnect,     *)
(* keeps a connection that is of no use, and nothing would end it.         *)
Heard(p)   == p \in m_isConnected \/ at[p] = "called"
Leaving    == m_stopFlag \cup m_reconnect
Ignored(p) == Heard(p) /\ p \notin Leaving /\ ~acceptsNotifyFrom(p)

(* The timer takes the stop of a pool back; or SECONDARY is selected over  *)
(* PRIMARY, whose connectedCallback has run and whose flag is not yet set. *)
Reprieved(p) == p \in m_stopFlag \ m_stopFlag'
Overtaken(p) == p = "PRIMARY" /\ at[p] = "called" /\ m_selected = p /\ m_selected' # p

(* No pool comes to be ignored but at these two moments, whatever the      *)
(* order of connections, blocks, settings and timers.                      *)
IgnoredOnlyThen == [][\A p \in Pools : ~Ignored(p) /\ Ignored(p)' => Reprieved(p) \/ Overtaken(p)]_vars

(* A pool that is blocked while it is heard is on its way out.             *)
BlockedLeaves == \A p \in blocked : Heard(p) => p \in Leaving

(* While both pools have work neither waits for its turn longer than its   *)
(* share allows.                                                           *)
Share(p) == IF p = "PRIMARY" THEN m_balance ELSE 100 - m_balance
TurnComes == \A p \in Pools : passed[p] * Share(p) < 100

Serves(p) == p \in up /\ p \in honest /\ p \notin blocked
Quiet     == <>[][~Settings]_vars
Heeded(p) == <>[]~Ignored(p)

PrimaryGone == [](m_poolmode = "FAILOVER") /\ <>[]("PRIMARY" \notin up \ blocked) /\ <>[]Serves("SECONDARY")
OnSecondary == <>[](m_selected = "SECONDARY" /\ "SECONDARY" \in valid)

(* In failover mode SECONDARY is mined when PRIMARY is out of reach, or    *)
(* blocked, for good.                                                      *)
SecondaryTakesOver == Quiet /\ PrimaryGone => OnSecondary

(* Nothing can keep SECONDARY from it but that it is ignored.              *)
FailsOver == Quiet /\ Heeded("SECONDARY") /\ PrimaryGone => OnSecondary

(* In failover mode PRIMARY is mined again, and it alone, once it is back, *)
(* unless it is ignored.                                                   *)
FailsBack ==
    Quiet /\ Heeded("PRIMARY") /\ [](m_poolmode = "FAILOVER") /\ <>[]Serves("PRIMARY")
        => <>[](m_selected = "PRIMARY" /\ valid = {"PRIMARY"})

(* In dual mode each pool that serves has work for its turns, whatever the *)
(* other does.                                                             *)
DualServesEach ==
    \A p \in Pools : Quiet /\ [](m_poolmode = "DUAL") /\ <>[]Serves(p) => <>[](p \in usable)

(* No jobs are made for ever for a pool that stays blocked.                *)
BlockedIsDropped == \A p \in Pools : <>[](p \in blocked) => <>[](p \notin valid)
=============================================================================
