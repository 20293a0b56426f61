------------------------ MODULE StratumManager_proofs ------------------------
(***************************************************************************)
(* What holds of StratumManager for every balance, every set of verified   *)
(* pools and any timing: a job that is mined has its extranonce, each pool *)
(* gets its turns, and a pool comes to be ignored at two moments only.     *)
(***************************************************************************)
EXTENDS StratumManager, TLAPS

USE ManagerAssumption

(* A task that is connected waits for lines, and the pool whose lines are  *)
(* heard has been given its extranonce: it was heard from the first line.  *)
HeardFromTheFirst ==
    \A p \in m_isConnected : at[p] = "receive" /\ (acceptsNotifyFrom(p) => p \in extranonce_str)

(* A run of turns of one pool moves the accumulator by the share of the    *)
(* other each time, and it stays within 0..99.                             *)
RunOfTurns ==
    /\ passed["SECONDARY"] * (100 - m_balance) <= m_error_accum
    /\ passed["PRIMARY"] * m_balance <= 99 - m_error_accum

IInv == TypeOK /\ HeardFromTheFirst /\ ValidHasExtranonce /\ RunOfTurns

-----------------------------------------------------------------------------

LEMMA InitIInv == Init => IInv
<1> SUFFICES ASSUME Init PROVE IInv
  OBVIOUS
<1> USE DEF Init
<1>1. TypeOK
  BY DEF TypeOK, Pools, Modes, Places
<1>2. HeardFromTheFirst /\ ValidHasExtranonce
  BY DEF HeardFromTheFirst, ValidHasExtranonce
<1>3. RunOfTurns
  <2>1. passed["PRIMARY"] = 0 /\ passed["SECONDARY"] = 0
    BY DEF Pools
  <2> QED
    BY <2>1, <1>1 DEF RunOfTurns, TypeOK
<1> QED
  BY <1>1, <1>2, <1>3 DEF IInv

(* What leaves the accumulator alone.                                      *)
LEMMA NoTurn ==
    ASSUME RunOfTurns, UNCHANGED <<m_balance, m_error_accum, passed>>
    PROVE  RunOfTurns'
BY DEF RunOfTurns

-----------------------------------------------------------------------------
(* The task of a pool.                                                     *)

LEMMA ConnectKeeps == ASSUME IInv, NEW p \in Pools, Connect(p) PROVE IInv'
<1> USE DEF IInv, Connect, Goto, outside, manager, jobs
<1>1. TypeOK'
  BY DEF TypeOK, Places
<1>2. HeardFromTheFirst' /\ ValidHasExtranonce'
  BY DEF TypeOK, HeardFromTheFirst, ValidHasExtranonce, acceptsNotifyFrom
<1> QED
  BY <1>1, <1>2, NoTurn

LEMMA LeaveKeeps ==
    ASSUME IInv, NEW p \in Pools, Leave(p), UNCHANGED <<outside, manager, m_stopFlag, m_reconnect, timer, jobs>>
    PROVE  IInv'
<1> USE DEF IInv, Leave, Goto, outside, manager, jobs
<1>1. TypeOK'
  BY DEF TypeOK, Places
<1>2. HeardFromTheFirst' /\ ValidHasExtranonce'
  BY DEF TypeOK, HeardFromTheFirst, ValidHasExtranonce, acceptsNotifyFrom
<1> QED
  BY <1>1, <1>2, NoTurn

(* Neither manager changes the selection to a pool that is connected.      *)
LEMMA FirstLineKeeps == ASSUME IInv, NEW p \in Pools, FirstLine(p) PROVE IInv'
<1> USE DEF IInv, FirstLine, Line, Goto, outside, jobs
<1>1. m_selected' \in {m_selected, p} /\ m_stopFlag' \subseteq Pools /\ timer' \subseteq Pools
  BY DEF TypeOK, DualConnected, FallbackConnected, Pools
<1>2. TypeOK'
  BY <1>1 DEF TypeOK, Places
<1>3. HeardFromTheFirst' /\ ValidHasExtranonce'
  BY <1>1 DEF TypeOK, HeardFromTheFirst, ValidHasExtranonce, acceptsNotifyFrom
<1> QED
  BY <1>2, <1>3, NoTurn

LEMMA DispatchFirstKeeps == ASSUME IInv, NEW p \in Pools, DispatchFirst(p) PROVE IInv'
<1> USE DEF IInv, DispatchFirst, Goto, outside, manager
<1>1. TypeOK'
  BY DEF TypeOK, Places
<1>2. HeardFromTheFirst' /\ ValidHasExtranonce'
  BY DEF TypeOK, HeardFromTheFirst, ValidHasExtranonce, acceptsNotifyFrom
<1> QED
  BY <1>1, <1>2, NoTurn

LEMMA DispatchNotifyKeeps == ASSUME IInv, NEW p \in Pools, DispatchNotify(p) PROVE IInv'
<1> USE DEF IInv, DispatchNotify, Line, outside
<1>1. blocked' \subseteq Pools /\ m_reconnect' \subseteq Pools
  BY DEF TypeOK, runVerification
<1>2. TypeOK'
  BY <1>1 DEF TypeOK
<1>3. HeardFromTheFirst' /\ ValidHasExtranonce'
  BY DEF TypeOK, HeardFromTheFirst, ValidHasExtranonce, acceptsNotifyFrom
<1> QED
  BY <1>2, <1>3, NoTurn

LEMMA DisconnectedKeeps == ASSUME IInv, NEW p \in Pools, DisconnectedCallback(p) PROVE IInv'
<1> USE DEF IInv, DisconnectedCallback, Goto, outside, manager, flags
<1>1. TypeOK'
  BY DEF TypeOK, Places, Pools
<1>2. HeardFromTheFirst' /\ ValidHasExtranonce'
  BY DEF TypeOK, HeardFromTheFirst, ValidHasExtranonce, acceptsNotifyFrom
<1> QED
  BY <1>1, <1>2, NoTurn

LEMMA TaskKeeps == ASSUME IInv, NEW p \in Pools, Task(p) PROVE IInv'
<1>1. CASE Reconnect(p) \/ Stop(p) \/ Lose(p)
  BY <1>1, LeaveKeeps DEF Reconnect, Stop, Lose
<1> QED
  BY <1>1, ConnectKeeps, FirstLineKeeps, DispatchFirstKeeps, DispatchNotifyKeeps, DisconnectedKeeps DEF Task

LEMMA TimerKeeps == ASSUME IInv, NEW p \in Pools, reconnectTimerCallback(p) PROVE IInv'
<1> USE DEF IInv, reconnectTimerCallback, outside, manager, jobs
<1>1. TypeOK'
  BY DEF TypeOK
<1>2. HeardFromTheFirst' /\ ValidHasExtranonce'
  BY DEF HeardFromTheFirst, ValidHasExtranonce, acceptsNotifyFrom
<1> QED
  BY <1>1, <1>2, NoTurn

-----------------------------------------------------------------------------
(* The turns.                                                              *)

LEMMA ZeroPassed ==
    ASSUME TypeOK', passed' = [p \in Pools |-> 0]
    PROVE  RunOfTurns'
<1>1. passed'["PRIMARY"] = 0 /\ passed'["SECONDARY"] = 0
  BY DEF Pools
<1>2. m_balance' \in 0..100 /\ m_error_accum' \in 0..99
  BY DEF TypeOK
<1> QED
  BY <1>1, <1>2 DEF RunOfTurns

LEMMA AloneKeeps == ASSUME IInv, TakeTurnAlone PROVE IInv'
<1> USE DEF IInv, TakeTurnAlone, outside, flags
<1>1. TypeOK'
  BY DEF TypeOK
<1>2. HeardFromTheFirst' /\ ValidHasExtranonce'
  BY DEF HeardFromTheFirst, ValidHasExtranonce, acceptsNotifyFrom
<1> QED
  BY <1>1, <1>2, ZeroPassed

LEMMA OneMore == ASSUME NEW n \in Nat, NEW s \in Int PROVE (n + 1) * s = n * s + s
OBVIOUS

LEMMA TurnKeeps == ASSUME IInv, TakeTurn PROVE IInv'
<1> USE DEF IInv, outside, flags
<1>1. HeardFromTheFirst' /\ ValidHasExtranonce'
  BY DEF TakeTurn, HeardFromTheFirst, ValidHasExtranonce, acceptsNotifyFrom
<1> DEFINE pressure == m_error_accum + 100 - m_balance
           n == passed["SECONDARY"]
           k == passed["PRIMARY"]
           s == 100 - m_balance
<1>2. m_balance \in 0..100 /\ m_error_accum \in 0..99 /\ n \in Nat /\ k \in Nat /\ m_balance' = m_balance
  BY DEF TypeOK, TakeTurn, Pools
<1>3. n * s <= m_error_accum /\ k * m_balance <= 99 - m_error_accum
  BY DEF RunOfTurns
<1>4. CASE pressure >= 100
  <2>1. /\ m_error_accum' = pressure - 100
        /\ passed' = [passed EXCEPT !["SECONDARY"] = 0, !["PRIMARY"] = @ + 1]
    BY <1>4 DEF TakeTurn, Other
  <2>2. passed'["SECONDARY"] = 0 /\ passed'["PRIMARY"] = k + 1
    BY <2>1 DEF TypeOK, Pools
  <2>3. (k + 1) * m_balance = k * m_balance + m_balance
    BY <1>2, OneMore
  <2>4. m_error_accum' \in 0..99
    BY <1>2, <1>4, <2>1
  <2>5. k * m_balance \in Int
    BY <1>2
  <2>6. RunOfTurns'
    <3>1. 0 * (100 - m_balance) = 0
      BY <1>2
    <3>2. k * m_balance + m_balance <= 99 - (pressure - 100)
      BY <1>2, <1>3, <2>5
    <3> HIDE DEF n, k, s, pressure
    <3> QED
      BY <1>2, <2>1, <2>2, <2>3, <2>4, <3>1, <3>2 DEF RunOfTurns
  <2>7. TypeOK'
    BY <2>1, <2>4, <1>2 DEF TypeOK, TakeTurn, Pools
  <2> QED
    BY <1>1, <2>6, <2>7
<1>5. CASE ~(pressure >= 100)
  <2>1. /\ m_error_accum' = pressure
        /\ passed' = [passed EXCEPT !["PRIMARY"] = 0, !["SECONDARY"] = @ + 1]
    BY <1>5 DEF TakeTurn, Other
  <2>2. passed'["PRIMARY"] = 0 /\ passed'["SECONDARY"] = n + 1
    BY <2>1 DEF TypeOK, Pools
  <2>3. (n + 1) * s = n * s + s
    BY <1>2, OneMore
  <2>4. m_error_accum' \in 0..99
    BY <1>2, <1>5, <2>1
  <2>5. n * s \in Int
    BY <1>2
  <2>6. RunOfTurns'
    <3>1. 0 * m_balance = 0
      BY <1>2
    <3>2. n * s + s <= pressure
      BY <1>2, <1>3, <2>5
    <3>3. s = 100 - m_balance'
      BY <1>2
    <3> HIDE DEF n, k, s, pressure
    <3> QED
      BY <1>2, <2>1, <2>2, <2>3, <2>4, <3>1, <3>2, <3>3 DEF RunOfTurns
  <2>7. TypeOK'
    BY <2>1, <2>4, <1>2 DEF TypeOK, TakeTurn, Pools
  <2> QED
    BY <1>1, <2>6, <2>7
<1> QED
  BY <1>4, <1>5

-----------------------------------------------------------------------------
(* What comes from outside.                                                *)

LEMMA VerificationKeeps == ASSUME IInv, NEW p \in Pools, ChangeVerification(p) PROVE IInv'
<1> USE DEF IInv, ChangeVerification, jobs
<1>1. TypeOK'
  BY DEF TypeOK
<1>2. HeardFromTheFirst' /\ ValidHasExtranonce'
  BY DEF HeardFromTheFirst, ValidHasExtranonce, acceptsNotifyFrom
<1> QED
  BY <1>1, <1>2, NoTurn

LEMMA LoadSettingsKeeps == ASSUME IInv, LoadSettings PROVE IInv'
<1> USE DEF IInv, outside
<1>1. TypeOK'
  BY DEF TypeOK, LoadSettings, Pools
<1>2. HeardFromTheFirst' /\ ValidHasExtranonce'
  BY DEF LoadSettings, HeardFromTheFirst, ValidHasExtranonce, acceptsNotifyFrom
<1>3. CASE m_balance' = m_balance
  BY <1>1, <1>2, <1>3, NoTurn DEF LoadSettings
<1>4. CASE m_balance' # m_balance
  BY <1>1, <1>2, <1>4, ZeroPassed DEF LoadSettings
<1> QED
  BY <1>3, <1>4

LEMMA ReconnectAllKeeps == ASSUME IInv, ReconnectAll PROVE IInv'
<1> USE DEF IInv, ReconnectAll, outside, manager, jobs
<1>1. TypeOK'
  BY DEF TypeOK
<1>2. HeardFromTheFirst' /\ ValidHasExtranonce'
  BY DEF HeardFromTheFirst, ValidHasExtranonce, acceptsNotifyFrom
<1> QED
  BY <1>1, <1>2, NoTurn

LEMMA PoolChangesKeeps == ASSUME IInv, NEW p \in Pools, PoolChanges(p) PROVE IInv'
<1> USE DEF IInv, PoolChanges, manager, flags, jobs
<1>1. TypeOK'
  BY DEF TypeOK
<1>2. HeardFromTheFirst' /\ ValidHasExtranonce'
  BY DEF HeardFromTheFirst, ValidHasExtranonce, acceptsNotifyFrom
<1> QED
  BY <1>1, <1>2, NoTurn

-----------------------------------------------------------------------------

LEMMA NextKeeps == IInv /\ [Next]_vars => IInv'
<1> SUFFICES ASSUME IInv, [Next]_vars PROVE IInv'
  OBVIOUS
<1>1. CASE UNCHANGED vars
  BY <1>1 DEF vars, outside, manager, flags, jobs, IInv, TypeOK, HeardFromTheFirst, ValidHasExtranonce, RunOfTurns,
              acceptsNotifyFrom
<1>2. CASE \E p \in Pools : Task(p) \/ reconnectTimerCallback(p) \/ PoolChanges(p)
  BY <1>2, TaskKeeps, TimerKeeps, PoolChangesKeeps
<1>3. CASE TakeTurnAlone \/ TakeTurn
  BY <1>3, AloneKeeps, TurnKeeps
<1>4. CASE Settings
  BY <1>4, LoadSettingsKeeps, ReconnectAllKeeps, VerificationKeeps DEF Settings
<1> QED
  BY <1>1, <1>2, <1>3, <1>4 DEF Next

LEMMA Invariant == Spec => []IInv
BY InitIInv, NextKeeps, PTL DEF Spec

(* The accumulator stays within 0..99 and the sets within the pools.       *)
THEOREM TypeCorrect == Spec => []TypeOK
BY Invariant, PTL DEF IInv

(* A valid job has an extranonce, in both modes, whatever the order of     *)
(* connections, stops, settings and timers.                                *)
THEOREM ExtranonceThere == Spec => []ValidHasExtranonce
BY Invariant, PTL DEF IInv

(* Neither pool waits for its turn longer than its share of the balance    *)
(* allows, for every balance.                                              *)
THEOREM TurnsGiven == Spec => []TurnComes
<1>1. ASSUME IInv PROVE TurnComes
  <2> USE <1>1 DEF IInv
  <2>1. m_balance \in 0..100 /\ m_error_accum \in 0..99
    BY DEF TypeOK
  <2>2. passed["SECONDARY"] * (100 - m_balance) < 100 /\ passed["PRIMARY"] * m_balance < 100
    <3>1. passed["SECONDARY"] \in Nat /\ passed["PRIMARY"] \in Nat
      BY DEF TypeOK, Pools
    <3>2. passed["SECONDARY"] * (100 - m_balance) \in Int /\ passed["PRIMARY"] * m_balance \in Int
      BY <2>1, <3>1
    <3> QED
      BY <2>1, <3>2 DEF RunOfTurns
  <2> QED
    BY <2>2 DEF TurnComes, Share, Pools
<1> QED
  BY <1>1, Invariant, PTL

-----------------------------------------------------------------------------
(* A pool that is blocked is leaving.                                      *)

BInv == TypeOK /\ HeardFromTheFirst /\ BlockedLeaves

LEMMA InitBInv == Init => BInv
<1> SUFFICES ASSUME Init PROVE BInv
  OBVIOUS
<1>1. TypeOK /\ HeardFromTheFirst
  BY InitIInv DEF IInv
<1>2. BlockedLeaves
  BY DEF Init, BlockedLeaves
<1> QED
  BY <1>1, <1>2 DEF BInv

(* Who leaves still leaves, but for a pool that is reprieved.              *)
Onward == \A p \in Pools : Heard(p)' => Heard(p) /\ (p \in Leaving => p \in Leaving')

(* Of a step that lets nobody be heard, keeps the selection and reprieves  *)
(* nobody that is heard.                                                   *)
LEMMA NobodyNew ==
    ASSUME BInv, TypeOK', blocked' \subseteq blocked, UNCHANGED <<m_poolmode, m_selected>>, Onward
    PROVE  BlockedLeaves' /\ \A p \in Pools : Ignored(p)' => Ignored(p)
BY DEF BInv, TypeOK, BlockedLeaves, Ignored, acceptsNotifyFrom, Onward

(* The first line of a session: the one that is heard is selected or told  *)
(* to leave, and the other one keeps its place or leaves.                  *)
LEMMA FirstLineB ==
    ASSUME BInv, TypeOK', NEW p \in Pools, FirstLine(p)
    PROVE  BlockedLeaves' /\ \A q \in Pools : ~Ignored(q) /\ Ignored(q)' => Overtaken(q)
<1> USE DEF BInv, FirstLine, Line, Goto, outside, jobs
<1>1. /\ m_isConnected' = m_isConnected /\ m_reconnect' = m_reconnect /\ m_stopFlag \subseteq m_stopFlag'
      /\ at' = [at EXCEPT ![p] = "called"] /\ p \in blocked => p \in m_stopFlag'
      /\ blocked' = blocked /\ m_poolmode' = m_poolmode
  BY DEF DualConnected, FallbackConnected
<1>2. BlockedLeaves'
  BY <1>1 DEF TypeOK, BlockedLeaves, Heard, Leaving
<1>3. ASSUME NEW q \in Pools, ~Ignored(q), Ignored(q)'
      PROVE  Overtaken(q)
  <2> USE <1>1, <1>3 DEF Ignored, acceptsNotifyFrom
  <2>1. m_poolmode = "FAILOVER" /\ q # m_selected' /\ q \notin Leaving' /\ q \notin Leaving /\ Heard(q)'
    BY DEF TypeOK, Modes, Leaving
  <2>2. FallbackConnected(p)
    BY <2>1
  <2>3. q # p
    BY <2>1, <2>2 DEF FallbackConnected, Leaving, Pools
  <2>4. Heard(q) /\ q = Other(p) /\ q \notin blocked
    BY <2>1, <2>3 DEF TypeOK, Heard, Other, Pools, BlockedLeaves
  <2>5. m_selected = q
    BY <2>1, <2>4
  <2>6. m_selected' = p
    BY <2>1, <2>2, <2>5 DEF FallbackConnected
  <2>7. p = "SECONDARY" /\ q = "PRIMARY"
    BY <2>1, <2>2, <2>3, <2>5, <2>6 DEF FallbackConnected, Leaving, Pools
  <2>8. q \notin m_isConnected
    BY <2>2, <2>3, <2>4, <2>5, <2>6, <2>7 DEF FallbackConnected
  <2> QED
    BY <2>4, <2>5, <2>6, <2>7, <2>8 DEF Overtaken, Heard
<1> QED
  BY <1>2, <1>3

LEMMA TaskB ==
    ASSUME BInv, TypeOK', NEW p \in Pools, Task(p)
    PROVE  BlockedLeaves' /\ \A q \in Pools : ~Ignored(q) /\ Ignored(q)' => Overtaken(q)
<1> USE DEF BInv
<1>1. CASE Connect(p)
  BY <1>1, NobodyNew
  DEF Onward, Connect, Goto, outside, manager, jobs, TypeOK, Heard, Leaving, HeardFromTheFirst
<1>2. CASE Reconnect(p) \/ Stop(p) \/ Lose(p)
  BY <1>2, NobodyNew DEF Onward, Reconnect, Stop, Lose, Leave, Goto, outside, manager, jobs, TypeOK, Heard, Leaving
<1>3. CASE FirstLine(p)
  BY <1>3, FirstLineB
<1>4. CASE DispatchFirst(p)
  BY <1>4, NobodyNew DEF Onward, DispatchFirst, Goto, outside, manager, TypeOK, Heard, Leaving
<1>5. CASE DispatchNotify(p)
  <2> USE <1>5 DEF DispatchNotify, Line, outside
  <2>1. blocked' \subseteq blocked \cup {p} /\ m_reconnect \subseteq m_reconnect'
    BY DEF runVerification
  <2>2. p \notin blocked /\ (p \in blocked' => p \in m_reconnect')
    BY DEF runVerification, BlockedLeaves, Heard, Leaving
  <2> QED
    BY <2>1, <2>2 DEF BlockedLeaves, Ignored, acceptsNotifyFrom, Heard, Leaving
<1>6. CASE DisconnectedCallback(p)
  BY <1>6, NobodyNew DEF Onward, DisconnectedCallback, Goto, outside, manager, flags, TypeOK, Heard, Leaving
<1> QED
  BY <1>1, <1>2, <1>3, <1>4, <1>5, <1>6 DEF Task

(* The timer takes back no stop of a pool that is blocked.                 *)
LEMMA TimerB ==
    ASSUME BInv, TypeOK', NEW p \in Pools, reconnectTimerCallback(p)
    PROVE  BlockedLeaves' /\ \A q \in Pools : ~Ignored(q) /\ Ignored(q)' => Reprieved(q)
<1> USE DEF BInv, reconnectTimerCallback, outside, manager, jobs
<1>1. m_stopFlag \ {p} \subseteq m_stopFlag' /\ (p \in blocked => m_stopFlag' = m_stopFlag)
  OBVIOUS
<1>2. BlockedLeaves'
  BY <1>1 DEF BlockedLeaves, Heard, Leaving
<1>3. ASSUME NEW q \in Pools, ~Ignored(q), Ignored(q)' PROVE Reprieved(q)
  BY <1>3 DEF Ignored, acceptsNotifyFrom, Heard, Leaving, Reprieved
<1> QED
  BY <1>2, <1>3

LEMMA NextB ==
    ASSUME BInv, TypeOK', [Next]_vars
    PROVE  BlockedLeaves' /\ \A p \in Pools : ~Ignored(p) /\ Ignored(p)' => Reprieved(p) \/ Overtaken(p)
<1> USE DEF BInv
<1>1. CASE UNCHANGED vars
  BY <1>1, NobodyNew DEF Onward, vars, outside, manager, flags, jobs, Heard, Leaving
<1>2. CASE \E p \in Pools : Task(p)
  BY <1>2, TaskB
<1>3. CASE \E p \in Pools : reconnectTimerCallback(p)
  BY <1>3, TimerB
<1>4. CASE TakeTurnAlone \/ TakeTurn
  BY <1>4, NobodyNew DEF Onward, TakeTurnAlone, TakeTurn, outside, flags, Heard, Leaving
<1>5. CASE LoadSettings \/ ReconnectAll
  BY <1>5, NobodyNew DEF Onward, LoadSettings, ReconnectAll, outside, manager, jobs, Heard, Leaving
<1>6. ASSUME NEW p \in Pools, ChangeVerification(p)
      PROVE  BlockedLeaves' /\ \A q \in Pools : Ignored(q)' => Ignored(q)
  BY <1>6 DEF ChangeVerification, jobs, BlockedLeaves, Ignored, acceptsNotifyFrom, Heard, Leaving
<1>7. ASSUME NEW p \in Pools, PoolChanges(p)
      PROVE  BlockedLeaves' /\ \A q \in Pools : Ignored(q)' => Ignored(q)
  BY <1>7, NobodyNew DEF Onward, PoolChanges, manager, flags, jobs, Heard, Leaving
<1> QED
  BY <1>1, <1>2, <1>3, <1>4, <1>5, <1>6, <1>7 DEF Next, Settings

LEMMA BInvariant == Spec => []BInv
<1>1. BInv /\ IInv' /\ [Next]_vars => BInv'
  BY NextB DEF BInv, IInv
<1> QED
  BY <1>1, InitBInv, Invariant, PTL DEF Spec

(* A pool that is blocked while it is heard is on its way out, whatever    *)
(* the timing: the timer leaves the stop of a blocked pool alone.          *)
THEOREM BlockedIsLeaving == Spec => []BlockedLeaves
BY BInvariant, PTL DEF BInv

(* For every timing: the only steps that make a pool be ignored are the    *)
(* timer's, when it takes back the stop of a session that still runs, and  *)
(* SECONDARY's first line between PRIMARY's callback and its flag.         *)
THEOREM OnlyThenIgnored == Spec => IgnoredOnlyThen
<1>1. BInv /\ IInv' /\ [Next]_vars
        => [\A p \in Pools : ~Ignored(p) /\ Ignored(p)' => Reprieved(p) \/ Overtaken(p)]_vars
  BY NextB DEF IInv
<1> QED
  BY <1>1, BInvariant, Invariant, PTL DEF Spec, IgnoredOnlyThen
=============================================================================
