----------------------------- MODULE DualMining -----------------------------
(***************************************************************************)
(* How the templates of two V1 pools become the jobs of one ASIC: the      *)
(* tasks that receive them (stratum_v1_task, Pool A; stratum_poolb_task,   *)
(* Pool B), their notify queues, and create_jobs_task taking turns with    *)
(* them.  A template is heap memory with one owner at a time; extranonce   *)
(* strings are swapped and freed while jobs are made from them.            *)
(* PoolScheduler says which pool a slice belongs to (any, here), JobRing   *)
(* where a job is kept, PoolBTask how Pool B's connection comes and goes.  *)
(***************************************************************************)
EXTENDS Integers, Sequences

CONSTANTS Bounds,     \* each a bound on what the pools send
          QueueSize,  \* QUEUE_SIZE
          En2Width    \* how many values extranonce_2 has on the wire

Pools == {"A", "B"}

ASSUME DualAssumption ==
    /\ Bounds \subseteq [templates : [Pools -> Nat], sessions : [Pools -> Nat], extranonces : [Pools -> Nat]]
    /\ QueueSize \in Nat \ {0}
    /\ En2Width \in Nat \ {0, 1}

(* A mining_notify: its number among those of its pool, and clean_jobs.    *)
Templates == [n : Nat \ {0}, clean : BOOLEAN]
NoWork    == [n |-> 0, clean |-> FALSE]    \* NULL

VARIABLES
    dual_enable,
    \* the tasks of the pools
    task,         \* where each is in its loop
    transport,    \* whether it is other than NULL
    received,     \* how many templates there were
    hand,         \* the template the task is handling
    extranonce,   \* 0 for NULL, else which of the strings received
    pool_difficultyB,  \* whether it is above 0
    \* the notify queues
    stratum_queue,
    freed,        \* the numbers of the templates freed
    \* create_jobs_task
    pc,
    current_work,
    extranonce_2,
    newest,       \* the local of dual_serve_pool_b
    dry,          \* dual_serve_pool_b was called for want of Pool A work
    en_str,       \* the local of generate_work
    extranonceB_lock,  \* held by create_jobs_task
    \* the ring
    valid,        \* per pool, the templates whose jobs are not invalidated
    \* history
    last,         \* the latest job of each pool: its template and extranonce_2
    behind,       \* its jobs sent over waiting templates since one was enqueued
    sessions,     \* connections so far
    before        \* the templates received over earlier connections

connection == <<transport, extranonce, pool_difficultyB>>
maker      == <<pc, current_work, extranonce_2, newest, dry, en_str, extranonceB_lock>>
history    == <<last, behind, sessions, before>>
vars == <<dual_enable, task, connection, received, hand, stratum_queue, freed, maker, valid, history>>

Waiting(p)  == Len(stratum_queue[p])
Numbers(q)  == {q[k].n : k \in 1..Len(q)}
Freed(p, w) == [freed EXCEPT ![p] = @ \cup ({w.n} \ {0})]

Bounded == \E b \in Bounds : \A p \in Pools :
    received[p] <= b.templates[p] /\ sessions[p] <= b.sessions[p] /\ extranonce[p] <= b.extranonces[p]

Init ==
    /\ dual_enable \in BOOLEAN
    /\ task = [p \in Pools |-> "down"]
    /\ transport = [p \in Pools |-> FALSE]
    /\ received = [p \in Pools |-> 0] /\ hand = [p \in Pools |-> NoWork]
    /\ extranonce = [p \in Pools |-> 0] /\ pool_difficultyB = FALSE
    /\ stratum_queue = [p \in Pools |-> <<>>] /\ freed = [p \in Pools |-> {}]
    /\ pc = "dequeue"
    /\ current_work = [p \in Pools |-> NoWork] /\ extranonce_2 = [p \in Pools |-> 0]
    /\ newest = NoWork /\ dry = FALSE /\ en_str = 0 /\ extranonceB_lock = FALSE
    /\ valid = [p \in Pools |-> {}]
    /\ last = [p \in Pools |-> [n |-> 0, en2 |-> 0]]
    /\ behind = [p \in Pools |-> 0] /\ before = [p \in Pools |-> 0]
    /\ sessions = [p \in Pools |-> 0]

-----------------------------------------------------------------------------
(* The tasks of the pools.                                                 *)

Goto(p, place) == task' = [task EXCEPT ![p] = place]

(* Where a task is after queue_clear, or after the sweep of the slots.     *)
Resume(p) == IF hand[p] # NoWork THEN "room" ELSE IF transport[p] THEN "receive" ELSE "down"

(* Pool A's transport is visible before it is connected, Pool B's once it  *)
(* is; Pool B is left alone while dual_enable is off.                      *)
Publish(p) ==
    /\ task[p] = "down"
    /\ p = "B" => dual_enable
    /\ sessions' = [sessions EXCEPT ![p] = @ + 1]
    /\ transport' = [transport EXCEPT ![p] = TRUE]
    /\ before' = [before EXCEPT ![p] = received[p]]
    /\ Goto(p, IF p = "A" THEN "connecting" ELSE "receive")
    /\ UNCHANGED <<dual_enable, received, hand, extranonce, pool_difficultyB, stratum_queue, freed,
                   maker, valid, last, behind>>
    /\ Bounded'

(* Once connected, Pool A starts with SYSTEM_clean_jobs_queue.             *)
ConnectA ==
    /\ task["A"] = "connecting"
    /\ \/ Goto("A", "clear") /\ UNCHANGED transport
       \/ Goto("A", "down") /\ transport' = [transport EXCEPT !["A"] = FALSE]
    /\ UNCHANGED <<dual_enable, received, hand, extranonce, pool_difficultyB, stratum_queue, freed,
                   maker, valid, history>>

(* The connection is lost, the pool asks to reconnect, mining is paused or *)
(* dual_enable is off: the handle goes first, the queue is cleared next.   *)
Close(p) ==
    /\ task[p] = "receive"
    /\ transport' = [transport EXCEPT ![p] = FALSE]
    /\ Goto(p, "clear")
    /\ UNCHANGED <<dual_enable, received, hand, extranonce, pool_difficultyB, stratum_queue, freed,
                   maker, valid, history>>

(* A mining.notify.  A clean one clears the queue, and the slots: those of *)
(* Pool A only when there was something in its queue.                      *)
Notify(p) ==
    /\ task[p] = "receive"
    /\ received' = [received EXCEPT ![p] = @ + 1]
    /\ \E clean \in BOOLEAN :
          /\ hand' = [hand EXCEPT ![p] = [n |-> received[p] + 1, clean |-> clean]]
          /\ Goto(p, IF clean /\ (p = "B" \/ Waiting(p) > 0) THEN "clear" ELSE "room")
    /\ UNCHANGED <<dual_enable, connection, stratum_queue, freed, maker, valid, history>>
    /\ Bounded'

(* queue_clear frees what was queued.  The slots come next, in a critical  *)
(* section of their own, except when poolb_close called it.                *)
Clear(p) ==
    /\ task[p] = "clear"
    /\ stratum_queue' = [stratum_queue EXCEPT ![p] = <<>>]
    /\ freed' = [freed EXCEPT ![p] = @ \cup Numbers(stratum_queue[p])]
    /\ Goto(p, IF p = "B" /\ hand[p] = NoWork THEN Resume(p) ELSE "sweep")
    /\ UNCHANGED <<dual_enable, connection, received, hand, maker, valid, history>>

Sweep(p) ==
    /\ task[p] = "sweep"
    /\ valid' = [valid EXCEPT ![p] = {}]
    /\ Goto(p, Resume(p))
    /\ UNCHANGED <<dual_enable, connection, received, hand, stratum_queue, freed, maker, history>>

(* The count is read without the queue's lock; when it says full, the      *)
(* oldest template is taken out.  Only Pool B's dequeue has a timeout.     *)
SeeRoom(p) ==
    /\ task[p] = "room"
    /\ Goto(p, IF Waiting(p) = QueueSize THEN "drop" ELSE "enqueue")
    /\ UNCHANGED <<dual_enable, connection, received, hand, stratum_queue, freed, maker, valid, history>>

DropOldest(p) ==
    /\ task[p] = "drop" /\ Waiting(p) > 0
    /\ stratum_queue' = [stratum_queue EXCEPT ![p] = Tail(@)]
    /\ freed' = Freed(p, Head(stratum_queue[p]))
    /\ Goto(p, "enqueue")
    /\ UNCHANGED <<dual_enable, connection, received, hand, maker, valid, history>>

DropNothingB ==
    /\ task["B"] = "drop" /\ Waiting("B") = 0
    /\ Goto("B", "enqueue")
    /\ UNCHANGED <<dual_enable, connection, received, hand, stratum_queue, freed, maker, valid, history>>

(* The queue owns the template; Pool A's task goes on to decode it.        *)
Enqueue(p) ==
    /\ task[p] = "enqueue" /\ Waiting(p) < QueueSize
    /\ stratum_queue' = [stratum_queue EXCEPT ![p] = Append(@, hand[p])]
    /\ IF p = "A" THEN Goto(p, "decode") /\ UNCHANGED hand
                  ELSE Goto(p, "receive") /\ hand' = [hand EXCEPT ![p] = NoWork]
    /\ behind' = [behind EXCEPT ![p] = 0]
    /\ UNCHANGED <<dual_enable, connection, received, freed, maker, valid, last, sessions, before>>

DecodeA ==
    /\ task["A"] = "decode"
    /\ hand' = [hand EXCEPT !["A"] = NoWork]
    /\ Goto("A", "receive")
    /\ UNCHANGED <<dual_enable, connection, received, stratum_queue, freed, maker, valid, history>>

(* Faulty variant, used only to show that a property can fail: Pool B's    *)
(* string is swapped without its lock.                                     *)
SetExtranonceUnlocked(p) ==
    /\ task[p] = "receive"
    /\ extranonce' = [extranonce EXCEPT ![p] = @ + 1]
    /\ UNCHANGED <<dual_enable, task, transport, pool_difficultyB, received, hand,
                   stratum_queue, freed, maker, valid, history>>
    /\ Bounded'

(* The string is replaced and the old one freed; Pool B's under its lock.  *)
SetExtranonce(p) ==
    /\ task[p] = "receive"
    /\ p = "B" => ~extranonceB_lock
    /\ extranonce' = [extranonce EXCEPT ![p] = @ + 1]
    /\ UNCHANGED <<dual_enable, task, transport, pool_difficultyB, received, hand,
                   stratum_queue, freed, maker, valid, history>>
    /\ Bounded'

SetDifficultyB ==
    /\ task["B"] = "receive"
    /\ pool_difficultyB' = TRUE
    /\ UNCHANGED <<dual_enable, task, transport, extranonce, received, hand,
                   stratum_queue, freed, maker, valid, history>>

Feed == \/ \E p \in Pools : \/ Publish(p) \/ Close(p) \/ Notify(p) \/ Clear(p) \/ Sweep(p)
                            \/ SeeRoom(p) \/ DropOldest(p) \/ Enqueue(p) \/ SetExtranonce(p)
        \/ ConnectA \/ DropNothingB \/ DecodeA \/ SetDifficultyB

-----------------------------------------------------------------------------
(* create_jobs_task.                                                       *)

TasksKept == UNCHANGED <<task, connection, received, hand>>
AHasWork  == current_work["A"] # NoWork

(* The settings are read again about once a second.                        *)
Settings ==
    /\ pc = "dequeue"
    /\ dual_enable' \in BOOLEAN
    /\ TasksKept
    /\ UNCHANGED <<stratum_queue, freed, maker, valid, history>>

(* A template of Pool A replaces the one before; only a clean one is mined *)
(* without another look at the queue.                                      *)
DequeueA ==
    /\ pc = "dequeue" /\ Waiting("A") > 0
    /\ freed' = Freed("A", current_work["A"])
    /\ current_work' = [current_work EXCEPT !["A"] = Head(stratum_queue["A"])]
    /\ stratum_queue' = [stratum_queue EXCEPT !["A"] = Tail(@)]
    /\ extranonce_2' = [extranonce_2 EXCEPT !["A"] = 0]
    /\ pc' = IF Head(stratum_queue["A"]).clean THEN "select" ELSE "dequeue"
    /\ TasksKept
    /\ UNCHANGED <<dual_enable, newest, dry, en_str, extranonceB_lock, valid, history>>

(* Faulty variant: without work of Pool A the ASIC idles, as it once did.  *)
TimeoutIdles ==
    /\ pc = "dequeue" /\ Waiting("A") = 0
    /\ AHasWork
    /\ pc' = "select" /\ dry' = FALSE
    /\ TasksKept
    /\ UNCHANGED <<dual_enable, stratum_queue, freed, current_work, extranonce_2, newest, en_str,
                   extranonceB_lock, valid, history>>

(* Nothing came for the length of a job: on with what there is, or with    *)
(* Pool B when there is nothing.                                           *)
Timeout ==
    /\ pc = "dequeue" /\ Waiting("A") = 0
    /\ AHasWork \/ dual_enable
    /\ pc' = IF AHasWork THEN "select" ELSE "drain"
    /\ dry' = ~AHasWork
    /\ TasksKept
    /\ UNCHANGED <<dual_enable, stratum_queue, freed, current_work, extranonce_2, newest, en_str,
                   extranonceB_lock, valid, history>>

(* Faulty variant: a Pool B without a connection keeps its slices.         *)
SelectIgnoresBDown ==
    /\ pc = "select"
    /\ \E sel \in Pools :
          pc' = IF dual_enable /\ (sel = "B" \/ ~transport["A"]) THEN "drain" ELSE "mineA"
    /\ dry' = FALSE
    /\ TasksKept
    /\ UNCHANGED <<dual_enable, stratum_queue, freed, current_work, extranonce_2, newest, en_str,
                   extranonceB_lock, valid, history>>

(* sel is the scheduler's choice.                                          *)
Select ==
    /\ pc = "select"
    /\ \E sel \in Pools :
          pc' = IF dual_enable /\ ((sel = "B" /\ transport["B"]) \/ ~transport["A"])
                THEN "drain" ELSE "mineA"
    /\ dry' = FALSE
    /\ TasksKept
    /\ UNCHANGED <<dual_enable, stratum_queue, freed, current_work, extranonce_2, newest, en_str,
                   extranonceB_lock, valid, history>>

(* dual_serve_pool_b takes everything waiting, one dequeue at a time, and  *)
(* keeps the last ...                                                      *)
Drain ==
    /\ pc = "drain" /\ Waiting("B") > 0
    /\ newest' = Head(stratum_queue["B"])
    /\ freed' = Freed("B", newest)
    /\ stratum_queue' = [stratum_queue EXCEPT !["B"] = Tail(@)]
    /\ TasksKept
    /\ UNCHANGED <<dual_enable, pc, current_work, extranonce_2, dry, en_str, extranonceB_lock, valid, history>>

Subscribed  == extranonce["B"] # 0 /\ pool_difficultyB
Servable(w) == w # NoWork /\ Subscribed

(* Faulty variant: a slice Pool B has no work for is lost.                 *)
AfterDrainIdles(w) == IF Servable(w) THEN "copyB" ELSE "dequeue"

(* Where dual_serve_pool_b leads: to a job, or back to its caller.         *)
AfterDrain(w) == IF Servable(w) THEN "copyB" ELSE IF dry THEN "dequeue" ELSE "mineA"

Adopting ==
    /\ pc = "drain"
    /\ LET w == IF newest # NoWork THEN newest ELSE current_work["B"]
       IN  current_work' = [current_work EXCEPT !["B"] = w] /\ pc' = AfterDrain(w)
    /\ newest' = NoWork /\ dry' = FALSE
    /\ extranonce_2' = [extranonce_2 EXCEPT !["B"] = IF newest # NoWork THEN 0 ELSE @]
    /\ TasksKept
    /\ UNCHANGED <<dual_enable, stratum_queue, en_str, extranonceB_lock, valid, history>>
FreeReplaced == freed' = IF newest # NoWork THEN Freed("B", current_work["B"]) ELSE freed

(* Faulty variants: the template replaced is not freed; the queue is not   *)
(* taken to its end.                                                       *)
AdoptLeaks == Waiting("B") = 0 /\ Adopting /\ UNCHANGED freed
AdoptEarly == Adopting /\ FreeReplaced

(* ... which replaces Pool B's current template, if there was one.         *)
Adopt == Waiting("B") = 0 /\ Adopting /\ FreeReplaced

(* generate_work copies Pool B's extranonce under its lock ...             *)
LockB ==
    /\ pc = "copyB"
    /\ extranonceB_lock' = TRUE /\ en_str' = extranonce["B"]
    /\ pc' = "copyingB"
    /\ TasksKept
    /\ UNCHANGED <<dual_enable, stratum_queue, freed, current_work, extranonce_2, newest, dry, valid, history>>

UnlockB ==
    /\ pc = "copyingB"
    /\ extranonceB_lock' = FALSE /\ pc' = "sendB"
    /\ TasksKept
    /\ UNCHANGED <<dual_enable, stratum_queue, freed, current_work, extranonce_2, newest, dry, en_str, valid, history>>

(* The counter is written in the extranonce_2_len bytes the pool allows;   *)
(* in the faulty variant it is not cut to them.                            *)
Next2Uncut(e) == e + 1
Next2(e) == (e + 1) % En2Width

(* ... and takes Pool A's as it is.  Before there is one, no job is made.  *)
TakeA ==
    /\ pc = "mineA"
    /\ en_str' = extranonce["A"]
    /\ IF extranonce["A"] # 0
       THEN pc' = "sendA" /\ UNCHANGED extranonce_2
       ELSE pc' = "dequeue" /\ extranonce_2' = [extranonce_2 EXCEPT !["A"] = Next2(@)]
    /\ TasksKept
    /\ UNCHANGED <<dual_enable, stratum_queue, freed, current_work, newest, dry, extranonceB_lock, valid, history>>

(* The coinbase is hashed, the job stored and transmitted, and the next    *)
(* one of this template will have the next extranonce_2.                   *)
Sent(p) ==
    /\ pc = (IF p = "A" THEN "sendA" ELSE "sendB") /\ pc' = "dequeue"
    /\ valid' = [valid EXCEPT ![p] = @ \cup {current_work[p].n}]
    /\ last' = [last EXCEPT ![p] = [n |-> current_work[p].n, en2 |-> extranonce_2[p]]]
    /\ behind' = [behind EXCEPT ![p] = IF Waiting(p) > 0 THEN @ + 1 ELSE 0]
    /\ en_str' = 0
    /\ TasksKept
    /\ UNCHANGED <<dual_enable, stratum_queue, newest, dry, extranonceB_lock, sessions, before>>

(* Faulty variants: the counter stays; a template serves one job only.     *)
SendSameAgain(p) == Sent(p) /\ UNCHANGED <<freed, current_work, extranonce_2>>
SendConsumes(p) ==
    /\ Sent(p)
    /\ freed' = Freed(p, current_work[p])
    /\ current_work' = [current_work EXCEPT ![p] = NoWork]
    /\ UNCHANGED extranonce_2

Send(p) ==
    /\ Sent(p)
    /\ extranonce_2' = [extranonce_2 EXCEPT ![p] = Next2(@)]
    /\ UNCHANGED <<freed, current_work>>

Make == Settings \/ DequeueA \/ Timeout \/ Select \/ Drain \/ Adopt \/ LockB \/ UnlockB \/ TakeA
        \/ \E p \in Pools : Send(p)

Next == Feed \/ Make

Spec     == Init /\ [][Next]_vars
(* create_jobs_task never stops for long: each step takes milliseconds, or *)
(* is a wait with a timeout.  Nothing is assumed of the pools.             *)
FairSpec == Spec /\ WF_vars(DequeueA \/ Timeout \/ Select \/ Drain \/ Adopt \/ LockB \/ UnlockB
                            \/ TakeA \/ \E p \in Pools : Send(p))
-----------------------------------------------------------------------------
TypeOK ==
    /\ dual_enable \in BOOLEAN
    /\ task \in [Pools -> {"down", "connecting", "receive", "clear", "sweep", "room", "drop", "enqueue", "decode"}]
    /\ transport \in [Pools -> BOOLEAN] /\ extranonce \in [Pools -> Nat]
    /\ pool_difficultyB \in BOOLEAN
    /\ received \in [Pools -> Nat]
    /\ hand \in [Pools -> Templates \cup {NoWork}]
    /\ stratum_queue \in [Pools -> Seq(Templates)]
    /\ \A p \in Pools : Waiting(p) <= QueueSize
    /\ freed \in [Pools -> SUBSET (Nat \ {0})]
    /\ pc \in {"dequeue", "select", "drain", "copyB", "copyingB", "sendB", "mineA", "sendA"}
    /\ current_work \in [Pools -> Templates \cup {NoWork}]
    /\ extranonce_2 \in [Pools -> 0..En2Width - 1]
    /\ newest \in Templates \cup {NoWork} /\ dry \in BOOLEAN
    /\ en_str \in Nat /\ extranonceB_lock \in BOOLEAN
    /\ valid \in [Pools -> SUBSET Nat]
    /\ last \in [Pools -> [n : Nat, en2 : 0..En2Width - 1]]
    /\ behind \in [Pools -> Nat] /\ before \in [Pools -> Nat]
    /\ sessions \in [Pools -> Nat]

(* Memory: every template received has one owner (its pool's task, the     *)
(* queue, create_jobs_task) or has been freed, never two of these and      *)
(* never none: nothing leaks, is freed twice or is used after it is freed, *)
(* through clears, drops, drains and replacements in any order.            *)
InHand(p)   == IF task[p] = "decode" THEN {} ELSE {hand[p].n} \ {0}
InQueue(p)  == Numbers(stratum_queue[p])
InMaking(p) == ({current_work[p].n} \cup (IF p = "B" THEN {newest.n} ELSE {})) \ {0}
OneOwner ==
    \A p \in Pools :
        /\ InHand(p) \cup InQueue(p) \cup InMaking(p) \cup freed[p] = 1..received[p]
        /\ \A k, l \in 1..Waiting(p) : stratum_queue[p][k].n = stratum_queue[p][l].n => k = l
        /\ InHand(p) \cap InQueue(p) = {} /\ InHand(p) \cap InMaking(p) = {}
        /\ InQueue(p) \cap InMaking(p) = {}
        /\ freed[p] \cap (InHand(p) \cup InQueue(p) \cup InMaking(p)) = {}
        /\ p = "B" /\ newest # NoWork => newest.n # current_work[p].n

(* What is read is alive.  Pool A's task decodes a template it has already *)
(* given away: the consumer of the queue has not freed it by then          *)
(* (stratum_v1_task.c:363-364).  The string generate_work copies for Pool  *)
(* B is the current one until the copy is made, never one that was swapped *)
(* out and freed (create_jobs_task.c:333-339).                             *)
Alive ==
    /\ task["A"] = "decode" => hand["A"].n \notin freed["A"]
    /\ pc = "copyingB" => en_str = extranonce["B"]

(* A template that waits is mined soon: at most one job of Pool B is made  *)
(* from an older one, however many wait; two of Pool A, where a clean      *)
(* template first in the queue is mined before those behind it.            *)
NewestTakesOver == behind["B"] <= 1 /\ behind["A"] <= 2

(* Jobs of a pool never repeat: each goes on to a later template, or to    *)
(* the next extranonce_2 of the same one.                                  *)
NoJobTwice ==
    [][\A p \in Pools : Send(p) =>
         \/ last'[p].n > last[p].n
         \/ last'[p].n = last[p].n /\ last'[p].en2 = Next2(last[p].en2)]_vars

(* The ASIC never idles for ever while there is work for it: Pool A's, or  *)
(* Pool B's when Pool A has none to give.                                  *)
ServableA  == AHasWork /\ extranonce["A"] # 0
ServableB  == dual_enable /\ Subscribed /\ (Waiting("B") > 0 \/ {newest, current_work["B"]} # {NoWork})
NeverIdle  == <>[](ServableA \/ (ServableB /\ (~AHasWork \/ ~transport["A"])))
              => []<><<\E p \in Pools : Send(p)>>_vars

(* Donation: while Pool A has no work or no connection, Pool B is mined;   *)
(* while Pool B has no connection, or nothing to mine, Pool A is.          *)
Donates ==
    /\ <>[](ServableB /\ (~AHasWork \/ ~transport["A"])) => []<><<Send("B")>>_vars
    /\ <>[](ServableA /\ transport["A"] /\ (~transport["B"] \/ ~ServableB)) => []<><<Send("A")>>_vars

(* What comments and documents claim.  The jobs whose shares would be      *)
(* submitted to Pool B's connection came over that connection              *)
(* (README.md:111-113).                                                    *)
SharesReachTheirPool == transport["B"] => \A n \in valid["B"] : n > before["B"]
=============================================================================
