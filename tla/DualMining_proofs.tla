------------------------- MODULE DualMining_proofs -------------------------
(***************************************************************************)
(* Every template of the two pools has one owner until it is freed, no job *)
(* is made twice, and a template that waits is soon taken up: for every    *)
(* bound on what the pools send, every length of the queues and every      *)
(* width of extranonce_2.                                                  *)
(***************************************************************************)
EXTENDS DualMining, TLAPS

LEMMA Width == QueueSize \in Nat \ {0} /\ En2Width \in Nat \ {0, 1}
BY DualAssumption DEF DualAssumption

LEMMA Wraps == ASSUME NEW e \in 0..En2Width - 1 PROVE Next2(e) \in 0..En2Width - 1
BY Width, SMTT(30) DEF Next2

LEMMA NoWorkIsNone == NoWork \notin Templates /\ NoWork.n = 0 /\ ~NoWork.clean
                      /\ \A w \in Templates : w # NoWork /\ w.n \in Nat \ {0} /\ w.clean \in BOOLEAN
BY DEF NoWork, Templates

LEMMA Numbered == \A w \in Templates \cup {NoWork} : w.n \in Nat
BY NoWorkIsNone

(* The inductive invariant.                                                *)

(* The queue of a pool is ascending: later templates come later.           *)
Ascending(q) == \A k, l \in 1..Len(q) : k < l => q[k].n < q[l].n

(* The pool's task owns the template it handles, until it is queued.       *)
Held(p)   == task[p] # "decode" /\ hand[p] # NoWork
Newest(p) == IF p = "B" THEN newest ELSE NoWork

(* Where the task is tells whether it handles a template.                  *)
HandOK(p) ==
    /\ task[p] \in {"down", "connecting", "receive"} => hand[p] = NoWork
    /\ task[p] \in {"room", "drop", "enqueue", "decode"} => hand[p] # NoWork
    /\ task[p] = "decode" => p = "A"

(* Every template is somewhere, and what is freed is nowhere else.         *)
Covered(p) ==
    /\ freed[p] \subseteq 1..received[p]
    /\ 1..received[p] \subseteq InHand(p) \cup InQueue(p) \cup InMaking(p) \cup freed[p]
    /\ freed[p] \cap (InHand(p) \cup InQueue(p) \cup InMaking(p)) = {}

(* Templates pass from task to queue to create_jobs_task in the order they *)
(* were received: current, newest, queue, hand.                            *)
InOrder(p) ==
    /\ Ascending(stratum_queue[p])
    /\ hand[p] # NoWork => hand[p].n = received[p]
    /\ \A n \in InQueue(p) \cup {current_work[p].n, Newest(p).n} :
          n <= received[p] /\ (Held(p) => n < received[p])
    /\ \A n \in InQueue(p) : current_work[p].n < n /\ Newest(p).n < n
    /\ Newest(p) # NoWork => current_work[p].n < Newest(p).n

(* What Pool A's task decodes is not freed yet.                            *)
DecodedAlive == task["A"] = "decode" => hand["A"].n \notin freed["A"]

TemplatesOK(p) == HandOK(p) /\ Covered(p) /\ InOrder(p)

(* What create_jobs_task works on at each place is there.                   *)
Making ==
    /\ pc \in {"select", "mineA", "sendA"} => current_work["A"] # NoWork
    /\ pc = "drain" /\ ~dry => current_work["A"] # NoWork
    /\ pc \in {"copyB", "copyingB", "sendB"} => current_work["B"] # NoWork
    /\ extranonceB_lock <=> pc = "copyingB"
    /\ pc = "copyingB" => en_str = extranonce["B"]
    /\ pc = "sendA" => extranonce["A"] # 0

(* The next job of the template last sent has the next extranonce_2.       *)
Lasts ==
    /\ \A p \in Pools :
          /\ last[p].n <= current_work[p].n
          /\ last[p].n = current_work[p].n /\ last[p].n # 0 => extranonce_2[p] = Next2(last[p].en2)
    /\ extranonce["A"] = 0 => last["A"].n = 0

(* A clean template of Pool A is put into an empty queue.                  *)
CleanFirst ==
    /\ \A k \in 2..Waiting("A") : ~stratum_queue["A"][k].clean
    /\ hand["A"].clean /\ task["A"] \in {"sweep", "room", "drop", "enqueue"} => Waiting("A") = 0

(* How many jobs may still be sent before what waits is taken up.          *)
CleanAhead == IF Waiting("A") > 0 /\ stratum_queue["A"][1].clean THEN 1 ELSE 0
JobAhead   == IF pc = "dequeue" THEN 0 ELSE 1
TakeOver ==
    /\ behind["B"] <= 1 /\ behind["A"] <= 2
    /\ pc \in {"copyB", "copyingB", "sendB"} /\ Waiting("B") > 0 => behind["B"] = 0
    /\ Waiting("A") > 0 => behind["A"] + CleanAhead + JobAhead <= 2

IInv ==
    /\ TypeOK
    /\ \A p \in Pools : TemplatesOK(p)
    /\ DecodedAlive /\ Making /\ Lasts /\ CleanFirst /\ TakeOver

-----------------------------------------------------------------------------
(* What is in a queue, as it grows and shrinks.                            *)

LEMMA NumbersTyped == ASSUME NEW q \in Seq(Templates) PROVE Numbers(q) \subseteq Nat \ {0}
<1>1. \A k \in 1..Len(q) : q[k].n \in Nat \ {0}
  BY NoWorkIsNone
<1> QED
  BY <1>1, Zenon DEF Numbers

LEMMA NumbersEmpty == Numbers(<<>>) = {} /\ Ascending(<<>>) /\ Len(<<>>) = 0
BY DEF Numbers, Ascending

LEMMA Appended ==
    ASSUME NEW q \in Seq(Templates), NEW w \in Templates
    PROVE  /\ Append(q, w) \in Seq(Templates) /\ Len(Append(q, w)) = Len(q) + 1
           /\ Numbers(Append(q, w)) = Numbers(q) \cup {w.n}
           /\ Ascending(q) /\ (\A n \in Numbers(q) : n < w.n) => Ascending(Append(q, w))
<1>1. Append(q, w) \in Seq(Templates) /\ Len(Append(q, w)) = Len(q) + 1
  OBVIOUS
<1>2. /\ \A k \in 1..Len(q) : Append(q, w)[k] = q[k]
      /\ Append(q, w)[Len(q) + 1] = w
  OBVIOUS
<1>3. Numbers(Append(q, w)) = Numbers(q) \cup {w.n}
  BY <1>1, <1>2 DEF Numbers
<1>4. ASSUME Ascending(q), \A n \in Numbers(q) : n < w.n PROVE Ascending(Append(q, w))
  BY <1>1, <1>2, <1>4 DEF Numbers, Ascending
<1> QED
  BY <1>1, <1>3, <1>4

LEMMA Taken ==
    ASSUME NEW q \in Seq(Templates), Len(q) > 0
    PROVE  /\ Head(q) \in Templates /\ Head(q) = q[1]
           /\ Tail(q) \in Seq(Templates) /\ Len(Tail(q)) = Len(q) - 1
           /\ \A k \in 1..Len(q) - 1 : Tail(q)[k] = q[k + 1]
           /\ Numbers(q) = Numbers(Tail(q)) \cup {Head(q).n}
           /\ Ascending(q) => Ascending(Tail(q)) /\ \A n \in Numbers(Tail(q)) : Head(q).n < n
<1>1. /\ q # <<>> /\ Head(q) = q[1] /\ q[1] \in Templates
      /\ Tail(q) \in Seq(Templates) /\ Len(Tail(q)) = Len(q) - 1
      /\ \A k \in 1..Len(q) - 1 : Tail(q)[k] = q[k + 1]
  OBVIOUS
<1>2. Numbers(q) = Numbers(Tail(q)) \cup {Head(q).n}
  <2>1. ASSUME NEW k \in 1..Len(q) PROVE q[k].n \in Numbers(Tail(q)) \cup {Head(q).n}
    <3>1. CASE k = 1
      BY <1>1, <3>1
    <3>2. CASE k # 1
      <4>1. k - 1 \in 1..Len(Tail(q)) /\ Tail(q)[k - 1] = q[k]
        BY <1>1, <3>2
      <4> QED
        BY <4>1 DEF Numbers
    <3> QED
      BY <3>1, <3>2
  <2>2. ASSUME NEW k \in 1..Len(Tail(q)) PROVE Tail(q)[k].n \in Numbers(q)
    BY <1>1 DEF Numbers
  <2>3. Head(q).n \in Numbers(q)
    BY <1>1 DEF Numbers
  <2> QED
    BY <2>1, <2>2, <2>3 DEF Numbers
<1>3. ASSUME Ascending(q)
      PROVE  Ascending(Tail(q)) /\ \A n \in Numbers(Tail(q)) : Head(q).n < n
  BY <1>1, <1>3 DEF Ascending, Numbers
<1> QED
  BY <1>1, <1>2, <1>3

(* A queue is empty when it holds no number.                               *)
LEMMA SomeNumber == ASSUME NEW q \in Seq(Templates) PROVE Numbers(q) = {} <=> Len(q) = 0
<1>1. CASE Len(q) = 0
  BY <1>1, NumbersEmpty
<1>2. CASE Len(q) # 0
  <2>1. 1 \in 1..Len(q)
    BY <1>2
  <2> QED
    BY <1>2, <2>1, Zenon DEF Numbers
<1> QED
  BY <1>1, <1>2
-----------------------------------------------------------------------------
(* Types.                                                                  *)

(* Everything of both pools has the type TypeOK gives it: TypeOK says so   *)
(* for functions, which the updates of one pool keep.                      *)
LEMMA QueueTyped ==
    ASSUME TypeOK, NEW p \in Pools
    PROVE  stratum_queue[p] \in Seq(Templates) /\ Waiting(p) = Len(stratum_queue[p]) /\ Waiting(p) \in 0..QueueSize
<1>1. stratum_queue[p] \in Seq(Templates) /\ Waiting(p) <= QueueSize
  BY DEF TypeOK
<1> QED
  BY <1>1, Width DEF Waiting

(* The part of TypeOK that concerns the queues and what is freed.          *)
QueuesOK ==
    /\ stratum_queue \in [Pools -> Seq(Templates)]
    /\ \A p \in Pools : Waiting(p) <= QueueSize
    /\ freed \in [Pools -> SUBSET (Nat \ {0})]

(* One pool's queue is replaced by one no longer than allowed.             *)
LEMMA QueueSet ==
    ASSUME TypeOK, NEW p \in Pools, NEW q \in Seq(Templates), Len(q) <= QueueSize,
           stratum_queue' = [stratum_queue EXCEPT ![p] = q],
           freed' \in [Pools -> SUBSET (Nat \ {0})]
    PROVE  QueuesOK'
BY DEF TypeOK, QueuesOK, Waiting

LEMMA FreedOne ==
    ASSUME TypeOK, NEW p \in Pools, NEW w \in Templates \cup {NoWork}
    PROVE  /\ Freed(p, w) \in [Pools -> SUBSET (Nat \ {0})]
           /\ Freed(p, w)[p] = freed[p] \cup ({w.n} \ {0})
           /\ \A r \in Pools \ {p} : Freed(p, w)[r] = freed[r]
<1>1. w.n \in Nat
  BY NoWorkIsNone
<1> QED
  BY <1>1 DEF TypeOK, Freed

LEMMA QueuesTyped == ASSUME IInv, Next PROVE QueuesOK'
<1> USE DEF IInv
<1>1. ASSUME NEW p \in Pools, Clear(p) PROVE QueuesOK'
  <2>1. freed' \in [Pools -> SUBSET (Nat \ {0})]
    BY <1>1, QueueTyped, NumbersTyped DEF Clear, TypeOK
  <2>2. <<>> \in Seq(Templates) /\ Len(<<>>) <= QueueSize
    BY Width
  <2>3. stratum_queue' = [stratum_queue EXCEPT ![p] = <<>>]
    BY <1>1 DEF Clear
  <2> QED
    BY <2>1, <2>2, <2>3, QueueSet
<1>2. ASSUME NEW p \in Pools, DropOldest(p) PROVE QueuesOK'
  <2>1. Head(stratum_queue[p]) \in Templates /\ Tail(stratum_queue[p]) \in Seq(Templates)
        /\ Len(Tail(stratum_queue[p])) <= QueueSize
    BY <1>2, QueueTyped, Taken, Width DEF DropOldest
  <2>2. freed' \in [Pools -> SUBSET (Nat \ {0})]
    BY <1>2, <2>1, FreedOne DEF DropOldest
  <2>3. stratum_queue' = [stratum_queue EXCEPT ![p] = Tail(stratum_queue[p])]
    BY <1>2 DEF DropOldest
  <2> QED
    BY <2>1, <2>2, <2>3, QueueSet
<1>3. ASSUME NEW p \in Pools, Enqueue(p) PROVE QueuesOK'
  <2>1. hand[p] \in Templates
    BY <1>3 DEF Enqueue, TemplatesOK, HandOK, TypeOK
  <2>2. Append(stratum_queue[p], hand[p]) \in Seq(Templates)
        /\ Len(Append(stratum_queue[p], hand[p])) <= QueueSize
    BY <1>3, <2>1, QueueTyped, Appended, Width DEF Enqueue
  <2>3. stratum_queue' = [stratum_queue EXCEPT ![p] = Append(stratum_queue[p], hand[p])]
    BY <1>3 DEF Enqueue
  <2>4. freed' \in [Pools -> SUBSET (Nat \ {0})]
    BY <1>3 DEF Enqueue, TypeOK
  <2> QED
    BY <2>2, <2>3, <2>4, QueueSet
<1>4. CASE DequeueA
  <2>1. Tail(stratum_queue["A"]) \in Seq(Templates) /\ Len(Tail(stratum_queue["A"])) <= QueueSize
    BY <1>4, QueueTyped, Taken, Width DEF DequeueA, Pools
  <2>2. stratum_queue' = [stratum_queue EXCEPT !["A"] = Tail(stratum_queue["A"])]
    BY <1>4 DEF DequeueA
  <2>3. freed' \in [Pools -> SUBSET (Nat \ {0})]
    BY <1>4, FreedOne DEF DequeueA, TypeOK, Pools
  <2> QED
    BY <2>1, <2>2, <2>3, QueueSet DEF Pools
<1>5. CASE Drain
  <2>1. Tail(stratum_queue["B"]) \in Seq(Templates) /\ Len(Tail(stratum_queue["B"])) <= QueueSize
    BY <1>5, QueueTyped, Taken, Width DEF Drain, Pools
  <2>2. stratum_queue' = [stratum_queue EXCEPT !["B"] = Tail(stratum_queue["B"])]
    BY <1>5 DEF Drain
  <2>3. freed' \in [Pools -> SUBSET (Nat \ {0})]
    BY <1>5, FreedOne DEF Drain, TypeOK, Pools
  <2> QED
    BY <2>1, <2>2, <2>3, QueueSet DEF Pools
<1>6. CASE Adopt
  <2>1. freed' \in [Pools -> SUBSET (Nat \ {0})]
    BY <1>6, FreedOne DEF Adopt, FreeReplaced, TypeOK, Pools
  <2> QED
    BY <1>6, <2>1 DEF Adopt, Adopting, TypeOK, QueuesOK, Waiting
<1>7. UNCHANGED <<stratum_queue, freed>> => QueuesOK'
  BY DEF TypeOK, QueuesOK, Waiting
<1> QED
  <2>1. ASSUME NEW p \in Pools, Publish(p) \/ Close(p) \/ Notify(p) \/ Sweep(p) \/ SeeRoom(p)
                                \/ SetExtranonce(p) \/ Send(p)
        PROVE  UNCHANGED <<stratum_queue, freed>>
    BY <2>1 DEF Publish, Close, Notify, Sweep, SeeRoom, SetExtranonce, Send, Sent
  <2>2. ASSUME ConnectA \/ DropNothingB \/ DecodeA \/ SetDifficultyB \/ Settings \/ Timeout \/ Select
               \/ LockB \/ UnlockB \/ TakeA
        PROVE  UNCHANGED <<stratum_queue, freed>>
    BY <2>2 DEF ConnectA, DropNothingB, DecodeA, SetDifficultyB, Settings, Timeout, Select, LockB, UnlockB,
       TakeA
  <2> QED
    BY <1>1, <1>2, <1>3, <1>4, <1>5, <1>6, <1>7, <2>1, <2>2 DEF Next, Feed, Make

(* The rest of TypeOK, for the tasks of the pools and for create_jobs_task. *)
TasksOK ==
    /\ dual_enable \in BOOLEAN
    /\ task \in [Pools -> {"down", "connecting", "receive", "clear", "sweep", "room", "drop", "enqueue", "decode"}]
    /\ transport \in [Pools -> BOOLEAN] /\ extranonce \in [Pools -> Nat]
    /\ pool_difficultyB \in BOOLEAN
    /\ received \in [Pools -> Nat]
    /\ hand \in [Pools -> Templates \cup {NoWork}]
    /\ before \in [Pools -> Nat] /\ sessions \in [Pools -> Nat]
MakerOK ==
    /\ pc \in {"dequeue", "select", "drain", "copyB", "copyingB", "sendB", "mineA", "sendA"}
    /\ current_work \in [Pools -> Templates \cup {NoWork}]
    /\ extranonce_2 \in [Pools -> 0..En2Width - 1]
    /\ newest \in Templates \cup {NoWork} /\ dry \in BOOLEAN
    /\ en_str \in Nat /\ extranonceB_lock \in BOOLEAN
    /\ valid \in [Pools -> SUBSET Nat]
    /\ last \in [Pools -> [n : Nat, en2 : 0..En2Width - 1]]
    /\ behind \in [Pools -> Nat]

LEMMA TypeParts == TypeOK <=> QueuesOK /\ TasksOK /\ MakerOK
BY DEF TypeOK, QueuesOK, TasksOK, MakerOK

(* Each part is kept by every step.                                        *)

LEMMA TasksTyped == ASSUME IInv, Next PROVE TasksOK'
<1>a. TasksOK
  BY TypeParts DEF IInv
<1>1. ASSUME NEW p \in Pools, Publish(p) \/ Close(p) \/ Clear(p) \/ Sweep(p) \/ SeeRoom(p) PROVE TasksOK'
  <2>1. CASE Publish(p)
    BY <1>a, <2>1 DEF Publish, Goto, TasksOK
  <2>2. CASE Close(p)
    BY <1>a, <2>2 DEF Close, Goto, history, TasksOK
  <2>3. CASE Clear(p) \/ Sweep(p)
    BY <1>a, <2>3 DEF Clear, Sweep, Goto, Resume, connection, history, TasksOK
  <2>4. CASE SeeRoom(p)
    BY <1>a, <2>4 DEF SeeRoom, Goto, connection, history, TasksOK
  <2> QED
    BY <1>1, <2>1, <2>2, <2>3, <2>4
<1>2. ASSUME NEW p \in Pools, Notify(p) PROVE TasksOK'
  BY <1>a, <1>2 DEF Notify, Goto, connection, history, Templates, TasksOK
<1>3. ASSUME NEW p \in Pools, DropOldest(p) \/ Enqueue(p) \/ SetExtranonce(p) PROVE TasksOK'
  <2>1. CASE DropOldest(p)
    BY <1>a, <2>1 DEF DropOldest, Goto, connection, history, TasksOK
  <2>2. CASE Enqueue(p)
    BY <1>a, <2>2 DEF Enqueue, Goto, connection, TasksOK
  <2>3. CASE SetExtranonce(p)
    BY <1>a, <2>3 DEF SetExtranonce, history, TasksOK
  <2> QED
    BY <1>3, <2>1, <2>2, <2>3
<1>4. ASSUME ConnectA \/ DropNothingB \/ DecodeA \/ SetDifficultyB PROVE TasksOK'
  BY <1>a, <1>4 DEF ConnectA, DropNothingB, DecodeA, SetDifficultyB, Goto, connection, history, TasksOK
<1>5. ASSUME Make PROVE TasksOK'
  <2>1. TasksKept /\ dual_enable' \in BOOLEAN /\ UNCHANGED <<sessions, before>>
    BY <1>a, <1>5 DEF Make, Settings, DequeueA, Timeout, Select, Drain, Adopt, Adopting, LockB, UnlockB, TakeA,
       Send, Sent, TasksOK, history
  <2> QED
    BY <1>a, <2>1 DEF TasksKept, connection, TasksOK
<1> QED
  BY <1>1, <1>2, <1>3, <1>4, <1>5 DEF Next, Feed

LEMMA MakerTyped == ASSUME IInv, Next PROVE MakerOK'
<1>a. TypeOK /\ TasksOK /\ MakerOK
  BY TypeParts DEF IInv
<1>1. ASSUME Feed PROVE MakerOK'
  <2>1. UNCHANGED <<maker, last>>
    BY <1>1 DEF Feed, Publish, Close, Notify, Clear, Sweep, SeeRoom, DropOldest, Enqueue, SetExtranonce,
       ConnectA, DropNothingB, DecodeA, SetDifficultyB, history
  <2>2. ASSUME NEW p \in Pools, Sweep(p) \/ Enqueue(p)
        PROVE  valid' \in [Pools -> SUBSET Nat] /\ behind' \in [Pools -> Nat]
    <3>1. CASE Sweep(p)
      BY <1>a, <3>1 DEF Sweep, history, MakerOK
    <3>2. CASE Enqueue(p)
      BY <1>a, <3>2 DEF Enqueue, MakerOK
    <3> QED
      BY <2>2, <3>1, <3>2
  <2>3. ASSUME ~\E p \in Pools : Sweep(p) \/ Enqueue(p) PROVE UNCHANGED <<valid, behind>>
    BY <1>1, <2>3 DEF Feed, Publish, Close, Notify, Clear, SeeRoom, DropOldest, SetExtranonce,
       ConnectA, DropNothingB, DecodeA, SetDifficultyB, history
  <2> QED
    BY <1>a, <2>1, <2>2, <2>3 DEF maker, MakerOK
<1>2. ASSUME Settings \/ Timeout \/ Select \/ UnlockB PROVE MakerOK'
  BY <1>a, <1>2 DEF Settings, Timeout, Select, UnlockB, maker, history, MakerOK
<1>3. CASE DequeueA
  <2>1. Head(stratum_queue["A"]) \in Templates
    BY <1>3, <1>a, QueueTyped, Taken, Width DEF DequeueA, Pools
  <2>2. 0 \in 0..En2Width - 1
    BY Width
  <2> QED
    BY <1>3, <1>a, <2>1, <2>2 DEF DequeueA, connection, maker, history, TasksKept, Pools, MakerOK
<1>4. CASE Drain
  BY <1>4, <1>a, QueueTyped, Taken DEF Drain, connection, maker, history, TasksKept, Pools, MakerOK
<1>5. CASE Adopt
  <2>1. 0 \in 0..En2Width - 1
    BY Width
  <2>2. /\ newest' = NoWork /\ dry' = FALSE
        /\ UNCHANGED <<en_str, extranonceB_lock, valid, last, behind>>
        /\ pc' \in {"copyB", "dequeue", "mineA"}
    BY <1>5, <1>a DEF Adopt, Adopting, AfterDrain, history
  <2>3. current_work' \in [Pools -> Templates \cup {NoWork}]
    BY <1>5, <1>a DEF Adopt, Adopting, Pools, MakerOK
  <2>4. extranonce_2' \in [Pools -> 0..En2Width - 1]
    BY <1>5, <1>a, <2>1 DEF Adopt, Adopting, Pools, MakerOK
  <2> QED
    BY <1>a, <2>2, <2>3, <2>4 DEF MakerOK
<1>6. CASE LockB
  BY <1>6, <1>a DEF LockB, connection, maker, history, TasksKept, TasksOK, Pools, MakerOK
<1>7. CASE TakeA
  <2>1. Next2(extranonce_2["A"]) \in 0..En2Width - 1
    BY <1>a, Wraps DEF Pools, MakerOK
  <2>2. extranonce_2' \in [Pools -> 0..En2Width - 1]
    BY <1>7, <1>a, <2>1 DEF TakeA, Pools, MakerOK
  <2>3. en_str' \in Nat
    BY <1>7, <1>a DEF TakeA, Pools, TasksOK
  <2> QED
    BY <1>7, <1>a, <2>2, <2>3 DEF TakeA, connection, maker, history, TasksKept, Pools, MakerOK
<1>8. ASSUME NEW p \in Pools, Send(p) PROVE MakerOK'
  BY <1>a, <1>8, Wraps, NoWorkIsNone DEF Send, Sent, history, MakerOK
<1> QED
  BY <1>1, <1>2, <1>3, <1>4, <1>5, <1>6, <1>7, <1>8 DEF Next, Make

LEMMA Typed == ASSUME IInv, Next PROVE TypeOK'
BY QueuesTyped, TasksTyped, MakerTyped DEF TypeOK, QueuesOK, TasksOK, MakerOK

-----------------------------------------------------------------------------
(* Where the templates are.                                                *)

(* What TemplatesOK(p) depends on.                                         *)
SameTask(p)  == task'[p] = task[p] /\ hand'[p] = hand[p] /\ received'[p] = received[p]
SameQueue(p) == stratum_queue'[p] = stratum_queue[p]
SameMaker(p) == current_work'[p] = current_work[p] /\ Newest(p)' = Newest(p)
SameFreed(p) == freed'[p] = freed[p]

LEMMA Frame ==
    ASSUME NEW p \in Pools, TemplatesOK(p), SameTask(p), SameQueue(p), SameMaker(p), SameFreed(p)
    PROVE  TemplatesOK(p)'
BY DEF TemplatesOK, HandOK, Covered, InOrder, InHand, InQueue, InMaking, Held, Newest,
       SameTask, SameQueue, SameMaker, SameFreed

(* What the parts of TemplatesOK(p) are about.                             *)
LEMMA Parts ==
    ASSUME TypeOK, NEW p \in Pools
    PROVE  /\ hand[p] \in Templates \cup {NoWork} /\ hand[p].n \in Nat
           /\ current_work[p] \in Templates \cup {NoWork} /\ current_work[p].n \in Nat
           /\ Newest(p) \in Templates \cup {NoWork} /\ Newest(p).n \in Nat
           /\ received[p] \in Nat
           /\ stratum_queue[p] \in Seq(Templates) /\ Waiting(p) = Len(stratum_queue[p])
           /\ InQueue(p) = Numbers(stratum_queue[p]) /\ InQueue(p) \subseteq Nat \ {0}
           /\ InMaking(p) = {current_work[p].n, Newest(p).n} \ {0}
<1>1. hand[p] \in Templates \cup {NoWork} /\ current_work[p] \in Templates \cup {NoWork}
      /\ Newest(p) \in Templates \cup {NoWork} /\ received[p] \in Nat
      /\ stratum_queue[p] \in Seq(Templates)
  BY DEF TypeOK, Newest
<1>2. InMaking(p) = {current_work[p].n, Newest(p).n} \ {0}
  BY NoWorkIsNone DEF InMaking, Newest
<1> QED
  BY <1>1, <1>2, NumbersTyped, NoWorkIsNone DEF InQueue, Waiting

(* What the task holds is apart from what is further on its way.           *)
LEMMA Apart ==
    ASSUME TypeOK, NEW p \in Pools, TemplatesOK(p)
    PROVE  /\ InHand(p) = IF Held(p) THEN {received[p]} ELSE {}
           /\ \A n \in InQueue(p) \cup {current_work[p].n, Newest(p).n} :
                 n \in 0..received[p] /\ n \notin InHand(p)
<1>1. InHand(p) = IF Held(p) THEN {received[p]} ELSE {}
  <2>1. CASE Held(p)
    BY <2>1, Parts, NoWorkIsNone DEF InHand, Held, TemplatesOK, InOrder
  <2>2. CASE hand[p] = NoWork
    BY <2>2, NoWorkIsNone DEF InHand, Held
  <2>3. CASE task[p] = "decode"
    BY <2>3 DEF InHand, Held
  <2> QED
    BY <2>1, <2>2, <2>3 DEF Held
<1>2. ASSUME NEW n \in InQueue(p) \cup {current_work[p].n, Newest(p).n}
      PROVE  n \in 0..received[p] /\ (Held(p) => n # received[p])
  BY Parts DEF TemplatesOK, InOrder
<1> QED
  BY <1>1, <1>2

(* The moves of a template of pool p.                                      *)

LEMMA MoveTask ==  \* the task goes elsewhere, and keeps the template it owns
    ASSUME TypeOK, NEW p \in Pools, TemplatesOK(p), HandOK(p)', Held(p)' = Held(p),
           hand'[p] = hand[p] \/ (hand'[p] = NoWork /\ ~Held(p)),
           received'[p] = received[p], SameQueue(p), SameMaker(p), SameFreed(p)
    PROVE  TemplatesOK(p)'
<1>1. InHand(p)' = InHand(p)
  <2>1. InHand(p) = IF Held(p) THEN {hand[p].n} \ {0} ELSE {}
    BY NoWorkIsNone DEF InHand, Held
  <2>2. InHand(p)' = IF Held(p)' THEN {hand'[p].n} \ {0} ELSE {}
    BY NoWorkIsNone DEF InHand, Held
  <2> QED
    BY <2>1, <2>2
<1>2. InQueue(p)' = InQueue(p) /\ InMaking(p)' = InMaking(p)
  BY DEF SameQueue, SameMaker, InQueue, InMaking, Newest
<1> QED
  BY <1>1, <1>2 DEF TemplatesOK, Covered, InOrder, SameQueue, SameMaker, SameFreed, Newest

(* The moves are named for what happens: the task has received one, queued *)
(* it, cleared the queue, dropped the oldest; create_jobs_task has taken   *)
(* Pool A's next, drained one of Pool B's, adopted the newest.             *)
LEMMA MoveReceived ==
    ASSUME TypeOK, NEW p \in Pools, TemplatesOK(p), HandOK(p)', hand[p] = NoWork, task'[p] # "decode",
           hand'[p] \in Templates, hand'[p].n = received[p] + 1, received'[p] = received[p] + 1,
           SameQueue(p), SameMaker(p), SameFreed(p)
    PROVE  TemplatesOK(p)'
<1>1. InHand(p)' = {received[p] + 1} /\ InHand(p) = {} /\ Held(p)'
  BY Parts, NoWorkIsNone DEF InHand, Held
<1>2. InQueue(p)' = InQueue(p) /\ InMaking(p)' = InMaking(p)
  BY DEF SameQueue, SameMaker, InQueue, InMaking, Newest
<1>3. Covered(p)'
  <2>1. 1..received'[p] = 1..received[p] \cup {received[p] + 1}
    BY Parts
  <2>2. \A n \in InQueue(p) \cup InMaking(p) \cup freed[p] : n # received[p] + 1
    BY Parts DEF TemplatesOK, Covered, InOrder
  <2> QED
    BY <1>1, <1>2, <2>1, <2>2 DEF TemplatesOK, Covered, SameFreed
<1>4. InOrder(p)'
  BY <1>1, <1>2, Parts DEF TemplatesOK, InOrder, SameQueue, SameMaker, Newest
<1> QED
  BY <1>3, <1>4 DEF TemplatesOK

LEMMA MoveQueued ==  \* afterwards the task no longer owns it
    ASSUME TypeOK, NEW p \in Pools, TemplatesOK(p), Held(p), HandOK(p)', ~Held(p)',
           hand'[p] \in {hand[p], NoWork}, received'[p] = received[p],
           stratum_queue'[p] = Append(stratum_queue[p], hand[p]), SameMaker(p), SameFreed(p)
    PROVE  TemplatesOK(p)'
<1>1. hand[p] \in Templates /\ InHand(p) = {received[p]} /\ InHand(p)' = {} /\ hand[p].n = received[p]
  BY Parts, NoWorkIsNone DEF InHand, Held, TemplatesOK, InOrder
<1>2. \A n \in Numbers(stratum_queue[p]) : n < hand[p].n
  BY <1>1, Parts DEF TemplatesOK, InOrder
<1>3. InQueue(p)' = InQueue(p) \cup {received[p]} /\ Ascending(stratum_queue[p])'
  BY <1>1, <1>2, Parts, Appended DEF InQueue, TemplatesOK, InOrder
<1>4. InMaking(p)' = InMaking(p)
  BY DEF SameMaker, InMaking, Newest
<1>5. Covered(p)'
  BY <1>1, <1>3, <1>4 DEF TemplatesOK, Covered, SameFreed
<1>6. InOrder(p)'
  BY <1>1, <1>3, Parts DEF TemplatesOK, InOrder, SameMaker, Newest
<1> QED
  BY <1>5, <1>6 DEF TemplatesOK

LEMMA MoveCleared ==
    ASSUME TypeOK, NEW p \in Pools, TemplatesOK(p), HandOK(p)', Held(p)' = Held(p),
           hand'[p] = hand[p], received'[p] = received[p],
           stratum_queue'[p] = <<>>, freed'[p] = freed[p] \cup InQueue(p), SameMaker(p)
    PROVE  TemplatesOK(p)'
<1>1. InHand(p)' = InHand(p)
  BY Parts, NoWorkIsNone DEF InHand, Held
<1>2. InQueue(p)' = {} /\ Ascending(stratum_queue[p])'
  BY NumbersEmpty DEF InQueue
<1>3. InMaking(p)' = InMaking(p)
  BY DEF SameMaker, InMaking, Newest
<1>4. Covered(p)'
  <2>1. \A n \in InQueue(p) : n \notin InHand(p) \cup InMaking(p) /\ n \in 1..received[p]
    BY Parts, Apart DEF TemplatesOK, InOrder
  <2> QED
    BY <1>1, <1>2, <1>3, <2>1 DEF TemplatesOK, Covered
<1>5. InOrder(p)'
  BY <1>2, Parts DEF TemplatesOK, InOrder, SameMaker, Newest
<1> QED
  BY <1>4, <1>5 DEF TemplatesOK

LEMMA MoveDropped ==
    ASSUME TypeOK, NEW p \in Pools, TemplatesOK(p), Waiting(p) > 0, HandOK(p)', Held(p)' = Held(p),
           hand'[p] = hand[p], received'[p] = received[p],
           stratum_queue'[p] = Tail(stratum_queue[p]),
           freed'[p] = freed[p] \cup ({Head(stratum_queue[p]).n} \ {0}), SameMaker(p)
    PROVE  TemplatesOK(p)'
<1> DEFINE h == Head(stratum_queue[p]).n
<1>1. InHand(p)' = InHand(p)
  BY Parts, NoWorkIsNone DEF InHand, Held
<1>2. /\ InQueue(p) = InQueue(p)' \cup {h} /\ Ascending(stratum_queue[p])' /\ h \in Nat \ {0}
      /\ \A n \in InQueue(p)' : h < n
  BY Parts, Taken, NoWorkIsNone DEF InQueue, TemplatesOK, InOrder
<1>3. InMaking(p)' = InMaking(p)
  BY DEF SameMaker, InMaking, Newest
<1>4. Covered(p)'
  <2>1. h \in InQueue(p) /\ h \notin InHand(p) /\ h \in 1..received[p] /\ h \notin InQueue(p)'
    BY <1>2, Parts, Apart
  <2>2. h \notin InMaking(p)
    BY <2>1, Parts DEF TemplatesOK, InOrder
  <2> QED
    BY <1>1, <1>2, <1>3, <2>1, <2>2 DEF TemplatesOK, Covered
<1>5. InOrder(p)'
  BY <1>2, Parts DEF TemplatesOK, InOrder, SameMaker, Newest
<1> QED
  BY <1>4, <1>5 DEF TemplatesOK

LEMMA MoveTaken ==  \* DequeueA
    ASSUME TypeOK, TemplatesOK("A"), Waiting("A") > 0, SameTask("A"),
           stratum_queue'["A"] = Tail(stratum_queue["A"]),
           current_work'["A"] = Head(stratum_queue["A"]),
           freed'["A"] = freed["A"] \cup ({current_work["A"].n} \ {0})
    PROVE  TemplatesOK("A")'
<1> DEFINE h == Head(stratum_queue["A"]).n
           c == current_work["A"].n
<1>1. InHand("A")' = InHand("A") /\ Held("A")' = Held("A") /\ HandOK("A")'
  BY DEF InHand, Held, SameTask, TemplatesOK, HandOK
<1>2. /\ InQueue("A") = InQueue("A")' \cup {h} /\ Ascending(stratum_queue["A"])' /\ h \in Nat \ {0}
      /\ \A n \in InQueue("A")' : h < n
  BY Parts, Taken, NoWorkIsNone DEF InQueue, TemplatesOK, InOrder, Pools
<1>3. InMaking("A") = {c} \ {0} /\ InMaking("A")' = {h} /\ c \in Nat /\ c < h
      /\ Newest("A") = NoWork /\ Newest("A")' = NoWork
  BY <1>2, Parts, NoWorkIsNone DEF InMaking, Newest, Pools, TemplatesOK, InOrder
<1>4. Covered("A")'
  <2>1. c \notin InHand("A") \cup InQueue("A") /\ h # c
    BY <1>2, <1>3, Parts, Apart DEF TemplatesOK, InOrder, Pools
  <2>2. c = 0 \/ c \in 1..received["A"]
    BY <1>3, Parts DEF TemplatesOK, InOrder, Pools
  <2> QED
    BY <1>1, <1>2, <1>3, <2>1, <2>2 DEF TemplatesOK, Covered, SameTask
<1>5. InOrder("A")'
  BY <1>1, <1>2, <1>3, Parts, NoWorkIsNone DEF TemplatesOK, InOrder, SameTask, Pools
<1> QED
  BY <1>1, <1>4, <1>5 DEF TemplatesOK

LEMMA MoveDrained ==  \* Drain
    ASSUME TypeOK, TemplatesOK("B"), Waiting("B") > 0, SameTask("B"),
           stratum_queue'["B"] = Tail(stratum_queue["B"]),
           newest' = Head(stratum_queue["B"]), current_work'["B"] = current_work["B"],
           freed'["B"] = freed["B"] \cup ({newest.n} \ {0})
    PROVE  TemplatesOK("B")'
<1> DEFINE h == Head(stratum_queue["B"]).n
           c == current_work["B"].n
           w == newest.n
<1>1. InHand("B")' = InHand("B") /\ Held("B")' = Held("B") /\ HandOK("B")'
  BY DEF InHand, Held, SameTask, TemplatesOK, HandOK
<1>2. /\ InQueue("B") = InQueue("B")' \cup {h} /\ Ascending(stratum_queue["B"])' /\ h \in Nat \ {0}
      /\ \A n \in InQueue("B")' : h < n
  BY Parts, Taken, NoWorkIsNone DEF InQueue, TemplatesOK, InOrder, Pools
<1>3. /\ InMaking("B") = {c, w} \ {0} /\ InMaking("B")' = {c, h} \ {0} /\ c \in Nat /\ w \in Nat
      /\ c < h /\ w < h
      /\ Newest("B") = newest /\ Newest("B")' = newest'
      /\ w # 0 => c < w
  BY <1>2, Parts, NoWorkIsNone DEF InMaking, Newest, Pools, TemplatesOK, InOrder
<1>4. Covered("B")'
  <2>1. w # 0 => w \notin InHand("B") \cup InQueue("B") /\ h # w /\ c # w
    BY <1>2, <1>3, Parts, Apart DEF TemplatesOK, InOrder, Pools
  <2>2. w = 0 \/ w \in 1..received["B"]
    BY <1>3, Parts DEF TemplatesOK, InOrder, Pools
  <2> QED
    BY <1>1, <1>2, <1>3, <2>1, <2>2 DEF TemplatesOK, Covered, SameTask
<1>5. InOrder("B")'
  BY <1>1, <1>2, <1>3, Parts, NoWorkIsNone DEF TemplatesOK, InOrder, SameTask, Pools
<1> QED
  BY <1>1, <1>4, <1>5 DEF TemplatesOK

LEMMA MoveAdopted ==  \* Adopt
    ASSUME TypeOK, TemplatesOK("B"), SameTask("B"), SameQueue("B"), newest # NoWork,
           newest' = NoWork, current_work'["B"] = newest,
           freed'["B"] = freed["B"] \cup ({current_work["B"].n} \ {0})
    PROVE  TemplatesOK("B")'
<1> DEFINE c == current_work["B"].n
           w == newest.n
<1>1. InHand("B")' = InHand("B") /\ Held("B")' = Held("B") /\ HandOK("B")' /\ InQueue("B")' = InQueue("B")
  BY DEF InHand, Held, SameTask, TemplatesOK, HandOK, InQueue, SameQueue
<1>2. /\ InMaking("B") = {c, w} \ {0} /\ InMaking("B")' = {w} /\ c \in Nat /\ w \in Nat \ {0} /\ c < w
      /\ Newest("B") = newest /\ Newest("B")' = NoWork
  BY Parts, NoWorkIsNone DEF InMaking, Newest, Pools, TemplatesOK, InOrder
<1>3. Covered("B")'
  <2>1. c \notin InHand("B") \cup InQueue("B") /\ (c = 0 \/ c \in 1..received["B"])
    BY <1>2, Parts, Apart DEF TemplatesOK, InOrder, Pools
  <2> QED
    BY <1>1, <1>2, <2>1 DEF TemplatesOK, Covered, SameTask
<1>4. InOrder("B")'
  <2>1. Ascending(stratum_queue["B"])' /\ (hand'["B"] # NoWork => hand'["B"].n = received'["B"])
    BY DEF TemplatesOK, InOrder, SameTask, SameQueue, Pools
  <2>2. \A n \in InQueue("B") : w < n /\ 0 < n
    BY <1>2, Parts DEF TemplatesOK, InOrder, Pools
  <2>3. \A n \in InQueue("B") \cup {w} : n <= received["B"] /\ (Held("B") => n < received["B"])
    BY <1>2 DEF TemplatesOK, InOrder, Pools
  <2>4. 0 <= received["B"] /\ (Held("B") => 0 < received["B"])
    <3>1. received["B"] \in Nat
      BY Parts DEF Pools
    <3>2. w <= received["B"] /\ (Held("B") => w < received["B"])
      BY <2>3
    <3> QED
      BY <1>2, <3>1, <3>2
  <2>5. Newest("B")'.n = 0 /\ current_work'["B"].n = w
    BY <1>2, NoWorkIsNone
  <2> QED
    BY <1>1, <1>2, <2>1, <2>2, <2>3, <2>4, <2>5 DEF InOrder, SameTask
<1> QED
  BY <1>1, <1>3, <1>4 DEF TemplatesOK

(* Each step is one of these moves for its pool, and none for the other.   *)
LEMMA TemplatesKept == ASSUME IInv, Next, NEW p \in Pools PROVE TemplatesOK(p)'
<1> USE DEF IInv
<1>h. TemplatesOK(p) /\ HandOK(p)
  BY DEF TemplatesOK
<1>1. ASSUME NEW r \in Pools, Publish(r) \/ Close(r) \/ Sweep(r) \/ SeeRoom(r) PROVE TemplatesOK(p)'
  <2>1. /\ hand' = hand /\ received' = received /\ SameQueue(p) /\ SameMaker(p) /\ SameFreed(p)
        /\ p # r => task'[p] = task[p]
    BY <1>1 DEF Publish, Close, Sweep, SeeRoom, Goto, TypeOK, maker, SameQueue, SameMaker, SameFreed, Newest
  <2>2. HandOK(p)' /\ Held(p)' = Held(p)
    BY <1>1, <1>h DEF Publish, Close, Sweep, SeeRoom, Goto, Resume, TypeOK, HandOK, Held
  <2> QED
    BY <2>1, <2>2, <1>h, MoveTask
<1>2. ASSUME NEW r \in Pools, Notify(r) PROVE TemplatesOK(p)'
  <2>1. CASE p = r
    <3>1. hand[p] = NoWork /\ hand'[p] \in Templates /\ hand'[p].n = received[p] + 1
          /\ received'[p] = received[p] + 1 /\ task'[p] \in {"clear", "room"}
      BY <1>2, <2>1, <1>h DEF Notify, Goto, TypeOK, HandOK, Templates
    <3>2. HandOK(p)'
      BY <3>1, NoWorkIsNone DEF HandOK
    <3> QED
      BY <1>2, <2>1, <3>1, <3>2, <1>h, MoveReceived DEF Notify, maker, SameQueue, SameMaker, SameFreed, Newest
  <2>2. CASE p # r
    BY <1>2, <2>2, Frame DEF Notify, Goto, TypeOK, connection, maker, history, SameTask, SameQueue,
       SameMaker, SameFreed, Newest
  <2> QED
    BY <2>1, <2>2
<1>3. ASSUME NEW r \in Pools, Clear(r) PROVE TemplatesOK(p)'
  <2>1. CASE p = r
    <3>1. HandOK(p)' /\ Held(p)' = Held(p)
      BY <1>3, <2>1, <1>h DEF Clear, Goto, Resume, TypeOK, HandOK, Held
    <3>2. stratum_queue'[p] = <<>> /\ freed'[p] = freed[p] \cup InQueue(p)
      BY <1>3, <2>1 DEF Clear, TypeOK, InQueue
    <3> QED
      BY <1>3, <2>1, <3>1, <3>2, <1>h, MoveCleared DEF Clear, maker, SameMaker, Newest
  <2>2. CASE p # r
    BY <1>3, <2>2, Frame DEF Clear, Goto, Resume, TypeOK, connection, maker, history, SameTask, SameQueue,
       SameMaker, SameFreed, Newest
  <2> QED
    BY <2>1, <2>2
<1>4. ASSUME NEW r \in Pools, DropOldest(r) PROVE TemplatesOK(p)'
  <2>0. Head(stratum_queue[r]) \in Templates
    <3>1. stratum_queue[r] \in Seq(Templates) /\ Len(stratum_queue[r]) > 0
      BY <1>4 DEF DropOldest, Waiting, TypeOK
    <3> QED
      BY <3>1, Taken
  <2>1. CASE p = r
    <3>1. HandOK(p)' /\ Held(p)' = Held(p) /\ Waiting(p) > 0
      BY <1>4, <2>1, <1>h DEF DropOldest, Goto, TypeOK, HandOK, Held
    <3>2. stratum_queue'[p] = Tail(stratum_queue[p])
      BY <1>4, <2>1 DEF DropOldest, TypeOK
    <3>3. freed'[p] = freed[p] \cup ({Head(stratum_queue[p]).n} \ {0})
      BY <1>4, <2>0, <2>1, FreedOne DEF DropOldest
    <3> QED
      BY <1>4, <2>1, <3>1, <3>2, <3>3, <1>h, MoveDropped DEF DropOldest, maker, SameMaker, Newest
  <2>2. CASE p # r
    <3>1. SameFreed(p)
      BY <1>4, <2>0, <2>2, FreedOne DEF DropOldest, SameFreed
    <3> QED
      BY <1>4, <2>2, <3>1, Frame DEF DropOldest, Goto, TypeOK, connection, maker, history, SameTask,
         SameQueue, SameMaker, SameFreed, Newest
  <2> QED
    BY <2>1, <2>2
<1>5. ASSUME NEW r \in Pools, Enqueue(r) PROVE TemplatesOK(p)'
  <2>1. CASE p = r
    <3>1. HandOK(p)' /\ Held(p) /\ ~Held(p)' /\ hand'[p] \in {hand[p], NoWork}
      BY <1>5, <2>1, <1>h DEF Enqueue, Goto, TypeOK, HandOK, Held, Pools
    <3>2. stratum_queue'[p] = Append(stratum_queue[p], hand[p])
      BY <1>5, <2>1 DEF Enqueue, TypeOK
    <3> QED
      BY <1>5, <2>1, <3>1, <3>2, <1>h, MoveQueued DEF Enqueue, maker, SameMaker, SameFreed, Newest
  <2>2. CASE p # r
    BY <1>5, <2>2, Frame DEF Enqueue, Goto, TypeOK, connection, maker, history, SameTask, SameQueue,
       SameMaker, SameFreed, Newest
  <2> QED
    BY <2>1, <2>2
<1>6. ASSUME ConnectA \/ DropNothingB \/ DecodeA PROVE TemplatesOK(p)'
  <2>1. received' = received /\ SameQueue(p) /\ SameMaker(p) /\ SameFreed(p)
    BY <1>6 DEF ConnectA, DropNothingB, DecodeA, maker, SameQueue, SameMaker, SameFreed, Newest
  <2>2. HandOK(p)' /\ Held(p)' = Held(p) /\ (hand'[p] = hand[p] \/ (hand'[p] = NoWork /\ ~Held(p)))
    BY <1>6, <1>h DEF ConnectA, DropNothingB, DecodeA, Goto, TypeOK, HandOK, Held, Pools
  <2> QED
    BY <2>1, <2>2, <1>h, MoveTask
<1>7. CASE DequeueA
  <2>1. CASE p = "A"
    <3>1. Waiting("A") > 0 /\ SameTask("A") /\ stratum_queue'["A"] = Tail(stratum_queue["A"])
          /\ current_work'["A"] = Head(stratum_queue["A"])
      BY <1>7 DEF DequeueA, TasksKept, TypeOK, SameTask, Pools
    <3>2. freed'["A"] = freed["A"] \cup ({current_work["A"].n} \ {0})
      BY <1>7, Parts, FreedOne DEF DequeueA, Pools
    <3> QED
      BY <2>1, <3>1, <3>2, <1>h, MoveTaken
  <2>2. CASE p = "B"
    <3>1. SameFreed(p)
      BY <1>7, <2>2, Parts, FreedOne DEF DequeueA, SameFreed, Pools
    <3> QED
      BY <1>7, <2>2, <3>1, <1>h, Frame DEF DequeueA, TasksKept, TypeOK, SameTask, SameQueue, SameMaker,
         Newest, Pools
  <2> QED
    BY <2>1, <2>2 DEF Pools
<1>8. CASE Drain
  <2>1. CASE p = "B"
    <3>1. Waiting("B") > 0 /\ SameTask("B") /\ stratum_queue'["B"] = Tail(stratum_queue["B"])
          /\ newest' = Head(stratum_queue["B"]) /\ current_work'["B"] = current_work["B"]
      BY <1>8 DEF Drain, TasksKept, TypeOK, SameTask, Pools
    <3>2. freed'["B"] = freed["B"] \cup ({newest.n} \ {0})
      BY <1>8, FreedOne DEF Drain, TypeOK, Pools
    <3> QED
      BY <2>1, <3>1, <3>2, <1>h, MoveDrained
  <2>2. CASE p = "A"
    <3>1. SameFreed(p)
      BY <1>8, <2>2, FreedOne DEF Drain, TypeOK, SameFreed, Pools
    <3> QED
      BY <1>8, <2>2, <3>1, <1>h, Frame DEF Drain, TasksKept, TypeOK, SameTask, SameQueue, SameMaker,
         Newest, Pools
  <2> QED
    BY <2>1, <2>2 DEF Pools
<1>9. CASE Adopt
  <2>1. CASE p = "B" /\ newest # NoWork
    <3>1. SameTask("B") /\ SameQueue("B") /\ newest' = NoWork /\ current_work'["B"] = newest
      BY <1>9, <2>1 DEF Adopt, Adopting, TasksKept, TypeOK, SameTask, SameQueue, Pools
    <3>2. freed'["B"] = freed["B"] \cup ({current_work["B"].n} \ {0})
      BY <1>9, <2>1, FreedOne DEF Adopt, FreeReplaced, TypeOK, Pools
    <3> QED
      BY <2>1, <3>1, <3>2, <1>h, MoveAdopted
  <2>2. CASE p = "A" \/ newest = NoWork
    <3>1. SameFreed(p)
      BY <1>9, <2>2, FreedOne DEF Adopt, FreeReplaced, TypeOK, SameFreed, Pools
    <3>2. SameTask(p) /\ SameQueue(p)
      BY <1>9 DEF Adopt, Adopting, TasksKept, SameTask, SameQueue
    <3>3. SameMaker(p)
      BY <1>9, <2>2 DEF Adopt, Adopting, TypeOK, SameMaker, Newest, Pools
    <3> QED
      BY <3>1, <3>2, <3>3, <1>h, Frame
  <2> QED
    BY <2>1, <2>2 DEF Pools
<1>10. ASSUME NEW r \in Pools,
             SetExtranonce(r) \/ SetDifficultyB \/ Settings \/ Timeout \/ Select \/ LockB \/ UnlockB \/ TakeA \/ Send(r)
      PROVE  TemplatesOK(p)'
  <2>1. SameTask(p) /\ SameQueue(p) /\ SameMaker(p) /\ SameFreed(p)
    BY <1>10 DEF SetExtranonce, SetDifficultyB, Settings, Timeout, Select, LockB, UnlockB, TakeA, Send, Sent,
               maker, TasksKept, SameTask, SameQueue, SameMaker, SameFreed, Newest
  <2> QED
    BY <2>1, <1>h, Frame
<1> QED
  BY <1>1, <1>2, <1>3, <1>4, <1>5, <1>6, <1>7, <1>8, <1>9, <1>10 DEF Next, Feed, Make, Pools

LEMMA DecodedKept == ASSUME IInv, Next PROVE DecodedAlive'
<1>a. TypeOK /\ TemplatesOK("A") /\ "A" \in Pools
  BY DEF IInv, Pools
<1> SUFFICES ASSUME task'["A"] = "decode" PROVE hand'["A"].n \notin freed'["A"]
  BY DEF DecodedAlive
<1>1. CASE Enqueue("A")
  <2>1. InHand("A") = {received["A"]} /\ hand["A"].n = received["A"] /\ Held("A")
    BY <1>1, <1>a, Apart DEF Enqueue, Held, TemplatesOK, HandOK, InOrder
  <2>2. hand' = hand /\ freed' = freed
    BY <1>1 DEF Enqueue
  <2> QED
    BY <1>a, <2>1, <2>2 DEF TemplatesOK, Covered
<1>2. CASE DequeueA
  <2>1. task' = task /\ hand' = hand
    BY <1>2 DEF DequeueA, TasksKept
  <2>2. hand["A"].n = received["A"] /\ hand["A"].n \notin freed["A"]
    BY <1>a, <2>1 DEF TemplatesOK, HandOK, InOrder, IInv, DecodedAlive
  <2>3. freed'["A"] = freed["A"] \cup ({current_work["A"].n} \ {0})
    BY <1>2, <1>a, FreedOne DEF DequeueA, TypeOK
  <2>4. current_work["A"].n < received["A"]
    <3>1. stratum_queue["A"] \in Seq(Templates) /\ Len(stratum_queue["A"]) > 0
      BY <1>2, <1>a DEF DequeueA, Waiting, TypeOK
    <3>2. Head(stratum_queue["A"]).n \in InQueue("A") /\ Head(stratum_queue["A"]).n \in Nat
      BY <3>1, Taken, NoWorkIsNone DEF InQueue
    <3> QED
      BY <3>2, <1>a, Parts DEF TemplatesOK, InOrder
  <2> QED
    BY <1>a, <2>1, <2>2, <2>3, <2>4, Parts
<1>3. ASSUME task["A"] = "decode", hand'["A"] = hand["A"], freed'["A"] = freed["A"] PROVE hand'["A"].n \notin freed'["A"]
  BY <1>3 DEF IInv, DecodedAlive
<1>4. ASSUME NEW p \in Pools, Publish(p) \/ Close(p) \/ Notify(p) \/ Clear(p) \/ Sweep(p) \/ SeeRoom(p)
                              \/ DropOldest(p) \/ Enqueue("B") \/ DropNothingB \/ ConnectA \/ DecodeA
      PROVE  task["A"] = "decode" /\ hand'["A"] = hand["A"] /\ freed'["A"] = freed["A"]
  <2>1. CASE p = "A" /\ (Publish(p) \/ Close(p) \/ Notify(p) \/ Clear(p) \/ Sweep(p) \/ SeeRoom(p) \/ DropOldest(p))
    BY <1>a, <2>1 DEF Publish, Close, Notify, Clear, Sweep, SeeRoom, DropOldest, Goto, Resume, TypeOK
  <2>2. CASE ConnectA \/ DecodeA
    BY <1>a, <2>2 DEF ConnectA, DecodeA, Goto, TypeOK
  <2>3. CASE p = "B" /\ DropOldest("B")
    <3>1. stratum_queue["B"] \in Seq(Templates) /\ Len(stratum_queue["B"]) > 0
      BY <2>3, <1>a DEF DropOldest, Waiting, TypeOK
    <3>2. freed'["A"] = freed["A"]
      BY <1>a, <2>3, <3>1, Taken, FreedOne DEF DropOldest
    <3> QED
      BY <1>a, <2>3, <3>2 DEF DropOldest, Goto, TypeOK
  <2>4. CASE p = "B" /\ (Publish(p) \/ Close(p) \/ Notify(p) \/ Clear(p) \/ Sweep(p) \/ SeeRoom(p))
    BY <1>a, <2>4 DEF Publish, Close, Notify, Clear, Sweep, SeeRoom, Goto, Resume, TypeOK
  <2>5. CASE Enqueue("B") \/ DropNothingB
    <3>1. CASE Enqueue("B")
      BY <1>a, <3>1 DEF Enqueue, Goto, TypeOK, Pools
    <3>2. CASE DropNothingB
      BY <1>a, <3>2 DEF DropNothingB, Goto, TypeOK, Pools
    <3> QED
      BY <2>5, <3>1, <3>2
  <2> QED
    BY <1>4, <2>1, <2>2, <2>3, <2>4, <2>5 DEF Pools
<1>5. ASSUME NEW p \in Pools, SetExtranonce(p) \/ SetDifficultyB \/ Settings \/ Timeout \/ Select \/ LockB \/ UnlockB \/ TakeA
                              \/ Send(p)
      PROVE  task["A"] = "decode" /\ hand'["A"] = hand["A"] /\ freed'["A"] = freed["A"]
  BY <1>5 DEF SetExtranonce, SetDifficultyB, Settings, Timeout, Select, LockB, UnlockB, TakeA, Send, Sent,
     TasksKept
<1>6. ASSUME Drain \/ Adopt PROVE task["A"] = "decode" /\ hand'["A"] = hand["A"] /\ freed'["A"] = freed["A"]
  <2>1. task' = task /\ hand' = hand
    BY <1>6 DEF Drain, Adopt, Adopting, TasksKept
  <2>2. "B" \in Pools /\ newest \in Templates \cup {NoWork} /\ current_work["B"] \in Templates \cup {NoWork}
    BY <1>a DEF TypeOK, Pools
  <2>3. freed' \in {Freed("B", newest), Freed("B", current_work["B"]), freed}
    BY <1>6 DEF Drain, Adopt, FreeReplaced
  <2>4. "A" \in Pools \ {"B"}
    BY <1>a
  <2>5. freed'["A"] = freed["A"]
    BY <1>a, <2>2, <2>3, <2>4, FreedOne
  <2> QED
    BY <2>1, <2>5
<1> QED
  BY <1>1, <1>2, <1>3, <1>4, <1>5, <1>6 DEF Next, Feed, Make, Pools

(* The owners in their order are the owners OneOwner asks for.             *)
LEMMA OwnersFollow == ASSUME IInv PROVE OneOwner
<1> SUFFICES ASSUME NEW p \in Pools
             PROVE  /\ InHand(p) \cup InQueue(p) \cup InMaking(p) \cup freed[p] = 1..received[p]
                    /\ \A k, l \in 1..Waiting(p) : stratum_queue[p][k].n = stratum_queue[p][l].n => k = l
                    /\ InHand(p) \cap InQueue(p) = {} /\ InHand(p) \cap InMaking(p) = {}
                    /\ InQueue(p) \cap InMaking(p) = {}
                    /\ freed[p] \cap (InHand(p) \cup InQueue(p) \cup InMaking(p)) = {}
                    /\ p = "B" /\ newest # NoWork => newest.n # current_work[p].n
  BY DEF OneOwner
<1> USE DEF IInv
<1>1. TemplatesOK(p) /\ TypeOK
  OBVIOUS
<1>2. InHand(p) \subseteq 1..received[p]
  BY <1>1, Apart, Parts, NoWorkIsNone DEF Held, TemplatesOK, InOrder
<1>3. InQueue(p) \subseteq 1..received[p] /\ InMaking(p) \subseteq 1..received[p]
  BY <1>1, Apart, Parts
<1>4. InHand(p) \cap InQueue(p) = {} /\ InHand(p) \cap InMaking(p) = {}
  BY <1>1, Apart, Parts
<1>5. InQueue(p) \cap InMaking(p) = {}
  BY <1>1, Parts DEF TemplatesOK, InOrder
<1>6. ASSUME NEW k \in 1..Waiting(p), NEW l \in 1..Waiting(p), stratum_queue[p][k].n = stratum_queue[p][l].n
      PROVE  k = l
  <2>1. /\ stratum_queue[p][k].n \in Nat /\ stratum_queue[p][l].n \in Nat
        /\ k \in 1..Len(stratum_queue[p]) /\ l \in 1..Len(stratum_queue[p])
    BY <1>1, Parts, NoWorkIsNone
  <2> QED
    BY <1>1, <1>6, <2>1 DEF TemplatesOK, InOrder, Ascending
<1>7. p = "B" /\ newest # NoWork => newest.n # current_work[p].n
  BY <1>1, Parts DEF TemplatesOK, InOrder, Newest
<1> QED
  BY <1>1, <1>2, <1>3, <1>4, <1>5, <1>6, <1>7 DEF TemplatesOK, Covered

-----------------------------------------------------------------------------
(* create_jobs_task.                                                       *)

LEMMA MakingKept == ASSUME IInv, Next PROVE Making'
<1> USE DEF IInv
<1>a. TypeOK /\ Making /\ "A" \in Pools /\ "B" \in Pools
  BY DEF Pools
<1>1. ASSUME NEW p \in Pools, Publish(p) \/ Close(p) \/ Notify(p) \/ Clear(p) \/ Sweep(p) \/ SeeRoom(p)
                              \/ DropOldest(p) \/ Enqueue(p) \/ DropNothingB \/ ConnectA \/ DecodeA
                              \/ SetDifficultyB \/ Settings
      PROVE  Making'
  <2>1. UNCHANGED <<maker, extranonce>>
    BY <1>1 DEF Publish, Close, Notify, Clear, Sweep, SeeRoom, DropOldest, Enqueue, DropNothingB, ConnectA,
                DecodeA, SetDifficultyB, Settings, TasksKept, connection
  <2> QED
    BY <1>a, <2>1 DEF Making, maker
<1>2. ASSUME NEW p \in Pools, SetExtranonce(p) PROVE Making'
  <2>1. UNCHANGED maker /\ extranonce' = [extranonce EXCEPT ![p] = @ + 1] /\ (p = "B" => ~extranonceB_lock)
    BY <1>2 DEF SetExtranonce
  <2>2. extranonce["A"] \in Nat /\ DOMAIN extranonce = Pools
    BY <1>a DEF TypeOK
  <2>3. extranonce["A"] # 0 => extranonce'["A"] # 0
    BY <1>a, <2>1, <2>2
  <2>4. pc = "copyingB" => extranonce'["B"] = extranonce["B"]
    BY <1>a, <2>1, <2>2 DEF Making
  <2> QED
    BY <1>a, <2>1, <2>3, <2>4 DEF Making, maker
<1>3. CASE DequeueA
  <2>1. Head(stratum_queue["A"]) \in Templates
    BY <1>3, <1>a, Taken DEF DequeueA, Waiting, TypeOK
  <2>2. current_work'["A"] # NoWork /\ current_work'["B"] = current_work["B"] /\ pc' \in {"select", "dequeue"}
    BY <1>3, <1>a, <2>1, NoWorkIsNone DEF DequeueA, TypeOK
  <2>3. pc = "dequeue" /\ UNCHANGED extranonceB_lock
    BY <1>3 DEF DequeueA
  <2> QED
    BY <1>a, <2>2, <2>3 DEF Making
<1>4. CASE Timeout
  BY <1>a, <1>4 DEF Timeout, AHasWork, Making
<1>5. CASE Select
  BY <1>a, <1>5 DEF Select, Making
<1>6. CASE Drain
  BY <1>a, <1>6 DEF Drain, Making
<1>7. CASE Adopt
  <2>1. current_work'["A"] = current_work["A"]
    BY <1>a, <1>7 DEF Adopt, Adopting, TypeOK
  <2>2. /\ pc = "drain" /\ UNCHANGED extranonceB_lock
        /\ \/ pc' = "copyB" /\ current_work'["B"] # NoWork
           \/ pc' = "dequeue" /\ dry
           \/ pc' = "mineA" /\ ~dry
    BY <1>a, <1>7 DEF Adopt, Adopting, AfterDrain, Servable, TypeOK
  <2> QED
    BY <1>a, <2>1, <2>2 DEF Making
<1>8. CASE LockB
  BY <1>a, <1>8 DEF LockB, Making, TasksKept, connection
<1>9. CASE UnlockB
  BY <1>a, <1>9 DEF UnlockB, Making
<1>10. CASE TakeA
  BY <1>a, <1>10 DEF TakeA, Making, TasksKept, connection
<1>11. ASSUME NEW p \in Pools, Send(p) PROVE Making'
  <2>1. pc' = "dequeue" /\ pc \in {"sendA", "sendB"} /\ UNCHANGED extranonceB_lock
    BY <1>11 DEF Send, Sent
  <2> QED
    BY <1>a, <2>1 DEF Making
<1> QED
  BY <1>1, <1>2, <1>3, <1>4, <1>5, <1>6, <1>7, <1>8, <1>9, <1>10, <1>11 DEF Next, Feed, Make, Pools

LEMMA LastsKept == ASSUME IInv, Next PROVE Lasts'
<1> USE DEF IInv
<1>a. TypeOK /\ TypeOK' /\ Lasts /\ Making /\ "A" \in Pools /\ "B" \in Pools
      /\ TemplatesOK("A") /\ TemplatesOK("B")
  BY Typed DEF Pools
<1>n. /\ \A p \in Pools : last[p].n \in Nat /\ last'[p].n \in Nat
                         /\ current_work[p].n \in Nat /\ current_work'[p].n \in Nat
      /\ newest.n \in Nat /\ "A" \in Pools /\ "B" \in Pools
  <2>1. \A p \in Pools : last[p].n \in Nat /\ last'[p].n \in Nat
    BY <1>a DEF TypeOK
  <2>2. \A p \in Pools : current_work[p] \in Templates \cup {NoWork} /\ current_work'[p] \in Templates \cup {NoWork}
    BY <1>a DEF TypeOK
  <2>3. newest \in Templates \cup {NoWork}
    BY <1>a DEF TypeOK
  <2> QED
    BY <1>a, <2>1, <2>2, <2>3, Numbered
<1>1. ASSUME NEW p \in Pools, Publish(p) \/ Close(p) \/ Notify(p) \/ Clear(p) \/ Sweep(p) \/ SeeRoom(p)
                              \/ DropOldest(p) \/ Enqueue(p) \/ DropNothingB \/ ConnectA \/ DecodeA
                              \/ SetDifficultyB \/ Settings \/ Timeout \/ Select \/ Drain \/ LockB \/ UnlockB
      PROVE  Lasts'
  <2>1. UNCHANGED <<current_work, extranonce_2, last, extranonce>>
    BY <1>1 DEF Publish, Close, Notify, Clear, Sweep, SeeRoom, DropOldest, Enqueue, DropNothingB, ConnectA,
                DecodeA, SetDifficultyB, Settings, Timeout, Select, Drain, LockB, UnlockB,
                TasksKept, connection, maker, history
  <2> QED
    BY <1>a, <2>1 DEF Lasts
<1>2. ASSUME NEW p \in Pools, SetExtranonce(p) PROVE Lasts'
  <2>1. UNCHANGED <<current_work, extranonce_2, last>> /\ (extranonce'["A"] = 0 => extranonce["A"] = 0)
    <3>1. UNCHANGED <<maker, history>> /\ extranonce' = [extranonce EXCEPT ![p] = @ + 1]
      BY <1>2 DEF SetExtranonce
    <3>2. extranonce["A"] \in Nat /\ DOMAIN extranonce = Pools
      BY <1>a DEF TypeOK
    <3> QED
      BY <1>a, <3>1, <3>2 DEF maker, history
  <2> QED
    BY <1>a, <2>1 DEF Lasts
<1>3. CASE DequeueA
  <2>1. current_work["A"].n < Head(stratum_queue["A"]).n
    <3>1. stratum_queue["A"] \in Seq(Templates) /\ Len(stratum_queue["A"]) > 0
      BY <1>3, <1>a DEF DequeueA, Waiting, TypeOK
    <3>2. Head(stratum_queue["A"]).n \in InQueue("A")
      BY <3>1, Taken DEF InQueue
    <3> QED
      BY <1>a, <3>2 DEF TemplatesOK, InOrder
  <2>2. /\ current_work'["A"] = Head(stratum_queue["A"]) /\ current_work'["B"] = current_work["B"]
        /\ extranonce_2'["B"] = extranonce_2["B"] /\ UNCHANGED <<last, extranonce>>
    BY <1>3, <1>a DEF DequeueA, TasksKept, connection, history, TypeOK
  <2>3. last'["A"].n < current_work'["A"].n
    <3>1. last["A"].n \in Nat /\ current_work["A"].n \in Nat /\ current_work'["A"].n \in Nat
      BY <1>n
    <3> QED
      BY <1>a, <2>1, <2>2, <3>1 DEF Lasts
  <2>4. last'["A"].n \in Nat /\ current_work'["A"].n \in Nat
    BY <1>n
  <2> QED
    BY <1>a, <2>2, <2>3, <2>4 DEF Lasts, Pools
<1>4. CASE Adopt
  <2>1. /\ current_work'["A"] = current_work["A"] /\ extranonce_2'["A"] = extranonce_2["A"]
        /\ UNCHANGED <<last, extranonce>>
        /\ newest = NoWork => current_work'["B"] = current_work["B"] /\ extranonce_2'["B"] = extranonce_2["B"]
        /\ newest # NoWork => current_work'["B"] = newest
    BY <1>4, <1>a DEF Adopt, Adopting, TasksKept, connection, history, TypeOK
  <2>2. ASSUME newest # NoWork PROVE last'["B"].n < current_work'["B"].n
    <3>1. last["B"].n \in Nat /\ current_work["B"].n \in Nat /\ newest.n \in Nat
      BY <1>n
    <3>2. current_work["B"].n < newest.n
      BY <1>a, <2>2 DEF TemplatesOK, InOrder, Newest
    <3> QED
      BY <1>a, <2>1, <2>2, <3>1, <3>2 DEF Lasts
  <2>3. last'["B"].n \in Nat /\ current_work'["B"].n \in Nat
    BY <1>n
  <2> QED
    BY <1>a, <2>1, <2>2, <2>3 DEF Lasts, Pools
<1>5. CASE TakeA
  <2>1. /\ UNCHANGED <<last, extranonce, current_work>> /\ extranonce_2'["B"] = extranonce_2["B"]
        /\ extranonce["A"] # 0 => extranonce_2' = extranonce_2
    BY <1>5, <1>a DEF TakeA, TasksKept, connection, history, TypeOK
  <2> QED
    BY <1>a, <2>1 DEF Lasts, Pools
<1>6. ASSUME NEW p \in Pools, Send(p) PROVE Lasts'
  <2>1. /\ UNCHANGED <<extranonce, current_work>> /\ last'[p] = [n |-> current_work[p].n, en2 |-> extranonce_2[p]]
        /\ extranonce_2'[p] = Next2(extranonce_2[p])
        /\ \A r \in Pools \ {p} : last'[r] = last[r] /\ extranonce_2'[r] = extranonce_2[r]
    BY <1>6, <1>a DEF Send, Sent, TasksKept, connection, TypeOK
  <2>2. p = "A" => extranonce["A"] # 0
    BY <1>6, <1>a DEF Send, Sent, Making
  <2>3. current_work[p].n \in Nat
    BY <1>n
  <2> QED
    BY <1>a, <2>1, <2>2, <2>3 DEF Lasts, Pools
<1> QED
  BY <1>1, <1>2, <1>3, <1>4, <1>5, <1>6 DEF Next, Feed, Make, Pools

(* The queue of Pool A after one template was taken from it.               *)
LEMMA CleanTail ==
    ASSUME TypeOK, CleanFirst, Waiting("A") > 0, stratum_queue'["A"] = Tail(stratum_queue["A"])
    PROVE  /\ Waiting("A")' = Waiting("A") - 1 /\ Waiting("A") \in Nat
           /\ \A k \in 1..Waiting("A")' : ~stratum_queue'["A"][k].clean
<1>1. stratum_queue["A"] \in Seq(Templates) /\ Len(stratum_queue["A"]) > 0
  BY DEF Waiting, TypeOK, Pools
<1>2. Waiting("A")' = Waiting("A") - 1 /\ Waiting("A") \in Nat
  BY <1>1, Taken DEF Waiting
<1>3. ASSUME NEW k \in 1..Waiting("A")' PROVE ~stratum_queue'["A"][k].clean
  <2>1. stratum_queue'["A"][k] = stratum_queue["A"][k + 1]
    BY <1>1, <1>2, Taken DEF Waiting
  <2>2. k + 1 \in 2..Waiting("A")
    BY <1>2
  <2> QED
    BY <2>1, <2>2 DEF CleanFirst
<1> QED
  BY <1>2, <1>3

LEMMA CleanKept == ASSUME IInv, Next PROVE CleanFirst'
<1> USE DEF IInv
<1>a. TypeOK /\ CleanFirst /\ "A" \in Pools
  BY DEF Pools
<1>1. ASSUME stratum_queue'["A"] = stratum_queue["A"], hand'["A"] = hand["A"],
             task'["A"] \in {"sweep", "room", "drop", "enqueue"} => task["A"] \in {"sweep", "room", "drop", "enqueue"}
      PROVE  CleanFirst'
  BY <1>a, <1>1 DEF CleanFirst, Waiting
<1>2. CASE Notify("A")
  <2>1. /\ stratum_queue' = stratum_queue
        /\ hand'["A"].clean /\ task'["A"] # "clear" => Waiting("A") = 0
    <3>1. stratum_queue["A"] \in Seq(Templates)
      BY <1>a DEF TypeOK
    <3>2. Waiting("A") \in Nat
      BY <3>1 DEF Waiting
    <3> QED
      BY <1>a, <1>2, <3>2 DEF Notify, Goto, TypeOK
  <2> QED
    BY <1>a, <2>1 DEF CleanFirst, Waiting
<1>3. CASE Clear("A")
  <2>1. stratum_queue'["A"] = <<>>
    BY <1>a, <1>3 DEF Clear, TypeOK
  <2> QED
    BY <2>1 DEF CleanFirst, Waiting
<1>4. CASE DropOldest("A")
  <2>1. /\ Waiting("A") > 0 /\ stratum_queue'["A"] = Tail(stratum_queue["A"]) /\ hand' = hand
        /\ task["A"] = "drop"
    BY <1>a, <1>4 DEF DropOldest, TypeOK
  <2>2. ~hand'["A"].clean
    BY <1>a, <2>1 DEF CleanFirst
  <2>3. \A k \in 2..Waiting("A")' : ~stratum_queue'["A"][k].clean
    <3>1. /\ Waiting("A")' = Waiting("A") - 1 /\ Waiting("A") \in Nat
          /\ \A k \in 1..Waiting("A")' : ~stratum_queue'["A"][k].clean
      BY <1>a, <2>1, CleanTail, Zenon
    <3>2. \A k \in 2..Waiting("A")' : k \in 1..Waiting("A")'
      BY <3>1
    <3> QED
      BY <3>1, <3>2, Zenon
  <2> QED
    BY <2>2, <2>3 DEF CleanFirst
<1>5. CASE Enqueue("A")
  <2>1. /\ stratum_queue["A"] \in Seq(Templates) /\ hand["A"] \in Templates /\ task'["A"] = "decode"
        /\ stratum_queue'["A"] = Append(stratum_queue["A"], hand["A"])
        /\ hand["A"].clean => Len(stratum_queue["A"]) = 0
    BY <1>a, <1>5 DEF Enqueue, Goto, TypeOK, TemplatesOK, HandOK, CleanFirst, Waiting
  <2>2. ASSUME NEW k \in 2..Len(stratum_queue["A"]) + 1 PROVE ~stratum_queue'["A"][k].clean
    <3>1. CASE k = Len(stratum_queue["A"]) + 1
      BY <2>1, <3>1
    <3>2. CASE k # Len(stratum_queue["A"]) + 1
      <4>1. k \in 2..Len(stratum_queue["A"]) /\ stratum_queue'["A"][k] = stratum_queue["A"][k]
        BY <2>1, <3>2
      <4> QED
        BY <1>a, <4>1 DEF CleanFirst, Waiting
    <3> QED
      BY <3>1, <3>2
  <2> QED
    BY <2>1, <2>2, Appended DEF CleanFirst, Waiting
<1>6. CASE DecodeA
  <2>1. stratum_queue' = stratum_queue /\ task'["A"] = "receive"
    BY <1>a, <1>6 DEF DecodeA, Goto, TypeOK
  <2> QED
    BY <1>a, <2>1 DEF CleanFirst, Waiting
<1>7. CASE DequeueA
  <2>1. Waiting("A") > 0 /\ stratum_queue'["A"] = Tail(stratum_queue["A"]) /\ hand' = hand /\ task' = task
    BY <1>a, <1>7 DEF DequeueA, TasksKept, TypeOK
  <2>2. \A k \in 2..Waiting("A")' : ~stratum_queue'["A"][k].clean
    <3>1. /\ Waiting("A")' = Waiting("A") - 1 /\ Waiting("A") \in Nat
          /\ \A k \in 1..Waiting("A")' : ~stratum_queue'["A"][k].clean
      BY <1>a, <2>1, CleanTail, Zenon
    <3>2. \A k \in 2..Waiting("A")' : k \in 1..Waiting("A")'
      BY <3>1
    <3> QED
      BY <3>1, <3>2, Zenon
  <2>3. ~(hand'["A"].clean /\ task'["A"] \in {"sweep", "room", "drop", "enqueue"})
    <3>1. Waiting("A") # 0
      BY <1>a, <2>1, CleanTail
    <3> QED
      BY <1>a, <2>1, <3>1 DEF CleanFirst
  <2> QED
    BY <2>2, <2>3 DEF CleanFirst
<1>8. ASSUME Publish("A") \/ Close("A") \/ Sweep("A") \/ SeeRoom("A") \/ ConnectA PROVE CleanFirst'
  <2>1. /\ stratum_queue' = stratum_queue /\ hand' = hand
        /\ task'["A"] \in {"sweep", "room", "drop", "enqueue"} => task["A"] \in {"sweep", "room", "drop", "enqueue"}
    BY <1>a, <1>8 DEF Publish, Close, Sweep, SeeRoom, ConnectA, Goto, Resume, TypeOK
  <2> QED
    BY <1>1, <2>1
<1>9. ASSUME NEW p \in Pools,
             \/ Publish("B") \/ Close("B") \/ Notify("B") \/ Clear("B") \/ Sweep("B") \/ SeeRoom("B")
             \/ DropOldest("B") \/ Enqueue("B") \/ DropNothingB \/ SetExtranonce(p) \/ SetDifficultyB
      PROVE  CleanFirst'
  <2>1. stratum_queue'["A"] = stratum_queue["A"] /\ hand'["A"] = hand["A"] /\ task'["A"] = task["A"]
    <3>1. CASE Publish("B") \/ Close("B") \/ Notify("B") \/ Clear("B") \/ Sweep("B") \/ SeeRoom("B")
      BY <1>a, <3>1 DEF Publish, Close, Notify, Clear, Sweep, SeeRoom, Goto, TypeOK
    <3>2. CASE DropOldest("B") \/ DropNothingB
      BY <1>a, <3>2 DEF DropOldest, DropNothingB, Goto, TypeOK
    <3>3. CASE Enqueue("B")
      BY <1>a, <3>3 DEF Enqueue, Goto, TypeOK
    <3>4. CASE SetExtranonce(p) \/ SetDifficultyB
      BY <3>4 DEF SetExtranonce, SetDifficultyB
    <3> QED
      BY <1>9, <3>1, <3>2, <3>3, <3>4
  <2> QED
    BY <1>1, <2>1
<1>10. ASSUME NEW p \in Pools,
              Settings \/ Timeout \/ Select \/ Drain \/ Adopt \/ LockB \/ UnlockB \/ TakeA \/ Send(p)
       PROVE  CleanFirst'
  <2>1. stratum_queue'["A"] = stratum_queue["A"] /\ hand' = hand /\ task' = task
    BY <1>a, <1>10 DEF Settings, Timeout, Select, Drain, Adopt, Adopting, LockB, UnlockB, TakeA, Send, Sent,
       TasksKept, TypeOK
  <2> QED
    BY <1>1, <2>1
<1> QED
  BY <1>2, <1>3, <1>4, <1>5, <1>6, <1>7, <1>8, <1>9, <1>10 DEF Next, Feed, Make, Pools

(* What TakeOver says of either pool.                                      *)
TakeOverA ==
    /\ behind["A"] <= 2
    /\ Waiting("A") > 0 => behind["A"] + CleanAhead + JobAhead <= 2
TakeOverB ==
    /\ behind["B"] <= 1
    /\ pc \in {"copyB", "copyingB", "sendB"} /\ Waiting("B") > 0 => behind["B"] = 0

LEMMA TakeOverAKept == ASSUME IInv, Next PROVE TakeOverA'
<1> USE DEF IInv
<1>a. TypeOK /\ TypeOK' /\ TakeOverA /\ CleanFirst /\ "A" \in Pools
  BY Typed DEF Pools, TakeOver, TakeOverA
<1>b. /\ behind["A"] \in Nat /\ behind'["A"] \in Nat
      /\ stratum_queue["A"] \in Seq(Templates) /\ stratum_queue'["A"] \in Seq(Templates)
      /\ Waiting("A") \in Nat /\ Waiting("A")' \in Nat
  <2>1. stratum_queue["A"] \in Seq(Templates) /\ stratum_queue'["A"] \in Seq(Templates)
    BY <1>a DEF TypeOK
  <2>2. Waiting("A") \in Nat /\ Waiting("A")' \in Nat
    BY <2>1 DEF Waiting
  <2> QED
    BY <1>a, <2>1, <2>2 DEF TypeOK
<1>c. CleanAhead \in {0, 1} /\ JobAhead \in {0, 1} /\ CleanAhead' \in {0, 1} /\ JobAhead' \in {0, 1}
  BY DEF CleanAhead, JobAhead
<1>1. CASE Enqueue("A")
  <2>1. behind'["A"] = 0
    BY <1>a, <1>1 DEF Enqueue, TypeOK
  <2>2. behind'["A"] <= 2 /\ behind'["A"] + CleanAhead' + JobAhead' <= 2
    <3>1. \A c, j \in {0, 1} : 0 + c + j <= 2
      OBVIOUS
    <3>2. 0 + CleanAhead' + JobAhead' <= 2
      BY <1>c, <3>1, Zenon
    <3> QED
      BY <2>1, <3>2
  <2> QED
    BY <2>2 DEF TakeOverA
<1>2. CASE Clear("A")
  <2>1. behind' = behind /\ Waiting("A")' = 0
    BY <1>a, <1>2 DEF Clear, history, Waiting, TypeOK
  <2> QED
    BY <1>a, <2>1 DEF TakeOverA
<1>3. ASSUME Waiting("A") > 0, stratum_queue'["A"] = Tail(stratum_queue["A"]) PROVE CleanAhead' = 0
  <2>1. 1 \in 1..Waiting("A")' => ~stratum_queue'["A"][1].clean
    BY <1>a, <1>3, CleanTail
  <2> QED
    BY <1>b, <2>1 DEF CleanAhead
<1>4. CASE DropOldest("A")
  <2>1. /\ Waiting("A") > 0 /\ stratum_queue'["A"] = Tail(stratum_queue["A"])
        /\ behind' = behind /\ JobAhead' = JobAhead
    BY <1>a, <1>4 DEF DropOldest, maker, history, JobAhead, TypeOK
  <2> QED
    BY <1>a, <1>b, <1>c, <1>3, <2>1 DEF TakeOverA
<1>5. CASE DequeueA
  <2>1. /\ Waiting("A") > 0 /\ stratum_queue'["A"] = Tail(stratum_queue["A"])
        /\ behind' = behind /\ JobAhead = 0
    BY <1>a, <1>5 DEF DequeueA, history, JobAhead, TypeOK
  <2>2. JobAhead' = CleanAhead
    <3>1. Head(stratum_queue["A"]) = stratum_queue["A"][1]
      BY <1>b, <2>1, Taken DEF Waiting
    <3> QED
      BY <1>5, <2>1, <3>1 DEF DequeueA, JobAhead, CleanAhead
  <2> QED
    BY <1>a, <1>b, <1>c, <1>3, <2>1, <2>2 DEF TakeOverA
<1>6. ASSUME NEW p \in Pools, Send(p) PROVE TakeOverA'
  <2>1. stratum_queue' = stratum_queue /\ JobAhead = 1 /\ JobAhead' = 0 /\ CleanAhead' = CleanAhead
    BY <1>6 DEF Send, Sent, JobAhead, CleanAhead, Waiting
  <2>2. behind'["A"] = IF p = "A" THEN IF Waiting("A") > 0 THEN behind["A"] + 1 ELSE 0 ELSE behind["A"]
    <3>1. behind \in [Pools -> Nat]
          /\ behind' = [behind EXCEPT ![p] = IF Waiting(p) > 0 THEN behind[p] + 1 ELSE 0]
      BY <1>a, <1>6 DEF Send, Sent, TypeOK
    <3>2. CASE p = "A"
      BY <1>a, <3>1, <3>2
    <3>3. CASE p # "A"
      BY <1>a, <3>1, <3>3
    <3> QED
      BY <3>2, <3>3
  <2>3. Waiting("A")' = Waiting("A")
    BY <2>1 DEF Waiting
  <2> QED
    BY <1>a, <1>b, <1>c, <2>1, <2>2, <2>3 DEF TakeOverA
<1>7. CASE Timeout
  <2>1. stratum_queue' = stratum_queue /\ behind' = behind /\ Waiting("A") = 0
    BY <1>7 DEF Timeout, history
  <2>2. Waiting("A")' = 0
    BY <2>1 DEF Waiting
  <2> QED
    BY <1>a, <2>1, <2>2 DEF TakeOverA
<1>8. ASSUME stratum_queue'["A"] = stratum_queue["A"], behind'["A"] = behind["A"],
             pc' = pc \/ pc # "dequeue"
      PROVE  TakeOverA'
  <2>1. JobAhead' \in {0, JobAhead} /\ CleanAhead' = CleanAhead /\ Waiting("A")' = Waiting("A")
    BY <1>8 DEF JobAhead, CleanAhead, Waiting
  <2> QED
    BY <1>a, <1>b, <1>c, <1>8, <2>1 DEF TakeOverA
<1>9. ASSUME NEW p \in Pools,
             \/ Publish(p) \/ Close(p) \/ Notify(p) \/ Sweep(p) \/ SeeRoom(p) \/ SetExtranonce(p) \/ ConnectA
             \/ DropNothingB \/ DecodeA \/ SetDifficultyB \/ Settings \/ Clear("B") \/ DropOldest("B") \/ Enqueue("B")
      PROVE  stratum_queue'["A"] = stratum_queue["A"] /\ behind'["A"] = behind["A"] /\ pc' = pc
  BY <1>a, <1>9 DEF Publish, Close, Notify, Sweep, SeeRoom, SetExtranonce, ConnectA, DropNothingB, DecodeA,
     SetDifficultyB, Settings, Clear, DropOldest, Enqueue, maker, history, TypeOK
<1>10. ASSUME Select \/ Drain \/ Adopt \/ LockB \/ UnlockB \/ TakeA
       PROVE  stratum_queue'["A"] = stratum_queue["A"] /\ behind'["A"] = behind["A"] /\ pc # "dequeue"
  BY <1>a, <1>10 DEF Select, Drain, Adopt, Adopting, LockB, UnlockB, TakeA, history, TypeOK
<1> QED
  BY <1>1, <1>2, <1>4, <1>5, <1>6, <1>7, <1>8, <1>9, <1>10 DEF Next, Feed, Make, Pools

LEMMA TakeOverBKept == ASSUME IInv, Next PROVE TakeOverB'
<1> USE DEF IInv
<1> DEFINE Serving == pc \in {"copyB", "copyingB", "sendB"}
<1>a. TypeOK /\ TypeOK' /\ TakeOverB /\ "B" \in Pools
  BY Typed DEF Pools, TakeOver, TakeOverB
<1>b. /\ behind["B"] \in Nat /\ stratum_queue["B"] \in Seq(Templates) /\ Waiting("B") \in Nat
      /\ Waiting("B")' \in Nat
  <2>1. stratum_queue["B"] \in Seq(Templates) /\ stratum_queue'["B"] \in Seq(Templates)
    BY <1>a DEF TypeOK
  <2>2. Waiting("B") \in Nat /\ Waiting("B")' \in Nat
    BY <2>1 DEF Waiting
  <2> QED
    BY <1>a, <2>1, <2>2 DEF TypeOK
<1>1. ASSUME behind'["B"] = behind["B"], Waiting("B")' <= Waiting("B"),
             Serving' => Serving \/ Waiting("B")' = 0
      PROVE  TakeOverB'
  BY <1>a, <1>b, <1>1 DEF TakeOverB
<1>2. CASE Enqueue("B")
  <2>1. behind'["B"] = 0
    BY <1>a, <1>2 DEF Enqueue, TypeOK
  <2> QED
    BY <2>1 DEF TakeOverB
<1>3. ASSUME NEW p \in Pools, Send(p) PROVE TakeOverB'
  <2>1. pc' = "dequeue" /\ (p = "B" => Serving)
    BY <1>3 DEF Send, Sent
  <2>2. behind'["B"] = IF p = "B" THEN IF Waiting("B") > 0 THEN behind["B"] + 1 ELSE 0 ELSE behind["B"]
    <3>1. behind \in [Pools -> Nat]
          /\ behind' = [behind EXCEPT ![p] = IF Waiting(p) > 0 THEN behind[p] + 1 ELSE 0]
      BY <1>a, <1>3 DEF Send, Sent, TypeOK
    <3>2. CASE p = "B"
      BY <1>a, <3>1, <3>2
    <3>3. CASE p # "B"
      BY <1>a, <3>1, <3>3
    <3> QED
      BY <3>2, <3>3
  <2> QED
    BY <1>a, <1>b, <2>1, <2>2 DEF TakeOverB
<1>4. CASE Clear("B")
  <2>1. behind' = behind /\ Waiting("B")' = 0 /\ pc' = pc
    BY <1>a, <1>4 DEF Clear, history, maker, Waiting, TypeOK
  <2> QED
    BY <1>b, <1>1, <2>1
<1>5. ASSUME DropOldest("B") \/ Drain PROVE TakeOverB'
  <2>1. behind' = behind /\ pc' = pc /\ stratum_queue'["B"] = Tail(stratum_queue["B"]) /\ Waiting("B") > 0
    BY <1>a, <1>5 DEF DropOldest, Drain, history, maker, TypeOK
  <2>2. Waiting("B")' = Waiting("B") - 1
    BY <1>b, <2>1, Taken DEF Waiting
  <2> QED
    BY <1>b, <1>1, <2>1, <2>2
<1>6. ASSUME stratum_queue'["B"] = stratum_queue["B"], behind'["B"] = behind["B"],
             Serving' => Serving \/ Waiting("B") = 0
      PROVE  TakeOverB'
  <2>1. Waiting("B")' = Waiting("B")
    BY <1>6 DEF Waiting
  <2> QED
    BY <1>b, <1>1, <1>6, <2>1
<1>7. ASSUME NEW p \in Pools,
             \/ Publish(p) \/ Close(p) \/ Notify(p) \/ Sweep(p) \/ SeeRoom(p) \/ SetExtranonce(p) \/ ConnectA
             \/ DropNothingB \/ DecodeA \/ SetDifficultyB \/ Settings \/ Clear("A") \/ DropOldest("A") \/ Enqueue("A")
      PROVE  stratum_queue'["B"] = stratum_queue["B"] /\ behind'["B"] = behind["B"] /\ pc' = pc
  BY <1>a, <1>7 DEF Publish, Close, Notify, Sweep, SeeRoom, SetExtranonce, ConnectA, DropNothingB, DecodeA,
     SetDifficultyB, Settings, Clear, DropOldest, Enqueue, maker, history, TypeOK
<1>8. ASSUME DequeueA \/ Timeout \/ Select \/ Adopt \/ LockB \/ UnlockB \/ TakeA
      PROVE  /\ stratum_queue'["B"] = stratum_queue["B"] /\ behind'["B"] = behind["B"]
             /\ Serving' => Serving \/ Waiting("B") = 0
  BY <1>a, <1>8 DEF DequeueA, Timeout, Select, Adopt, Adopting, LockB, UnlockB, TakeA, history, TypeOK
<1> QED
  BY <1>2, <1>3, <1>4, <1>5, <1>6, <1>7, <1>8 DEF Next, Feed, Make, Pools

-----------------------------------------------------------------------------
(* The theorems.                                                           *)

LEMMA Initially == ASSUME Init PROVE IInv
<1>1. TypeOK
  <2>1. 0 \in 0..En2Width - 1 /\ 0 <= QueueSize /\ <<>> \in Seq(Templates) /\ Len(<<>>) = 0
    BY Width
  <2>2. TasksOK
    BY DEF Init, TasksOK
  <2>3. MakerOK
    BY <2>1 DEF Init, MakerOK
  <2>4. QueuesOK
    BY <2>1 DEF Init, QueuesOK, Waiting
  <2> QED
    BY <2>2, <2>3, <2>4, TypeParts
<1>2. ASSUME NEW p \in Pools PROVE TemplatesOK(p)
  <2>1. /\ task[p] = "down" /\ hand[p] = NoWork /\ received[p] = 0 /\ current_work[p] = NoWork
        /\ newest = NoWork /\ stratum_queue[p] = <<>> /\ freed[p] = {}
    BY <1>2 DEF Init
  <2>2. InQueue(p) = {} /\ Ascending(stratum_queue[p]) /\ Newest(p) = NoWork
    BY <2>1, NumbersEmpty DEF InQueue, Newest
  <2>3. HandOK(p) /\ Covered(p)
    BY <2>1, <2>2, NoWorkIsNone DEF HandOK, Covered, InHand, InMaking
  <2>4. InOrder(p)
    BY <2>1, <2>2, NoWorkIsNone DEF InOrder, Held
  <2> QED
    BY <2>3, <2>4 DEF TemplatesOK
<1>3. DecodedAlive /\ Making
  BY DEF Init, DecodedAlive, Making, Pools
<1>4. Lasts
  BY NoWorkIsNone DEF Init, Lasts, Pools
<1>5. CleanFirst /\ TakeOver
  BY NoWorkIsNone DEF Init, CleanFirst, TakeOver, Waiting, Pools
<1> QED
  BY <1>1, <1>2, <1>3, <1>4, <1>5 DEF IInv

LEMMA Kept == ASSUME IInv, [Next]_vars PROVE IInv'
<1>1. CASE Next
  <2>1. TakeOver'
    BY <1>1, TakeOverAKept, TakeOverBKept DEF TakeOver, TakeOverA, TakeOverB
  <2> QED
    BY <1>1, <2>1, Typed, TemplatesKept, DecodedKept, MakingKept, LastsKept, CleanKept DEF IInv
<1>2. CASE UNCHANGED vars
  <2>1. TypeOK'
    BY <1>2 DEF IInv, TypeOK, Waiting, vars, connection, maker, history
  <2>2. ASSUME NEW p \in Pools PROVE TemplatesOK(p)'
    BY <1>2, Frame DEF IInv, vars, maker, SameTask, SameQueue, SameMaker, SameFreed, Newest
  <2>3. DecodedAlive' /\ Making' /\ Lasts' /\ CleanFirst' /\ TakeOver'
    BY <1>2 DEF IInv, DecodedAlive, Making, Lasts, CleanFirst, TakeOver, CleanAhead, JobAhead, Waiting,
       vars, connection, maker, history
  <2> QED
    BY <2>1, <2>2, <2>3 DEF IInv
<1> QED
  BY <1>1, <1>2

(* The invariant holds in every reachable state.                           *)
THEOREM Invariance == Spec => []IInv
BY Initially, Kept, PTL DEF Spec

(* The types are right in every reachable state.                           *)
THEOREM TypeCorrect == Spec => []TypeOK
<1>1. IInv => TypeOK
  BY DEF IInv
<1> QED
  BY <1>1, Invariance, PTL

(* Templates neither leak nor are freed twice nor used after that: every   *)
(* one received has one owner, or has been freed.                          *)
THEOREM TemplatesOwned == Spec => []OneOwner
<1>1. IInv => OneOwner
  BY OwnersFollow
<1> QED
  BY <1>1, Invariance, PTL

(* Pool A's task decodes a template that is not freed yet, and Pool B's    *)
(* extranonce is not swapped while generate_work copies it.                *)
THEOREM ReadAlive == Spec => []Alive
<1>1. IInv => Alive
  BY DEF IInv, DecodedAlive, Making, Alive
<1> QED
  BY <1>1, Invariance, PTL

(* A template that waits is passed over by at most one job of Pool B and   *)
(* two of Pool A.                                                          *)
THEOREM WaitingTakenUp == Spec => []NewestTakesOver
<1>1. IInv => NewestTakesOver
  BY DEF IInv, TakeOver, NewestTakesOver
<1> QED
  BY <1>1, Invariance, PTL

(* The job sent is from a later template than the last of its pool, or the *)
(* next one of the same template.                                          *)
LEMMA NextJob == ASSUME IInv, NEW p \in Pools, Send(p)
                 PROVE  \/ last'[p].n > last[p].n
                        \/ last'[p].n = last[p].n /\ last'[p].en2 = Next2(last[p].en2)
<1>1. last'[p] = [n |-> current_work[p].n, en2 |-> extranonce_2[p]]
  BY DEF IInv, TypeOK, Send, Sent
<1>2. current_work[p] \in Templates
  BY DEF IInv, TypeOK, Making, Send, Sent, Pools
<1>3. current_work[p].n \in Nat \ {0} /\ last[p].n \in Nat
  BY <1>2, NoWorkIsNone DEF IInv, TypeOK
<1>4. /\ last[p].n <= current_work[p].n
      /\ last[p].n = current_work[p].n /\ last[p].n # 0 => extranonce_2[p] = Next2(last[p].en2)
  BY DEF IInv, Lasts
<1> QED
  BY <1>1, <1>3, <1>4

(* No job is made twice, until a counter of one template has wrapped.      *)
THEOREM JobsAdvance == Spec => NoJobTwice
<1>1. IInv /\ [Next]_vars =>
        [\A p \in Pools : Send(p) =>
            \/ last'[p].n > last[p].n
            \/ last'[p].n = last[p].n /\ last'[p].en2 = Next2(last[p].en2)]_vars
  BY NextJob
<1> QED
  BY <1>1, Invariance, PTL DEF Spec, NoJobTwice
=============================================================================
