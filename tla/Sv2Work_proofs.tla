--------------------------- MODULE Sv2Work_proofs ---------------------------
(***************************************************************************)
(* Proofs about Sv2Work for any pools, configurations, ring and queue.     *)
(***************************************************************************)
EXTENDS Sv2Work, FiniteSetTheorems, SequenceTheorems, TLAPS

-----------------------------------------------------------------------------
(* Sequences of templates: what is in them after each operation.           *)

LEMMA EmptyToSet == ToSet(<<>>) = {}
BY DEF ToSet

LEMMA HeadInToSet ==
    ASSUME NEW T, NEW s \in Seq(T), s # <<>>
    PROVE  Head(s) \in ToSet(s) /\ Head(s) \in T
BY DEF ToSet

LEMMA TailToSet ==
    ASSUME NEW T, NEW s \in Seq(T), s # <<>>
    PROVE  Tail(s) \in Seq(T) /\ ToSet(Tail(s)) \subseteq ToSet(s)
<1>1. Tail(s) \in Seq(T) /\ Len(Tail(s)) = Len(s) - 1 /\ \A i \in 1..Len(Tail(s)) : Tail(s)[i] = s[i + 1]
  OBVIOUS
<1>2. \A i \in 1..Len(s) - 1 : i + 1 \in 1..Len(s)
  OBVIOUS
<1> QED
  BY <1>1, <1>2 DEF ToSet

LEMMA InToSet == ASSUME NEW T, NEW s \in Seq(T), NEW x \in ToSet(s) PROVE x \in T
BY DEF ToSet

LEMMA FunctionIsSeq ==
    ASSUME NEW T, NEW n \in Nat, NEW f \in [1..n -> T]
    PROVE  f \in Seq(T) /\ Len(f) = n
OBVIOUS

(* What an enqueue leaves: a suffix of the queue, and the new template.    *)
LEMMA Suffix ==
    ASSUME NEW T, NEW s \in Seq(T), NEW d \in 0..Len(s), NEW x \in T
    PROVE  LET r == Append(SubSeq(s, d + 1, Len(s)), x)
           IN  /\ r \in Seq(T) /\ Len(r) = Len(s) - d + 1
               /\ ToSet(r) \subseteq ToSet(s) \cup {x}
               /\ d = Len(s) => ToSet(r) = {x}
<1> DEFINE u == SubSeq(s, d + 1, Len(s))
           r == Append(u, x)
<1>1. u \in Seq(T) /\ Len(u) = Len(s) - d /\ \A i \in 1..Len(u) : u[i] = s[i + d]
  OBVIOUS
<1> HIDE DEF u
<1>2. r \in Seq(T) /\ Len(r) = Len(u) + 1 /\ r[Len(u) + 1] = x /\ \A i \in 1..Len(u) : r[i] = u[i]
  BY <1>1
<1> HIDE DEF r
<1>3. \A i \in 1..Len(u) : r[i] \in ToSet(s)
  <2>1. ASSUME NEW i \in 1..Len(u) PROVE r[i] \in ToSet(s)
    <3>1. i + d \in DOMAIN s /\ r[i] = s[i + d]
      BY <1>1, <1>2
    <3> QED
      BY <3>1 DEF ToSet
  <2> QED
    BY <2>1
<1>4. DOMAIN r = 1..Len(u) + 1 /\ Len(u) \in Nat
  BY <1>1, <1>2
<1>5. ToSet(r) \subseteq ToSet(s) \cup {x}
  BY <1>2, <1>3, <1>4 DEF ToSet
<1>6. d = Len(s) => ToSet(r) = {x}
  BY <1>1, <1>2, <1>4 DEF ToSet
<1> QED
  BY <1>1, <1>2, <1>5, <1>6 DEF r, u

LEMMA OneSeq == ASSUME NEW T, NEW x \in T PROVE <<x>> \in Seq(T)
OBVIOUS

LEMMA OneToSet == ASSUME NEW x PROVE ToSet(<<x>>) = {x} /\ Head(<<x>>) = x
BY DEF ToSet

(* Two ids less than a ring apart have slots of their own.                 *)
LEMMA SlotInRing == ASSUME NEW j \in Nat PROVE Slot(j) \in 0..Ring - 1
BY Sv2Assumption DEF Slot

LEMMA SlotsApart ==
    ASSUME NEW i \in Nat, NEW j \in Nat, i < j, j < i + Ring
    PROVE  Slot(i) # Slot(j)
<1> DEFINE a == i \div Ring
           b == j \div Ring
<1> SUFFICES ASSUME i % Ring = j % Ring PROVE FALSE
  BY DEF Slot
<1>1. Ring \in Nat \ {0}
  BY Sv2Assumption
<1>2. a \in Int /\ b \in Int /\ i = Ring * a + (i % Ring) /\ j = Ring * b + (j % Ring)
  BY <1>1
<1>3. j - i = Ring * b - Ring * a
  BY <1>1, <1>2
<1>4. Ring * b - Ring * a = Ring * (b - a)
  BY <1>1, <1>2
<1>5. b - a >= 1 => Ring * (b - a) >= Ring
  BY <1>1, <1>2
<1>6. b - a <= 0 => Ring * (b - a) <= 0
  BY <1>1, <1>2
<1> QED
  BY <1>1, <1>2, <1>3, <1>4, <1>5, <1>6

-----------------------------------------------------------------------------
(* Types.  A template is on its way only in a session.                     *)
Places == (out # <<>> \/ stratum_queue # <<>>) => at = "session"
IInv   == TypeOK /\ Places

LEMMA KindType == ASSUME TypeOK PROVE Kind \in Kinds /\ Protocol \in {"V1", "V2"}
BY Sv2Assumption DEF TypeOK, Kind, Kinds, Protocol, ProtocolOf

LEMMA MadeType ==
    ASSUME TypeOK, NEW j \in 1..MaxJobs, NEW t \in 0..MaxTips, NEW b \in BOOLEAN
    PROVE  /\ Made(j, t, b) \in Template
           /\ Made(j, t, b).kind = Kind /\ Made(j, t, b).job = j
           /\ Made(j, t, b).tip = t /\ Made(j, t, b).clean = b
BY KindType DEF Made, Template

(* The jobs a previous hash completes are jobs of the ring.                *)
LEMMA ReadyJobs ==
    ASSUME TypeOK, NEW j \in futures, NEW ready \in Ready(j)
    PROVE  /\ ready \in Seq(1..MaxJobs)
           /\ \A i \in DOMAIN ready : \E s \in DOMAIN ring : ring[s] = ready[i]
           /\ ring[Slot(j)] = j => ready # <<>> /\ Head(ready) = j
           /\ tip > 0 => ToSet(ready) \subseteq {j}
<1>1. ring \in [0..Ring - 1 -> 0..MaxJobs] /\ j \in 1..MaxJobs /\ tip \in Nat
  BY Sv2Assumption DEF TypeOK
<1>2. Slot(j) \in DOMAIN ring
  BY <1>1, SlotInRing
<1>3. /\ Named(j) \in Seq(1..MaxJobs)
      /\ \A i \in DOMAIN Named(j) : Named(j)[i] = j /\ ring[Slot(j)] = j
      /\ ToSet(Named(j)) \subseteq {j}
  <2>1. CASE ring[Slot(j)] = j
    BY <1>1, <2>1, OneToSet DEF Named
  <2>2. CASE ring[Slot(j)] # j
    BY <2>2, EmptyToSet DEF Named
  <2> QED
    BY <2>1, <2>2
<1>4. ring[Slot(j)] = j => Named(j) # <<>> /\ Len(Named(j)) = 1 /\ Named(j)[1] = j /\ Head(Named(j)) = j
  BY DEF Named
<1>5. CASE tip > 0
  <2>1. ready = Named(j)
    BY <1>1, <1>5 DEF Ready
  <2> QED
    BY <1>3, <1>4, <1>2, <2>1
<1>6. CASE tip = 0
  <2>1. PICK others \in BySlot(Others(j)) : ready = Named(j) \o others
    BY <1>6 DEF Ready
  <2>2. Others(j) \subseteq 1..MaxJobs /\ \A o \in Others(j) : \E s \in DOMAIN ring : ring[s] = o
    BY <1>1 DEF Others
  <2>3. others \in Seq(Others(j))
    BY <2>1 DEF BySlot
  <2>4. others \in Seq(1..MaxJobs) /\ \A i \in DOMAIN others : others[i] \in Others(j)
    <3>1. others \in Seq(1..MaxJobs)
      BY <2>2, <2>3, SeqMonotonic
    <3>2. \A i \in DOMAIN others : others[i] \in Others(j)
      BY <2>3
    <3> QED
      BY <3>1, <3>2
  <2>5. ready \in Seq(1..MaxJobs) /\ Len(ready) = Len(Named(j)) + Len(others)
    BY <1>3, <2>1, <2>4
  <2>6. ASSUME NEW i \in DOMAIN ready PROVE \E s \in DOMAIN ring : ring[s] = ready[i]
    <3>1. CASE i <= Len(Named(j))
      <4>1. i \in DOMAIN Named(j) /\ ready[i] = Named(j)[i]
        BY <1>3, <2>1, <2>4, <2>5, <2>6, <3>1
      <4> QED
        BY <1>3, <1>2, <4>1
    <3>2. CASE i > Len(Named(j))
      <4>1. i - Len(Named(j)) \in DOMAIN others /\ ready[i] = others[i - Len(Named(j))]
        BY <1>3, <2>1, <2>4, <2>5, <2>6, <3>2
      <4> QED
        BY <2>2, <2>4, <4>1
    <3> QED
      BY <1>3, <2>5, <3>1, <3>2
  <2>7. ring[Slot(j)] = j => ready # <<>> /\ Head(ready) = j
    <3> SUFFICES ASSUME ring[Slot(j)] = j PROVE ready # <<>> /\ Head(ready) = j
      OBVIOUS
    <3>1. Len(ready) >= 1 /\ ready[1] = Named(j)[1]
      BY <1>3, <1>4, <2>1, <2>4, <2>5
    <3> QED
      BY <1>4, <2>5, <3>1
  <2> QED
    BY <1>6, <2>5, <2>6, <2>7
<1> QED
  BY <1>1, <1>5, <1>6

LEMMA MadeSeq ==
    ASSUME TypeOK, NEW ready \in Seq(1..MaxJobs), NEW t \in 0..MaxTips
    PROVE  LET made == [i \in DOMAIN ready |-> Made(ready[i], t, TRUE)]
           IN  /\ made \in Seq(Template)
               /\ ready # <<>> => made # <<>> /\ Head(made) = Made(Head(ready), t, TRUE)
               /\ \A x \in ToSet(made) : /\ x \in Template /\ x.kind = Kind /\ x.tip = t /\ x.clean
                                         /\ \E i \in DOMAIN ready : x.job = ready[i]
<1> DEFINE made == [i \in DOMAIN ready |-> Made(ready[i], t, TRUE)]
<1>1. Len(ready) \in Nat /\ DOMAIN ready = 1..Len(ready) /\ \A i \in DOMAIN ready : ready[i] \in 1..MaxJobs
  BY LenProperties, ElementOfSeq
<1>2. \A i \in DOMAIN ready : /\ Made(ready[i], t, TRUE) \in Template
                              /\ Made(ready[i], t, TRUE).kind = Kind /\ Made(ready[i], t, TRUE).job = ready[i]
                              /\ Made(ready[i], t, TRUE).tip = t /\ Made(ready[i], t, TRUE).clean = TRUE
  BY <1>1, MadeType
<1>3. made \in Seq(Template) /\ Len(made) = Len(ready)
  <2>1. made \in [1..Len(ready) -> Template]
    BY <1>1, <1>2
  <2> HIDE DEF made
  <2> QED
    BY <1>1, <2>1, FunctionIsSeq
<1>4. ASSUME ready # <<>> PROVE made # <<>> /\ Head(made) = Made(Head(ready), t, TRUE)
  <2>1. Len(ready) >= 1 /\ Head(ready) = ready[1]
    BY <1>4
  <2>2. 1 \in DOMAIN made /\ made[1] = Made(ready[1], t, TRUE)
    BY <1>1, <2>1
  <2> HIDE DEF made
  <2>3. made # <<>>
    BY <1>3, <2>1
  <2>4. Head(made) = made[1]
    BY <1>3, <2>3
  <2> QED
    BY <2>1, <2>2, <2>3, <2>4
<1>5. ASSUME NEW x \in ToSet(made)
      PROVE  /\ x \in Template /\ x.kind = Kind /\ x.tip = t /\ x.clean
             /\ \E i \in DOMAIN ready : x.job = ready[i]
  <2>1. PICK i \in DOMAIN ready : x = Made(ready[i], t, TRUE)
    BY DEF ToSet
  <2> QED
    BY <1>2, <2>1
<1> QED
  BY <1>3, <1>4, <1>5

(* An enqueue drops the whole queue for a clean template, otherwise the    *)
(* oldest if there is no room.                                             *)
LEMMA EnqueueMoves ==
    ASSUME TypeOK, Enqueue
    PROVE  /\ out # <<>> /\ Head(out) \in Template /\ Head(out) \in ToSet(out)
           /\ stratum_queue' \in Seq(Template) /\ 0 < Len(stratum_queue') /\ Len(stratum_queue') <= QueueSize
           /\ ToSet(stratum_queue') \subseteq ToSet(stratum_queue) \cup {Head(out)}
           /\ Head(out).clean => ToSet(stratum_queue') = {Head(out)} /\ Len(stratum_queue') = 1
           /\ out' = Tail(out) /\ out' \in Seq(Template) /\ ToSet(out') \subseteq ToSet(out)
           /\ missed' = FALSE
           /\ miscast' \in BOOLEAN
           /\ miscast' => miscast \/ \E x \in ToSet(stratum_queue) : Misfreed(x, free_fn)
           /\ UNCHANGED <<config, pool, at, extended, channel, free_fn, creator>>
<1> DEFINE n == Len(stratum_queue)
           dropped == IF Head(out).clean THEN n ELSE Oldest
<1>1. out # <<>> /\ EnqueueAfter(dropped)
  BY DEF Enqueue
<1>2. out \in Seq(Template) /\ stratum_queue \in Seq(Template) /\ n \in Nat /\ n <= QueueSize /\ QueueSize \in Nat \ {0}
  BY Sv2Assumption DEF TypeOK
<1>3. dropped \in 0..n /\ n - dropped + 1 <= QueueSize
  BY <1>2 DEF Oldest
<1>4. Head(out) \in Template /\ Head(out) \in ToSet(out)
  BY <1>1, <1>2, HeadInToSet
<1>5. out' = Tail(out) /\ Tail(out) \in Seq(Template) /\ ToSet(Tail(out)) \subseteq ToSet(out)
  BY <1>1, <1>2, TailToSet DEF EnqueueAfter
<1>6. Head(out).clean => dropped = n
  OBVIOUS
<1> HIDE DEF dropped
<1>7. LET r == Append(SubSeq(stratum_queue, dropped + 1, n), Head(out))
      IN  /\ r \in Seq(Template) /\ Len(r) = n - dropped + 1
          /\ ToSet(r) \subseteq ToSet(stratum_queue) \cup {Head(out)}
          /\ dropped = n => ToSet(r) = {Head(out)}
  BY <1>2, <1>3, <1>4, Suffix
<1>8. stratum_queue' = Append(SubSeq(stratum_queue, dropped + 1, n), Head(out))
  BY <1>1 DEF EnqueueAfter
<1>9. /\ stratum_queue' \in Seq(Template) /\ Len(stratum_queue') = n - dropped + 1
      /\ ToSet(stratum_queue') \subseteq ToSet(stratum_queue) \cup {Head(out)}
      /\ dropped = n => ToSet(stratum_queue') = {Head(out)}
  BY <1>7, <1>8
<1>10. 0 < Len(stratum_queue') /\ Len(stratum_queue') <= QueueSize /\ (dropped = n => Len(stratum_queue') = 1)
  BY <1>2, <1>3, <1>9
<1>11. miscast' = (miscast \/ \E i \in 1..dropped : Misfreed(stratum_queue[i], free_fn))
  BY <1>1 DEF EnqueueAfter
<1>12. \A i \in 1..dropped : stratum_queue[i] \in ToSet(stratum_queue)
  BY <1>2, <1>3 DEF ToSet
<1>13. miscast' \in BOOLEAN /\ (miscast' => miscast \/ \E x \in ToSet(stratum_queue) : Misfreed(x, free_fn))
  BY <1>11, <1>12, Zenon DEF TypeOK
<1>14. missed' = FALSE /\ UNCHANGED <<config, pool, at, extended, channel, free_fn, creator>>
  BY <1>1 DEF EnqueueAfter
<1> QED
  BY <1>1, <1>4, <1>5, <1>6, <1>9, <1>10, <1>13, <1>14

LEMMA InitIInv == Init => IInv
<1> SUFFICES ASSUME Init PROVE IInv
  OBVIOUS
<1>1. config \in [Pools -> Kinds] /\ Kind \in Kinds /\ Protocol \in {"V1", "V2"}
  BY Sv2Assumption DEF Init, Kind, Protocol, ProtocolOf, Kinds
<1>2. ring \in [0..Ring - 1 -> 0..MaxJobs] /\ futures \subseteq 1..jobs /\ jobs \in 0..MaxJobs /\ tip \in 0..MaxTips
  BY Sv2Assumption DEF Init, Empty
<1>3. out \in Seq(Template) /\ stratum_queue \in Seq(Template) /\ Len(stratum_queue) <= QueueSize
  BY Sv2Assumption DEF Init
<1> QED
  BY <1>1, <1>2, <1>3 DEF Init, IInv, TypeOK, Places

LEMMA ClearType == ASSUME TypeOK, Clear PROVE stratum_queue' \in Seq(Template) /\ Len(stratum_queue') <= QueueSize
BY Sv2Assumption DEF Clear

LEMMA ClearFlag == ASSUME TypeOK, Clear PROVE miscast' \in BOOLEAN
BY Zenon DEF Clear, TypeOK

(* Between sessions: one action of the task's life each.                   *)
LEMMA LifeKeepsTypes ==
    ASSUME IInv, Dial \/ Handshake \/ Open \/ Close \/ Exit \/ Switch
    PROVE  IInv'
<1>1. TypeOK /\ Places
  BY DEF IInv
<1>2. CASE Dial
  <2>1. /\ at' = "connected" /\ extended' = FALSE /\ ring' = Empty /\ futures' = {} /\ jobs' = 0 /\ tip' = 0
        /\ Clear /\ at = "top"
        /\ UNCHANGED <<config, pool, out, free_fn, pc, current_work_protocol, missed>>
    BY <1>2 DEF Dial
  <2>2. Empty \in [0..Ring - 1 -> 0..MaxJobs] /\ 0 \in 0..MaxJobs /\ 0 \in 0..MaxTips /\ {} \subseteq 1..0
    BY Sv2Assumption DEF Empty
  <2>3. ASSUME NEW x \in Template \cup {None}
        PROVE  (IF x = None THEN x ELSE [x EXCEPT !.tip = 0]) \in Template \cup {None}
    BY <2>2 DEF Template
  <2>4. {current_work', new_work', mined'} \subseteq Template \cup {None}
    <3>1. /\ current_work' = IF current_work = None THEN current_work ELSE [current_work EXCEPT !.tip = 0]
          /\ new_work' = IF new_work = None THEN new_work ELSE [new_work EXCEPT !.tip = 0]
          /\ mined' = IF mined = None THEN mined ELSE [mined EXCEPT !.tip = 0]
      BY <1>2 DEF Dial
    <3>2. current_work \in Template \cup {None} /\ new_work \in Template \cup {None} /\ mined \in Template \cup {None}
      BY <1>1 DEF TypeOK
    <3>3. current_work' \in Template \cup {None}
      BY <2>3, <3>1, <3>2
    <3>4. new_work' \in Template \cup {None}
      BY <2>3, <3>1, <3>2
    <3>5. mined' \in Template \cup {None}
      BY <2>3, <3>1, <3>2
    <3> QED
      BY <3>3, <3>4, <3>5
  <2>5. TypeOK'
    BY <1>1, <2>1, <2>2, <2>4, ClearType, ClearFlag DEF TypeOK
  <2>6. Places'
    BY <1>1, <2>1 DEF Places, Clear
  <2> QED
    BY <2>5, <2>6 DEF IInv
<1>3. CASE Handshake
  <2>1. extended' \in BOOLEAN
    BY <1>3 DEF Handshake
  <2> QED
    BY <1>1, <1>3, <2>1 DEF Handshake, IInv, TypeOK, Places, channel, queue, creator
<1>4. CASE Open
  BY <1>1, <1>4 DEF Open, IInv, TypeOK, Places, channel, queue, creator
<1>5. CASE Close
  BY <1>1, <1>5, ClearType, ClearFlag DEF Close, Clear, IInv, TypeOK, Places, channel, creator
<1>6. CASE Exit
  BY <1>1, <1>6, ClearType, ClearFlag DEF Exit, Clear, IInv, TypeOK, Places, channel, creator
<1>7. CASE Switch
  <2>1. free_fn' \in Kinds
    BY <1>1, <1>7, Sv2Assumption DEF Switch, TypeOK
  <2> QED
    BY <1>1, <1>7, <2>1, ClearType, ClearFlag DEF Switch, Clear, IInv, TypeOK, Places, channel, creator
<1> QED
  BY <1>2, <1>3, <1>4, <1>5, <1>6, <1>7

(* What the pool announces.                                                *)
LEMMA NewJobMoves ==
    ASSUME TypeOK, NEW future \in BOOLEAN, NewJob(future)
    PROVE  /\ at = "session" /\ out = <<>> /\ Protocol = "V2"
           /\ jobs' = jobs + 1 /\ jobs' \in 1..MaxJobs
           /\ futures' = (IF future THEN futures \cup {jobs'} ELSE futures)
           /\ future /\ tip = 0 => futures = {} \/ Early # 1
           /\ \/ /\ ~future /\ tip > 0
                 /\ out' = <<Made(jobs', tip, TRUE)>> /\ ring' = ring
              \/ out' = <<>> /\ ring' = [ring EXCEPT ![Slot(jobs')] = jobs']
           /\ UNCHANGED <<config, pool, at, extended, tip, queue, creator, miscast, missed>>
<1>1. jobs \in Nat /\ jobs < MaxJobs /\ jobs' = jobs + 1 /\ MaxJobs \in Nat
  BY Sv2Assumption DEF NewJob, JobIs, TypeOK
<1>2. future /\ tip = 0 => futures = {} \/ Early # 1
  <2> SUFFICES ASSUME future, tip = 0, Early = 1 PROVE futures = {}
    OBVIOUS
  <2>1. Cardinality(futures) < 1
    BY DEF NewJob, JobIs
  <2>2. IsFiniteSet(futures)
    <3>1. futures \subseteq 1..jobs /\ 1 \in Int /\ jobs \in Int
      BY <1>1 DEF TypeOK
    <3>2. IsFiniteSet(1..jobs)
      BY <3>1, FS_Interval
    <3> QED
      BY <3>1, <3>2, FS_Subset
  <2>3. Cardinality(futures) \in Nat
    BY <2>2, FS_CardinalityType
  <2> QED
    BY <2>1, <2>2, <2>3, FS_EmptySet
<1>3. /\ at = "session" /\ out = <<>> /\ Protocol = "V2"
      /\ futures' = (IF future THEN futures \cup {jobs'} ELSE futures)
      /\ UNCHANGED <<config, pool, at, extended, tip, queue, creator, miscast, missed>>
  BY DEF NewJob, JobIs, Receive
<1>4. \/ ~future /\ tip > 0 /\ out' = <<Made(jobs', tip, TRUE)>> /\ ring' = ring
      \/ out' = <<>> /\ ring' = [ring EXCEPT ![Slot(jobs')] = jobs']
  BY <1>1, <1>3 DEF NewJob, JobIs
<1>5. jobs' \in 1..MaxJobs
  BY <1>1
<1> QED
  BY <1>1, <1>2, <1>3, <1>4, <1>5

LEMMA NewJobKeepsTypes ==
    ASSUME IInv, NEW future \in BOOLEAN, NewJob(future)
    PROVE  IInv'
<1>1. TypeOK /\ Places
  BY DEF IInv
<1>2. /\ at' = "session" /\ jobs' = jobs + 1 /\ jobs' \in 1..MaxJobs /\ jobs \in Nat /\ MaxJobs \in Nat
      /\ tip \in 0..MaxTips
  <2>1. at = "session" /\ at' = at /\ jobs' = jobs + 1 /\ jobs' \in 1..MaxJobs
    BY <1>1, NewJobMoves
  <2> QED
    BY <1>1, <2>1, Sv2Assumption DEF TypeOK
<1>3. futures' \subseteq 1..jobs'
  <2>1. futures \subseteq 1..jobs
    BY <1>1 DEF TypeOK
  <2>2. futures' \subseteq futures \cup {jobs'}
    BY <1>1, NewJobMoves
  <2> QED
    BY <1>2, <2>1, <2>2
<1>4. ring' \in [0..Ring - 1 -> 0..MaxJobs]
  <2>1. ring' = ring \/ ring' = [ring EXCEPT ![Slot(jobs')] = jobs']
    BY <1>1, NewJobMoves
  <2> QED
    BY <1>1, <1>2, <2>1 DEF TypeOK
<1>5. out' \in Seq(Template)
  <2>1. out' = <<>> \/ out' = <<Made(jobs', tip, TRUE)>>
    BY <1>1, NewJobMoves
  <2>2. Made(jobs', tip, TRUE) \in Template
    BY <1>1, <1>2, MadeType
  <2>3. <<Made(jobs', tip, TRUE)>> \in Seq(Template)
    BY <2>2, OneSeq, Zenon
  <2>4. <<>> \in Seq(Template)
    OBVIOUS
  <2> QED
    BY <2>1, <2>3, <2>4
<1>6. UNCHANGED <<config, pool, at, extended, tip, queue, creator, miscast, missed>>
  BY <1>1, NewJobMoves
<1>7. jobs' \in 0..MaxJobs
  BY <1>2
<1> QED
  BY <1>1, <1>2, <1>3, <1>4, <1>5, <1>6, <1>7 DEF IInv, TypeOK, Places, queue, creator

LEMMA PrevHashMoves ==
    ASSUME TypeOK, NEW j \in futures, SetNewPrevHash(j)
    PROVE  \E ready \in Seq(1..MaxJobs) :
             /\ ready \in Ready(j)
             /\ at = "session" /\ out = <<>> /\ Protocol = "V2" /\ j > jobs - Outstanding
             /\ futures' = futures \ {j}
             /\ tip' = tip + 1 /\ tip' \in 1..MaxTips
             /\ out' \in Seq(Template)
             /\ \A x \in ToSet(out') : /\ x.kind = Kind /\ x.tip = tip' /\ x.clean
                                        /\ \E i \in DOMAIN ready : x.job = ready[i]
             /\ ready # <<>> => out' # <<>> /\ Head(out').clean
             /\ ring' = [s \in DOMAIN ring |-> IF ring[s] \in ToSet(ready) THEN 0 ELSE ring[s]]
             /\ UNCHANGED <<config, pool, at, extended, jobs, queue, creator, miscast, missed>>
<1>1. PICK ready \in Ready(j) :
        /\ PrevHash(j, ready)
        /\ ring' = [s \in DOMAIN ring |-> IF ring[s] \in ToSet(ready) THEN 0 ELSE ring[s]]
  BY DEF SetNewPrevHash
<1>2. ready \in Seq(1..MaxJobs)
  BY ReadyJobs
<1>3. tip' = tip + 1 /\ tip' \in 1..MaxTips /\ tip' \in 0..MaxTips
  BY <1>1, Sv2Assumption DEF PrevHash, TypeOK
<1>4. out' = [i \in DOMAIN ready |-> Made(ready[i], tip', TRUE)]
  BY <1>1 DEF PrevHash
<1>5. LET made == [i \in DOMAIN ready |-> Made(ready[i], tip', TRUE)]
      IN  /\ made \in Seq(Template)
          /\ ready # <<>> => made # <<>> /\ Head(made) = Made(Head(ready), tip', TRUE)
          /\ \A x \in ToSet(made) : /\ x \in Template /\ x.kind = Kind /\ x.tip = tip' /\ x.clean
                                    /\ \E i \in DOMAIN ready : x.job = ready[i]
  BY <1>2, <1>3, MadeSeq
<1>6. Head(out').clean = TRUE \/ ready = <<>>
  BY <1>4, <1>5 DEF Made
<1> QED
  BY <1>1, <1>2, <1>3, <1>4, <1>5, <1>6 DEF PrevHash, Receive

LEMMA PrevHashKeepsTypes ==
    ASSUME IInv, NEW j \in futures, SetNewPrevHash(j)
    PROVE  IInv'
<1>1. TypeOK /\ Places
  BY DEF IInv
<1>2. PICK ready \in Seq(1..MaxJobs) :
        /\ at = "session" /\ futures' = futures \ {j} /\ tip' \in 1..MaxTips /\ out' \in Seq(Template)
        /\ ring' = [s \in DOMAIN ring |-> IF ring[s] \in ToSet(ready) THEN 0 ELSE ring[s]]
        /\ UNCHANGED <<config, pool, at, extended, jobs, queue, creator, miscast, missed>>
  BY <1>1, PrevHashMoves
<1>3. ring' \in [0..Ring - 1 -> 0..MaxJobs]
  BY <1>1, <1>2, Sv2Assumption DEF TypeOK
<1>4. tip' \in 0..MaxTips
  BY <1>2, Sv2Assumption
<1> QED
  BY <1>1, <1>2, <1>3, <1>4 DEF IInv, TypeOK, Places, queue, creator

LEMMA NotifyKeepsTypes ==
    ASSUME IInv, NEW clean \in BOOLEAN, Notify(clean)
    PROVE  IInv'
<1>1. TypeOK /\ Places
  BY DEF IInv
<1>2. jobs' = jobs + 1 /\ jobs' \in 1..MaxJobs /\ jobs' \in 0..MaxJobs /\ tip' \in 0..MaxTips
  BY <1>1, Sv2Assumption DEF Notify, TypeOK
<1>3. out' = <<Made(jobs', tip', clean)>> /\ Made(jobs', tip', clean) \in Template
  BY <1>1, <1>2, MadeType DEF Notify
<1>4. out' \in Seq(Template)
  BY <1>3
<1>5. at' = "session"
  BY DEF Notify, Receive
<1>6. futures' \subseteq 1..jobs'
  BY <1>1, <1>2, Sv2Assumption DEF Notify, TypeOK
<1>7. UNCHANGED <<config, pool, at, extended, ring, queue, creator, miscast, missed>>
  BY DEF Notify
<1> QED
  BY <1>1, <1>2, <1>4, <1>5, <1>6, <1>7 DEF IInv, TypeOK, Places, queue, creator

LEMMA EnqueueKeepsTypes == ASSUME IInv, Enqueue PROVE IInv'
<1>1. TypeOK /\ Places
  BY DEF IInv
<1>2. at' = "session"
  BY <1>1, EnqueueMoves DEF Places
<1>3. /\ stratum_queue' \in Seq(Template) /\ Len(stratum_queue') <= QueueSize
      /\ out' \in Seq(Template) /\ missed' \in BOOLEAN /\ miscast' \in BOOLEAN
  BY <1>1, EnqueueMoves
<1>4. UNCHANGED <<config, pool, at, extended, channel, free_fn, creator>>
  BY <1>1, EnqueueMoves
<1> QED
  BY <1>1, <1>2, <1>3, <1>4 DEF IInv, TypeOK, Places, channel, creator

(* create_jobs_task.                                                       *)
LEMMA DiscardType == ASSUME TypeOK, Discard PROVE current_work_protocol' \in {"V1", "V2"} /\ miscast' \in BOOLEAN
<1>1. current_work_protocol' \in {"V1", "V2"}
  BY KindType DEF Discard
<1>2. miscast' \in BOOLEAN
  BY Zenon DEF Discard, TypeOK
<1> QED
  BY <1>1, <1>2

LEMMA CreatorKeepsTypes == ASSUME IInv, CreateJobs PROVE IInv'
<1>1. TypeOK /\ Places
  BY DEF IInv
<1> USE DEF Goto, Create, channel
<1>2. CASE Top
  <2>1. current_work' \in {current_work, None}
    BY <1>2 DEF Top, Discard
  <2>2. current_work_protocol' \in {"V1", "V2"} /\ miscast' \in BOOLEAN
    <3>1. CASE Protocol = current_work_protocol
      BY <1>1, <1>2, <3>1 DEF Top, TypeOK
    <3>2. CASE Protocol # current_work_protocol
      BY <1>1, <1>2, <3>2, DiscardType DEF Top
    <3> QED
      BY <3>1, <3>2
  <2> QED
    BY <1>1, <1>2, <2>1, <2>2 DEF Top, IInv, TypeOK, Places
<1>3. CASE Dequeue
  <2>1. /\ Head(stratum_queue) \in Template /\ Tail(stratum_queue) \in Seq(Template)
        /\ Len(Tail(stratum_queue)) <= QueueSize
    BY <1>1, <1>3, Sv2Assumption DEF Dequeue, TypeOK
  <2> QED
    BY <1>1, <1>3, <2>1 DEF Dequeue, IInv, TypeOK, Places
<1>4. CASE TimesOut
  BY <1>1, <1>4 DEF TimesOut, IInv, TypeOK, Places
<1>5. CASE GotUnknown
  <2>1. current_work_protocol' \in {"V1", "V2"} /\ miscast' \in BOOLEAN
    BY <1>1, <1>5, DiscardType DEF GotUnknown
  <2> QED
    BY <1>1, <1>5, <2>1 DEF GotUnknown, Discard, IInv, TypeOK, Places
<1>6. CASE Got
  <2>1. miscast' \in BOOLEAN
    BY <1>1, <1>6, Zenon DEF Got, TypeOK
  <2> QED
    BY <1>1, <1>6, <2>1 DEF Got, IInv, TypeOK, Places
<1>7. CASE Final
  <2>1. current_work' \in {current_work, None} /\ pc' \in {"generate", "top"}
    BY <1>7 DEF Final, Discard
  <2>2. current_work_protocol' \in {"V1", "V2"} /\ miscast' \in BOOLEAN
    <3>1. CASE Protocol = current_work_protocol
      BY <1>1, <1>7, <3>1 DEF Final, TypeOK
    <3>2. CASE Protocol # current_work_protocol
      BY <1>1, <1>7, <3>2, DiscardType DEF Final
    <3> QED
      BY <3>1, <3>2
  <2> QED
    BY <1>1, <1>7, <2>1, <2>2 DEF Final, IInv, TypeOK, Places
<1>8. CASE Generate
  <2>1. miscast' \in BOOLEAN
    BY <1>1, <1>8, Zenon DEF Generate, TypeOK
  <2> QED
    BY <1>1, <1>8, <2>1 DEF Generate, IInv, TypeOK, Places
<1> QED
  BY <1>2, <1>3, <1>4, <1>5, <1>6, <1>7, <1>8 DEF CreateJobs

LEMMA NextKeepsTypes == IInv /\ [Next]_vars => IInv'
<1> SUFFICES ASSUME IInv, [Next]_vars PROVE IInv'
  OBVIOUS
<1>1. CASE Dial \/ Handshake \/ Open \/ Close \/ Exit \/ Switch
  BY <1>1, LifeKeepsTypes
<1>2. ASSUME NEW b \in BOOLEAN, NewJob(b) PROVE IInv'
  BY <1>2, NewJobKeepsTypes
<1>3. ASSUME NEW b \in BOOLEAN, Notify(b) PROVE IInv'
  BY <1>3, NotifyKeepsTypes
<1>4. ASSUME NEW j \in futures, SetNewPrevHash(j) PROVE IInv'
  BY <1>4, PrevHashKeepsTypes
<1>5. CASE Enqueue
  BY <1>5, EnqueueKeepsTypes
<1>6. CASE CreateJobs
  BY <1>6, CreatorKeepsTypes
<1>7. CASE UNCHANGED vars
  BY <1>7 DEF IInv, TypeOK, Places, vars, channel, queue, creator
<1> QED
  BY <1>1, <1>2, <1>3, <1>4, <1>5, <1>6, <1>7 DEF Next

(* The invariant that the other ones are proved from: types, and a         *)
(* template is queued, or about to be, in a session only.                  *)
THEOREM Invariance == Spec => []IInv
BY InitIInv, NextKeepsTypes, PTL DEF Spec

(* Types: neither ring nor queue is left by an index, and every template   *)
(* is of one of the three layouts.                                         *)
THEOREM TypeCorrect == Spec => []TypeOK
<1>1. IInv => TypeOK
  BY DEF IInv
<1> QED
  BY <1>1, Invariance, PTL

-----------------------------------------------------------------------------
(* A template that is on its way, or has been handed over, has left the    *)
(* ring for good: its id is of a job announced, and in no slot.  A later   *)
(* job has a larger id.                                                    *)
Held == ToSet(stratum_queue) \cup ToSet(out) \cup {current_work, new_work, mined}

Announced == \A s \in DOMAIN ring : ring[s] <= jobs
Gone(x)   == x.job <= jobs /\ \A s \in DOMAIN ring : ring[s] # x.job
HandInv   == Announced /\ \A x \in Held : x.tip > 0 => Gone(x)

LEMMA HeldType ==
    ASSUME TypeOK, NEW x \in Held
    PROVE  x \in Template \cup {None} /\ (x.tip > 0 => x \in Template /\ x.job \in 1..MaxJobs)
<1>1. x \in Template \cup {None}
  <2>1. ToSet(stratum_queue) \subseteq Template /\ ToSet(out) \subseteq Template
    BY InToSet DEF TypeOK
  <2> QED
    BY <2>1 DEF Held, TypeOK
<1>2. None.tip = 0
  BY DEF None
<1> QED
  BY <1>1, <1>2 DEF Template

(* A move of templates alone disturbs nothing.                             *)
LEMMA SameRing ==
    ASSUME HandInv, UNCHANGED <<ring, jobs>>, Held' \subseteq Held \cup {None}
    PROVE  HandInv'
<1>1. None.tip = 0
  BY DEF None
<1> QED
  BY <1>1 DEF HandInv, Announced, Gone

LEMMA LifeHeld ==
    ASSUME IInv, Handshake \/ Open \/ Close \/ Exit \/ Switch
    PROVE  UNCHANGED <<ring, jobs>> /\ Held' \subseteq Held \cup {None}
<1>1. CASE Handshake \/ Open
  BY <1>1 DEF Handshake, Open, Held, channel, queue, creator
<1>2. CASE Close \/ Exit \/ Switch
  <2>1. stratum_queue' = <<>> /\ UNCHANGED <<out, current_work, new_work, mined, ring, jobs>>
    BY <1>2 DEF Close, Exit, Switch, Clear, channel, creator
  <2> QED
    BY <2>1, EmptyToSet DEF Held
<1> QED
  BY <1>1, <1>2

LEMMA CreatorHeld ==
    ASSUME IInv, CreateJobs
    PROVE  UNCHANGED <<ring, jobs>> /\ Held' \subseteq Held \cup {None}
<1>1. UNCHANGED <<ring, jobs, out>>
  BY DEF CreateJobs, Top, Dequeue, TimesOut, GotUnknown, Got, Final, Generate, Create, channel
<1>2. stratum_queue \in Seq(Template)
  BY DEF IInv, TypeOK
<1>3. ToSet(stratum_queue') \subseteq ToSet(stratum_queue)
  <2>1. CASE Dequeue
    BY <1>2, <2>1, TailToSet DEF Dequeue
  <2>2. CASE Top \/ TimesOut \/ GotUnknown \/ Got \/ Final \/ Generate
    <3>1. stratum_queue' = stratum_queue
      BY <2>2 DEF Top, TimesOut, GotUnknown, Got, Final, Generate
    <3> QED
      BY <3>1
  <2> QED
    BY <2>1, <2>2 DEF CreateJobs
<1>4. {current_work', new_work', mined'} \subseteq Held \cup {None}
  <2>1. CASE Dequeue
    BY <1>2, <2>1, HeadInToSet DEF Dequeue, Held
  <2>2. CASE Top \/ TimesOut \/ GotUnknown \/ Got \/ Final \/ Generate
    <3>1. {current_work', new_work', mined'} \subseteq {current_work, new_work, mined, None}
      BY <2>2 DEF Top, TimesOut, GotUnknown, Got, Final, Generate, Discard
    <3> QED
      BY <3>1 DEF Held
  <2> QED
    BY <2>1, <2>2 DEF CreateJobs
<1> QED
  BY <1>1, <1>3, <1>4 DEF Held

LEMMA EnqueueHeld ==
    ASSUME IInv, Enqueue
    PROVE  UNCHANGED <<ring, jobs>> /\ Held' \subseteq Held \cup {None}
<1>1. TypeOK
  BY DEF IInv
<1>2. /\ ToSet(stratum_queue') \subseteq ToSet(stratum_queue) \cup ToSet(out) /\ ToSet(out') \subseteq ToSet(out)
      /\ UNCHANGED <<channel, creator>>
  BY <1>1, EnqueueMoves
<1> QED
  BY <1>2 DEF Held, channel, creator

LEMMA DialHands == ASSUME IInv, Dial PROVE HandInv'
<1>1. out = <<>>
  BY DEF IInv, Places, Dial
<1>2. /\ stratum_queue' = <<>> /\ out' = <<>> /\ jobs' = 0 /\ ring' = Empty
      /\ current_work' = IF current_work = None THEN current_work ELSE [current_work EXCEPT !.tip = 0]
      /\ new_work' = IF new_work = None THEN new_work ELSE [new_work EXCEPT !.tip = 0]
      /\ mined' = IF mined = None THEN mined ELSE [mined EXCEPT !.tip = 0]
  BY <1>1 DEF Dial, Clear
<1>3. ASSUME NEW x \in Template \cup {None}
      PROVE  (IF x = None THEN x ELSE [x EXCEPT !.tip = 0]).tip = 0
  BY DEF Template, None
<1>4. {current_work, new_work, mined} \subseteq Template \cup {None}
  BY DEF IInv, TypeOK
<1>5. current_work'.tip = 0 /\ new_work'.tip = 0 /\ mined'.tip = 0
  BY <1>2, <1>3, <1>4
<1>6. \A x \in Held' : x.tip = 0
  BY <1>2, <1>5, EmptyToSet DEF Held
<1>7. Announced'
  BY <1>2 DEF Announced, Empty
<1> QED
  BY <1>6, <1>7 DEF HandInv

(* A new job is larger than all before it.                                 *)
LEMMA NewJobHands ==
    ASSUME IInv, HandInv, NEW future \in BOOLEAN, NewJob(future)
    PROVE  HandInv'
<1>1. TypeOK
  BY DEF IInv
<1>2. jobs' = jobs + 1 /\ jobs \in Nat /\ jobs' \in 1..MaxJobs /\ ring \in [0..Ring - 1 -> 0..MaxJobs]
  <2>1. jobs' = jobs + 1 /\ jobs' \in 1..MaxJobs
    BY <1>1, NewJobMoves
  <2> QED
    BY <1>1, <2>1, Sv2Assumption DEF TypeOK
<1>3. UNCHANGED <<stratum_queue, current_work, new_work, mined, tip>>
  BY <1>1, NewJobMoves DEF queue, creator
<1>4. \A s \in DOMAIN ring : ring[s] <= jobs /\ ring[s] \in 0..MaxJobs
  BY <1>2 DEF HandInv, Announced
<1>5. CASE out' = <<Made(jobs', tip, TRUE)>> /\ ring' = ring
  <2>1. PICK y : y = Made(jobs', tip, TRUE) /\ y.job = jobs'
    <3>1. Made(jobs', tip, TRUE).job = jobs'
      BY DEF Made
    <3> QED
      BY <3>1, Zenon
  <2>2. Held' \subseteq Held \cup {y}
    BY <1>3, <1>5, <2>1, OneToSet DEF Held
  <2>3. \A s \in DOMAIN ring : ring'[s] <= jobs' /\ ring'[s] # jobs'
    BY <1>2, <1>4, <1>5
  <2>4. ASSUME NEW x \in Held, x.tip > 0 PROVE Gone(x)'
    <3>1. Gone(x) /\ x.job \in 1..MaxJobs
      BY <1>1, <2>4, HeldType DEF HandInv
    <3> QED
      BY <1>2, <1>5, <3>1 DEF Gone
  <2>5. Gone(y)'
    <3>1. y.job = jobs' /\ ring' = ring
      BY <1>5, <2>1
    <3> QED
      BY <1>2, <2>3, <3>1 DEF Gone
  <2> QED
    BY <1>5, <2>2, <2>3, <2>4, <2>5 DEF HandInv, Announced
<1>6. CASE out' = <<>> /\ ring' = [ring EXCEPT ![Slot(jobs')] = jobs']
  <2>1. Held' \subseteq Held
    BY <1>3, <1>6, EmptyToSet DEF Held
  <2>2. DOMAIN ring' = DOMAIN ring /\ \A s \in DOMAIN ring : ring'[s] = ring[s] \/ ring'[s] = jobs'
    BY <1>2, <1>6
  <2>3. Announced'
    BY <1>2, <1>4, <2>2 DEF Announced
  <2>4. ASSUME NEW x \in Held, x.tip > 0 PROVE Gone(x)'
    <3>1. Gone(x) /\ x.job \in 1..MaxJobs
      BY <1>1, <2>4, HeldType DEF HandInv
    <3> QED
      BY <1>2, <2>2, <3>1 DEF Gone
  <2> QED
    BY <2>1, <2>3, <2>4 DEF HandInv
<1> QED
  BY <1>1, <1>5, <1>6, NewJobMoves

LEMMA NotifyHands ==
    ASSUME IInv, HandInv, NEW clean \in BOOLEAN, Notify(clean)
    PROVE  HandInv'
<1>1. TypeOK
  BY DEF IInv
<1>2. /\ jobs' = jobs + 1 /\ jobs \in Nat /\ ring' = ring /\ ring \in [0..Ring - 1 -> 0..MaxJobs]
      /\ out' = <<Made(jobs', tip', clean)>> /\ UNCHANGED <<stratum_queue, current_work, new_work, mined>>
  BY <1>1, Sv2Assumption DEF Notify, TypeOK, queue, creator
<1>3. PICK y : y = Made(jobs', tip', clean) /\ y.job = jobs'
  <2>1. Made(jobs', tip', clean).job = jobs'
    BY DEF Made
  <2> QED
    BY <2>1, Zenon
<1>4. Held' \subseteq Held \cup {y}
  BY <1>2, <1>3, OneToSet DEF Held
<1>5. \A s \in DOMAIN ring : ring'[s] <= jobs' /\ ring'[s] # jobs'
  BY <1>2 DEF HandInv, Announced
<1>6. ASSUME NEW x \in Held, x.tip > 0 PROVE Gone(x)'
  <2>1. Gone(x) /\ x.job \in 1..MaxJobs
    BY <1>1, <1>6, HeldType DEF HandInv
  <2> QED
    BY <1>2, <2>1 DEF Gone
<1>7. Gone(y)'
  BY <1>2, <1>3, <1>5 DEF Gone
<1> QED
  BY <1>2, <1>4, <1>5, <1>6, <1>7 DEF HandInv, Announced

(* What a previous hash completes leaves its slot.                         *)
LEMMA PrevHashHands ==
    ASSUME IInv, HandInv, NEW j \in futures, SetNewPrevHash(j)
    PROVE  HandInv'
<1>1. TypeOK
  BY DEF IInv
<1>2. PICK ready \in Seq(1..MaxJobs) :
        /\ ready \in Ready(j)
        /\ \A x \in ToSet(out') : \E i \in DOMAIN ready : x.job = ready[i]
        /\ ring' = [s \in DOMAIN ring |-> IF ring[s] \in ToSet(ready) THEN 0 ELSE ring[s]]
        /\ UNCHANGED <<jobs, queue, creator>>
  BY <1>1, PrevHashMoves
<1>3. /\ jobs \in Nat /\ ring \in [0..Ring - 1 -> 0..MaxJobs] /\ DOMAIN ring' = DOMAIN ring
      /\ \A s \in DOMAIN ring : ring'[s] = 0 \/ (ring'[s] = ring[s] /\ ring[s] \notin ToSet(ready))
  <2>1. jobs \in Nat /\ ring \in [0..Ring - 1 -> 0..MaxJobs]
    BY <1>1 DEF TypeOK
  <2> QED
    BY <1>2, <2>1
<1>4. Announced'
  BY <1>2, <1>3 DEF HandInv, Announced
<1>5. Held' \subseteq Held \cup ToSet(out')
  BY <1>2 DEF Held, queue, creator
<1>6. ASSUME NEW x \in Held, x.tip > 0 PROVE Gone(x)'
  <2>1. Gone(x) /\ x.job \in 1..MaxJobs
    BY <1>1, <1>6, HeldType DEF HandInv
  <2> QED
    BY <1>2, <1>3, <2>1 DEF Gone
<1>7. ASSUME NEW x \in ToSet(out') PROVE Gone(x)'
  <2>1. PICK i \in DOMAIN ready : x.job = ready[i]
    BY <1>2
  <2>2. x.job \in 1..MaxJobs /\ x.job \in ToSet(ready)
    <3>1. ready[i] \in 1..MaxJobs
      BY ElementOfSeq, LenProperties
    <3> QED
      BY <2>1, <3>1 DEF ToSet
  <2>3. PICK s \in DOMAIN ring : ring[s] = x.job
    BY <1>1, <1>2, <2>1, ReadyJobs
  <2>4. x.job <= jobs
    BY <2>3 DEF HandInv, Announced
  <2> QED
    BY <1>2, <1>3, <2>2, <2>4 DEF Gone
<1> QED
  BY <1>4, <1>5, <1>6, <1>7 DEF HandInv

LEMMA HandStep == IInv /\ HandInv /\ [Next]_vars => HandInv'
<1> SUFFICES ASSUME IInv, HandInv, [Next]_vars PROVE HandInv'
  OBVIOUS
<1>1. CASE Dial
  BY <1>1, DialHands
<1>2. CASE Handshake \/ Open \/ Close \/ Exit \/ Switch
  BY <1>2, LifeHeld, SameRing
<1>3. ASSUME NEW b \in BOOLEAN, NewJob(b) PROVE HandInv'
  BY <1>3, NewJobHands
<1>4. ASSUME NEW b \in BOOLEAN, Notify(b) PROVE HandInv'
  BY <1>4, NotifyHands
<1>5. ASSUME NEW j \in futures, SetNewPrevHash(j) PROVE HandInv'
  BY <1>5, PrevHashHands
<1>6. CASE Enqueue
  BY <1>6, EnqueueHeld, SameRing
<1>7. CASE CreateJobs
  BY <1>7, CreatorHeld, SameRing
<1>8. CASE UNCHANGED vars
  BY <1>8 DEF HandInv, Announced, Gone, Held, vars, channel, queue, creator
<1> QED
  BY <1>1, <1>2, <1>3, <1>4, <1>5, <1>6, <1>7, <1>8 DEF Next

(* No job has two owners, whatever the size of ring and queue: what is     *)
(* queued, in create_jobs_task's hands or on the ASIC is in no slot.       *)
THEOREM OwnedOnce == Spec => []HandedOverOnce
<1>1. Init => HandInv
  <2> SUFFICES ASSUME Init PROVE HandInv
    OBVIOUS
  <2>1. \A x \in Held : x.tip = 0
    BY EmptyToSet DEF Init, Held, None
  <2>2. Announced
    BY DEF Init, Announced, Empty
  <2> QED
    BY <2>1, <2>2 DEF HandInv
<1>2. IInv /\ HandInv => HandedOverOnce
  <2> SUFFICES ASSUME IInv, HandInv, NEW x \in Held, x.tip > 0
               PROVE  x.job \notin ToSet([s \in 1..Ring |-> ring[s - 1]])
    BY DEF HandedOverOnce, Held
  <2>1. \A s \in 1..Ring : s - 1 \in DOMAIN ring
    BY Sv2Assumption DEF IInv, TypeOK
  <2>2. \A s \in 1..Ring : ring[s - 1] # x.job
    BY <2>1 DEF HandInv, Gone
  <2> QED
    BY <2>2 DEF ToSet
<1> QED
  BY <1>1, <1>2, HandStep, Invariance, PTL DEF Spec

-----------------------------------------------------------------------------
(* Layouts.  What is on its way was made for the kind of channel the       *)
(* coordinator is on, whose layout is inferred from the protocol and from  *)
(* sv2_conn; what create_jobs_task works on was made for a kind of the     *)
(* protocol it remembers.  Two pools of V2 must have channels of one kind: *)
(* a switch between them is not noticed.                                   *)
OneLayout ==
    \A c \in Configurations : \A p, q \in Pools :
        ProtocolOf(c[p]) = "V2" /\ ProtocolOf(c[q]) = "V2" => c[p] = c[q]

Underway == ToSet(stratum_queue) \cup ToSet(out)

Connection ==
    /\ extended => Kind = "EXT"
    /\ at \in {"setup", "session"} /\ Kind = "EXT" => extended
    /\ at = "exited" => ~extended
Queued  == free_fn = Kind /\ \A x \in Underway : x.kind = Kind
Fetched ==
    pc = "got" => /\ at \in {"session", "top"}
                  /\ new_work # None => new_work.kind = Kind
                  /\ Kind = "EXT" => extended
Remembered ==
    current_work # None => /\ ProtocolOf(current_work.kind) = current_work_protocol
                           /\ \E p \in Pools : current_work.kind = config[p]
Committed == pc \in {"final", "generate"} /\ current_work # None /\ current_work.kind = "EXT" => extended

CastInv == Connection /\ Queued /\ Fetched /\ Remembered /\ Committed /\ CastAsMade

(* The work under way is freed in its own layout, or with free() ...       *)
LEMMA WorkIsFreed ==
    ASSUME TypeOK, OneLayout, Connection, Remembered
    PROVE  ~Misfreed(current_work, Layout(current_work_protocol))
<1> SUFFICES ASSUME current_work # None, Layout(current_work_protocol) # "STD"
             PROVE  current_work.kind = Layout(current_work_protocol)
  BY DEF Misfreed, Misread
<1>1. PICK p \in Pools : current_work.kind = config[p] /\ ProtocolOf(config[p]) = current_work_protocol
  BY DEF Remembered
<1>2. config[p] \in Kinds /\ pool \in Pools /\ config \in Configurations
  BY Sv2Assumption DEF TypeOK
<1>3. CASE current_work_protocol = "V1"
  BY <1>1, <1>2, <1>3 DEF Layout, ProtocolOf, Kinds
<1>4. CASE current_work_protocol # "V1"
  <2>1. extended /\ Layout(current_work_protocol) = "EXT" /\ Kind = "EXT"
    BY <1>4 DEF Layout, Connection
  <2>2. ProtocolOf(config[p]) = "V2" /\ ProtocolOf(config[pool]) = "V2"
    BY <1>1, <1>2, <1>4, <2>1 DEF ProtocolOf, Kind
  <2> QED
    BY <1>1, <1>2, <2>1, <2>2 DEF OneLayout, Kind
<1> QED
  BY <1>3, <1>4

(* ... and read in its own layout, once it is decided to mine it.          *)
LEMMA WorkIsRead ==
    ASSUME TypeOK, OneLayout, Connection, Remembered, current_work # None, current_work.kind = "EXT" => extended
    PROVE  ~Misread(current_work, Layout(current_work_protocol))
<1>1. current_work.kind \in Kinds
  BY DEF TypeOK, Template
<1>2. CASE Layout(current_work_protocol) # "STD"
  BY <1>2, WorkIsFreed DEF Misfreed
<1>3. CASE Layout(current_work_protocol) = "STD"
  <2>1. current_work_protocol # "V1" /\ ~extended
    BY <1>3 DEF Layout
  <2> QED
    BY <1>1, <1>3, <2>1 DEF Misread, Remembered, ProtocolOf, Kinds
<1> QED
  BY <1>2, <1>3

(* A template out of the queue is of the protocol there is.                *)
LEMMA NewIsRead ==
    ASSUME TypeOK, Connection, Fetched, pc = "got", Protocol = current_work_protocol
    PROVE  ~Misread(new_work, Layout(current_work_protocol))
<1> SUFFICES ASSUME new_work # None PROVE new_work.kind = Layout(current_work_protocol)
  BY DEF Misread
<1>1. new_work.kind = Kind /\ Kind \in Kinds /\ (extended <=> Kind = "EXT")
  BY KindType DEF Fetched, Connection, TypeOK
<1> QED
  BY <1>1 DEF Layout, Protocol, ProtocolOf, Kinds

LEMMA ClearFits == ASSUME CastInv, Clear PROVE ~miscast'
BY DEF CastInv, Queued, Underway, Clear, Misfreed, Misread, CastAsMade

LEMMA LifeFits ==
    ASSUME IInv, CastInv, ~Flips, OneLayout, Dial \/ Handshake \/ Open \/ Close \/ Exit \/ Switch
    PROVE  CastInv'
<1>1. TypeOK /\ Places
  BY DEF IInv
<1>2. CASE Dial
  <2>1. /\ at = "top" /\ pc \in {"top", "dequeue"} /\ at' = "connected" /\ extended' = FALSE
        /\ stratum_queue' = <<>> /\ out' = <<>>
        /\ current_work' = IF current_work = None THEN current_work ELSE [current_work EXCEPT !.tip = 0]
        /\ UNCHANGED <<config, pool, free_fn, pc, current_work_protocol>>
    BY <1>1, <1>2 DEF Dial, Unhurried, Clear, Places
  <2>2. ~miscast'
    BY <1>2, ClearFits DEF Dial
  <2>3. Kind' = Kind
    BY <2>1 DEF Kind
  <2>4. Connection' /\ Fetched' /\ Committed'
    BY <2>1 DEF Connection, Fetched, Committed
  <2>5. Queued'
    BY <2>1, <2>3, EmptyToSet DEF CastInv, Queued, Underway
  <2>6. Remembered'
    <3>1. current_work \in Template \cup {None}
      BY <1>1 DEF TypeOK
    <3>2. current_work' # None => current_work # None /\ current_work'.kind = current_work.kind
      BY <2>1, <3>1 DEF Template
    <3> QED
      BY <2>1, <3>2 DEF CastInv, Remembered
  <2> QED
    BY <2>2, <2>4, <2>5, <2>6 DEF CastInv, CastAsMade
<1>3. CASE Handshake
  <2>1. /\ at = "connected" /\ pc \in {"top", "dequeue"} /\ at' = "setup" /\ extended' = (Kind = "EXT")
        /\ UNCHANGED <<config, pool, stratum_queue, out, free_fn, pc, current_work, current_work_protocol, miscast>>
    BY <1>1, <1>3 DEF Handshake, Unhurried, queue, creator
  <2>2. Kind' = Kind
    BY <2>1 DEF Kind
  <2>3. Connection' /\ Fetched' /\ Committed'
    BY <2>1, <2>2 DEF Connection, Fetched, Committed
  <2> QED
    BY <2>1, <2>2, <2>3 DEF CastInv, CastAsMade, Queued, Underway, Remembered
<1>4. CASE Open
  <2>1. UNCHANGED <<config, pool, extended, stratum_queue, out, free_fn, pc, current_work, new_work,
                    current_work_protocol, miscast>> /\ at = "setup" /\ at' = "session"
    BY <1>4 DEF Open, queue, creator
  <2>2. Kind' = Kind
    BY <2>1 DEF Kind
  <2> QED
    BY <2>1, <2>2 DEF CastInv, CastAsMade, Connection, Queued, Underway, Fetched, Remembered, Committed
<1>5. CASE Close
  <2>1. /\ at' = "top" /\ stratum_queue' = <<>>
        /\ UNCHANGED <<config, pool, extended, out, free_fn, pc, current_work, new_work, current_work_protocol>>
    BY <1>5 DEF Close, Clear, creator
  <2>2. Kind' = Kind
    BY <2>1 DEF Kind
  <2>3. ~miscast'
    BY <1>5, ClearFits DEF Close
  <2>4. Queued'
    BY <2>1, <2>2, EmptyToSet DEF CastInv, Queued, Underway
  <2> QED
    BY <2>1, <2>2, <2>3, <2>4 DEF CastInv, CastAsMade, Connection, Fetched, Remembered, Committed
<1>6. CASE Exit
  <2>1. /\ at' = "exited" /\ stratum_queue' = <<>> /\ pc \in {"top", "dequeue"} /\ extended' = FALSE
        /\ UNCHANGED <<config, pool, out, free_fn, pc, current_work, new_work, current_work_protocol>>
    BY <1>6 DEF Exit, Unhurried, Clear, creator
  <2>2. Kind' = Kind
    BY <2>1 DEF Kind
  <2>3. ~miscast'
    BY <1>6, ClearFits DEF Exit
  <2>4. Queued'
    BY <2>1, <2>2, EmptyToSet DEF CastInv, Queued, Underway
  <2>5. Connection' /\ Fetched' /\ Committed'
    BY <2>1 DEF Connection, Fetched, Committed
  <2> QED
    BY <2>1, <2>3, <2>4, <2>5 DEF CastInv, CastAsMade, Remembered
<1>7. CASE Switch
  <2>1. /\ at = "exited" /\ at' = "top" /\ stratum_queue' = <<>> /\ out' = <<>> /\ free_fn' = config[pool']
        /\ UNCHANGED <<config, extended, pc, current_work, new_work, current_work_protocol>>
    BY <1>1, <1>7 DEF Switch, Clear, creator, Places
  <2>2. ~miscast'
    BY <1>7, ClearFits DEF Switch
  <2>3. Queued'
    BY <2>1, EmptyToSet DEF Queued, Underway, Kind
  <2>4. Connection' /\ Fetched'
    BY <2>1 DEF CastInv, Connection, Fetched
  <2> QED
    BY <2>1, <2>2, <2>3, <2>4 DEF CastInv, CastAsMade, Remembered, Committed
<1> QED
  BY <1>2, <1>3, <1>4, <1>5, <1>6, <1>7

(* The handlers make templates of the kind there is.                       *)
LEMMA HandlerFits ==
    ASSUME IInv, CastInv,
           \/ \E b \in BOOLEAN : NewJob(b) \/ Notify(b)
           \/ \E j \in futures : SetNewPrevHash(j)
    PROVE  CastInv'
<1>1. TypeOK
  BY DEF IInv
<1> DEFINE OnlyMakes ==
        /\ \A x \in ToSet(out') : x.kind = Kind
        /\ UNCHANGED <<config, pool, at, extended, queue, creator, miscast>>
<1>2. OnlyMakes
  <2>1. ASSUME NEW b \in BOOLEAN, NewJob(b) PROVE OnlyMakes
    <3>1. out' = <<>> \/ out' = <<Made(jobs', tip, TRUE)>>
      BY <1>1, <2>1, NewJobMoves
    <3>2. UNCHANGED <<config, pool, at, extended, queue, creator, miscast>>
      BY <1>1, <2>1, NewJobMoves
    <3> QED
      BY <3>1, <3>2, EmptyToSet, OneToSet DEF Made
  <2>2. ASSUME NEW b \in BOOLEAN, Notify(b) PROVE OnlyMakes
    BY <2>2, OneToSet DEF Notify, Made
  <2>3. ASSUME NEW j \in futures, SetNewPrevHash(j) PROVE OnlyMakes
    BY <1>1, <2>3, PrevHashMoves
  <2> QED
    BY <2>1, <2>2, <2>3
<1>3. Kind' = Kind
  BY <1>2 DEF Kind
<1>4. Queued'
  BY <1>2, <1>3 DEF CastInv, Queued, Underway, queue
<1> QED
  BY <1>2, <1>3, <1>4 DEF CastInv, CastAsMade, Connection, Fetched, Remembered, Committed, creator

LEMMA EnqueueFits == ASSUME IInv, CastInv, Enqueue PROVE CastInv'
<1>1. TypeOK
  BY DEF IInv
<1>2. /\ ToSet(stratum_queue') \subseteq ToSet(stratum_queue) \cup ToSet(out) /\ ToSet(out') \subseteq ToSet(out)
      /\ UNCHANGED <<config, pool, at, extended, free_fn, creator>>
  BY <1>1, EnqueueMoves
<1>3. ~miscast'
  <2>1. miscast' => miscast \/ \E x \in ToSet(stratum_queue) : Misfreed(x, free_fn)
    BY <1>1, EnqueueMoves
  <2> QED
    BY <2>1 DEF CastInv, CastAsMade, Queued, Underway, Misfreed, Misread
<1>4. Kind' = Kind
  BY <1>2 DEF Kind
<1>5. Queued'
  BY <1>2, <1>4 DEF CastInv, Queued, Underway
<1> QED
  BY <1>2, <1>3, <1>4, <1>5 DEF CastInv, CastAsMade, Connection, Fetched, Remembered, Committed, creator

LEMMA DiscardFits ==
    ASSUME IInv, CastInv, OneLayout, Discard
    PROVE  current_work' = None /\ ~miscast'
<1>1. ~Misfreed(current_work, Layout(current_work_protocol))
  BY WorkIsFreed DEF IInv, CastInv
<1>2. miscast' = (miscast \/ Misfreed(current_work, Layout(current_work_protocol)))
  BY DEF Discard
<1> QED
  BY <1>1, <1>2 DEF Discard, CastInv, CastAsMade

LEMMA CreatorFits ==
    ASSUME IInv, CastInv, OneLayout, CreateJobs
    PROVE  CastInv'
<1>1. TypeOK /\ Places
  BY DEF IInv
<1>2. /\ UNCHANGED <<config, pool, at, extended, out, free_fn>> /\ Kind' = Kind /\ Protocol' = Protocol
      /\ Connection'
  <2>1. UNCHANGED <<config, pool, at, extended, out, free_fn>>
    BY DEF CreateJobs, Top, Dequeue, TimesOut, GotUnknown, Got, Final, Generate, Create
  <2> QED
    BY <2>1 DEF Kind, Protocol, CastInv, Connection
<1>3. Queued'
  <2>1. ToSet(stratum_queue') \subseteq ToSet(stratum_queue)
    <3>1. CASE Dequeue
      BY <1>1, <3>1, TailToSet DEF Dequeue, TypeOK
    <3>2. CASE Top \/ TimesOut \/ GotUnknown \/ Got \/ Final \/ Generate
      <4>1. stratum_queue' = stratum_queue
        BY <3>2 DEF Top, TimesOut, GotUnknown, Got, Final, Generate
      <4> QED
        BY <4>1
    <3> QED
      BY <3>1, <3>2 DEF CreateJobs
  <2> QED
    BY <1>2, <2>1 DEF CastInv, Queued, Underway
<1>4. Remembered /\ Connection /\ Fetched /\ Committed /\ ~miscast
  BY DEF CastInv, CastAsMade
<1>5. Fetched' /\ Remembered' /\ Committed' /\ ~miscast'
  <2> USE DEF Goto
  <2>1. CASE Top
    <3>1. CASE Protocol = current_work_protocol
      <4>1. UNCHANGED <<current_work, current_work_protocol, miscast>> /\ pc' = "dequeue"
        BY <2>1, <3>1 DEF Top
      <4> QED
        BY <1>2, <1>4, <4>1 DEF Fetched, Remembered, Committed
    <3>2. CASE Protocol # current_work_protocol
      <4>1. Discard /\ pc' = "dequeue"
        BY <2>1, <3>2 DEF Top
      <4> QED
        BY <4>1, DiscardFits DEF Fetched, Remembered, Committed
    <3> QED
      BY <3>1, <3>2
  <2>2. CASE Dequeue
    <3>1. /\ pc' = "got" /\ new_work' = Head(stratum_queue) /\ stratum_queue # <<>>
          /\ UNCHANGED <<current_work, current_work_protocol, miscast>>
      BY <2>2 DEF Dequeue
    <3>2. at = "session" /\ new_work'.kind = Kind
      BY <1>1, <3>1, HeadInToSet DEF CastInv, Queued, Underway, Places, TypeOK
    <3>3. Fetched'
      BY <1>2, <1>4, <3>2 DEF Fetched, Connection
    <3> QED
      BY <1>2, <1>4, <3>1, <3>3 DEF Remembered, Committed
  <2>3. CASE TimesOut
    <3>1. /\ pc' = (IF current_work = None \/ Layout(current_work_protocol) = "STD" THEN "top" ELSE "final")
          /\ UNCHANGED <<current_work, current_work_protocol, miscast>>
      BY <2>3 DEF TimesOut
    <3>2. Committed'
      BY <1>1, <1>2, <1>4, <3>1 DEF Committed, Layout, Remembered, ProtocolOf
    <3> QED
      BY <1>2, <1>4, <3>1, <3>2 DEF Fetched, Remembered
  <2>4. CASE GotUnknown
    <3>1. Discard /\ pc' = "top"
      BY <2>4 DEF GotUnknown
    <3> QED
      BY <3>1, DiscardFits DEF Fetched, Remembered, Committed
  <2>5. CASE Got
    <3>1. /\ pc = "got" /\ Protocol = current_work_protocol /\ current_work' = new_work
          /\ pc' = (IF new_work.clean THEN "final" ELSE "top") /\ UNCHANGED current_work_protocol
          /\ miscast' = (\/ miscast
                         \/ Misfreed(current_work, Layout(current_work_protocol))
                         \/ Misread(new_work, Layout(current_work_protocol)))
      BY <2>5 DEF Got
    <3>2. ~miscast'
      BY <1>1, <1>4, <3>1, WorkIsFreed, NewIsRead
    <3>3. Remembered'
      <4>1. new_work # None => new_work.kind = config[pool] /\ pool \in Pools
        BY <1>1, <1>4, <3>1 DEF Fetched, Kind, TypeOK
      <4> QED
        BY <1>2, <3>1, <4>1 DEF Remembered, Protocol, Kind
    <3>4. Fetched' /\ Committed'
      BY <1>2, <1>4, <3>1 DEF Fetched, Committed
    <3> QED
      BY <3>2, <3>3, <3>4
  <2>6. CASE Final
    <3>1. CASE Protocol = current_work_protocol
      <4>1. UNCHANGED <<current_work, current_work_protocol, miscast>> /\ pc = "final" /\ pc' = "generate"
        BY <2>6, <3>1 DEF Final
      <4> QED
        BY <1>2, <1>4, <4>1 DEF Fetched, Remembered, Committed
    <3>2. CASE Protocol # current_work_protocol
      <4>1. Discard /\ pc' = "top"
        BY <2>6, <3>2 DEF Final
      <4> QED
        BY <4>1, DiscardFits DEF Fetched, Remembered, Committed
    <3> QED
      BY <3>1, <3>2
  <2>7. CASE Generate
    <3>1. /\ pc = "generate" /\ pc' = "top" /\ UNCHANGED <<current_work, current_work_protocol>>
          /\ miscast' = (miscast \/ Misread(current_work, Layout(current_work_protocol)))
      BY <2>7 DEF Generate
    <3>2. ~Misread(current_work, Layout(current_work_protocol))
      <4>1. CASE current_work = None
        BY <4>1 DEF Misread
      <4>2. CASE current_work # None
        BY <1>1, <1>4, <3>1, <4>2, WorkIsRead DEF Committed
      <4> QED
        BY <4>1, <4>2
    <3> QED
      BY <1>2, <1>4, <3>1, <3>2 DEF Fetched, Remembered, Committed
  <2> QED
    BY <2>1, <2>2, <2>3, <2>4, <2>5, <2>6, <2>7 DEF CreateJobs
<1> QED
  BY <1>2, <1>3, <1>5 DEF CastInv, CastAsMade

LEMMA CastStep ==
    ASSUME ~Flips, OneLayout
    PROVE  IInv /\ CastInv /\ [Next]_vars => CastInv'
<1> SUFFICES ASSUME IInv, CastInv, [Next]_vars PROVE CastInv'
  OBVIOUS
<1>1. CASE Dial \/ Handshake \/ Open \/ Close \/ Exit \/ Switch
  BY <1>1, LifeFits
<1>2. CASE \/ \E b \in BOOLEAN : NewJob(b) \/ Notify(b)
           \/ \E j \in futures : SetNewPrevHash(j)
  BY <1>2, HandlerFits
<1>3. CASE Enqueue
  BY <1>3, EnqueueFits
<1>4. CASE CreateJobs
  BY <1>4, CreatorFits
<1>5. CASE UNCHANGED vars
  BY <1>5 DEF CastInv, CastAsMade, Connection, Queued, Underway, Fetched, Remembered, Committed, Kind,
              vars, channel, queue, creator
<1> QED
  BY <1>1, <1>2, <1>3, <1>4, <1>5 DEF Next

(* No template is read or freed in a layout not its own, through any       *)
(* number of reconnects and of switches between V1 and V2: given that      *)
(* sv2_conn does not change in the instants Flips stands for, and pools of *)
(* V2 with channels of one kind.                                           *)
THEOREM LayoutsKept == ~Flips /\ OneLayout => (Spec => []CastAsMade)
<1> SUFFICES ASSUME ~Flips, OneLayout PROVE Spec => []CastAsMade
  OBVIOUS
<1>1. Init => CastInv
  <2> SUFFICES ASSUME Init PROVE CastInv
    OBVIOUS
  <2>1. ~extended /\ at = "top" /\ pc = "top" /\ current_work = None /\ ~miscast
    BY DEF Init
  <2>2. Underway = {} /\ free_fn = Kind
    BY EmptyToSet DEF Init, Underway
  <2> QED
    BY <2>1, <2>2 DEF CastInv, CastAsMade, Connection, Queued, Fetched, Remembered, Committed
<1>2. CastInv => CastAsMade
  BY DEF CastInv
<1>3. IInv /\ CastInv /\ [Next]_vars => CastInv'
  BY CastStep
<1> QED
  BY <1>1, <1>2, <1>3, Invariance, PTL DEF Spec

-----------------------------------------------------------------------------
(* Tips.  A previous hash always finds the job it names, as long as a pool *)
(* names one of its last Ring jobs; so a change of tip always comes with a *)
(* clean template, which empties the queue.  Of the jobs announced before  *)
(* the first previous hash only one may be asked for again.                *)
KnownJobs == Outstanding <= Ring /\ Early = 1

Fresh == /\ \A x \in ToSet(out) : x.tip = tip
         /\ out = <<>> \/ ~Head(out).clean => \A x \in ToSet(stratum_queue) : x.tip = tip
Single   == Protocol = "V2" => /\ \A x \in ToSet(out) : x.clean
                               /\ out = <<>> => Len(stratum_queue) <= 1
Kept     == \A j \in futures : j > jobs - Ring => ring[Slot(j)] = j
OneEarly == tip = 0 => \A i, j \in futures : i = j

TipInv == Fresh /\ Single /\ Kept /\ OneEarly

LEMMA DialIsOfTip == ASSUME IInv, Dial PROVE TipInv'
<1>1. stratum_queue' = <<>> /\ out' = <<>> /\ futures' = {}
  BY DEF IInv, Places, Dial, Clear
<1>2. Len(<<>>) = 0
  OBVIOUS
<1> QED
  BY <1>1, <1>2, EmptyToSet DEF TipInv, Fresh, Single, Kept, OneEarly

LEMMA LifeIsOfTip == ASSUME IInv, TipInv, Handshake \/ Open \/ Close \/ Exit \/ Switch PROVE TipInv'
<1>1. UNCHANGED <<ring, futures, jobs, tip>>
  BY DEF Handshake, Open, Close, Exit, Switch, channel
<1>2. Kept' /\ OneEarly'
  BY <1>1 DEF TipInv, Kept, OneEarly
<1>3. CASE Handshake \/ Open
  BY <1>2, <1>3 DEF Handshake, Open, TipInv, Fresh, Single, Protocol, Kind, channel, queue
<1>4. CASE Close \/ Exit \/ Switch
  <2>1. stratum_queue' = <<>> /\ out' = <<>>
    BY <1>4 DEF IInv, Places, Close, Exit, Switch, Clear
  <2>2. Len(<<>>) = 0
    OBVIOUS
  <2> QED
    BY <1>2, <2>1, <2>2, EmptyToSet DEF TipInv, Fresh, Single
<1> QED
  BY <1>3, <1>4

(* The slot of the next job is of a job that is a ring's length behind.    *)
LEMMA NewJobIsOfTip ==
    ASSUME IInv, TipInv, KnownJobs, NEW future \in BOOLEAN, NewJob(future)
    PROVE  TipInv'
<1>1. TypeOK
  BY DEF IInv
<1>2. /\ jobs' = jobs + 1 /\ jobs \in Nat /\ futures \subseteq 1..jobs /\ tip \in Nat
      /\ ring \in [0..Ring - 1 -> 0..MaxJobs] /\ Ring \in Nat \ {0}
  <2>1. jobs' = jobs + 1
    BY <1>1, NewJobMoves
  <2> QED
    BY <1>1, <2>1, Sv2Assumption DEF TypeOK
<1>3. /\ out = <<>> /\ Protocol = "V2" /\ UNCHANGED <<config, pool, tip, queue>>
      /\ futures' = (IF future THEN futures \cup {jobs'} ELSE futures)
      /\ future /\ tip = 0 => futures = {}
  <2>1. future /\ tip = 0 => futures = {} \/ Early # 1
    BY <1>1, NewJobMoves
  <2> QED
    BY <1>1, <2>1, NewJobMoves DEF KnownJobs
<1>4. \/ ~future /\ tip > 0 /\ out' = <<Made(jobs', tip, TRUE)>> /\ ring' = ring
      \/ out' = <<>> /\ ring' = [ring EXCEPT ![Slot(jobs')] = jobs']
  BY <1>1, NewJobMoves
<1>5. Fresh' /\ Single'
  <2>1. CASE out' = <<Made(jobs', tip, TRUE)>>
    <3>1. Made(jobs', tip, TRUE).tip = tip /\ Made(jobs', tip, TRUE).clean = TRUE
      BY DEF Made
    <3>2. ToSet(out') = {Made(jobs', tip, TRUE)} /\ Head(out') = Made(jobs', tip, TRUE) /\ out' # <<>>
      BY <2>1, OneToSet
    <3> QED
      BY <1>3, <3>1, <3>2 DEF Fresh, Single
  <2>2. CASE out' = <<>>
    BY <1>3, <2>2 DEF TipInv, Fresh, Single, Protocol, Kind, queue
  <2> QED
    BY <1>4, <2>1, <2>2
<1>6. Kept'
  <2> SUFFICES ASSUME NEW j \in futures', j > jobs' - Ring PROVE ring'[Slot(j)] = j
    BY DEF Kept
  <2>1. CASE j \in futures
    <3>1. j \in Nat /\ j < jobs' /\ jobs' < j + Ring /\ jobs' \in Nat /\ ring[Slot(j)] = j
      BY <1>2, <2>1 DEF TipInv, Kept
    <3>2. Slot(j) # Slot(jobs') /\ Slot(j) \in DOMAIN ring
      BY <1>2, <3>1, SlotsApart, SlotInRing
    <3> QED
      BY <1>2, <1>4, <3>1, <3>2
  <2>2. CASE j \notin futures
    <3>1. j = jobs' /\ future
      BY <1>3, <2>2
    <3>2. ring' = [ring EXCEPT ![Slot(j)] = j]
      BY <1>4, <3>1
    <3>3. Slot(j) \in DOMAIN ring
      BY <1>2, <3>1, SlotInRing
    <3> QED
      BY <1>2, <3>2, <3>3
  <2> QED
    BY <2>1, <2>2
<1>7. OneEarly'
  BY <1>3 DEF TipInv, OneEarly
<1> QED
  BY <1>5, <1>6, <1>7 DEF TipInv

LEMMA NotifyIsOfTip ==
    ASSUME IInv, TipInv, NEW clean \in BOOLEAN, Notify(clean)
    PROVE  TipInv'
<1>1. /\ out = <<>> /\ Protocol = "V1" /\ jobs' = jobs + 1 /\ jobs \in Nat /\ futures \subseteq 1..jobs
      /\ tip' = (IF clean THEN tip + 1 ELSE tip) /\ tip \in Nat /\ Ring \in Nat
      /\ UNCHANGED <<config, pool, ring, futures, stratum_queue>>
  BY Sv2Assumption DEF IInv, TypeOK, Notify, Receive, queue
<1>2. out' = <<Made(jobs', tip', clean)>>
  BY DEF Notify
<1>3. /\ Made(jobs', tip', clean).tip = tip' /\ Made(jobs', tip', clean).clean = clean
      /\ ToSet(out') = {Made(jobs', tip', clean)} /\ Head(out') = Made(jobs', tip', clean)
  BY <1>2, OneToSet DEF Made
<1>4. Fresh'
  BY <1>1, <1>3 DEF TipInv, Fresh
<1>5. Single'
  BY <1>1 DEF Single, Protocol, Kind
<1>6. Kept'
  <2>1. \A j \in futures : j > jobs' - Ring => j > jobs - Ring
    BY <1>1
  <2> QED
    BY <1>1, <2>1 DEF TipInv, Kept
<1>7. OneEarly'
  BY <1>1 DEF TipInv, OneEarly
<1> QED
  BY <1>4, <1>5, <1>6, <1>7 DEF TipInv

LEMMA PrevHashIsOfTip ==
    ASSUME IInv, TipInv, KnownJobs, NEW j \in futures, SetNewPrevHash(j)
    PROVE  TipInv'
<1>1. TypeOK
  BY DEF IInv
<1>2. PICK ready \in Seq(1..MaxJobs) :
        /\ ready \in Ready(j)
        /\ out = <<>> /\ j > jobs - Outstanding
        /\ futures' = futures \ {j} /\ tip' = tip + 1
        /\ \A x \in ToSet(out') : x.tip = tip' /\ x.clean
        /\ ready # <<>> => out' # <<>> /\ Head(out').clean
        /\ ring' = [s \in DOMAIN ring |-> IF ring[s] \in ToSet(ready) THEN 0 ELSE ring[s]]
        /\ UNCHANGED <<jobs, queue>>
  BY <1>1, PrevHashMoves
<1>3. jobs \in Nat /\ futures \subseteq 1..jobs /\ tip \in Nat /\ Outstanding <= Ring /\ Ring \in Nat /\ Outstanding \in Nat
  BY <1>1, Sv2Assumption DEF TypeOK, KnownJobs
<1>4. ring[Slot(j)] = j
  BY <1>2, <1>3 DEF TipInv, Kept
<1>5. ready # <<>>
  BY <1>1, <1>2, <1>4, ReadyJobs
<1>6. Fresh'
  BY <1>2, <1>5 DEF Fresh
<1>7. Single'
  BY <1>2, <1>5 DEF Single
<1>8. tip' > 0
  BY <1>2, <1>3
<1>9. Kept'
  <2> SUFFICES ASSUME NEW k \in futures', k > jobs - Ring PROVE ring'[Slot(k)] = k
    BY <1>2 DEF Kept
  <2>1. k \in futures /\ k # j /\ k \in Nat
    BY <1>2, <1>3
  <2>2. tip > 0
    BY <1>3, <2>1 DEF TipInv, OneEarly
  <2>3. ToSet(ready) \subseteq {j}
    BY <1>1, <1>2, <2>2, ReadyJobs
  <2>4. ring[Slot(k)] = k /\ Slot(k) \in DOMAIN ring
    BY <1>1, <2>1, SlotInRing DEF TipInv, Kept, TypeOK
  <2> QED
    BY <1>2, <2>1, <2>3, <2>4
<1>10. OneEarly'
  BY <1>3, <1>8 DEF OneEarly
<1> QED
  BY <1>6, <1>7, <1>9, <1>10 DEF TipInv

LEMMA EnqueueIsOfTip == ASSUME IInv, TipInv, Enqueue PROVE TipInv'
<1>1. TypeOK
  BY DEF IInv
<1>2. /\ out # <<>> /\ Head(out) \in ToSet(out)
      /\ ToSet(stratum_queue') \subseteq ToSet(stratum_queue) \cup {Head(out)}
      /\ Head(out).clean => ToSet(stratum_queue') = {Head(out)} /\ Len(stratum_queue') = 1
      /\ ToSet(out') \subseteq ToSet(out)
      /\ UNCHANGED <<config, pool, channel>>
  BY <1>1, EnqueueMoves
<1>3. \A x \in ToSet(stratum_queue') : x.tip = tip
  <2>1. Head(out).tip = tip
    BY <1>2 DEF TipInv, Fresh
  <2> QED
    BY <1>2, <2>1 DEF TipInv, Fresh
<1>4. Fresh'
  BY <1>2, <1>3 DEF TipInv, Fresh, channel
<1>5. Single'
  BY <1>2 DEF TipInv, Single, Protocol, Kind
<1> QED
  BY <1>2, <1>4, <1>5 DEF TipInv, Kept, OneEarly, channel

LEMMA CreatorIsOfTip == ASSUME IInv, TipInv, CreateJobs PROVE TipInv'
<1>1. stratum_queue \in Seq(Template)
  BY DEF IInv, TypeOK
<1>2. UNCHANGED <<config, pool, out, channel>>
  BY DEF CreateJobs, Top, Dequeue, TimesOut, GotUnknown, Got, Final, Generate, Create
<1>3. ToSet(stratum_queue') \subseteq ToSet(stratum_queue) /\ Len(stratum_queue') <= Len(stratum_queue)
  <2>1. CASE Dequeue
    BY <1>1, <2>1, TailToSet DEF Dequeue
  <2>2. CASE Top \/ TimesOut \/ GotUnknown \/ Got \/ Final \/ Generate
    <3>1. stratum_queue' = stratum_queue
      BY <2>2 DEF Top, TimesOut, GotUnknown, Got, Final, Generate
    <3> QED
      BY <1>1, <3>1
  <2> QED
    BY <2>1, <2>2 DEF CreateJobs
<1>4. Len(stratum_queue') \in Nat /\ Len(stratum_queue) \in Nat
  <2>1. IInv'
    BY CreatorKeepsTypes
  <2> QED
    BY <1>1, <2>1 DEF IInv, TypeOK
<1>5. Fresh'
  BY <1>2, <1>3 DEF TipInv, Fresh, channel
<1>6. Single'
  BY <1>2, <1>3, <1>4 DEF TipInv, Single, Protocol, Kind
<1> QED
  BY <1>2, <1>5, <1>6 DEF TipInv, Kept, OneEarly, channel

LEMMA TipStep ==
    ASSUME KnownJobs
    PROVE  IInv /\ TipInv /\ [Next]_vars => TipInv'
<1> SUFFICES ASSUME IInv, TipInv, [Next]_vars PROVE TipInv'
  OBVIOUS
<1>1. CASE Dial
  BY <1>1, DialIsOfTip
<1>2. CASE Handshake \/ Open \/ Close \/ Exit \/ Switch
  BY <1>2, LifeIsOfTip
<1>3. ASSUME NEW b \in BOOLEAN, NewJob(b) PROVE TipInv'
  BY <1>3, NewJobIsOfTip
<1>4. ASSUME NEW b \in BOOLEAN, Notify(b) PROVE TipInv'
  BY <1>4, NotifyIsOfTip
<1>5. ASSUME NEW j \in futures, SetNewPrevHash(j) PROVE TipInv'
  BY <1>5, PrevHashIsOfTip
<1>6. CASE Enqueue
  BY <1>6, EnqueueIsOfTip
<1>7. CASE CreateJobs
  BY <1>7, CreatorIsOfTip
<1>8. CASE UNCHANGED vars
  BY <1>8 DEF TipInv, Fresh, Single, Kept, OneEarly, Protocol, Kind, vars, channel, queue
<1> QED
  BY <1>1, <1>2, <1>3, <1>4, <1>5, <1>6, <1>7, <1>8 DEF Next

(* create_jobs_task never finds work of an older tip in the queue, given   *)
(* that pools name jobs still in the ring (KnownJobs): every previous hash *)
(* completes a job, whose clean template empties the queue.                *)
THEOREM NewestTip == KnownJobs => (Spec => []QueueIsOfTip)
<1> SUFFICES ASSUME KnownJobs PROVE Spec => []QueueIsOfTip
  OBVIOUS
<1>1. Init => TipInv
  <2>1. Len(<<>>) = 0
    OBVIOUS
  <2> QED
    BY <2>1, EmptyToSet DEF Init, TipInv, Fresh, Single, Kept, OneEarly
<1>2. TipInv => QueueIsOfTip
  BY DEF TipInv, Fresh, Single, QueueIsOfTip
<1>3. IInv /\ TipInv /\ [Next]_vars => TipInv'
  BY TipStep
<1> QED
  BY <1>1, <1>2, <1>3, Invariance, PTL DEF Spec

=============================================================================
