-------------------------- MODULE CanCluster_proofs --------------------------
(***************************************************************************)
(* For any number of boards and slots and any length of the queues: as     *)
(* long as nobody removes a board that may still mine and the registry is  *)
(* saved, a board that would take a slot's job owns the slot, and no job   *)
(* is taken by two boards.                                                 *)
(***************************************************************************)
EXTENDS CanCluster, FiniteSetTheorems, TLAPS

USE ClusterAssumption DEF CAN_SLAVE_ID_UNASSIGNED

-----------------------------------------------------------------------------
(* Types.                                                                  *)

LEMMA InitType == Init => TypeOK
BY DEF Init, TypeOK

LEMMA ToAllType ==
    ASSUME TypeOK, NEW f \in Frames, \A b \in Boards : Len(down[b]) < QueueSize, ToAll(f)
    PROVE  down' \in [Boards -> Seq(Frames)] /\ \A b \in Boards : Len(down'[b]) <= QueueSize
<1>1. ASSUME NEW b \in Boards
      PROVE  down'[b] \in Seq(Frames) /\ Len(down'[b]) <= QueueSize
  BY DEF TypeOK, ToAll
<1> QED
  BY <1>1 DEF ToAll

LEMMA AssignType ==
    ASSUME TypeOK, NEW b \in Boards, NEW i \in Slots, Assign(b, i)
    PROVE  down' \in [Boards -> Seq(Frames)] /\ \A c \in Boards : Len(down'[c]) <= QueueSize
<1>1. Frame("ASSIGN", i) \in Frames
  BY DEF Frame, Frames
<1>2. CASE b \in OnBus
  <2>1. down' = [down EXCEPT ![b] = Append(down[b], Frame("ASSIGN", i))] /\ Len(down[b]) < QueueSize
    BY <1>2 DEF Assign, Room
  <2>2. Append(down[b], Frame("ASSIGN", i)) \in Seq(Frames) /\ Len(Append(down[b], Frame("ASSIGN", i))) = Len(down[b]) + 1
    BY <1>1 DEF TypeOK
  <2>3. Len(down[b]) \in Nat
    BY DEF TypeOK
  <2> QED
    BY <2>1, <2>2, <2>3 DEF TypeOK
<1>3. CASE b \notin OnBus
  BY <1>3 DEF Assign, TypeOK
<1> QED
  BY <1>2, <1>3

LEMMA TailType ==
    ASSUME TypeOK, NEW b \in Boards, down[b] # <<>>
    PROVE  /\ Head(down[b]) \in Frames
           /\ [down EXCEPT ![b] = Tail(@)] \in [Boards -> Seq(Frames)]
           /\ \A c \in Boards : Len([down EXCEPT ![b] = Tail(@)][c]) <= QueueSize
<1>1. Tail(down[b]) \in Seq(Frames) /\ Len(Tail(down[b])) = Len(down[b]) - 1 /\ Head(down[b]) \in Frames
  BY DEF TypeOK
<1> QED
  BY <1>1 DEF TypeOK

LEMMA ReceiveType == ASSUME TypeOK, NEW b \in Boards, Receive(b) PROVE TypeOK'
<1>1. /\ Head(down[b]) \in Frames
      /\ down' \in [Boards -> Seq(Frames)] /\ \A c \in Boards : Len(down'[c]) <= QueueSize
  BY TailType DEF Receive
<1>2. /\ g_can_slave_id' \in [Boards -> Slots \cup {0}]
      /\ stale' \subseteq Boards /\ takers' \subseteq Boards
  BY <1>1 DEF TypeOK, Receive, Frames, Renegotiate, Become, ReceiveJob, Take, boards
<1> QED
  BY <1>1, <1>2 DEF TypeOK, Receive, master

LEMMA SaveType ==
    ASSUME TypeOK, Save, s_slave_reg' \in [Slots -> Boards \cup {Nobody}]
    PROVE  nvs' \in [Slots -> Boards \cup {Nobody}]
<1>1. nvs' = s_slave_reg' \/ nvs' = nvs
  BY DEF Save
<1> QED
  BY <1>1 DEF TypeOK

LEMMA HelloType == ASSUME TypeOK, NEW b \in Boards, handle_hello(b) PROVE TypeOK'
<1>1. CASE handle_hello_full(b)
  BY <1>1 DEF TypeOK, handle_hello_full, Read, boards
<1>2. CASE handle_hello_known(b)
  <2>1. PICK i \in Slots : Assign(b, i)
    BY <1>2 DEF handle_hello_known, First, SlotsOf
  <2> QED
    BY <1>2, <2>1, AssignType DEF TypeOK, handle_hello_known, Read, boards
<1>3. CASE handle_hello_new(b)
  <2>1. PICK i \in Slots : s_slave_reg' = [s_slave_reg EXCEPT ![i] = b] /\ Assign(b, i)
    BY <1>3 DEF handle_hello_new, First, SlotsOf
  <2>2. s_slave_reg' \in [Slots -> Boards \cup {Nobody}] /\ Save
    BY <1>3, <2>1 DEF TypeOK, handle_hello_new
  <2> QED
    BY <1>3, <2>1, <2>2, SaveType, AssignType DEF TypeOK, handle_hello_new, Read, boards
<1> QED
  BY <1>1, <1>2, <1>3 DEF handle_hello

LEMMA OutsideType ==
    ASSUME TypeOK,
           Calm \/ \E b \in Boards : Hello(b) \/ Telemetry(b) \/ Overhear(b) \/ SwitchOn(b) \/ Replug(b) \/ Age(b)
    PROVE  TypeOK'
<1> USE DEF TypeOK, master, boards, bus
<1>1. CASE Calm
  BY <1>1 DEF Calm
<1>2. ASSUME NEW b \in Boards, Hello(b) PROVE TypeOK'
  BY <1>2 DEF Hello, OnBus
<1>3. ASSUME NEW b \in Boards, Telemetry(b) PROVE TypeOK'
  BY <1>3 DEF Telemetry
<1>4. ASSUME NEW b \in Boards, Overhear(b) PROVE TypeOK'
  BY <1>4 DEF Overhear, Renegotiate, Become
<1>5. ASSUME NEW b \in Boards, SwitchOn(b) \/ Replug(b) PROVE TypeOK'
  BY <1>5 DEF SwitchOn, Replug
<1>6. ASSUME NEW b \in Boards, Age(b) PROVE TypeOK'
  BY <1>6 DEF Age
<1> QED
  BY <1>1, <1>2, <1>3, <1>4, <1>5, <1>6

LEMMA NextType == TypeOK /\ [Next]_vars => TypeOK'
<1> SUFFICES ASSUME TypeOK, [Next]_vars PROVE TypeOK'
  OBVIOUS
<1>1. CASE UNCHANGED vars
  BY <1>1 DEF TypeOK, vars, master, boards, bus
<1>2. ASSUME NEW b \in Boards, SwitchOff(b) PROVE TypeOK'
  <2>1. <<>> \in Seq(Frames) /\ Len(<<>>) = 0
    OBVIOUS
  <2> QED
    BY <1>2, <2>1 DEF TypeOK, SwitchOff, master
<1>3. ASSUME NEW b \in Boards, Lose(b) PROVE TypeOK'
  <2>1. hello' \subseteq Boards /\ down' \in [Boards -> Seq(Frames)] /\ \A c \in Boards : Len(down'[c]) <= QueueSize
    <3>1. CASE down' = down /\ hello' = hello \ {b}
      BY <3>1 DEF TypeOK
    <3>2. CASE down[b] # <<>> /\ down' = [down EXCEPT ![b] = Tail(@)] /\ hello' = hello
      BY <3>2, TailType DEF TypeOK
    <3> QED
      BY <1>3, <3>1, <3>2 DEF Lose
  <2> QED
    BY <1>3, <2>1 DEF TypeOK, Lose, master, boards
<1>4. ASSUME NEW i \in Slots, TimesOut(i) PROVE TypeOK'
  BY <1>4 DEF TypeOK, TimesOut, boards, bus
<1>5. ASSUME NEW i \in Slots, SendJob(i) PROVE TypeOK'
  <2>1. Frame("JOB", i) \in Frames /\ \A b \in Boards : Len(down[b]) < QueueSize
    BY <1>5 DEF SendJob, Frame, Frames
  <2> QED
    BY <1>5, <2>1, ToAllType DEF TypeOK, SendJob, master, boards
<1>6. ASSUME NEW i \in Slots, Remove(i) PROVE TypeOK'
  <2>1. s_slave_reg' \in [Slots -> Boards \cup {Nobody}] /\ Save
    BY <1>6 DEF TypeOK, Remove
  <2> QED
    BY <1>6, <2>1, SaveType DEF TypeOK, Remove, boards, bus
<1>7. CASE Boot
  <2>1. Frame("BOOT", 0) \in Frames /\ \A b \in Boards : Len(down[b]) < QueueSize
    BY <1>7 DEF Boot, Room, Frame, Frames
  <2> QED
    BY <1>7, <2>1, ToAllType DEF TypeOK, Boot, boards
<1> QED
  BY <1>1, <1>2, <1>3, <1>4, <1>5, <1>6, <1>7, ReceiveType, HelloType, OutsideType DEF Next, Board

(* The ids in use and in the frames are slots or none, and no queue holds  *)
(* more than it has room for.                                              *)
THEOREM TypeCorrect == Spec => []TypeOK
BY InitType, NextType, PTL DEF Spec

-----------------------------------------------------------------------------
(* What the boards cannot make up for: a board removed while it mines, and *)
(* an id that was given away and is not on flash when the master restarts. *)
Tame == "any" \notin Removals /\ FlashFails = FALSE

(* The inductive invariant.                                                *)

Saved      == nvs = s_slave_reg
OffIsBlank == \A b \in Boards : place[b] = "off" => down[b] = <<>> /\ g_can_slave_id[b] = 0

(* A board whose job is fresh owns its id, and one that is about to be     *)
(* given an id does.                                                       *)
OwnsId == \A b \in Boards \ stale : g_can_slave_id[b] # 0 => s_slave_reg[g_can_slave_id[b]] = b
OwnsAssigned ==
    \A b \in Boards : \A n \in DOMAIN down[b] :
        down[b][n].kind = "ASSIGN" => down[b][n].id \in Slots /\ s_slave_reg[down[b][n].id] = b

(* The jobs on the bus are one: no board reads anything before it that was *)
(* sent later.                                                             *)
JobsFirst ==
    \A b \in Boards : \A n \in DOMAIN down[b] : down[b][n].kind = "JOB" => n = 1 /\ down[b][n].id \in Slots
JobWaits(b) == down[b] # <<>> /\ down[b][1].kind = "JOB"
OneJob      == \A b, c \in Boards : JobWaits(b) /\ JobWaits(c) => down[b][1].id = down[c][1].id

(* Nobody has taken the job that a board is about to take.                 *)
WillTake(b) == b \notin stale /\ JobWaits(b) /\ down[b][1].id = g_can_slave_id[b]
NotTaken    == \A b \in Boards : WillTake(b) => takers \subseteq {b}
OneTakes    == takers = {} \/ \E b \in Boards : takers = {b}

Queues == OwnsAssigned /\ JobsFirst /\ OneJob
IInv   == TypeOK /\ Saved /\ OffIsBlank /\ OwnsId /\ Queues /\ NotTaken /\ OneTakes

LEMMA InitIInv == Init => IInv
<1> SUFFICES ASSUME Init PROVE IInv
  OBVIOUS
<1>1. TypeOK
  BY InitType
<1> QED
  BY <1>1 DEF Init, IInv, Saved, OffIsBlank, OwnsId, Queues, OwnsAssigned, JobsFirst, JobWaits, OneJob, WillTake,
              NotTaken, OneTakes

(* A step that moves boards, or lets jobs age, at most.                    *)
LEMMA Still ==
    ASSUME IInv, TypeOK', UNCHANGED <<s_slave_reg, nvs, g_can_slave_id, down, takers>>,
           stale \subseteq stale', \A b \in Boards : place'[b] = "off" => place[b] = "off"
    PROVE  IInv'
<1> USE DEF IInv
<1>1. Saved' /\ OffIsBlank' /\ OwnsId' /\ OneTakes'
  BY DEF Saved, OffIsBlank, OwnsId, OneTakes
<1>2. Queues'
  BY DEF Queues, OwnsAssigned, JobsFirst, OneJob, JobWaits
<1>3. NotTaken'
  BY DEF NotTaken, WillTake, JobWaits
<1> QED
  BY <1>1, <1>2, <1>3

-----------------------------------------------------------------------------
(* Frames.                                                                 *)

LEMMA AppendAt ==
    ASSUME NEW S, NEW s \in Seq(S), NEW f \in S, NEW n \in DOMAIN Append(s, f)
    PROVE  (n \in DOMAIN s /\ Append(s, f)[n] = s[n]) \/ (n = Len(s) + 1 /\ Append(s, f)[n] = f)
OBVIOUS

LEMMA TailAt ==
    ASSUME NEW S, NEW s \in Seq(S), s # <<>>, NEW n \in DOMAIN Tail(s)
    PROVE  n \in Nat \ {0} /\ n + 1 \in DOMAIN s /\ Tail(s)[n] = s[n + 1]
OBVIOUS

(* The frame at the head is gone, read or lost.                            *)
LEMMA Shorter ==
    ASSUME IInv, NEW b \in Boards, down[b] # <<>>, down' = [down EXCEPT ![b] = Tail(@)],
           UNCHANGED s_slave_reg
    PROVE  /\ Queues' /\ ~JobWaits(b)'
           /\ \A c \in Boards \ {b} : down'[c] = down[c] /\ (JobWaits(c)' <=> JobWaits(c))
<1> USE DEF IInv, TypeOK
<1>1. down'[b] = Tail(down[b]) /\ \A c \in Boards \ {b} : down'[c] = down[c]
  OBVIOUS
<1>2. ASSUME NEW n \in DOMAIN down'[b]
      PROVE  n + 1 \in DOMAIN down[b] /\ down'[b][n] = down[b][n + 1] /\ n + 1 # 1
  BY <1>1, <1>2, TailAt
<1>3. OwnsAssigned'
  BY <1>1, <1>2 DEF Queues, OwnsAssigned
<1>4. \A n \in DOMAIN down'[b] : down'[b][n].kind # "JOB"
  BY <1>2 DEF Queues, JobsFirst
<1>5. JobsFirst'
  BY <1>1, <1>4 DEF Queues, JobsFirst
<1>6. ~JobWaits(b)'
  <2>1. down'[b] # <<>> => 1 \in DOMAIN down'[b]
    BY <1>1
  <2> QED
    BY <2>1, <1>4 DEF JobWaits
<1>7. \A c \in Boards \ {b} : JobWaits(c)' <=> JobWaits(c)
  BY <1>1 DEF JobWaits
<1>8. OneJob'
  BY <1>1, <1>6, <1>7 DEF Queues, OneJob
<1> QED
  BY <1>1, <1>3, <1>5, <1>6, <1>7, <1>8 DEF Queues

(* Frames other than jobs come behind those that wait.                     *)
LEMMA Longer ==
    ASSUME IInv, NEW B \in SUBSET Boards, NEW f \in Frames, f.kind # "JOB",
           down' = [b \in Boards |-> IF b \in B THEN Append(down[b], f) ELSE down[b]],
           \A b \in Boards : \A n \in DOMAIN down[b] :
               down[b][n].kind = "ASSIGN" => s_slave_reg'[down[b][n].id] = b,
           f.kind = "ASSIGN" => f.id \in Slots /\ \A b \in B : s_slave_reg'[f.id] = b
    PROVE  /\ Queues'
           /\ \A b \in Boards : (JobWaits(b)' <=> JobWaits(b)) /\ (JobWaits(b) => down'[b][1] = down[b][1])
<1> USE DEF IInv, TypeOK
<1>1. ASSUME NEW b \in Boards, NEW n \in DOMAIN down'[b]
      PROVE  (n \in DOMAIN down[b] /\ down'[b][n] = down[b][n]) \/ (b \in B /\ down'[b][n] = f)
  BY <1>1, AppendAt
<1>2. OwnsAssigned'
  BY <1>1 DEF Queues, OwnsAssigned
<1>3. JobsFirst'
  BY <1>1 DEF Queues, JobsFirst
<1>4. ASSUME NEW b \in Boards
      PROVE  (JobWaits(b)' <=> JobWaits(b)) /\ (JobWaits(b) => down'[b][1] = down[b][1])
  <2>1. CASE down[b] = <<>>
    <3>1. ~JobWaits(b)
      BY <2>1 DEF JobWaits
    <3>2. down'[b] # <<>> => down'[b][1] = f
      BY <2>1
    <3> QED
      BY <3>1, <3>2 DEF JobWaits
  <2>2. CASE down[b] # <<>>
    <3>1. Len(down[b]) \in Nat \ {0}
      BY <2>2
    <3>2. Append(down[b], f) # <<>> /\ Append(down[b], f)[1] = down[b][1]
      BY <3>1
    <3> QED
      BY <2>2, <3>2 DEF JobWaits
  <2> QED
    BY <2>1, <2>2
<1>5. OneJob'
  BY <1>4 DEF Queues, OneJob
<1> QED
  BY <1>2, <1>3, <1>4, <1>5 DEF Queues

-----------------------------------------------------------------------------
(* A board that mines takes a job that nobody has taken.                   *)

LEMMA ReceiveKeeps == ASSUME IInv, TypeOK', NEW b \in Boards, Receive(b) PROVE IInv'
<1> USE DEF IInv
<1> DEFINE f == Head(down[b])
<1>1. /\ down[b] # <<>> /\ down' = [down EXCEPT ![b] = Tail(@)] /\ UNCHANGED <<place, s_slave_reg, nvs>>
      /\ f = down[b][1] /\ 1 \in DOMAIN down[b]
  BY DEF Receive, master, TypeOK
<1>2. /\ Queues' /\ ~JobWaits(b)'
      /\ \A c \in Boards \ {b} : down'[c] = down[c] /\ (JobWaits(c)' <=> JobWaits(c))
  BY <1>1, Shorter
<1>3. place[b] # "off"
  BY <1>1 DEF OffIsBlank
<1>4. ASSUME \A c \in Boards \ {b} : g_can_slave_id'[c] = g_can_slave_id[c] /\ (c \in stale' <=> c \in stale),
             b \notin stale' /\ g_can_slave_id'[b] # 0 => s_slave_reg[g_can_slave_id'[b]] = b,
             \/ takers' = takers
             \/ takers' = {b} /\ \A c \in Boards \ {b} : ~WillTake(c)
      PROVE  IInv'
  <2>1. Saved' /\ OffIsBlank'
    BY <1>1, <1>2, <1>3, <1>4 DEF Saved, OffIsBlank
  <2>2. OwnsId'
    BY <1>1, <1>4 DEF OwnsId
  <2>3. NotTaken' /\ OneTakes'
    BY <1>2, <1>4 DEF NotTaken, OneTakes, WillTake
  <2> QED
    BY <1>2, <2>1, <2>2, <2>3
<1>5. ASSUME NEW id \in Slots \cup {0}, Become(b, id), id # 0 => s_slave_reg[id] = b
      PROVE  IInv'
  BY <1>4, <1>5 DEF Become, TypeOK
<1>6. CASE f.kind = "BOOT"
  BY <1>5, <1>6 DEF Receive, Renegotiate
<1>7. CASE f.kind = "ASSIGN"
  <2>1. f.id \in Slots /\ s_slave_reg[f.id] = b
    BY <1>1, <1>7 DEF Queues, OwnsAssigned
  <2> QED
    BY <1>5, <1>7, <2>1 DEF Receive
<1>8. CASE f.kind = "JOB"
  <2>1. ReceiveJob(b, f.id) /\ f.id \in Slots
    BY <1>1, <1>8 DEF Receive, Queues, JobsFirst
  <2>2. CASE b \in stale
    BY <1>5, <2>1, <2>2 DEF ReceiveJob, Renegotiate
  <2>3. CASE b \notin stale /\ f.id # g_can_slave_id[b]
    BY <1>4, <2>1, <2>3 DEF ReceiveJob, boards, OwnsId
  <2>4. CASE b \notin stale /\ f.id = g_can_slave_id[b]
    <3>1. WillTake(b) /\ takers \subseteq {b}
      BY <1>1, <1>8, <2>4 DEF WillTake, JobWaits, NotTaken
    <3>2. takers' = {b} /\ UNCHANGED boards
      BY <2>1, <2>4, <3>1 DEF ReceiveJob, Take
    <3>3. s_slave_reg[f.id] = b
      BY <2>1, <2>4 DEF OwnsId
    <3>4. \A c \in Boards \ {b} : ~WillTake(c)
      <4>1. SUFFICES ASSUME NEW c \in Boards \ {b}, WillTake(c) PROVE FALSE
        OBVIOUS
      <4>2. down[c][1].id = f.id /\ down[c][1].id = g_can_slave_id[c]
        BY <1>1, <3>1, <4>1 DEF WillTake, Queues, OneJob
      <4> QED
        BY <2>1, <3>3, <4>1, <4>2 DEF OwnsId, WillTake
    <3> QED
      BY <1>4, <3>2, <3>3, <3>4, <2>4 DEF boards, OwnsId
  <2> QED
    BY <2>2, <2>3, <2>4
<1> QED
  BY <1>6, <1>7, <1>8 DEF Receive

LEMMA OverhearKeeps == ASSUME IInv, TypeOK', NEW b \in Boards, Overhear(b) PROVE IInv'
<1> USE DEF IInv
<1>1. /\ UNCHANGED <<place, s_slave_reg, nvs, down, takers>> /\ down[b] = <<>>
      /\ g_can_slave_id' = [g_can_slave_id EXCEPT ![b] = 0] /\ stale' = stale \ {b}
  BY DEF Overhear, Renegotiate, Become, master, bus
<1>2. Saved' /\ OffIsBlank' /\ OwnsId' /\ OneTakes'
  BY <1>1 DEF TypeOK, Saved, OffIsBlank, OwnsId, OneTakes
<1>3. Queues'
  BY <1>1 DEF Queues, OwnsAssigned, JobsFirst, OneJob, JobWaits
<1>4. NotTaken'
  BY <1>1 DEF TypeOK, NotTaken, WillTake, JobWaits
<1> QED
  BY <1>2, <1>3, <1>4

-----------------------------------------------------------------------------
(* The master.                                                             *)

LEMMA BootKeeps == ASSUME IInv, TypeOK', Boot PROVE IInv'
<1> USE DEF IInv
<1>1. /\ UNCHANGED <<place, s_slave_reg, nvs, boards, takers>> /\ ToAll(Frame("BOOT", 0))
      /\ Frame("BOOT", 0) \in Frames /\ Frame("BOOT", 0).kind = "BOOT"
  BY DEF Boot, Saved, Frame, Frames
<1>2. /\ Queues'
      /\ \A b \in Boards : (JobWaits(b)' <=> JobWaits(b)) /\ (JobWaits(b) => down'[b][1] = down[b][1])
  <2>1. OnBus \in SUBSET Boards
    BY DEF OnBus
  <2>2. down' = [b \in Boards |-> IF b \in OnBus THEN Append(down[b], Frame("BOOT", 0)) ELSE down[b]]
    BY <1>1 DEF ToAll
  <2>3. \A b \in Boards : \A n \in DOMAIN down[b] :
           down[b][n].kind = "ASSIGN" => s_slave_reg'[down[b][n].id] = b
    BY <1>1 DEF Queues, OwnsAssigned
  <2> QED
    BY <1>1, <2>1, <2>2, <2>3, Longer
<1>3. OffIsBlank'
  BY <1>1 DEF OffIsBlank, ToAll, OnBus, boards
<1>4. Saved' /\ OwnsId' /\ OneTakes' /\ NotTaken'
  BY <1>1, <1>2 DEF Saved, OwnsId, OneTakes, NotTaken, WillTake, boards
<1> QED
  BY <1>2, <1>3, <1>4

LEMMA SendJobKeeps == ASSUME IInv, TypeOK', NEW i \in Slots, SendJob(i) PROVE IInv'
<1> USE DEF IInv
<1>1. /\ UNCHANGED <<place, master, boards>> /\ takers' = {} /\ ToAll(Frame("JOB", i))
      /\ \A b \in Boards : down[b] = <<>>
  BY DEF SendJob
<1>2. ASSUME NEW b \in Boards, NEW n \in DOMAIN down'[b]
      PROVE  n = 1 /\ down'[b][n].kind = "JOB" /\ down'[b][n].id = i
  BY <1>1, <1>2 DEF ToAll, Frame
<1>3. Queues'
  <2>1. \A b \in Boards : JobWaits(b)' => 1 \in DOMAIN down'[b]
    BY DEF JobWaits, TypeOK
  <2> QED
    BY <1>2, <2>1 DEF Queues, OwnsAssigned, JobsFirst, OneJob
<1>4. Saved' /\ OffIsBlank' /\ OwnsId' /\ OneTakes' /\ NotTaken'
  BY <1>1 DEF Saved, OffIsBlank, OwnsId, OneTakes, NotTaken, ToAll, OnBus, master, boards
<1> QED
  BY <1>3, <1>4

(* A known board is told its own slot, and a new one a slot of nobody.     *)
LEMMA HelloKeeps == ASSUME FlashFails = FALSE, IInv, TypeOK', NEW b \in Boards, handle_hello(b) PROVE IInv'
<1> USE DEF IInv
<1>1. ASSUME NEW i \in Slots, Assign(b, i), s_slave_reg'[i] = b, nvs' = s_slave_reg',
             \A j \in Slots : s_slave_reg[j] # Nobody => s_slave_reg'[j] = s_slave_reg[j],
             UNCHANGED <<place, boards, takers>>
      PROVE  IInv'
  <2> DEFINE f == Frame("ASSIGN", i)
             B == OnBus \cap {b}
  <2>1. f \in Frames /\ f.kind = "ASSIGN" /\ f.id = i
    BY DEF Frame, Frames
  <2>2. down' = [c \in Boards |-> IF c \in B THEN Append(down[c], f) ELSE down[c]]
    BY <1>1 DEF Assign, OnBus, TypeOK
  <2>3. B \in SUBSET Boards /\ (\A c \in B : s_slave_reg'[i] = c) /\ \A c \in Boards : place[c] = "off" => c \notin B
    BY <1>1 DEF OnBus
  <2>4. \A c \in Boards : \A n \in DOMAIN down[c] :
           down[c][n].kind = "ASSIGN" => s_slave_reg'[down[c][n].id] = c
    <3> SUFFICES ASSUME NEW c \in Boards, NEW n \in DOMAIN down[c], down[c][n].kind = "ASSIGN"
                 PROVE  s_slave_reg'[down[c][n].id] = c
      OBVIOUS
    <3>1. down[c][n].id \in Slots /\ s_slave_reg[down[c][n].id] = c
      BY DEF Queues, OwnsAssigned
    <3>2. c # Nobody
      OBVIOUS
    <3> QED
      BY <1>1, <3>1, <3>2
  <2> HIDE DEF f, B
  <2>5. /\ Queues'
        /\ \A c \in Boards : (JobWaits(c)' <=> JobWaits(c)) /\ (JobWaits(c) => down'[c][1] = down[c][1])
    BY <2>1, <2>2, <2>3, <2>4, Longer
  <2>6. OffIsBlank'
    <3>1. \A c \in Boards : place[c] = "off" => down'[c] = down[c]
      BY <2>2, <2>3
    <3> QED
      BY <1>1, <3>1 DEF OffIsBlank, boards
  <2>7. OwnsId'
    <3>1. ASSUME NEW c \in Boards \ stale, g_can_slave_id[c] # 0
          PROVE  s_slave_reg'[g_can_slave_id[c]] = c
      <4>1. g_can_slave_id[c] \in Slots /\ s_slave_reg[g_can_slave_id[c]] = c /\ c # Nobody
        BY <3>1 DEF TypeOK, OwnsId
      <4> QED
        BY <1>1, <4>1
    <3> QED
      BY <1>1, <3>1 DEF OwnsId, boards
  <2>8. Saved' /\ OneTakes' /\ NotTaken'
    BY <1>1, <2>5 DEF Saved, OneTakes, NotTaken, WillTake, boards
  <2> QED
    BY <2>5, <2>6, <2>7, <2>8
<1>2. CASE handle_hello_known(b)
  <2>1. PICK i \in Slots : Assign(b, i) /\ s_slave_reg[i] = b
    BY <1>2 DEF handle_hello_known, First, SlotsOf
  <2> QED
    BY <1>1, <1>2, <2>1 DEF handle_hello_known, Read, Saved
<1>3. CASE handle_hello_new(b)
  <2>1. PICK i \in Slots : s_slave_reg[i] = Nobody /\ s_slave_reg' = [s_slave_reg EXCEPT ![i] = b] /\ Assign(b, i)
    BY <1>3 DEF handle_hello_new, First, SlotsOf
  <2>2. s_slave_reg'[i] = b /\ \A j \in Slots : s_slave_reg[j] # Nobody => s_slave_reg'[j] = s_slave_reg[j]
    BY <2>1 DEF TypeOK
  <2> QED
    BY <1>1, <1>3, <2>1, <2>2 DEF handle_hello_new, Save, Read
<1>4. CASE handle_hello_full(b)
  BY <1>4, Still DEF handle_hello_full, Read, boards
<1> QED
  BY <1>2, <1>3, <1>4 DEF handle_hello

-----------------------------------------------------------------------------
(* What comes from outside.                                                *)

(* A board that is off, or away for 10 s, has no id it would mine under.   *)
LEMMA RemoveKeeps ==
    ASSUME Tame, IInv, TypeOK', NEW i \in Slots, Remove(i)
    PROVE  IInv'
<1> USE DEF IInv
<1> DEFINE b == s_slave_reg[i]
<1>1. /\ b \in Boards /\ down[b] = <<>> /\ (b \in stale \/ g_can_slave_id[b] = 0)
  BY DEF Tame, Remove, Away, OffIsBlank, TypeOK
<1>2. /\ s_slave_reg' = [s_slave_reg EXCEPT ![i] = Nobody] /\ nvs' = s_slave_reg'
      /\ UNCHANGED <<place, boards, bus, takers>>
  BY DEF Tame, Remove, Save
<1>3. \A j \in Slots : s_slave_reg[j] # b => s_slave_reg'[j] = s_slave_reg[j]
  BY <1>2 DEF TypeOK
<1> HIDE DEF b
<1>4. OwnsAssigned'
  <2>1. ASSUME NEW c \in Boards, NEW n \in DOMAIN down[c], down[c][n].kind = "ASSIGN"
        PROVE  down[c][n].id \in Slots /\ s_slave_reg'[down[c][n].id] = c
    <3>1. c # b
      BY <1>1, <2>1
    <3> QED
      BY <1>3, <2>1, <3>1 DEF Queues, OwnsAssigned
  <2> QED
    BY <1>2, <2>1 DEF OwnsAssigned, bus
<1>5. OwnsId'
  <2>1. ASSUME NEW c \in Boards \ stale, g_can_slave_id[c] # 0
        PROVE  s_slave_reg'[g_can_slave_id[c]] = c
    <3>1. c # b /\ g_can_slave_id[c] \in Slots /\ s_slave_reg[g_can_slave_id[c]] = c
      BY <1>1, <2>1 DEF OwnsId, TypeOK
    <3> QED
      BY <1>3, <3>1
  <2> QED
    BY <1>2, <2>1 DEF OwnsId, boards
<1>6. Saved' /\ OffIsBlank' /\ JobsFirst' /\ OneJob' /\ OneTakes' /\ NotTaken'
  BY <1>2 DEF Saved, OffIsBlank, Queues, JobsFirst, OneJob, JobWaits, OneTakes, NotTaken, WillTake, boards, bus
<1> QED
  BY <1>4, <1>5, <1>6 DEF Queues

LEMMA SwitchOffKeeps == ASSUME IInv, TypeOK', NEW b \in Boards, SwitchOff(b) PROVE IInv'
<1> USE DEF IInv
<1>1. /\ place' = [place EXCEPT ![b] = "off"] /\ down' = [down EXCEPT ![b] = <<>>]
      /\ g_can_slave_id' = [g_can_slave_id EXCEPT ![b] = 0] /\ stale' = stale \ {b}
      /\ UNCHANGED <<s_slave_reg, nvs, takers>>
  BY DEF SwitchOff, master
<1>2. down'[b] = <<>> /\ g_can_slave_id'[b] = 0
      /\ \A c \in Boards \ {b} : down'[c] = down[c] /\ g_can_slave_id'[c] = g_can_slave_id[c] /\ place'[c] = place[c]
  BY <1>1 DEF TypeOK
<1>3. Saved' /\ OffIsBlank' /\ OwnsId' /\ OneTakes'
  BY <1>1, <1>2 DEF Saved, OffIsBlank, OwnsId, OneTakes
<1>4. Queues'
  BY <1>1, <1>2 DEF Queues, OwnsAssigned, JobsFirst, OneJob, JobWaits
<1>5. NotTaken'
  BY <1>1, <1>2 DEF NotTaken, WillTake, JobWaits
<1> QED
  BY <1>3, <1>4, <1>5

LEMMA LoseKeeps == ASSUME IInv, TypeOK', NEW b \in Boards, Lose(b) PROVE IInv'
<1> USE DEF IInv
<1>1. UNCHANGED <<place, s_slave_reg, nvs, g_can_slave_id, stale, takers>>
  BY DEF Lose, master, boards
<1>2. CASE down' = down
  BY <1>1, <1>2, Still
<1>3. CASE down[b] # <<>> /\ down' = [down EXCEPT ![b] = Tail(@)]
  <2>1. /\ Queues' /\ ~JobWaits(b)'
        /\ \A c \in Boards \ {b} : down'[c] = down[c] /\ (JobWaits(c)' <=> JobWaits(c))
    BY <1>1, <1>3, Shorter
  <2>2. Saved' /\ OffIsBlank' /\ OwnsId' /\ OneTakes' /\ NotTaken'
    BY <1>1, <1>3, <2>1 DEF Saved, OffIsBlank, OwnsId, OneTakes, NotTaken, WillTake
  <2> QED
    BY <2>1, <2>2
<1> QED
  BY <1>2, <1>3 DEF Lose

-----------------------------------------------------------------------------

LEMMA NextKeeps == ASSUME Tame PROVE IInv /\ [Next]_vars => IInv'
<1> SUFFICES ASSUME IInv, [Next]_vars PROVE IInv'
  OBVIOUS
<1>1. TypeOK'
  BY NextType DEF IInv
<1>2. CASE UNCHANGED vars \/ Calm
  BY <1>1, <1>2, Still DEF vars, Calm, master, boards, bus
<1>3. ASSUME NEW b \in Boards, Hello(b) \/ Telemetry(b) \/ SwitchOn(b) \/ Replug(b) \/ Age(b)
      PROVE  IInv'
  BY <1>1, <1>3, Still DEF Hello, Telemetry, SwitchOn, Replug, Age, master, boards, bus, IInv, TypeOK
<1>4. ASSUME NEW i \in Slots, TimesOut(i)
      PROVE  IInv'
  BY <1>1, <1>4, Still DEF TimesOut, boards, bus
<1> QED
  BY <1>1, <1>2, <1>3, <1>4, ReceiveKeeps, OverhearKeeps, BootKeeps, SendJobKeeps, HelloKeeps, RemoveKeeps,
     SwitchOffKeeps, LoseKeeps DEF Tame, Next, Board

LEMMA Invariant == ASSUME Tame PROVE Spec => []IInv
BY InitIInv, NextKeeps, PTL DEF Spec

(* Whatever is lost, restarted, switched off or unplugged, a board that    *)
(* would take a job of a slot is the one the slot is kept for on flash.    *)
THEOREM IdsAreOwn == ASSUME Tame PROVE Spec => []IdIsOwn
<1>1. IInv => IdIsOwn
  BY DEF IInv, Saved, OwnsId, IdIsOwn, OnBus
<1> QED
  BY <1>1, Invariant, PTL

(* No two boards do the same work.                                         *)
THEOREM JobsAreTakenOnce == ASSUME Tame PROVE Spec => []OneTaker
<1>1. ASSUME IInv PROVE OneTaker
  <2>1. Cardinality(takers) = 0 \/ Cardinality(takers) = 1
    BY <1>1, FS_EmptySet, FS_Singleton DEF IInv, OneTakes
  <2> QED
    BY <2>1 DEF OneTaker
<1> QED
  BY <1>1, Invariant, PTL
=============================================================================
