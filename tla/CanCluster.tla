----------------------------- MODULE CanCluster -----------------------------
(***************************************************************************)
(* NerdAxe boards on a CAN bus: a master gives every slave board an id,    *)
(* which it keeps in NVS under the board's MAC, and sends each a job of    *)
(* its own under that id.  Boards are switched off and unplugged, the      *)
(* master restarts, frames are lost, and the user removes boards from the  *)
(* registry.  A message of several frames is one, whole or lost.           *)
(***************************************************************************)
EXTENDS Integers, Sequences, FiniteSets

CONSTANTS Boards,    \* the slaves, by their MAC
          Absent,    \* those of them that have gone for good
          Nobody,    \* of a slot that is not used
          Slots,     \* 1 .. CAN_SLAVE_MAX - 1
          QueueSize, \* frames a board has still to read
          Removals,  \* the boards the user may remove, see below
          FlashFails \* whether NVS may refuse to save the registry

CAN_SLAVE_ID_UNASSIGNED == 0

(* "off":  those that are switched off;                                    *)
(* "away": those that left the bus 10 s ago or more;                       *)
(* "any":  the others.                                                     *)
ASSUME ClusterAssumption ==
    /\ Absent \subseteq Boards /\ Nobody \notin Boards
    /\ Slots \subseteq Nat \ {CAN_SLAVE_ID_UNASSIGNED}
    /\ QueueSize \in Nat \ {0}
    /\ Removals \subseteq {"off", "away", "any"}
    /\ FlashFails \in BOOLEAN

VARIABLES
    disturbed,      \* frames get lost, the master restarts, jobs fail to come
    place,          \* of a board: on the bus, unplugged from it, switched off
    \* the master
    s_slave_reg,    \* the board in a slot
    nvs,            \* what of it is on flash
    online,         \* slots whose telemetry arrives
    \* the boards
    g_can_slave_id,
    stale,          \* boards whose last job is 10 s old
    \* the bus
    hello,          \* boards whose HELLO the master has still to read
    down,           \* the frames that a board has still to read
    takers          \* history: who took the last job that was sent

master == <<s_slave_reg, nvs, online>>
boards == <<g_can_slave_id, stale>>
bus    == <<hello, down>>
vars == <<disturbed, place, master, boards, bus, takers>>

Frames == [kind : {"BOOT", "ASSIGN", "JOB"}, id : Slots \cup {CAN_SLAVE_ID_UNASSIGNED}]
Frame(kind, id) == [kind |-> kind, id |-> id]
OnBus == {b \in Boards : place[b] = "bus"}

Init ==
    /\ disturbed = TRUE
    /\ place \in [Boards -> {"bus", "off"}] /\ \A b \in Absent : place[b] = "off"
    /\ s_slave_reg \in [Slots -> Boards \cup {Nobody}]
    /\ \A i, j \in Slots : s_slave_reg[i] = s_slave_reg[j] => i = j \/ s_slave_reg[i] = Nobody
    /\ nvs = s_slave_reg /\ online = {}
    /\ g_can_slave_id = [b \in Boards |-> CAN_SLAVE_ID_UNASSIGNED] /\ stale = {}
    /\ hello = {} /\ down = [b \in Boards |-> <<>>]
    /\ takers = {}

-----------------------------------------------------------------------------
(* can_slave_task and can_slave_telemetry_task.                            *)

Hello(b) ==
    /\ b \in OnBus \ hello /\ g_can_slave_id[b] = CAN_SLAVE_ID_UNASSIGNED
    /\ hello' = hello \cup {b}
    /\ UNCHANGED <<disturbed, place, master, boards, down, takers>>

(* handle_telemetry: the master has read it at once.                       *)
Telemetry(b) ==
    /\ b \in OnBus /\ g_can_slave_id[b] # CAN_SLAVE_ID_UNASSIGNED
    /\ online' = online \cup {g_can_slave_id[b]}
    /\ UNCHANGED <<disturbed, place, s_slave_reg, nvs, boards, bus, takers>>

Become(b, id) ==
    /\ g_can_slave_id' = [g_can_slave_id EXCEPT ![b] = id]
    /\ stale' = stale \ {b}
    /\ UNCHANGED takers

Renegotiate(b) == Become(b, CAN_SLAVE_ID_UNASSIGNED)

Take(b) == takers' = takers \cup {b} /\ UNCHANGED boards

(* It is when a frame comes that a board finds that the last job is 10 s   *)
(* old; the frame is dropped then.                                         *)
ReceiveJob(b, id) ==
    IF b \in stale THEN Renegotiate(b)
    ELSE IF id = g_can_slave_id[b] THEN Take(b) ELSE UNCHANGED <<boards, takers>>

(* A frame of the master.                                                  *)
Receive(b) ==
    /\ down[b] # <<>>
    /\ LET frame == Head(down[b])
       IN  \/ frame.kind = "BOOT" /\ Renegotiate(b)
           \/ frame.kind = "ASSIGN" /\ Become(b, frame.id)
           \/ frame.kind = "JOB" /\ ReceiveJob(b, frame.id)
    /\ down' = [down EXCEPT ![b] = Tail(@)]
    /\ UNCHANGED <<disturbed, place, master, hello>>

(* A frame of another board: each sends one every second.                  *)
Overhear(b) ==
    /\ b \in OnBus \cap stale /\ down[b] = <<>>
    /\ OnBus # {b}
    /\ Renegotiate(b)
    /\ UNCHANGED <<disturbed, place, master, bus>>

-----------------------------------------------------------------------------
(* can_master_task.                                                        *)

Room(b) == Len(down[b]) < QueueSize
ToAll(frame) == down' = [b \in Boards |-> IF b \in OnBus THEN Append(down[b], frame) ELSE down[b]]

(* The master restarts: what it has not read is lost.  It reads the        *)
(* registry from NVS and tells the boards.                                 *)
Boot ==
    /\ disturbed /\ \A b \in Boards : Room(b)
    /\ s_slave_reg' = nvs /\ online' = {}
    /\ hello' = {}
    /\ ToAll(Frame("BOOT", CAN_SLAVE_ID_UNASSIGNED))
    /\ UNCHANGED <<disturbed, place, nvs, boards, takers>>

SlotsOf(b) == {i \in Slots : s_slave_reg[i] = b}
First(S)   == {i \in S : \A j \in S : i <= j}

Assign(b, id) ==
    IF b \in OnBus THEN Room(b) /\ down' = [down EXCEPT ![b] = Append(@, Frame("ASSIGN", id))] ELSE UNCHANGED down

(* nvs_save_registry.  Nobody looks at whether it succeeds.                *)
Save == nvs' \in {s_slave_reg'} \cup (IF FlashFails THEN {nvs} ELSE {})

Read(b) ==
    /\ b \in hello /\ hello' = hello \ {b}
    /\ UNCHANGED <<disturbed, place, online, boards, takers>>

(* Faulty variant, used only to show that a property can fail: a known     *)
(* board is not answered.                                                  *)
handle_hello_knownMute(b) ==
    /\ Read(b) /\ SlotsOf(b) # {}
    /\ UNCHANGED <<s_slave_reg, nvs, down>>

(* Faulty variant, used only to show that a property can fail: a new board *)
(* is not saved.                                                           *)
handle_hello_newUnsaved(b) ==
    /\ Read(b) /\ SlotsOf(b) = {}
    /\ \E i \in First(SlotsOf(Nobody)) :
          /\ s_slave_reg' = [s_slave_reg EXCEPT ![i] = b]
          /\ Assign(b, i)
    /\ UNCHANGED nvs

(* A known board is assigned its id again, a new one the first free one,   *)
(* if there is one.                                                        *)
handle_hello_known(b) ==
    /\ Read(b)
    /\ \E i \in First(SlotsOf(b)) : Assign(b, i)
    /\ UNCHANGED <<s_slave_reg, nvs>>

handle_hello_new(b) ==
    /\ Read(b) /\ SlotsOf(b) = {}
    /\ \E i \in First(SlotsOf(Nobody)) :
          /\ s_slave_reg' = [s_slave_reg EXCEPT ![i] = b]
          /\ Assign(b, i)
    /\ Save

handle_hello_full(b) ==
    /\ Read(b) /\ SlotsOf(b) \cup SlotsOf(Nobody) = {}
    /\ UNCHANGED <<s_slave_reg, nvs, down>>

(* check_slave_timeouts: no telemetry for 10 s.                            *)
TimesOut(i) ==
    /\ i \in online /\ s_slave_reg[i] # Nobody
    /\ disturbed \/ \A b \in OnBus : g_can_slave_id[b] # i
    /\ online' = online \ {i}
    /\ UNCHANGED <<disturbed, place, s_slave_reg, nvs, boards, bus, takers>>

(* create_jobs_task: a job for every slot in use that is online.  The      *)
(* frames before it have long been read.                                   *)
SendJob(i) ==
    /\ i \in online /\ s_slave_reg[i] # Nobody
    /\ hello = {} /\ \A b \in Boards : down[b] = <<>>
    /\ ToAll(Frame("JOB", i))
    /\ takers' = {}
    /\ UNCHANGED <<disturbed, place, master, boards, hello>>

-----------------------------------------------------------------------------
(* What comes from outside.                                                *)

Away(b) == place[b] = "unplugged" /\ down[b] = <<>> /\ (g_can_slave_id[b] # CAN_SLAVE_ID_UNASSIGNED => b \in stale)

(* can_master_delete_slave                                                 *)
Remove(i) ==
    LET b == s_slave_reg[i]
    IN  /\ b # Nobody
        /\ \/ "off" \in Removals /\ place[b] = "off"
           \/ "away" \in Removals /\ Away(b)
           \/ "any" \in Removals
        /\ s_slave_reg' = [s_slave_reg EXCEPT ![i] = Nobody]
        /\ Save /\ online' = online \ {i}
        /\ UNCHANGED <<disturbed, place, boards, bus, takers>>

SwitchOff(b) ==
    /\ place[b] # "off"
    /\ place' = [place EXCEPT ![b] = "off"]
    /\ down' = [down EXCEPT ![b] = <<>>]
    /\ g_can_slave_id' = [g_can_slave_id EXCEPT ![b] = CAN_SLAVE_ID_UNASSIGNED]
    /\ stale' = stale \ {b}
    /\ UNCHANGED <<disturbed, master, hello, takers>>

SwitchOn(b) ==
    /\ place[b] = "off" /\ b \notin Absent
    /\ place' = [place EXCEPT ![b] = "bus"]
    /\ UNCHANGED <<disturbed, master, boards, bus, takers>>

Replug(b) ==
    /\ place[b] # "off"
    /\ place' = [place EXCEPT ![b] = IF @ = "bus" THEN "unplugged" ELSE "bus"]
    /\ UNCHANGED <<disturbed, master, boards, bus, takers>>

(* The last job of a board is 10 s old, because something keeps jobs away. *)
Age(b) ==
    /\ g_can_slave_id[b] # CAN_SLAVE_ID_UNASSIGNED /\ b \notin stale
    /\ \/ disturbed \/ place[b] = "unplugged"
       \/ s_slave_reg[g_can_slave_id[b]] = Nobody
    /\ stale' = stale \cup {b}
    /\ UNCHANGED <<disturbed, place, master, g_can_slave_id, bus, takers>>

Lose(b) ==
    /\ disturbed
    /\ \/ b \in hello /\ hello' = hello \ {b} /\ UNCHANGED down
       \/ down[b] # <<>> /\ down' = [down EXCEPT ![b] = Tail(@)] /\ UNCHANGED hello
    /\ UNCHANGED <<disturbed, place, master, boards, takers>>

Calm ==
    /\ disturbed /\ disturbed' = FALSE
    /\ UNCHANGED <<place, master, boards, bus, takers>>

-----------------------------------------------------------------------------

Board(b) == Hello(b) \/ Telemetry(b) \/ Receive(b) \/ Overhear(b)
handle_hello(b) == handle_hello_known(b) \/ handle_hello_new(b) \/ handle_hello_full(b)

Next ==
    \/ \E b \in Boards : Board(b) \/ handle_hello(b) \/ SwitchOff(b) \/ SwitchOn(b) \/ Replug(b) \/ Age(b) \/ Lose(b)
    \/ \E i \in Slots : TimesOut(i) \/ SendJob(i) \/ Remove(i)
    \/ Boot \/ Calm

Spec == Init /\ [][Next]_vars

(* The tasks keep running.                                                 *)
FairSpec ==
    /\ Spec
    /\ \A b \in Boards \ Absent :
          WF_vars(Hello(b) \/ Telemetry(b)) /\ WF_vars(Receive(b) \/ Overhear(b)) /\ WF_vars(handle_hello(b))
    /\ \A i \in Slots : SF_vars(SendJob(i))

-----------------------------------------------------------------------------

TypeOK ==
    /\ disturbed \in BOOLEAN /\ place \in [Boards -> {"bus", "unplugged", "off"}]
    /\ s_slave_reg \in [Slots -> Boards \cup {Nobody}] /\ nvs \in [Slots -> Boards \cup {Nobody}]
    /\ online \subseteq Slots
    /\ g_can_slave_id \in [Boards -> Slots \cup {CAN_SLAVE_ID_UNASSIGNED}] /\ stale \subseteq Boards
    /\ hello \subseteq Boards
    /\ down \in [Boards -> Seq(Frames)] /\ \A b \in Boards : Len(down[b]) <= QueueSize
    /\ takers \subseteq Boards

(* A job is taken by one board: no two do the same work.                   *)
OneTaker == Cardinality(takers) <= 1

(* A board that would take a job of a slot is the board of that slot, on   *)
(* flash as well.                                                          *)
IdIsOwn ==
    \A b \in OnBus \ stale :
        g_can_slave_id[b] # CAN_SLAVE_ID_UNASSIGNED => nvs[g_can_slave_id[b]] = b

(* Of the boards the registry has room for, one that stays on the bus gets *)
(* job after job, once the master no longer restarts and frames no longer  *)
(* get lost, if there is another board on the bus.                         *)
HasRoom(b) == SlotsOf(b) \cup SlotsOf(Nobody) # {}
EveryBoardMines ==
    \A b \in Boards \ Absent :
        <>[](~disturbed /\ HasRoom(b) /\ b \in OnBus /\ OnBus # {b}) => []<>(b \in takers)
=============================================================================
