------------------------------ MODULE JobRing ------------------------------
(***************************************************************************)
(* The ring of 128 job slots both pools share with the ASIC: send_work and *)
(* process_work of components/asic/bm13*.c, the two clean loops            *)
(* (SYSTEM_clean_jobs_queue, stratum_poolb_task) and asic_result_task, all *)
(* under valid_jobs_lock, with a chip that answers late.  A job is known   *)
(* by its pool and its number in that pool; slots hold jobs by value, the  *)
(* way the lock makes readers see them.                                    *)
(***************************************************************************)
EXTENDS Integers, Sequences

CONSTANTS Chips,      \* the ASIC families to consider
          MaxSent,    \* bound: jobs sent, for each pool
          CoreNumbers,\* core or midstate numbers an answer may carry
          MaxCleans,  \* bound: clean_jobs per pool
          MaxNonces   \* bound: answers waiting on the serial line

Pools      == {"A", "B"}
KnownChips == {"BM1366", "BM1368", "BM1370", "BM1397"}

ASSUME RingAssumption ==
    /\ Chips \subseteq KnownChips
    /\ CoreNumbers \subseteq Nat
    /\ MaxSent \in [Pools -> Nat] /\ MaxCleans \in Nat /\ MaxNonces \in Nat

Slots  == 0..127
Job(p, n) == [pool |-> p, n |-> n]
NoJob  == Job("none", 0)
Jobs   == [pool : Pools, n : Nat]
NoPacket == [id |-> 0, job |-> NoJob]
Packets  == [id : 0..255, job : Jobs]   \* what goes over the serial line

VARIABLES
    chip,         \* the ASIC of this board, fixed
    last,         \* id_a and id_b of the driver: [Pools -> Slots]
    active_jobs,  \* a function on the slots that hold a job (the others are NULL)
    valid,        \* the slots with valid_jobs[i] # 0
    sending,      \* the packet create_jobs_task has yet to transmit, its id the slot
    hashing,      \* the packet the chip works on
    uart,         \* its answers, oldest first
    rpc,          \* asic_result_task: "idle", "checked", "judging"
    answer,       \* the answer it handles
    snapshot,     \* the job it copied out of the ring
    sent,         \* history: jobs sent per pool
    cleans,       \* history: cleans per pool
    floor         \* history: jobs sent when the pool last cleaned

ring    == <<last, active_jobs, valid>>
result  == <<rpc, answer, snapshot>>
history == <<sent, cleans, floor>>
vars    == <<chip, ring, sending, hashing, uart, result, history>>

-----------------------------------------------------------------------------
(* The per-family constants of send_work, and what the job id byte of an   *)
(* answer carries.                                                         *)

Stride(ch)   == IF ch \in {"BM1368", "BM1370"} THEN 48 ELSE IF ch = "BM1366" THEN 16 ELSE 8
First(ch, p) == IF p = "A" THEN 0 ELSE IF ch = "BM1397" THEN 4 ELSE 8
Depth(ch)    == IF ch = "BM1397" THEN 16 ELSE 8    \* slots per pool

(* The chip returns the id in the high bits, a core or midstate number in  *)
(* the low ones.                                                           *)
MaxCore(ch)    == IF ch \in {"BM1368", "BM1370"} THEN 15 ELSE IF ch = "BM1366" THEN 7 ELSE 3
Wire(ch, i, c) == IF ch \in {"BM1368", "BM1370"} THEN (i \div 8) * 16 + c ELSE i + c

(* Faulty variants, used only to show that the properties can fail: the    *)
(* shift is missing; the counter comes around too early.                   *)
DecodeUnshifted(ch, w) == IF ch = "BM1397" THEN (w \div 4) * 4 ELSE (w \div 8) * 8
NextIdHalf(p) == (last[p] + 2 * Stride(chip)) % 128

(* (id & 0xf0) >> 1, id & 0xf8, id & 0xfc.                                 *)
Decode(ch, w) == IF ch \in {"BM1368", "BM1370"} THEN (w \div 16) * 8
                 ELSE IF ch = "BM1366" THEN (w \div 8) * 8 ELSE (w \div 4) * 4
SlotOf(w)     == Decode(chip, w.id)

Filled    == DOMAIN active_jobs
NextId(p) == (last[p] + Stride(chip)) % 128

Init ==
    /\ chip \in Chips
    /\ last = [p \in Pools |-> First(chip, p)]
    /\ active_jobs = <<>>
    /\ valid = {}
    /\ sending = NoPacket /\ hashing = NoPacket /\ uart = <<>>
    /\ rpc = "idle" /\ answer = NoPacket /\ snapshot = NoJob
    /\ sent = [p \in Pools |-> 0] /\ cleans = [p \in Pools |-> 0] /\ floor = [p \in Pools |-> 0]

-----------------------------------------------------------------------------
(* BM13xx_send_work, to the end of the critical section: the pool's next   *)
(* slot takes the job, whatever was there is freed ...                     *)
Store(p) ==
    /\ sending = NoPacket
    /\ sent[p] < MaxSent[p]
    /\ LET i == NextId(p)
           job == Job(p, sent[p] + 1)
       IN  /\ last' = [last EXCEPT ![p] = i]
           /\ active_jobs' = [j \in Filled \cup {i} |-> IF j = i THEN job ELSE active_jobs[j]]
           /\ valid' = valid \cup {i}
           /\ sending' = [id |-> i, job |-> job]
    /\ sent' = [sent EXCEPT ![p] = @ + 1]
    /\ UNCHANGED <<chip, hashing, uart, result, cleans, floor>>

(* ... then the job is transmitted and the chip turns to it.               *)
Transmit ==
    /\ sending # NoPacket
    /\ hashing' = sending
    /\ sending' = NoPacket
    /\ UNCHANGED <<chip, ring, uart, result, history>>

(* The chip finds a nonce that meets the difficulty of its job.            *)
Find(c) ==
    /\ hashing # NoPacket /\ c <= MaxCore(chip)
    /\ Len(uart) < MaxNonces
    /\ uart' = Append(uart, [id |-> Wire(chip, hashing.id, c), job |-> hashing.job])
    /\ UNCHANGED <<chip, ring, sending, hashing, result, history>>

-----------------------------------------------------------------------------
(* A clean_jobs of pool p: every fourth slot is looked at.                 *)
Owned(p, i) == IF p = "B" THEN active_jobs[i].pool = "B" ELSE active_jobs[i].pool # "B"

(* Faulty variants: Pool A's clean sweeps the whole ring, as it once did;  *)
(* the step of the loop is that of the widest ring.                        *)
SweptAll(p)   == {i \in valid : i % 4 = 0 /\ (p = "A" \/ Owned(p, i))}
SweptEight(p) == {i \in valid : i % 8 = 0 /\ Owned(p, i)}

Swept(p) == {i \in valid : i % 4 = 0 /\ Owned(p, i)}

Clean(p) ==
    /\ cleans[p] < MaxCleans
    /\ valid' = valid \ Swept(p)
    /\ cleans' = [cleans EXCEPT ![p] = @ + 1]
    /\ floor' = [floor EXCEPT ![p] = sent[p]]
    /\ UNCHANGED <<chip, last, active_jobs, sending, hashing, uart, result, sent>>

-----------------------------------------------------------------------------
(* asic_result_task: process_work looks the slot up and drops the answer   *)
(* of a slot that is not valid ...                                         *)
ProcessWork ==
    /\ rpc = "idle" /\ uart # <<>>
    /\ uart' = Tail(uart)
    /\ \/ /\ SlotOf(Head(uart)) \in valid
          /\ rpc' = "checked" /\ answer' = Head(uart)
       \/ /\ SlotOf(Head(uart)) \notin valid
          /\ UNCHANGED <<rpc, answer>>
    /\ UNCHANGED <<chip, ring, sending, hashing, snapshot, history>>

(* Faulty variant: the second look trusts the first.                       *)
SnapshotTrusts ==
    /\ rpc = "checked"
    /\ rpc' = "judging" /\ snapshot' = active_jobs[SlotOf(answer)]
    /\ UNCHANGED <<chip, ring, sending, hashing, uart, answer, history>>

(* ... the lock is taken again, the slot looked up again and copied ...    *)
Snapshot ==
    /\ rpc = "checked"
    /\ \/ /\ SlotOf(answer) \in valid
          /\ rpc' = "judging" /\ snapshot' = active_jobs[SlotOf(answer)]
          /\ UNCHANGED answer
       \/ /\ SlotOf(answer) \notin valid
          /\ rpc' = "idle" /\ answer' = NoPacket
          /\ UNCHANGED snapshot
    /\ UNCHANGED <<chip, ring, sending, hashing, uart, history>>

(* ... and the nonce is tested: it meets the difficulty of the job it was  *)
(* found for and of no other.  Submitted, recovered or dropped, the answer *)
(* is done with; the recovery loop looks for its job in the other slots.   *)
Others == {i \in valid : i # SlotOf(answer) /\ active_jobs[i] = answer.job}

Judge ==
    /\ rpc = "judging"
    /\ rpc' = "idle" /\ answer' = NoPacket /\ snapshot' = NoJob
    /\ UNCHANGED <<chip, ring, sending, hashing, uart, history>>

Next ==
    \/ \E p \in Pools : Store(p) \/ Clean(p)
    \/ Transmit
    \/ \E c \in CoreNumbers : Find(c)
    \/ ProcessWork \/ Snapshot \/ Judge

Spec == Init /\ [][Next]_vars

-----------------------------------------------------------------------------
(* Every variable has its type; no answer indexes past the ring.           *)
TypeOK ==
    /\ chip \in Chips
    /\ last \in [Pools -> Slots]
    /\ Filled \subseteq Slots /\ active_jobs \in [Filled -> Jobs]
    /\ valid \subseteq Filled
    /\ sending \in Packets \cup {NoPacket} /\ hashing \in Packets \cup {NoPacket}
    /\ uart \in Seq(Packets)
    /\ \A k \in 1..Len(uart) : SlotOf(uart[k]) \in Slots
    /\ rpc \in {"idle", "checked", "judging"}
    /\ answer \in Packets \cup {NoPacket}
    /\ snapshot \in Jobs \cup {NoJob}
    /\ sent \in [Pools -> Nat] /\ cleans \in [Pools -> Nat] /\ floor \in [Pools -> Nat]

(* "A cross-pool collision is impossible by construction"                  *)
(* (bm1370.c:323-334): a slot once used by a pool is never taken over by   *)
(* the other one.                                                          *)
NoCrossPoolCollision ==
    [][\A i \in Filled : i \in Filled' /\ active_jobs'[i].pool = active_jobs[i].pool]_vars

(* Each of a pool's latest Depth jobs is still in a slot of its own,       *)
(* however the other pool's jobs are interleaved with them: the stride     *)
(* visits all of a pool's slots before it reuses one.                      *)
RecentJobsKept ==
    \A p \in Pools : \A n \in 1..sent[p] :
        n > sent[p] - Depth(chip) => \E i \in Filled : active_jobs[i] = Job(p, n)

(* A clean_jobs of one pool leaves the other pool's work valid             *)
(* (system.c SYSTEM_clean_jobs_queue, stratum_poolb_task.c:187-190).       *)
CleanIsolated ==
    [][\A i \in valid : i \notin valid' =>
          cleans'[active_jobs[i].pool] = cleans[active_jobs[i].pool] + 1]_vars

(* After a clean_jobs no job the pool sent before it is valid any more, in *)
(* any slot of any family.                                                 *)
CleanComplete == \A i \in valid : active_jobs[i].n > floor[active_jobs[i].pool]

(* An answer is thrown away only because its own pool cleaned it away or   *)
(* has since sent so many jobs that its slot was due: never because of the *)
(* other pool, whatever happens between the two looks at the slot.         *)
Due(job)  == job.n <= sent[job.pool] - Depth(chip)
Finds(w)  == \/ Due(w.job) \/ w.job.n <= floor[w.job.pool]
             \/ SlotOf(w) \in valid /\ active_jobs[SlotOf(w)] = w.job
LostToOwnPoolOnly ==
    /\ \A k \in 1..Len(uart) : Finds(uart[k])
    /\ rpc = "checked" => Finds(answer)
    /\ (rpc = "judging" /\ snapshot # answer.job) => Due(answer.job)

(* The dropped-share recovery of asic_result_task.c:189-268 never has      *)
(* anything to recover: a job whose slot was reused has no second slot.    *)
NothingToRecover == (rpc = "judging" /\ snapshot # answer.job) => Others = {}

(* What the slots, strides, shared clean loops and two looks at the ring   *)
(* come to for the two pools (send_work to asic_result_task): a table of   *)
(* its latest jobs for each, independent of the other.                     *)
InTable(p) == {active_jobs[i].n : i \in {j \in valid : active_jobs[j].pool = p}}
JobsOf(s)  == [k \in 1..Len(s) |-> s[k].job]
Table == INSTANCE JobTable WITH
    depth <- Depth(chip), kept <- [p \in Pools |-> InTable(p)], line <- JobsOf(uart),
    asked <- answer.job, judged <- snapshot
TableSpec == Table!Spec
=============================================================================
