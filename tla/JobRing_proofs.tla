--------------------------- MODULE JobRing_proofs ---------------------------
(***************************************************************************)
(* Proofs about JobRing for every ASIC family, any number of jobs and      *)
(* cleans.  The n-th job of pool p goes to a slot that has a closed form,  *)
(* Home(ch, p, n); the arithmetic lemmas say what the comments above         *)
(* send_work claim of it, and the inductive invariant ties the ring, the   *)
(* serial line and the result task to it.                                  *)
(***************************************************************************)
EXTENDS JobRing, TLAPS

Home(ch, p, n) == (First(ch, p) + n * Stride(ch)) % 128

(* A pool's slots lie in the ring, on the grid the clean loops and the     *)
(* serial format rely on.                                                  *)
LEMMA HomeGrid ==
  ASSUME NEW ch \in KnownChips, NEW p \in Pools, NEW n \in Nat
  PROVE  /\ Home(ch, p, n) \in Nat /\ Home(ch, p, n) < 128
         /\ Home(ch, p, n) % 4 = 0
         /\ ch # "BM1397" => Home(ch, p, n) % 8 = 0
  BY DEF Home, KnownChips, Pools, First, Stride

(* The counters of send_work walk through these slots.                     *)
LEMMA HomeNext ==
  ASSUME NEW ch \in KnownChips, NEW p \in Pools, NEW n \in Nat
  PROVE  Home(ch, p, n + 1) = (Home(ch, p, n) + Stride(ch)) % 128
  BY DEF Home, KnownChips, Pools, First, Stride

(* The two pools' slots are disjoint ...                                   *)
LEMMA HomesDisjoint ==
  ASSUME NEW ch \in KnownChips, NEW p \in Pools, NEW q \in Pools, NEW m \in Nat, NEW n \in Nat,
         Home(ch, p, m) = Home(ch, q, n)
  PROVE  p = q
  BY DEF Home, KnownChips, Pools, First, Stride

(* ... and a slot comes around only after Depth jobs of its pool.          *)
LEMMA HomesSpread ==
  ASSUME NEW ch \in KnownChips, NEW p \in Pools, NEW m \in Nat, NEW n \in Nat,
         m < n, Home(ch, p, m) = Home(ch, p, n)
  PROVE  m <= n - Depth(ch)
  BY DEF Home, KnownChips, Pools, First, Stride, Depth

LEMMA DepthPositive == \A ch \in KnownChips : Depth(ch) \in Nat /\ Depth(ch) >= 1
  BY DEF Depth

(* What the chip returns decodes to the slot it was given.                 *)
LEMMA DecodeGrid ==
  ASSUME NEW ch \in KnownChips, NEW i \in Nat, i < 128, i % 4 = 0, ch # "BM1397" => i % 8 = 0,
         NEW c \in Nat, c <= MaxCore(ch)
  PROVE  Decode(ch, Wire(ch, i, c)) = i /\ Wire(ch, i, c) \in Nat /\ Wire(ch, i, c) <= 255
  <1>1. CASE ch \in {"BM1368", "BM1370"}
    BY <1>1 DEF Decode, Wire, MaxCore
  <1>2. CASE ch = "BM1366"
    BY <1>2 DEF Decode, Wire, MaxCore
  <1>3. CASE ch = "BM1397"
    BY <1>3 DEF Decode, Wire, MaxCore
  <1>4. QED
    BY <1>1, <1>2, <1>3 DEF KnownChips

LEMMA DecodeWire ==
  ASSUME NEW ch \in KnownChips, NEW p \in Pools, NEW n \in Nat, NEW c \in Nat, c <= MaxCore(ch)
  PROVE  /\ Decode(ch, Wire(ch, Home(ch, p, n), c)) = Home(ch, p, n)
         /\ Wire(ch, Home(ch, p, n), c) \in Nat /\ Wire(ch, Home(ch, p, n), c) <= 255
  BY HomeGrid, DecodeGrid

-----------------------------------------------------------------------------
(* The ring: every job sits in its own slot, and the latest Depth jobs of  *)
(* each pool are all there, valid unless cleaned away.                     *)
Sat(p, n) == Home(chip, p, n) \in Filled /\ active_jobs[Home(chip, p, n)] = Job(p, n)
Recent(p, n) == n \in Nat /\ 1 <= n /\ n <= sent[p] /\ n > sent[p] - Depth(chip)

Counters ==
    /\ chip \in KnownChips
    /\ sent \in [Pools -> Nat] /\ floor \in [Pools -> Nat]
    /\ \A p \in Pools : floor[p] <= sent[p]
    /\ last \in [Pools -> Nat]
    /\ \A p \in Pools : last[p] = Home(chip, p, sent[p])

Placed ==
    \A i \in Filled :
        /\ active_jobs[i] \in Jobs
        /\ 1 <= active_jobs[i].n /\ active_jobs[i].n <= sent[active_jobs[i].pool]
        /\ i = Home(chip, active_jobs[i].pool, active_jobs[i].n)

Present ==
    \A p \in Pools : \A n \in Nat : Recent(p, n) =>
        Sat(p, n) /\ (n > floor[p] => Home(chip, p, n) \in valid)

Ring ==
    /\ Counters
    /\ valid \subseteq Filled
    /\ Placed
    /\ Present
    /\ CleanComplete

LEMMA RingInit == Init => Ring
  <1> SUFFICES ASSUME Init PROVE Ring
    OBVIOUS
  <1>1. chip \in KnownChips
    BY RingAssumption DEF Init
  <1>2. Counters
    BY <1>1 DEF Init, Counters, Home, First, Stride, Pools, KnownChips
  <1>3. Filled = {}
    BY DEF Init, Filled
  <1>4. \A p \in Pools, n \in Nat : ~Recent(p, n)
    BY DEF Init, Recent
  <1>5. QED
    BY <1>2, <1>3, <1>4 DEF Ring, Init, CleanComplete, Placed, Present

LEMMA StoreCounters ==
  ASSUME Counters, NEW p \in Pools, Store(p)
  PROVE  /\ Counters'
         /\ NextId(p) = Home(chip, p, sent[p] + 1)
  <1>1. chip \in KnownChips /\ sent[p] \in Nat
    BY DEF Counters
  <1>2. NextId(p) = Home(chip, p, sent[p] + 1)
    BY <1>1, HomeNext DEF NextId, Counters
  <1>3. NextId(p) \in Nat
    BY <1>1, <1>2, HomeGrid
  <1>4. /\ last' = [last EXCEPT ![p] = NextId(p)]
        /\ sent' = [sent EXCEPT ![p] = @ + 1] /\ floor' = floor /\ chip' = chip
    BY DEF Store
  <1>5. sent' \in [Pools -> Nat] /\ \A q \in Pools : floor'[q] <= sent'[q]
    BY <1>1, <1>4 DEF Counters
  <1>6. last' \in [Pools -> Nat]
    BY <1>3, <1>4 DEF Counters
  <1>7. \A q \in Pools : last'[q] = Home(chip, q, sent'[q])
    BY <1>1, <1>2, <1>4 DEF Counters
  <1>8. QED
    BY <1>2, <1>4, <1>5, <1>6, <1>7 DEF Counters

(* Storing a job: it takes a slot none of the latest jobs is in.           *)
LEMMA StoreRing ==
  ASSUME Ring, NEW p \in Pools, Store(p)
  PROVE  /\ Ring'
         /\ \A i \in Filled : i \in Filled' /\ active_jobs'[i].pool = active_jobs[i].pool
  <1> DEFINE i == NextId(p)
  <1> DEFINE job == Job(p, sent[p] + 1)
  <1>1. /\ chip' = chip /\ floor' = floor
        /\ active_jobs' = [j \in Filled \cup {i} |-> IF j = i THEN job ELSE active_jobs[j]]
        /\ valid' = valid \cup {i}
        /\ sent' = [sent EXCEPT ![p] = @ + 1]
    BY DEF Store
  <1>2. Counters' /\ i = Home(chip, p, sent[p] + 1)
    BY StoreCounters DEF Ring
  <1>3. /\ chip \in KnownChips /\ sent \in [Pools -> Nat] /\ floor \in [Pools -> Nat]
        /\ \A q \in Pools : floor[q] <= sent[q]
        /\ valid \subseteq Filled
    BY DEF Ring, Counters
  <1>4. /\ Filled' = Filled \cup {i}
        /\ \A j \in Filled' : active_jobs'[j] = IF j = i THEN job ELSE active_jobs[j]
    BY <1>1 DEF Filled
  <1>5. sent'[p] = sent[p] + 1 /\ \A q \in Pools : q # p => sent'[q] = sent[q]
    BY <1>1, <1>3
  <1>6. job \in Jobs /\ job.pool = p /\ job.n = sent[p] + 1
    BY <1>3 DEF Job, Jobs
  <1> HIDE DEF i, job
  <1>7. Placed'
    <2> SUFFICES ASSUME NEW j \in Filled'
                 PROVE  /\ active_jobs'[j] \in Jobs
                        /\ 1 <= active_jobs'[j].n /\ active_jobs'[j].n <= sent'[active_jobs'[j].pool]
                        /\ j = Home(chip, active_jobs'[j].pool, active_jobs'[j].n)
      BY <1>1 DEF Placed
    <2>1. CASE j = i
      BY <2>1, <1>2, <1>3, <1>4, <1>5, <1>6
    <2>2. CASE j # i
      <3>1. /\ active_jobs'[j] = active_jobs[j] /\ active_jobs[j] \in Jobs
            /\ 1 <= active_jobs[j].n /\ active_jobs[j].n <= sent[active_jobs[j].pool]
            /\ j = Home(chip, active_jobs[j].pool, active_jobs[j].n)
        BY <2>2, <1>4 DEF Ring, Placed
      <3>2. active_jobs[j].n \in Nat /\ active_jobs[j].pool \in Pools
        BY <3>1 DEF Jobs
      <3>3. QED
        BY <3>1, <3>2, <1>3, <1>5
    <2>3. QED
      BY <2>1, <2>2
  <1>8. Present'
    <2> SUFFICES ASSUME NEW q \in Pools, NEW n \in Nat, Recent(q, n)'
                 PROVE  /\ Home(chip, q, n) \in Filled'
                        /\ active_jobs'[Home(chip, q, n)] = Job(q, n)
                        /\ n > floor[q] => Home(chip, q, n) \in valid'
      BY <1>1 DEF Present, Sat
    <2>1. 1 <= n /\ n <= sent'[q] /\ n > sent'[q] - Depth(chip)
      BY <1>1 DEF Recent
    <2>2. Depth(chip) \in Nat /\ Depth(chip) >= 1
      BY <1>3, DepthPositive
    <2>3. CASE q = p /\ n = sent[p] + 1
      BY <2>3, <1>1, <1>2, <1>4 DEF job
    <2>4. CASE ~(q = p /\ n = sent[p] + 1)
      <3>1. Recent(q, n)
        BY <2>1, <2>2, <2>4, <1>3, <1>5 DEF Recent
      <3>2. Sat(q, n) /\ (n > floor[q] => Home(chip, q, n) \in valid)
        BY <3>1 DEF Ring, Present
      <3>3. Home(chip, q, n) # i
        <4>1. CASE q # p
          <5>1. sent[p] + 1 \in Nat
            BY <1>3
          <5>2. chip \in KnownChips
            BY <1>3
          <5>3. Home(chip, q, n) = Home(chip, p, sent[p] + 1) => q = p
            BY <5>1, <5>2, HomesDisjoint
          <5>4. QED
            BY <4>1, <5>3, <1>2
        <4>2. CASE q = p
          <5>1. n < sent[p] + 1 /\ ~(n <= sent[p] + 1 - Depth(chip))
            BY <4>2, <2>1, <2>2, <2>4, <1>3, <1>5
          <5>2. sent[p] \in Nat /\ sent[p] + 1 \in Nat
            BY <1>3
          <5>3. chip \in KnownChips
            BY <1>3
          <5>4. Home(chip, p, n) # Home(chip, p, sent[p] + 1)
            BY <5>1, <5>2, <5>3, <2>2, HomesSpread
          <5>5. QED
            BY <4>2, <5>4, <1>2
        <4>3. QED
          BY <4>1, <4>2
      <3>4. QED
        BY <3>2, <3>3, <1>1, <1>4 DEF Sat
    <2>5. QED
      BY <2>3, <2>4
  <1>9. CleanComplete'
    <2> SUFFICES ASSUME NEW j \in valid' PROVE active_jobs'[j].n > floor[active_jobs'[j].pool]
      BY <1>1 DEF CleanComplete
    <2>1. CASE j = i
      BY <2>1, <1>3, <1>4, <1>6
    <2>2. CASE j # i
      BY <2>2, <1>1, <1>3, <1>4 DEF Ring, CleanComplete
    <2>3. QED
      BY <2>1, <2>2
  <1>10. valid' \subseteq Filled'
    BY <1>1, <1>3, <1>4
  <1>11. \A j \in Filled : j \in Filled' /\ active_jobs'[j].pool = active_jobs[j].pool
    <2> SUFFICES ASSUME NEW j \in Filled PROVE j \in Filled' /\ active_jobs'[j].pool = active_jobs[j].pool
      OBVIOUS
    <2>1. CASE j = i
      <3>1. active_jobs[j] \in Jobs /\ j = Home(chip, active_jobs[j].pool, active_jobs[j].n)
        BY DEF Ring, Placed
      <3>2. active_jobs[j].pool \in Pools /\ active_jobs[j].n \in Nat
        BY <3>1 DEF Jobs
      <3>3. sent[p] + 1 \in Nat
        BY <1>3
      <3>4. active_jobs[j].pool = p
        BY <2>1, <3>1, <3>2, <3>3, <1>2, <1>3, HomesDisjoint
      <3>5. QED
        BY <2>1, <3>4, <1>4, <1>6
    <2>2. CASE j # i
      BY <2>2, <1>4
    <2>3. QED
      BY <2>1, <2>2
  <1>12. QED
    BY <1>2, <1>7, <1>8, <1>9, <1>10, <1>11 DEF Ring

(* A clean takes all of its own pool's slots out, and no other.            *)
LEMMA CleanRing ==
  ASSUME Ring, NEW p \in Pools, Clean(p)
  PROVE  /\ Ring'
         /\ \A i \in valid : i \notin valid' => active_jobs[i].pool = p
  <1>1. /\ chip' = chip /\ sent' = sent /\ last' = last /\ active_jobs' = active_jobs
        /\ valid' = valid \ Swept(p)
        /\ floor' = [floor EXCEPT ![p] = sent[p]]
    BY DEF Clean
  <1>2. /\ chip \in KnownChips /\ sent \in [Pools -> Nat] /\ floor \in [Pools -> Nat]
        /\ \A q \in Pools : floor[q] <= sent[q]
        /\ valid \subseteq Filled
    BY DEF Ring, Counters
  <1>3. floor' \in [Pools -> Nat] /\ \A q \in Pools : floor'[q] = IF q = p THEN sent[p] ELSE floor[q]
    BY <1>1, <1>2
  <1>4. Filled' = Filled
    BY <1>1 DEF Filled
  <1>5. \A i \in Filled : /\ active_jobs[i].pool \in Pools /\ active_jobs[i].n \in Nat
                          /\ i % 4 = 0
                          /\ active_jobs[i].n <= sent[active_jobs[i].pool]
    <2> SUFFICES ASSUME NEW i \in Filled
                 PROVE  /\ active_jobs[i].pool \in Pools /\ active_jobs[i].n \in Nat
                        /\ i % 4 = 0
                        /\ active_jobs[i].n <= sent[active_jobs[i].pool]
      OBVIOUS
    <2>1. /\ active_jobs[i] \in Jobs /\ active_jobs[i].n <= sent[active_jobs[i].pool]
          /\ i = Home(chip, active_jobs[i].pool, active_jobs[i].n)
      BY DEF Ring, Placed
    <2>2. active_jobs[i].pool \in Pools /\ active_jobs[i].n \in Nat
      BY <2>1 DEF Jobs
    <2>3. QED
      BY <2>1, <2>2, <1>2, HomeGrid
  <1>6. \A i \in valid : i \in valid' <=> active_jobs[i].pool # p
    BY <1>1, <1>2, <1>5 DEF Swept, Owned, Pools
  <1>7. Counters'
    BY <1>1, <1>2, <1>3 DEF Ring, Counters
  <1>8. Placed'
    BY <1>1, <1>4 DEF Ring, Placed
  <1>9. Present'
    <2> SUFFICES ASSUME NEW q \in Pools, NEW n \in Nat, Recent(q, n)'
                 PROVE  Sat(q, n)' /\ (n > floor'[q] => Home(chip, q, n) \in valid')
      BY <1>1 DEF Present
    <2>1. Recent(q, n)
      BY <1>1 DEF Recent
    <2>2. Sat(q, n) /\ (n > floor[q] => Home(chip, q, n) \in valid)
      BY <2>1 DEF Ring, Present
    <2>3. Sat(q, n)'
      BY <2>2, <1>1, <1>4 DEF Sat
    <2>4. ASSUME n > floor'[q] PROVE Home(chip, q, n) \in valid'
      <3>1. q # p /\ n > floor[q]
        BY <2>1, <2>4, <1>2, <1>3 DEF Recent
      <3>2. active_jobs[Home(chip, q, n)].pool = q
        BY <2>2 DEF Sat, Job
      <3>3. QED
        BY <2>2, <3>1, <3>2, <1>6
    <2>5. QED
      BY <2>3, <2>4
  <1>10. CleanComplete'
    <2> SUFFICES ASSUME NEW i \in valid' PROVE active_jobs[i].n > floor'[active_jobs[i].pool]
      BY <1>1 DEF CleanComplete
    <2>1. i \in valid /\ active_jobs[i].pool # p /\ active_jobs[i].pool \in Pools
      BY <1>1, <1>2, <1>5, <1>6
    <2>2. QED
      BY <2>1, <1>3 DEF Ring, CleanComplete
  <1>11. valid' \subseteq Filled'
    BY <1>1, <1>2, <1>4
  <1>12. QED
    BY <1>6, <1>7, <1>8, <1>9, <1>10, <1>11 DEF Ring

-----------------------------------------------------------------------------
(* What travels to the chip and back carries the slot of its job.          *)
Known(job, s)        == job \in Jobs /\ 1 <= job.n /\ job.n <= s[job.pool]
HomeOf(job, ch)      == Home(ch, job.pool, job.n)
GoodPacket(w, ch, s) == w \in Packets /\ Known(w.job, s) /\ w.id = HomeOf(w.job, ch)
GoodAnswer(w, ch, s) == w \in Packets /\ Known(w.job, s) /\ Decode(ch, w.id) = HomeOf(w.job, ch)
Late(job, ch, s)     == job \in Jobs /\ job.n <= s[job.pool] - Depth(ch)

Line ==
    /\ sending # NoPacket => GoodPacket(sending, chip, sent)
    /\ hashing # NoPacket => GoodPacket(hashing, chip, sent)
    /\ uart \in Seq(Packets)
    /\ \A k \in 1..Len(uart) : GoodAnswer(uart[k], chip, sent)
    /\ rpc \in {"idle", "checked", "judging"}
    /\ rpc # "idle" => GoodAnswer(answer, chip, sent)
    /\ snapshot \in Jobs \cup {NoJob} /\ answer \in Packets \cup {NoPacket}
    /\ (rpc = "judging" /\ snapshot # answer.job) => Late(answer.job, chip, sent)

LEMMA LineInit == Init => Line
  BY DEF Init, Line, NoPacket

(* A known job that is not late is in its slot.                            *)
LEMMA KnownInSlot ==
  ASSUME Ring, NEW job, Known(job, sent), ~Late(job, chip, sent)
  PROVE  /\ HomeOf(job, chip) \in Filled /\ active_jobs[HomeOf(job, chip)] = job
         /\ job.n > floor[job.pool] => HomeOf(job, chip) \in valid
  <1>1. /\ job.pool \in Pools /\ job.n \in Nat /\ sent[job.pool] \in Nat
        /\ job = Job(job.pool, job.n) /\ chip \in KnownChips
    BY DEF Known, Jobs, Job, Ring, Counters
  <1>2. Depth(chip) \in Nat
    BY <1>1, DepthPositive
  <1>3. Recent(job.pool, job.n)
    BY <1>1, <1>2 DEF Recent, Known, Late
  <1>4. QED
    BY <1>1, <1>3 DEF Ring, Present, Sat, HomeOf

(* More jobs being sent takes nothing away.                                *)
LEMMA StillGood ==
  ASSUME NEW ch \in KnownChips, NEW s \in [Pools -> Nat], NEW s2 \in [Pools -> Nat],
         \A q \in Pools : s[q] <= s2[q]
  PROVE  /\ \A w : GoodPacket(w, ch, s) => GoodPacket(w, ch, s2)
         /\ \A w : GoodAnswer(w, ch, s) => GoodAnswer(w, ch, s2)
         /\ \A job : Late(job, ch, s) => Late(job, ch, s2)
  <1>1. \A job : Known(job, s) => Known(job, s2)
    BY DEF Known, Jobs
  <1>2. Depth(ch) \in Nat
    BY DepthPositive
  <1>3. QED
    BY <1>1, <1>2 DEF GoodPacket, GoodAnswer, Late, Jobs

LEMMA LineNext == Ring /\ Line /\ [Next]_vars => Line'
  <1> SUFFICES ASSUME Ring, Line, [Next]_vars PROVE Line'
    OBVIOUS
  <1>0. chip \in KnownChips /\ sent \in [Pools -> Nat] /\ valid \subseteq Filled
    BY DEF Ring, Counters
  <1>1. ASSUME NEW p \in Pools, Store(p) PROVE Line'
    <2>1. /\ chip' = chip /\ sent' \in [Pools -> Nat] /\ sent'[p] = sent[p] + 1
          /\ \A q \in Pools : sent[q] <= sent'[q]
      BY <1>1, <1>0 DEF Store
    <2>2. /\ \A w : GoodPacket(w, chip, sent) => GoodPacket(w, chip, sent')
          /\ \A w : GoodAnswer(w, chip, sent) => GoodAnswer(w, chip, sent')
          /\ \A job : Late(job, chip, sent) => Late(job, chip, sent')
      BY <2>1, <1>0, StillGood
    <2>3. UNCHANGED <<hashing, uart, rpc, answer, snapshot>>
      BY <1>1 DEF Store, result
    <2>4. GoodPacket(sending', chip, sent')
      <3>1. /\ sending' = [id |-> NextId(p), job |-> Job(p, sent[p] + 1)]
            /\ NextId(p) = Home(chip, p, sent[p] + 1)
        BY <1>1, StoreCounters DEF Store, Ring
      <3>2. Home(chip, p, sent[p] + 1) \in 0..255
        <4>1. sent[p] + 1 \in Nat
          BY <1>0
        <4>2. Home(chip, p, sent[p] + 1) \in Nat /\ Home(chip, p, sent[p] + 1) < 128
          BY <4>1, <1>0, HomeGrid
        <4>3. QED
          BY <4>2
      <3>3. QED
        BY <2>1, <3>1, <3>2, <1>0 DEF GoodPacket, Packets, Known, Job, Jobs, HomeOf
    <2>5. QED
      BY <2>1, <2>2, <2>3, <2>4 DEF Line
  <1>2. ASSUME NEW p \in Pools, Clean(p) PROVE Line'
    BY <1>2 DEF Clean, Line, result
  <1>3. CASE Transmit
    BY <1>3 DEF Transmit, Line, result, history
  <1>4. ASSUME NEW c \in CoreNumbers, Find(c) PROVE Line'
    <2> DEFINE w == [id |-> Wire(chip, hashing.id, c), job |-> hashing.job]
    <2>1. c \in Nat /\ c <= MaxCore(chip) /\ GoodPacket(hashing, chip, sent)
      BY <1>4, RingAssumption DEF Find, Line
    <2>2. /\ hashing.job.pool \in Pools /\ hashing.job.n \in Nat
          /\ hashing.id = Home(chip, hashing.job.pool, hashing.job.n)
      BY <2>1 DEF GoodPacket, HomeOf, Known, Jobs
    <2>3. /\ Decode(chip, Wire(chip, hashing.id, c)) = hashing.id
          /\ Wire(chip, hashing.id, c) \in 0..255
      <3>1. /\ Decode(chip, Wire(chip, hashing.id, c)) = hashing.id
            /\ Wire(chip, hashing.id, c) \in Nat /\ Wire(chip, hashing.id, c) <= 255
        BY <2>1, <2>2, <1>0, DecodeWire
      <3>2. QED
        BY <3>1
    <2>4. GoodAnswer(w, chip, sent)
      BY <2>1, <2>3 DEF GoodAnswer, GoodPacket, Packets, Known
    <2>5. uart' = Append(uart, w) /\ UNCHANGED <<chip, sent, sending, hashing, rpc, answer, snapshot>>
      BY <1>4 DEF Find, history, result
    <2>6. w \in Packets
      BY <2>4 DEF GoodAnswer
    <2> HIDE DEF w
    <2>7. uart' \in Seq(Packets) /\ \A k \in 1..Len(uart') : GoodAnswer(uart'[k], chip, sent)
      BY <2>4, <2>5, <2>6 DEF Line
    <2>8. QED
      BY <2>5, <2>7 DEF Line
  <1>5. CASE ProcessWork
    <2>1. UNCHANGED <<chip, sent, sending, hashing, snapshot>>
      BY <1>5 DEF ProcessWork, history
    <2>2. /\ uart' = Tail(uart) /\ uart # <<>> /\ uart \in Seq(Packets)
          /\ \A k \in 1..Len(uart) : GoodAnswer(uart[k], chip, sent)
      BY <1>5 DEF ProcessWork, Line
    <2>3. uart' \in Seq(Packets) /\ \A k \in 1..Len(uart') : GoodAnswer(uart'[k], chip, sent)
      BY <2>2
    <2>4. GoodAnswer(Head(uart), chip, sent) /\ Head(uart) \in Packets
      BY <2>2
    <2>5. \/ rpc' = "checked" /\ answer' = Head(uart)
          \/ rpc' = "idle" /\ UNCHANGED answer
      BY <1>5 DEF ProcessWork
    <2>6. QED
      BY <2>1, <2>3, <2>4, <2>5 DEF Line
  <1>6. CASE Snapshot
    <2>1. UNCHANGED <<chip, sent, sending, hashing, uart>> /\ GoodAnswer(answer, chip, sent)
      BY <1>6 DEF Snapshot, history, Line
    <2>2. CASE SlotOf(answer) \in valid
      <3>1. rpc' = "judging" /\ answer' = answer /\ snapshot' = active_jobs[SlotOf(answer)]
        BY <1>6, <2>2 DEF Snapshot
      <3>2. snapshot' \in Jobs
        BY <2>2, <3>1, <1>0 DEF Ring, Placed
      <3>3. snapshot' # answer.job => Late(answer.job, chip, sent)
        BY <2>1, <3>1, KnownInSlot DEF GoodAnswer, SlotOf
      <3>4. QED
        BY <2>1, <3>1, <3>2, <3>3 DEF Line
    <2>3. CASE SlotOf(answer) \notin valid
      BY <1>6, <2>1, <2>3 DEF Snapshot, Line
    <2>4. QED
      BY <2>2, <2>3
  <1>7. CASE Judge
    BY <1>7 DEF Judge, Line, history
  <1>8. CASE UNCHANGED vars
    BY <1>8 DEF vars, Line, result, history
  <1>9. QED
    BY <1>1, <1>2, <1>3, <1>4, <1>5, <1>6, <1>7, <1>8 DEF Next

-----------------------------------------------------------------------------
Kept == \A i \in Filled : i \in Filled' /\ active_jobs'[i].pool = active_jobs[i].pool
Isolated == \A i \in valid : i \notin valid' =>
                cleans'[active_jobs[i].pool] = cleans[active_jobs[i].pool] + 1

LEMMA RingNext ==
  ASSUME Ring, cleans \in [Pools -> Nat], [Next]_vars
  PROVE  Ring' /\ Kept /\ Isolated /\ cleans' \in [Pools -> Nat]
  <1>1. ASSUME NEW p \in Pools, Store(p)
        PROVE  Ring' /\ Kept /\ Isolated /\ cleans' \in [Pools -> Nat]
    <2>1. Ring' /\ Kept
      BY <1>1, StoreRing DEF Kept
    <2>2. valid \subseteq valid' /\ cleans' = cleans
      BY <1>1 DEF Store
    <2>3. QED
      BY <2>1, <2>2 DEF Isolated
  <1>2. ASSUME NEW p \in Pools, Clean(p)
        PROVE  Ring' /\ Kept /\ Isolated /\ cleans' \in [Pools -> Nat]
    <2>1. Ring' /\ \A i \in valid : i \notin valid' => active_jobs[i].pool = p
      BY <1>2, CleanRing
    <2>2. active_jobs' = active_jobs /\ cleans' = [cleans EXCEPT ![p] = @ + 1]
      BY <1>2 DEF Clean
    <2>3. Kept
      BY <2>2 DEF Kept, Filled
    <2>4. cleans'[p] = cleans[p] + 1 /\ cleans' \in [Pools -> Nat]
      BY <2>2
    <2>5. QED
      BY <2>1, <2>3, <2>4 DEF Isolated
  <1>3. CASE UNCHANGED <<chip, ring, history>>
    <2>1. UNCHANGED <<chip, last, active_jobs, valid, sent, cleans, floor>>
      BY <1>3 DEF ring, history
    <2>2. Filled' = Filled
      BY <2>1 DEF Filled
    <2>3. Counters' /\ Placed' /\ CleanComplete' /\ valid' \subseteq Filled'
      BY <2>1, <2>2 DEF Ring, Counters, Placed, CleanComplete
    <2>4. Present'
      BY <2>1, <2>2 DEF Ring, Present, Sat, Recent
    <2>5. Kept /\ Isolated
      BY <2>1, <2>2 DEF Kept, Isolated
    <2>6. QED
      BY <2>1, <2>3, <2>4, <2>5 DEF Ring
  <1>4. \/ \E p \in Pools : Store(p) \/ Clean(p)
        \/ UNCHANGED <<chip, ring, history>>
    BY DEF Next, vars, Transmit, Find, ProcessWork, Snapshot, Judge
  <1>5. QED
    BY <1>1, <1>2, <1>3, <1>4

-----------------------------------------------------------------------------
Safe == Ring /\ Line /\ chip \in Chips /\ cleans \in [Pools -> Nat]

(* The inductive invariant holds throughout.                               *)
THEOREM Invariance == Spec => []Safe
  <1>1. Init => Safe
    <2>1. Init => chip \in Chips /\ cleans \in [Pools -> Nat]
      BY DEF Init
    <2>2. QED
      BY <2>1, RingInit, LineInit DEF Safe
  <1>2. Safe /\ [Next]_vars => Safe'
    <2> SUFFICES ASSUME Safe, [Next]_vars PROVE Safe'
      OBVIOUS
    <2>1. Ring' /\ cleans' \in [Pools -> Nat]
      BY RingNext DEF Safe
    <2>2. Line'
      BY LineNext DEF Safe
    <2>3. chip' = chip
      BY DEF Next, vars, Store, Clean, Transmit, Find, ProcessWork, Snapshot, Judge
    <2>4. QED
      BY <2>1, <2>2, <2>3 DEF Safe
  <1>3. QED
    BY <1>1, <1>2, PTL DEF Spec

(* The latest jobs of a pool are all in the ring (send_work).              *)
THEOREM RecentKept == Spec => []RecentJobsKept
  <1>1. Safe => RecentJobsKept
    <2> SUFFICES ASSUME Safe, NEW p \in Pools, NEW n \in 1..sent[p], n > sent[p] - Depth(chip)
                 PROVE  \E i \in Filled : active_jobs[i] = Job(p, n)
      BY DEF RecentJobsKept
    <2>1. sent[p] \in Nat
      BY DEF Safe, Ring, Counters
    <2>2. n \in Nat /\ Recent(p, n)
      BY <2>1 DEF Recent
    <2>3. Sat(p, n)
      BY <2>2 DEF Safe, Ring, Present
    <2>4. QED
      BY <2>3 DEF Sat
  <1>2. QED
    BY <1>1, Invariance, PTL

(* A clean leaves none of the pool's older jobs valid (the clean loops).   *)
THEOREM CleanSweepsAll == Spec => []CleanComplete
  <1>1. Safe => CleanComplete
    BY DEF Safe, Ring
  <1>2. QED
    BY <1>1, Invariance, PTL

(* No slot ever changes pools (bm1370.c:323-334).                          *)
THEOREM NoCollision == Spec => NoCrossPoolCollision
  <1>1. Safe /\ [Next]_vars =>
            [\A i \in Filled : i \in Filled' /\ active_jobs'[i].pool = active_jobs[i].pool]_vars
    BY RingNext DEF Safe, Kept
  <1>2. QED
    BY <1>1, Invariance, PTL DEF Spec, NoCrossPoolCollision

(* One pool's clean spares the other pool's jobs.                          *)
THEOREM CleansIsolated == Spec => CleanIsolated
  <1>1. Safe /\ [Next]_vars =>
            [\A i \in valid : i \notin valid' =>
                cleans'[active_jobs[i].pool] = cleans[active_jobs[i].pool] + 1]_vars
    BY RingNext DEF Safe, Isolated
  <1>2. QED
    BY <1>1, Invariance, PTL DEF Spec, CleanIsolated

(* What an answer names is in its slot, cleaned, or due.                   *)
LEMMA GoodFinds ==
  ASSUME Safe, NEW w, GoodAnswer(w, chip, sent)
  PROVE  Finds(w)
  <1>1. Known(w.job, sent) /\ SlotOf(w) = HomeOf(w.job, chip) /\ w.job \in Jobs
    BY DEF GoodAnswer, SlotOf, Known
  <1>2. CASE Late(w.job, chip, sent)
    BY <1>2 DEF Finds, Due, Late
  <1>3. CASE ~Late(w.job, chip, sent)
    <2>1. /\ active_jobs[HomeOf(w.job, chip)] = w.job
          /\ w.job.n > floor[w.job.pool] => HomeOf(w.job, chip) \in valid
      BY <1>1, <1>3, KnownInSlot DEF Safe
    <2>2. w.job.n \in Nat /\ floor[w.job.pool] \in Nat
      BY <1>1 DEF Jobs, Safe, Ring, Counters
    <2>3. QED
      BY <1>1, <2>1, <2>2 DEF Finds
  <1>4. QED
    BY <1>2, <1>3

(* An answer is lost only to its own pool (asic_result_task.c:54-89).      *)
THEOREM LostOnlyToOwnPool == Spec => []LostToOwnPoolOnly
  <1>1. Safe => LostToOwnPoolOnly
    <2> SUFFICES ASSUME Safe PROVE LostToOwnPoolOnly
      OBVIOUS
    <2>1. \A k \in 1..Len(uart) : Finds(uart[k])
      BY GoodFinds DEF Safe, Line
    <2>2. rpc = "checked" => Finds(answer)
      BY GoodFinds DEF Safe, Line
    <2>3. (rpc = "judging" /\ snapshot # answer.job) => Due(answer.job)
      BY DEF Safe, Line, Late, Due
    <2>4. QED
      BY <2>1, <2>2, <2>3 DEF LostToOwnPoolOnly
  <1>2. QED
    BY <1>1, Invariance, PTL

(* The recovery loop finds nothing (asic_result_task.c:189-268).           *)
THEOREM RecoveryIdle == Spec => []NothingToRecover
  <1>1. Safe => NothingToRecover
    <2> SUFFICES ASSUME Safe, rpc = "judging", NEW i \in valid,
                        i # SlotOf(answer), active_jobs[i] = answer.job
                 PROVE  FALSE
      BY DEF NothingToRecover, Others
    <2>1. SlotOf(answer) = Home(chip, answer.job.pool, answer.job.n)
      BY DEF Safe, Line, GoodAnswer, SlotOf, HomeOf
    <2>2. i = Home(chip, active_jobs[i].pool, active_jobs[i].n)
      BY DEF Safe, Ring, Placed
    <2>3. QED
      BY <2>1, <2>2
  <1>2. QED
    BY <1>1, Invariance, PTL

-----------------------------------------------------------------------------
(* The ring is a table for each pool (JobTable).  A valid slot holds one   *)
(* of its pool's latest Depth jobs: an older one would share the slot with *)
(* a latest one, which is there.                                           *)

(* The latest turn of a slot.                                              *)
LEMMA HomeAgain ==
  ASSUME NEW ch \in KnownChips, NEW p \in Pools, NEW s \in Nat, NEW n \in Nat, n <= s - Depth(ch)
  PROVE  \E m \in Nat : n < m /\ m <= s /\ m > s - Depth(ch) /\ Home(ch, p, m) = Home(ch, p, n)
  <1> DEFINE m == s - ((s - n) % Depth(ch))
             k == (s - n) \div Depth(ch)
  <1>1. Depth(ch) \in {8, 16} /\ Stride(ch) \in {8, 16, 48} /\ First(ch, p) \in {0, 4, 8}
    BY DEF Depth, Stride, First
  <1>2. m \in Nat /\ k \in Nat /\ m = n + k * Depth(ch)
    BY <1>1
  <1>3. n < m /\ m <= s /\ m > s - Depth(ch)
    BY <1>1
  <1>4. Home(ch, p, m) = Home(ch, p, n)
    <2> HIDE DEF m, k
    <2>1. CASE ch \in {"BM1368", "BM1370"}
      BY <1>2, <2>1 DEF Home, Depth, Stride, First
    <2>2. CASE ch = "BM1366"
      BY <1>2, <2>2 DEF Home, Depth, Stride, First
    <2>3. CASE ch = "BM1397"
      BY <1>2, <2>3 DEF Home, Depth, Stride, First
    <2>4. QED
      BY <2>1, <2>2, <2>3 DEF KnownChips
  <1>5. QED
    BY <1>2, <1>3, <1>4

Window == \A i \in valid : active_jobs[i].n > sent[active_jobs[i].pool] - Depth(chip)

LEMMA RingWindow == Ring => Window
  <1> SUFFICES ASSUME Ring, NEW i \in valid,
                      ~(active_jobs[i].n > sent[active_jobs[i].pool] - Depth(chip))
               PROVE  FALSE
    BY DEF Window
  <1> DEFINE p == active_jobs[i].pool
             n == active_jobs[i].n
  <1>1. /\ p \in Pools /\ n \in Nat /\ 1 <= n /\ sent[p] \in Nat /\ chip \in KnownChips
        /\ i = Home(chip, p, n) /\ n <= sent[p] - Depth(chip)
    <2>1. i \in Filled /\ active_jobs[i] \in Jobs /\ chip \in KnownChips
      BY DEF Ring, Placed, Counters
    <2>2. p \in Pools /\ n \in Nat
      BY <2>1 DEF Jobs
    <2>3. sent[p] \in Nat /\ Depth(chip) \in Nat
      BY <2>1, <2>2, DepthPositive DEF Ring, Counters
    <2>4. QED
      BY <2>1, <2>2, <2>3 DEF Ring, Placed
  <1>2. PICK m \in Nat : /\ n < m /\ m <= sent[p] /\ m > sent[p] - Depth(chip)
                         /\ Home(chip, p, m) = Home(chip, p, n)
    BY <1>1, HomeAgain
  <1>3. Recent(p, m)
    BY <1>1, <1>2 DEF Recent
  <1>4. active_jobs[i] = Job(p, m)
    BY <1>1, <1>2, <1>3 DEF Ring, Present, Sat
  <1>5. QED
    BY <1>1, <1>2, <1>4 DEF Job

(* The answer in hand and the job it is judged against.                    *)
Hands ==
    /\ rpc = "idle" => answer = NoPacket
    /\ rpc # "judging" => snapshot = NoJob
    /\ rpc = "judging" => snapshot \in Jobs

TableInv == Safe /\ Window /\ Hands

LEMMA TableInvariance == Spec => []TableInv
  <1>1. Init => Hands
    BY DEF Init, Hands
  <1>2. Safe /\ Hands /\ [Next]_vars => Hands'
    <2> SUFFICES ASSUME Safe, Hands, [Next]_vars PROVE Hands'
      OBVIOUS
    <2>1. CASE UNCHANGED result
      BY <2>1 DEF Hands, result
    <2>2. CASE ProcessWork
      BY <2>2 DEF ProcessWork, Hands
    <2>3. CASE Snapshot
      <3>1. SlotOf(answer) \in valid => active_jobs[SlotOf(answer)] \in Jobs
        BY DEF Safe, Ring, Placed
      <3>2. QED
        BY <2>3, <3>1 DEF Snapshot, Hands
    <2>4. CASE Judge
      BY <2>4 DEF Judge, Hands
    <2>5. QED
      BY <2>1, <2>2, <2>3, <2>4 DEF Next, vars, Store, Clean, Transmit, Find
  <1>3. Safe => Window
    BY RingWindow DEF Safe
  <1>4. QED
    BY <1>1, <1>2, <1>3, Invariance, PTL DEF Spec, TableInv

LEMMA InTableIs ==
  ASSUME Ring, NEW p \in Pools, NEW n
  PROVE  n \in InTable(p) <=> \E i \in valid : active_jobs[i] = Job(p, n)
  <1>1. \A i \in valid : active_jobs[i] = Job(active_jobs[i].pool, active_jobs[i].n)
    BY DEF Ring, Placed, Jobs, Job
  <1>2. QED
    BY <1>1 DEF InTable, Job

(* A known job is in its pool's table when it is in its slot ...           *)
LEMMA InTableInSlot ==
  ASSUME Ring, NEW job, Known(job, sent)
  PROVE  job.n \in InTable(job.pool)
            <=> HomeOf(job, chip) \in valid /\ active_jobs[HomeOf(job, chip)] = job
  <1>1. job.pool \in Pools /\ job = Job(job.pool, job.n)
    BY DEF Known, Jobs, Job
  <1>2. \A i \in valid : active_jobs[i] = job => i = HomeOf(job, chip)
    BY DEF Ring, Placed, HomeOf
  <1>3. QED
    BY <1>1, <1>2, InTableIs

(* ... and what else is in that slot is a later job of its pool.           *)
LEMMA LaterInSlot ==
  ASSUME Ring, Window, NEW job, Known(job, sent), HomeOf(job, chip) \in valid,
         active_jobs[HomeOf(job, chip)] # job
  PROVE  /\ job.n \notin InTable(job.pool)
         /\ \E n \in InTable(job.pool) : n > job.n /\ active_jobs[HomeOf(job, chip)] = Job(job.pool, n)
  <1> DEFINE other == active_jobs[HomeOf(job, chip)]
  <1>1. /\ job.pool \in Pools /\ job.n \in Nat /\ job = Job(job.pool, job.n)
        /\ job.n <= sent[job.pool] /\ sent \in [Pools -> Nat] /\ chip \in KnownChips
    BY DEF Known, Jobs, Job, Ring, Counters
  <1>2. /\ other.pool \in Pools /\ other.n \in Nat /\ other = Job(other.pool, other.n)
        /\ Home(chip, other.pool, other.n) = Home(chip, job.pool, job.n)
        /\ other.n > sent[other.pool] - Depth(chip)
    BY DEF Ring, Placed, Jobs, Job, HomeOf, Window
  <1>3. other.pool = job.pool
    BY <1>1, <1>2, HomesDisjoint
  <1>4. ~(other.n < job.n)
    <2>1. other.n < job.n => other.n <= job.n - Depth(chip)
      BY <1>1, <1>2, <1>3, HomesSpread
    <2>2. Depth(chip) \in Nat
      BY <1>1, DepthPositive
    <2>3. QED
      BY <1>1, <1>2, <1>3, <2>1, <2>2
  <1>5. other.n # job.n
    BY <1>1, <1>2, <1>3
  <1>6. other.n \in InTable(job.pool)
    BY <1>1, <1>2, <1>3, InTableIs
  <1>7. QED
    BY <1>1, <1>2, <1>3, <1>4, <1>5, <1>6, InTableInSlot

(* What the steps do to the tables.                                        *)
Tables == [p \in Pools |-> InTable(p)]

LEMMA StoreTables ==
  ASSUME TableInv, TableInv', NEW p \in Pools, Store(p)
  PROVE  Tables' = [Tables EXCEPT ![p] =
                       (Tables[p] \cup {sent[p] + 1}) \ {(sent[p] + 1) - Depth(chip)}]
  <1> DEFINE new == sent[p] + 1
             i   == NextId(p)
  <1>1. /\ sent[p] \in Nat /\ chip \in KnownChips /\ chip' = chip /\ Depth(chip) \in Nat
        /\ Depth(chip) >= 1 /\ sent'[p] = new
    BY DepthPositive DEF TableInv, Safe, Ring, Counters, Store
  <1>2. i = Home(chip, p, new)
    BY StoreCounters DEF TableInv, Safe, Ring
  <1>3. /\ valid' = valid \cup {i} /\ active_jobs'[i] = Job(p, new)
        /\ \A j \in valid : j # i => active_jobs'[j] = active_jobs[j]
    BY DEF Store, TableInv, Safe, Ring
  <1>4. ASSUME NEW q \in Pools, NEW n
        PROVE  n \in InTable(q)' <=> (\/ q = p /\ n = new
                                      \/ \E j \in valid : j # i /\ active_jobs[j] = Job(q, n))
    <2>1. n \in InTable(q)' <=> \E j \in valid' : active_jobs'[j] = Job(q, n)
      <3>1. \A j \in valid' : active_jobs'[j] = Job(active_jobs'[j].pool, active_jobs'[j].n)
        BY DEF TableInv, Safe, Ring, Placed, Jobs, Job
      <3>2. QED
        BY <3>1 DEF InTable, Job
    <2>2. QED
      BY <1>3, <2>1 DEF Job
  (* The slot's old job goes, and it is the one Depth before the new one.  *)
  <1>5. ASSUME NEW q \in Pools, NEW n, i \in valid, active_jobs[i] = Job(q, n)
        PROVE  q = p /\ n = new - Depth(chip)
    <2>1. active_jobs[i] \in Jobs /\ active_jobs[i].n <= sent[active_jobs[i].pool]
          /\ i = Home(chip, active_jobs[i].pool, active_jobs[i].n)
          /\ active_jobs[i].n > sent[active_jobs[i].pool] - Depth(chip)
      BY <1>5 DEF TableInv, Safe, Ring, Placed, Window
    <2>2. /\ n \in Nat /\ i = Home(chip, q, n)
          /\ n <= sent[q] /\ n > sent[q] - Depth(chip)
      BY <1>5, <2>1 DEF Job, Jobs
    <2>3. q = p
      BY <1>1, <1>2, <2>2, HomesDisjoint
    <2>4. n <= new - Depth(chip)
      BY <1>1, <1>2, <2>2, <2>3, HomesSpread
    <2>5. QED
      BY <1>1, <2>2, <2>3, <2>4
  <1>6. ASSUME NEW q \in Pools, NEW n
        PROVE  n \in InTable(q)' <=> (\/ n \in InTable(q) /\ q # p
                                      \/ q = p /\ (n \in InTable(p) \/ n = new)
                                         /\ n # new - Depth(chip))
    <2>1. n \in InTable(q) <=> \E j \in valid : active_jobs[j] = Job(q, n)
      BY InTableIs DEF TableInv, Safe
    <2>2. new - Depth(chip) \notin InTable(p)'
      <3>1. \A j \in valid' : active_jobs'[j].n > sent'[active_jobs'[j].pool] - Depth(chip')
        BY DEF TableInv, Window
      <3>2. QED
        BY <1>1, <3>1 DEF InTable
    <2>3. new # new - Depth(chip)
      BY <1>1
    <2>4. QED
      BY <1>4, <1>5, <2>1, <2>2, <2>3
  <1>7. \A q \in Pools : InTable(q)' = IF q = p THEN (InTable(p) \cup {new}) \ {new - Depth(chip)}
                                              ELSE InTable(q)
    BY <1>6
  <1>8. Tables' = [q \in Pools |-> InTable(q)'] /\ Tables[p] = InTable(p)
    BY DEF Tables
  <1>9. QED
    BY <1>7, <1>8 DEF Tables

LEMMA CleanTables ==
  ASSUME TableInv, NEW p \in Pools, Clean(p)
  PROVE  Tables' = [Tables EXCEPT ![p] = {}]
  <1>1. \A i \in valid : i % 4 = 0
    <2>1. ASSUME NEW i \in valid PROVE i % 4 = 0
      <3>1. /\ chip \in KnownChips /\ active_jobs[i].pool \in Pools /\ active_jobs[i].n \in Nat
            /\ i = Home(chip, active_jobs[i].pool, active_jobs[i].n)
        BY DEF TableInv, Safe, Ring, Counters, Placed, Jobs
      <3>2. QED
        BY <3>1, HomeGrid
    <2>2. QED
      BY <2>1
  <1>2. \A i \in valid : Owned(p, i) <=> active_jobs[i].pool = p
    <2>1. \A i \in valid : active_jobs[i].pool \in Pools
      BY DEF TableInv, Safe, Ring, Placed, Jobs
    <2>2. QED
      BY <2>1 DEF Owned, Pools
  <1>3. valid' = {i \in valid : active_jobs[i].pool # p} /\ active_jobs' = active_jobs
    BY <1>1, <1>2 DEF Clean, Swept
  <1>4. \A q \in Pools : InTable(q)' = IF q = p THEN {} ELSE InTable(q)
    BY <1>3 DEF InTable
  <1>5. QED
    BY <1>4 DEF Tables

(* The serial line as a sequence of jobs.                                  *)
LEMMA JobsOfLine ==
  ASSUME NEW s \in Seq(Packets)
  PROVE  /\ \A w \in Packets : JobsOf(Append(s, w)) = Append(JobsOf(s), w.job)
         /\ s # <<>> => /\ JobsOf(s) # <<>> /\ Head(JobsOf(s)) = Head(s).job
                        /\ JobsOf(Tail(s)) = Tail(JobsOf(s))
  <1>1. JobsOf(s) \in Seq(Jobs) /\ Len(JobsOf(s)) = Len(s)
    <2>1. Len(s) \in Nat /\ \A k \in 1..Len(s) : s[k] \in Packets
      OBVIOUS
    <2>2. \A k \in 1..Len(s) : s[k].job \in Jobs
      BY <2>1 DEF Packets
    <2>3. QED
      BY <2>1, <2>2 DEF JobsOf
  <1>2. \A w \in Packets : JobsOf(Append(s, w)) = Append(JobsOf(s), w.job)
    BY <1>1 DEF JobsOf, Packets
  <1>3. s # <<>> => /\ JobsOf(s) # <<>> /\ Head(JobsOf(s)) = Head(s).job
                    /\ JobsOf(Tail(s)) = Tail(JobsOf(s))
    BY <1>1 DEF JobsOf, Packets
  <1>4. QED
    BY <1>2, <1>3

(* Every step of the ring is a step of the tables, or changes nothing they *)
(* see.                                                                    *)
TableStep == [Table!Next]_(Table!vars)

LEMMA TableResult ==
  ASSUME TableInv, ProcessWork \/ Snapshot \/ Judge
  PROVE  Table!Next
  <1>1. UNCHANGED <<Depth(chip), sent, Tables>>
    <2>1. UNCHANGED <<chip, sent, active_jobs, valid>>
      BY DEF ProcessWork, Snapshot, Judge, ring, history
    <2>2. QED
      BY <2>1 DEF Tables, InTable
  <1>2. NoJob \notin Jobs /\ NoPacket.job = NoJob
    BY DEF NoJob, Jobs, Job, Pools, NoPacket
  <1>3. CASE ProcessWork
    <2> DEFINE w == Head(uart)
    <2>1. uart \in Seq(Packets) /\ uart # <<>> /\ GoodAnswer(w, chip, sent)
      BY <1>3 DEF ProcessWork, TableInv, Safe, Line
    <2>2. /\ JobsOf(uart) # <<>> /\ JobsOf(uart') = Tail(JobsOf(uart))
          /\ Head(JobsOf(uart)) = w.job
      BY <1>3, <2>1, JobsOfLine DEF ProcessWork
    <2>3. answer.job = NoJob /\ snapshot' = snapshot
      BY <1>2, <1>3 DEF ProcessWork, TableInv, Hands
    <2>4. \/ answer'.job = w.job
          \/ w.job.n \notin InTable(w.job.pool) /\ answer' = answer
      <3>1. w.job.n \in InTable(w.job.pool) => SlotOf(w) \in valid
        BY <2>1, InTableInSlot DEF TableInv, Safe, GoodAnswer, SlotOf
      <3>2. QED
        BY <1>3, <3>1 DEF ProcessWork
    <2>5. w.job.pool \in Pools
      BY <2>1 DEF GoodAnswer, Known, Jobs
    <2>6. Table!Take
      <3>1. answer'.job = w.job \/ (w.job.n \notin Tables[w.job.pool] /\ answer'.job = answer.job)
        BY <2>4, <2>5 DEF Tables
      <3>2. QED
        BY <1>1, <2>2, <2>3, <3>1 DEF Table!Take, Table!Has, Tables
    <2>7. QED
      BY <2>6 DEF Table!Next
  <1>4. CASE Snapshot
    <2> DEFINE job == answer.job
    <2>1. /\ GoodAnswer(answer, chip, sent) /\ Known(job, sent) /\ job \in Jobs /\ job # NoJob
          /\ SlotOf(answer) = HomeOf(job, chip) /\ snapshot = NoJob /\ job.pool \in Pools
      BY <1>2, <1>4 DEF Snapshot, TableInv, Safe, Line, GoodAnswer, Known, SlotOf, Hands, Jobs
    <2>2. UNCHANGED JobsOf(uart)
      BY <1>4 DEF Snapshot, JobsOf
    <2>3. CASE SlotOf(answer) \notin valid
      <3>1. job.n \notin Tables[job.pool]
        BY <2>1, <2>3, InTableInSlot DEF TableInv, Safe, Tables
      <3>2. answer' = NoPacket /\ snapshot' = snapshot
        BY <1>4, <2>3 DEF Snapshot
      <3>3. Table!Drop
        BY <1>1, <1>2, <2>1, <2>2, <3>1, <3>2 DEF Table!Drop, Table!Has, Tables
      <3>4. QED
        BY <3>3 DEF Table!Next
    <2>4. CASE SlotOf(answer) \in valid
      <3>1. answer' = answer /\ snapshot' = active_jobs[HomeOf(job, chip)]
        BY <1>4, <2>1, <2>4 DEF Snapshot
      <3>2. CASE snapshot' = job
        <4>1. job.n \in Tables[job.pool]
          BY <2>1, <2>4, <3>1, <3>2, InTableInSlot DEF TableInv, Safe, Tables
        <4>2. Table!Look
          BY <1>1, <2>1, <2>2, <3>1, <3>2, <4>1 DEF Table!Look, Table!Has, Tables
        <4>3. QED
          BY <4>2 DEF Table!Next
      <3>3. CASE snapshot' # job
        <4>1. /\ job.n \notin InTable(job.pool)
              /\ \E n \in InTable(job.pool) : n > job.n /\ snapshot' = Job(job.pool, n)
          BY <2>1, <2>4, <3>1, <3>3, LaterInSlot DEF TableInv, Safe
        <4>2. /\ job.n \notin Tables[job.pool]
              /\ \E n \in Tables[job.pool] : n > job.n /\ snapshot' = Table!Job(job.pool, n)
          BY <2>1, <4>1 DEF Tables, Job, Table!Job
        <4>3. Table!Look
          BY <1>1, <2>1, <2>2, <3>1, <4>2 DEF Table!Look, Table!Has, Tables
        <4>4. QED
          BY <4>3 DEF Table!Next
      <3>4. QED
        BY <3>2, <3>3
    <2>5. QED
      BY <2>3, <2>4
  <1>5. CASE Judge
    <2>1. snapshot # NoJob /\ answer'.job = NoJob /\ snapshot' = NoJob /\ UNCHANGED JobsOf(uart)
      BY <1>2, <1>5 DEF Judge, TableInv, Hands, JobsOf
    <2>2. Table!Judge
      BY <1>1, <2>1 DEF Table!Judge, Tables
    <2>3. QED
      BY <2>2 DEF Table!Next
  <1>6. QED
    BY <1>3, <1>4, <1>5

LEMMA TableNext == TableInv /\ TableInv' /\ [Next]_vars => TableStep
  <1> SUFFICES ASSUME TableInv, TableInv', [Next]_vars PROVE TableStep
    OBVIOUS
  <1>1. ASSUME NEW p \in Pools, Store(p) PROVE Table!Next
    <2>1. /\ chip' = chip /\ sent' = [sent EXCEPT ![p] = @ + 1]
          /\ UNCHANGED <<uart, answer, snapshot>>
      BY <1>1 DEF Store, result
    <2>2. Table!Send(p)
      BY <1>1, <2>1, StoreTables DEF Table!Send, Tables, JobsOf
    <2>3. QED
      BY <2>2 DEF Table!Next
  <1>2. ASSUME NEW p \in Pools, Clean(p) PROVE Table!Next
    <2>1. UNCHANGED <<chip, sent, uart, answer, snapshot>>
      BY <1>2 DEF Clean, result
    <2>2. Table!Clean(p)
      BY <1>2, <2>1, CleanTables DEF Table!Clean, Tables, JobsOf
    <2>3. QED
      BY <2>2 DEF Table!Next
  <1>3. ASSUME NEW c \in CoreNumbers, Find(c) PROVE Table!Next
    <2> DEFINE job == hashing.job
    <2>1. /\ UNCHANGED <<chip, sent, active_jobs, valid, answer, snapshot>>
          /\ uart' = Append(uart, [id |-> Wire(chip, hashing.id, c), job |-> job])
      BY <1>3 DEF Find, ring, result, history
    <2>2. Known(job, sent) /\ uart \in Seq(Packets)
      BY <1>3 DEF Find, TableInv, Safe, Line, GoodPacket
    <2>3. /\ job.pool \in Pools /\ job.n \in 1..sent[job.pool]
          /\ job = Table!Job(job.pool, job.n)
      BY <2>2 DEF Known, Jobs, TableInv, Safe, Ring, Counters, Table!Job
    <2>4. [id |-> Wire(chip, hashing.id, c), job |-> job] \in Packets
      <3>1. c \in Nat /\ c <= MaxCore(chip) /\ chip \in KnownChips
        BY <1>3, RingAssumption DEF Find, TableInv, Safe, Ring, Counters
      <3>2. hashing.id = Home(chip, job.pool, job.n) /\ job \in Jobs
        BY <1>3 DEF Find, TableInv, Safe, Line, GoodPacket, HomeOf, Known
      <3>3. Wire(chip, hashing.id, c) \in 0..255
        BY <2>3, <3>1, <3>2, DecodeWire DEF Jobs
      <3>4. QED
        BY <3>2, <3>3 DEF Packets
    <2>5. JobsOf(uart') = Append(JobsOf(uart), job)
      BY <2>1, <2>2, <2>4, JobsOfLine
    <2>6. Table!Answered(job.pool, job.n)
      BY <2>1, <2>3, <2>5 DEF Table!Answered, Tables, InTable
    <2>7. QED
      BY <2>3, <2>6 DEF Table!Next
  <1>4. CASE ProcessWork \/ Snapshot \/ Judge
    BY <1>4, TableResult DEF TableStep
  <1>5. CASE Transmit \/ UNCHANGED vars
    <2>1. UNCHANGED <<chip, sent, active_jobs, valid, uart, answer, snapshot>>
      BY <1>5 DEF Transmit, vars, ring, result, history
    <2>2. QED
      BY <2>1 DEF TableStep, Table!vars, InTable, JobsOf
  <1>6. QED
    BY <1>1, <1>2, <1>3, <1>4, <1>5 DEF Next, TableStep

(* The ring keeps the promise of JobTable, for every ASIC family: two      *)
(* tables that know nothing of each other (send_work, the clean loops,     *)
(* asic_result_task.c:54-89).                                              *)
THEOREM Refinement == Spec => TableSpec
  <1>1. Init => Table!Init
    <2> SUFFICES ASSUME Init PROVE Table!Init
      OBVIOUS
    <2>1. Depth(chip) \in Nat \ {0}
      BY DepthPositive, RingAssumption DEF Init
    <2>2. \A p \in Pools : InTable(p) = {}
      BY DEF Init, InTable
    <2>3. JobsOf(uart) = <<>>
      BY DEF Init, JobsOf
    <2>4. QED
      BY <2>1, <2>2, <2>3 DEF Init, Table!Init, NoPacket
  <1>2. TableInv /\ TableInv' /\ [Next]_vars => [Table!Next]_(Table!vars)
    BY TableNext DEF TableStep
  <1>3. QED
    BY <1>1, <1>2, TableInvariance, PTL DEF Spec, TableSpec, Table!Spec

(* The types; in particular no answer indexes past the ring.               *)
THEOREM TypeCorrect == Spec => []TypeOK
  <1> DEFINE Stored == /\ active_jobs = [i \in Filled |-> active_jobs[i]]
  <1>1. Init => Stored
    BY DEF Init, Filled
  <1>2. Stored /\ [Next]_vars => Stored'
    <2> SUFFICES ASSUME Stored, [Next]_vars PROVE Stored'
      OBVIOUS
    <2>1. ASSUME NEW p \in Pools, Store(p) PROVE Stored'
      BY <2>1 DEF Store, Filled
    <2>2. CASE UNCHANGED active_jobs
      BY <2>2 DEF Filled
    <2>3. (\E p \in Pools : Store(p)) \/ UNCHANGED active_jobs
      BY DEF Next, vars, ring, Clean, Transmit, Find, ProcessWork, Snapshot, Judge
    <2>4. QED
      BY <2>1, <2>2, <2>3
  <1>3. Safe /\ Stored => TypeOK
    <2> SUFFICES ASSUME Safe, Stored PROVE TypeOK
      OBVIOUS
    <2>1. /\ chip \in KnownChips /\ sent \in [Pools -> Nat] /\ floor \in [Pools -> Nat]
          /\ last \in [Pools -> Nat] /\ \A p \in Pools : last[p] = Home(chip, p, sent[p])
          /\ valid \subseteq Filled
      BY DEF Safe, Ring, Counters
    <2>2. ASSUME NEW p \in Pools, NEW n \in Nat PROVE Home(chip, p, n) \in Slots
      <3>1. Home(chip, p, n) \in Nat /\ Home(chip, p, n) < 128
        BY <2>1, HomeGrid
      <3>2. QED
        BY <3>1 DEF Slots
    <2>3. last \in [Pools -> Slots]
      BY <2>1, <2>2
    <2>4. \A i \in Filled : active_jobs[i] \in Jobs /\ i = Home(chip, active_jobs[i].pool, active_jobs[i].n)
      BY DEF Safe, Ring, Placed
    <2>5. Filled \subseteq Slots
      BY <2>2, <2>4 DEF Jobs
    <2>6. active_jobs \in [Filled -> Jobs]
      BY <2>4
    <2>7. \A k \in 1..Len(uart) : SlotOf(uart[k]) \in Slots
      <3>1. ASSUME NEW w, GoodAnswer(w, chip, sent) PROVE SlotOf(w) \in Slots
        BY <3>1, <2>2 DEF GoodAnswer, SlotOf, HomeOf, Known, Jobs
      <3>2. QED
        BY <3>1 DEF Safe, Line
    <2>8. sending \in Packets \cup {NoPacket} /\ hashing \in Packets \cup {NoPacket}
      BY DEF Safe, Line, GoodPacket
    <2> HIDE DEF Stored
    <2>9. QED
      BY <2>1, <2>3, <2>5, <2>6, <2>7, <2>8 DEF TypeOK, Safe, Line
  <1> HIDE DEF Stored
  <1>4. QED
    BY <1>1, <1>2, <1>3, Invariance, PTL DEF Spec
=============================================================================
