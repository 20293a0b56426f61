---------------------- MODULE SchedulerAndQueue_proofs ----------------------
(***************************************************************************)
(* Proofs about the two components that create_jobs_task decides with:     *)
(* PoolScheduler, for all settings, call patterns and clocks, and          *)
(* WorkQueue, which implements Fifo for every size and any number of       *)
(* threads and, with one producer and one consumer, loses no signal.  They *)
(* share no state.                                                         *)
(***************************************************************************)
EXTENDS PoolScheduler, WorkQueue, TLAPS

-----------------------------------------------------------------------------
(* The inductive invariant.  The accumulator is what Pool A is still owed, *)
(* in hundredths of a slice; the slices assigned so far tile the time from *)
(* first_us to the end of the current slice.                               *)
AccIsDebt == acc = ratio_a * slices - 100 * slicesA

RunBound ==
    slices > 0 =>
        /\ run \in Nat
        /\ current = "B" => run * ratio_a <= acc
        /\ current = "A" => acc + run * (100 - ratio_a) < 100

OwnerMatchesDebt == slices > 0 => (current = "A" <=> acc < ratio_a)

NoSliceYet == ~initialized => slices = 0 /\ slicesA = 0 /\ run = 0 /\ pc = "idle"

Tiling ==
    initialized =>
        /\ slices > 0
        /\ slice_start_us = first_us + (slices - 1) * (interval_ms * 1000)
        /\ slice_start_us <= now_us

CatchUpProgress ==
    /\ now_us <= clock
    /\ pc = "catchup" => elapsed_ms = (now_us - slice_start_us) \div 1000
    /\ (pc = "idle" /\ initialized) => now_us < slice_start_us + interval_ms * 1000

SchedulerInv == /\ SchedulerTypeOK
        /\ AccIsDebt
        /\ RunBound
        /\ OwnerMatchesDebt
        /\ NoSliceYet
        /\ Tiling
        /\ CatchUpProgress

-----------------------------------------------------------------------------
(* Facts of arithmetic the provers need one at a time.                     *)

(* The quotient is the q whose multiple lies just below x.                 *)
LEMMA QuotientUnique ==
    ASSUME NEW x \in Nat, NEW d \in Nat \ {0}, NEW q \in Nat,
           q * d <= x, x < q * d + d
    PROVE  x \div d = q
  <1> DEFINE e == x \div d
  <1>1. e \in Int /\ e * d <= x /\ x < e * d + d
    OBVIOUS
  <1>2. CASE e < q
    <2>1. (q - e) \in Nat /\ q - e >= 1
      BY <1>1, <1>2
    <2>2. (q - e) * d >= d
      BY <2>1
    <2>3. (q - e) * d = q * d - e * d
      BY <1>1
    <2> QED BY <1>1, <2>2, <2>3
  <1>3. CASE e > q
    <2>1. (e - q) \in Nat /\ e - q >= 1
      BY <1>1, <1>3
    <2>2. (e - q) * d >= d
      BY <2>1
    <2>3. (e - q) * d = e * d - q * d
      BY <1>1
    <2> QED BY <1>1, <2>2, <2>3
  <1> QED BY <1>1, <1>2, <1>3

LEMMA ZeroProduct ==
    ASSUME NEW x \in Int
    PROVE  0 * x = 0 /\ x * 0 = 0
  OBVIOUS

(* The clamps map every value the settings can hold into range.            *)
LEMMA ClampsInRange ==
    ASSUME NEW r \in Nat, NEW i \in Nat
    PROVE  /\ dual_clamp_ratio(r) \in Nat /\ dual_clamp_ratio(r) <= 100
           /\ dual_clamp_interval(i) \in Nat
           /\ 100 <= dual_clamp_interval(i) /\ dual_clamp_interval(i) <= 60000
  BY DEF dual_clamp_ratio, dual_clamp_interval

(* One slice keeps the accumulator in range and equal to the debt, and     *)
(* bounds the run of its owner.                                            *)
LEMMA AdvanceSliceStep ==
    ASSUME SchedulerTypeOK, AccIsDebt, RunBound, AdvanceSlice, UNCHANGED ratio_a
    PROVE  /\ acc' \in Nat /\ acc' < 100 /\ current' \in {"A", "B"}
           /\ slices' = slices + 1 /\ slices' \in Nat
           /\ slicesA' \in Nat /\ run' \in Nat
           /\ AccIsDebt'
           /\ RunBound'
           /\ OwnerMatchesDebt'
  <1>1. /\ ratio_a \in Nat /\ ratio_a <= 100 /\ acc \in Nat /\ acc < 100 /\ current \in {"A", "B"}
        /\ slices \in Nat /\ slicesA \in Nat /\ run \in Nat
    BY DEF SchedulerTypeOK
  <1>2. /\ ratio_a * (slices + 1) = ratio_a * slices + ratio_a
        /\ ratio_a * slices \in Int
    BY <1>1
  <1>3. slices' = slices + 1 /\ ratio_a' = ratio_a
    BY DEF AdvanceSlice
  <1>4. CASE /\ acc + ratio_a >= 100
             /\ acc' = acc + ratio_a - 100 /\ current' = "A"
             /\ slicesA' = slicesA + 1 /\ run' = RunWith("A")
    <2>1. AccIsDebt'
      BY <1>1, <1>2, <1>3, <1>4 DEF AccIsDebt
    <2>2. run' \in Nat /\ acc' + run' * (100 - ratio_a) < 100
      <3>1. CASE slices > 0 /\ current = "A"
        <4>1. run' = run + 1 /\ acc + run * (100 - ratio_a) < 100
          BY <1>4, <3>1 DEF RunWith, RunBound
        <4>2. /\ (run + 1) * (100 - ratio_a) = run * (100 - ratio_a) + (100 - ratio_a)
              /\ run * (100 - ratio_a) \in Int
          BY <1>1
        <4> QED BY <1>1, <1>4, <4>1, <4>2
      <3>2. CASE ~(slices > 0 /\ current = "A")
        BY <1>1, <1>4, <3>2 DEF RunWith
      <3> QED BY <3>1, <3>2
    <2>3. RunBound' /\ OwnerMatchesDebt'
      BY <1>1, <1>3, <1>4, <2>2 DEF RunBound, OwnerMatchesDebt
    <2> QED BY <1>1, <1>3, <1>4, <2>1, <2>2, <2>3
  <1>5. CASE /\ acc + ratio_a < 100
             /\ acc' = acc + ratio_a /\ current' = "B"
             /\ slicesA' = slicesA /\ run' = RunWith("B")
    <2>1. AccIsDebt'
      BY <1>1, <1>2, <1>3, <1>5 DEF AccIsDebt
    <2>2. run' \in Nat /\ run' * ratio_a <= acc'
      <3>1. CASE slices > 0 /\ current = "B"
        <4>1. run' = run + 1 /\ run * ratio_a <= acc
          BY <1>5, <3>1 DEF RunWith, RunBound
        <4>2. (run + 1) * ratio_a = run * ratio_a + ratio_a /\ run * ratio_a \in Int
          BY <1>1
        <4> QED BY <1>1, <1>5, <4>1, <4>2
      <3>2. CASE ~(slices > 0 /\ current = "B")
        BY <1>1, <1>5, <3>2 DEF RunWith
      <3> QED BY <3>1, <3>2
    <2>3. RunBound' /\ OwnerMatchesDebt'
      BY <1>1, <1>3, <1>5, <2>2 DEF RunBound, OwnerMatchesDebt
    <2> QED BY <1>1, <1>3, <1>5, <2>1, <2>2, <2>3
  <1> QED BY <1>4, <1>5 DEF AdvanceSlice

-----------------------------------------------------------------------------
LEMMA InitSchedulerInv == SchedulerInit => SchedulerInv
  <1> SUFFICES ASSUME SchedulerInit PROVE SchedulerInv
    OBVIOUS
  <1>1. SchedulerTypeOK
    <2>1. PICK r \in RatioInputs, i \in IntervalInputs :
              /\ dual_ratio_a = r /\ dual_interval_ms = i
              /\ ratio_a = dual_clamp_ratio(r)
              /\ interval_ms = dual_clamp_interval(i)
      BY DEF SchedulerInit
    <2>2. r \in Nat /\ i \in Nat /\ r <= 255 /\ i <= 65535
      BY SchedulerAssumption
    <2>3. /\ ratio_a \in Nat /\ ratio_a <= 100
          /\ interval_ms \in Nat /\ 100 <= interval_ms /\ interval_ms <= 60000
      BY <2>1, <2>2, ClampsInRange
    <2>4. initialized \in BOOLEAN
      BY DEF SchedulerInit
    <2>5. /\ acc = 0 /\ current = "A" /\ slice_start_us = 0 /\ clock = 0 /\ now_us = 0
          /\ elapsed_ms = 0 /\ pc = "idle" /\ slices = 0 /\ slicesA = 0 /\ run = 0 /\ first_us = 0
      BY DEF SchedulerInit
    <2> QED BY <2>1, <2>2, <2>3, <2>4, <2>5 DEF SchedulerTypeOK
  <1>2. AccIsDebt
    <2>1. ratio_a * 0 = 0
      BY <1>1, ZeroProduct DEF SchedulerTypeOK
    <2> QED BY <2>1 DEF SchedulerInit, AccIsDebt
  <1>3. RunBound /\ OwnerMatchesDebt /\ NoSliceYet
    BY DEF SchedulerInit, RunBound, OwnerMatchesDebt, NoSliceYet
  <1>4. Tiling /\ CatchUpProgress
    BY DEF SchedulerInit, Tiling, CatchUpProgress
  <1> QED BY <1>1, <1>2, <1>3, <1>4 DEF SchedulerInv

LEMMA NextSchedulerInv == SchedulerInv /\ [SchedulerNext]_scheduler_vars => SchedulerInv'
  <1> SUFFICES ASSUME SchedulerInv, [SchedulerNext]_scheduler_vars PROVE SchedulerInv'
    OBVIOUS
  <1> USE DEF struct, settings, history
  <1>1. ASSUME NEW r \in RatioInputs, NEW i \in IntervalInputs, Reinit(r, i)
        PROVE  SchedulerInv'
    <2>1. r \in Nat /\ i \in Nat /\ r <= 255 /\ i <= 65535
      BY SchedulerAssumption
    <2>2. SchedulerTypeOK'
      <3>1. /\ ratio_a' \in Nat /\ ratio_a' <= 100
            /\ interval_ms' \in Nat /\ 100 <= interval_ms' /\ interval_ms' <= 60000
        BY <1>1, <2>1, ClampsInRange DEF Reinit, Fresh
      <3>2. initialized' \in BOOLEAN
        BY <1>1 DEF Reinit, Fresh
      <3>3. /\ dual_ratio_a' = r /\ dual_interval_ms' = i
            /\ acc' = 0 /\ current' = "A" /\ slice_start_us' = clock
            /\ slices' = 0 /\ slicesA' = 0 /\ run' = 0 /\ first_us' = clock
            /\ UNCHANGED <<clock, now_us, elapsed_ms, pc>>
        BY <1>1 DEF Reinit, Fresh
      <3> QED BY <2>1, <3>1, <3>2, <3>3 DEF SchedulerInv, SchedulerTypeOK
    <2>3. AccIsDebt'
      <3>1. ratio_a' * 0 = 0
        <4>1. ratio_a' \in Int
          BY <2>2 DEF SchedulerTypeOK
        <4> QED BY <4>1, ZeroProduct
      <3> QED BY <1>1, <3>1 DEF Reinit, Fresh, AccIsDebt
    <2>4. RunBound' /\ OwnerMatchesDebt' /\ NoSliceYet'
      BY <1>1 DEF Reinit, Fresh, RunBound, OwnerMatchesDebt, NoSliceYet
    <2>5. Tiling' /\ CatchUpProgress'
      BY <1>1 DEF Reinit, Fresh, Tiling, CatchUpProgress, SchedulerInv
    <2> QED BY <2>2, <2>3, <2>4, <2>5 DEF SchedulerInv
  <1>2. CASE SelectFirst
    <2>1. AdvanceSlice /\ UNCHANGED ratio_a
      BY <1>2 DEF SelectFirst
    <2>2. /\ acc' \in Nat /\ acc' < 100 /\ current' \in {"A", "B"}
          /\ slices' = 1 /\ slicesA' \in Nat /\ run' \in Nat
          /\ AccIsDebt' /\ RunBound' /\ OwnerMatchesDebt'
      BY <1>2, <2>1, AdvanceSliceStep DEF SchedulerInv, NoSliceYet, SelectFirst
    <2>3. SchedulerTypeOK'
      BY <1>2, <2>2 DEF SelectFirst, SchedulerInv, SchedulerTypeOK
    <2>4. Tiling' /\ CatchUpProgress' /\ NoSliceYet'
      <3>1. (slices' - 1) * (interval_ms' * 1000) = 0
        <4> DEFINE k == slices' - 1
                   m == interval_ms' * 1000
        <4>1. k = 0
          BY <2>2
        <4>2. m \in Int
          BY <2>3 DEF SchedulerTypeOK
        <4>3. k * m = 0
          <5> HIDE DEF k, m
          <5> QED BY <4>1, <4>2, ZeroProduct
        <4> QED BY <4>3
      <3> QED BY <1>2, <2>2, <2>3, <3>1
              DEF SelectFirst, SchedulerInv, SchedulerTypeOK, NoSliceYet, Tiling, CatchUpProgress
    <2> QED BY <2>2, <2>3, <2>4 DEF SchedulerInv
  <1>3. CASE SelectBegin
    <2>1. clock - slice_start_us \in Nat
      BY <1>3 DEF SelectBegin, SchedulerInv, SchedulerTypeOK, Tiling, CatchUpProgress
    <2>2. SchedulerTypeOK'
      BY <1>3, <2>1 DEF SelectBegin, SchedulerInv, SchedulerTypeOK
    <2> QED BY <1>3, <2>1, <2>2 DEF SelectBegin, SchedulerInv, SchedulerTypeOK, AccIsDebt, RunBound, OwnerMatchesDebt,
                              NoSliceYet, Tiling, CatchUpProgress
  <1>4. CASE SelectCatchUp
    <2>1. AdvanceSlice /\ UNCHANGED ratio_a
      BY <1>4 DEF SelectCatchUp
    <2>2. /\ acc' \in Nat /\ acc' < 100 /\ current' \in {"A", "B"}
          /\ slices' = slices + 1 /\ slices' \in Nat /\ slicesA' \in Nat /\ run' \in Nat
          /\ AccIsDebt' /\ RunBound' /\ OwnerMatchesDebt'
      BY <2>1, AdvanceSliceStep DEF SchedulerInv
    <2>3. initialized
      BY <1>4 DEF SelectCatchUp, SchedulerInv, NoSliceYet
    <2> DEFINE len == interval_ms * 1000
    <2>4. SchedulerTypeOK'
      BY <1>4, <2>2 DEF SelectCatchUp, SchedulerInv, SchedulerTypeOK
    <2>5. /\ slice_start_us' = slice_start_us + len
          /\ elapsed_ms' = elapsed_ms - interval_ms
          /\ UNCHANGED <<interval_ms, now_us, clock, first_us, pc, initialized>>
      BY <1>4 DEF SelectCatchUp
    <2>6. slice_start_us' <= now_us
      <3>1. interval_ms <= (now_us - slice_start_us) \div 1000
        BY <1>4 DEF SelectCatchUp, SchedulerInv, CatchUpProgress
      <3> QED BY <2>5, <3>1 DEF SchedulerInv, SchedulerTypeOK
    <2>7. Tiling'
      <3>1. slice_start_us = first_us + (slices - 1) * len
        BY <2>3 DEF SchedulerInv, Tiling
      <3>2. (slices - 1) * len + len = slices * len
        BY DEF SchedulerInv, SchedulerTypeOK
      <3> QED BY <2>2, <2>3, <2>4, <2>5, <2>6, <3>1, <3>2 DEF Tiling, SchedulerInv, SchedulerTypeOK
    <2>8. CatchUpProgress'
      <3>1. (now_us - (slice_start_us + interval_ms * 1000)) \div 1000
              = (now_us - slice_start_us) \div 1000 - interval_ms
        BY DEF SchedulerInv, SchedulerTypeOK
      <3> QED BY <1>4, <2>5, <3>1 DEF SelectCatchUp, SchedulerInv, CatchUpProgress
    <2>9. NoSliceYet'
      BY <2>3, <2>5 DEF NoSliceYet
    <2> QED BY <2>2, <2>4, <2>7, <2>8, <2>9 DEF SchedulerInv
  <1>5. CASE SelectReturn
    <2>1. now_us < slice_start_us + interval_ms * 1000
      <3>1. (now_us - slice_start_us) \div 1000 < interval_ms
        BY <1>5 DEF SelectReturn, SchedulerInv, CatchUpProgress
      <3> QED BY <3>1 DEF SchedulerInv, SchedulerTypeOK
    <2> QED BY <1>5, <2>1 DEF SelectReturn, SchedulerInv, SchedulerTypeOK, AccIsDebt, RunBound, OwnerMatchesDebt,
                              NoSliceYet, Tiling, CatchUpProgress
  <1>6. ASSUME NEW d \in ClockSteps, Tick(d)
        PROVE  SchedulerInv'
    BY <1>6, SchedulerAssumption DEF Tick, SchedulerInv, SchedulerTypeOK, AccIsDebt, RunBound, OwnerMatchesDebt,
                              NoSliceYet, Tiling, CatchUpProgress
  <1>7. CASE UNCHANGED scheduler_vars
    BY <1>7 DEF scheduler_vars, SchedulerInv, SchedulerTypeOK, AccIsDebt, RunBound, OwnerMatchesDebt,
                              NoSliceYet, Tiling, CatchUpProgress
  <1> QED BY <1>1, <1>2, <1>3, <1>4, <1>5, <1>6, <1>7 DEF SchedulerNext

(* Every reachable state satisfies the inductive invariant.                *)
THEOREM SchedulerInvariance == SchedulerSpec => []SchedulerInv
  BY InitSchedulerInv, NextSchedulerInv, PTL DEF SchedulerSpec

(* The struct's fields never leave their ranges; in particular the         *)
(* accumulator of advance_slice stays in 0..99 for every ratio.            *)
THEOREM SchedulerTypeCorrect == SchedulerSpec => []SchedulerTypeOK
  <1>1. SchedulerInv => SchedulerTypeOK
    BY DEF SchedulerInv
  <1> QED BY <1>1, SchedulerInvariance, PTL

(* Pool A holds its share to within one slice, for every ratio, interval,  *)
(* call pattern and length of run.                                         *)
THEOREM ShareCorrect == SchedulerSpec => []ShareWithinOneSlice
  <1>1. SchedulerInv => ShareWithinOneSlice
    <2> SUFFICES ASSUME SchedulerInv PROVE ShareWithinOneSlice
      OBVIOUS
    <2>1. ratio_a * slices \in Int /\ acc = ratio_a * slices - 100 * slicesA
      BY DEF SchedulerInv, AccIsDebt, SchedulerTypeOK
    <2> QED BY <2>1 DEF SchedulerInv, SchedulerTypeOK, ShareWithinOneSlice
  <1> QED BY <1>1, SchedulerInvariance, PTL

(* No pool with a non-zero share waits longer than 100 / share slices.     *)
THEOREM StarvationFree == SchedulerSpec => []NoStarvation
  <1>1. SchedulerInv => NoStarvation
    <2> SUFFICES ASSUME SchedulerInv PROVE NoStarvation
      OBVIOUS
    <2>1. CASE slices = 0
      BY <2>1 DEF SchedulerInv, SchedulerTypeOK, Tiling, NoSliceYet, NoStarvation
    <2>2. CASE slices > 0
      BY <2>2 DEF SchedulerInv, SchedulerTypeOK, RunBound, NoStarvation
    <2> QED BY <2>1, <2>2 DEF SchedulerInv, SchedulerTypeOK
  <1> QED BY <1>1, SchedulerInvariance, PTL

(* A returning call answers for the slice that contains its time.          *)
THEOREM CallCovered == SchedulerSpec => []SliceCoversCall
  <1>1. SchedulerInv => SliceCoversCall
    BY DEF SchedulerInv, SchedulerTypeOK, Tiling, CatchUpProgress, SliceCoversCall
  <1> QED BY <1>1, SchedulerInvariance, PTL

(* The pool returned depends on the time since the first call alone, not   *)
(* on the calls in between.                                                *)
THEOREM TimeDeterminesOwner == SchedulerSpec => []OwnerIsFunctionOfTime
  <1>1. SchedulerInv => OwnerIsFunctionOfTime
    <2> SUFFICES ASSUME SchedulerInv, pc = "idle", initialized
                 PROVE  current = OwnerOf((now_us - first_us) \div (interval_ms * 1000) + 1)
      BY DEF OwnerIsFunctionOfTime
    <2> DEFINE len == interval_ms * 1000
               x == now_us - first_us
               q == slices - 1
    <2>1. len \in Nat \ {0} /\ q \in Nat
      BY DEF SchedulerInv, SchedulerTypeOK, Tiling
    <2>2. q * len \in Nat
      BY <2>1
    <2>3. slice_start_us = first_us + q * len
      BY DEF SchedulerInv, Tiling
    <2>4. x \in Nat /\ q * len <= x /\ x < q * len + len
      BY <2>2, <2>3 DEF SchedulerInv, SchedulerTypeOK, Tiling, CatchUpProgress
    <2>5. x \div len = q
      <3> HIDE DEF len, x, q
      <3> QED BY <2>1, <2>4, QuotientUnique
    <2>6. (slices * ratio_a) % 100 = acc
      <3>1. slices * ratio_a \in Nat /\ slices * ratio_a = acc + 100 * slicesA
        BY DEF SchedulerInv, SchedulerTypeOK, AccIsDebt
      <3> QED BY <3>1 DEF SchedulerInv, SchedulerTypeOK
    <2>7. OwnerOf(x \div len + 1) = OwnerOf(slices)
      BY <2>5 DEF SchedulerInv, SchedulerTypeOK
    <2> QED BY <2>6, <2>7, <2>1 DEF OwnerOf, SchedulerInv, SchedulerTypeOK, OwnerMatchesDebt
  <1> QED BY <1>1, SchedulerInvariance, PTL

-----------------------------------------------------------------------------
(* The work queue.                                                         *)

USE QueueAssumption

(* Indices stay below twice the size, where % subtracts it at most once.   *)
LEMMA Modulo ==
    ASSUME NEW i \in 0..2 * QueueSize - 1
    PROVE  i % QueueSize = IF i < QueueSize THEN i ELSE i - QueueSize
<1>1. CASE i < QueueSize
  BY <1>1, SMTT(30)
<1>2. CASE ~(i < QueueSize)
  BY <1>2, SMTT(30)
<1> QED
  BY <1>1, <1>2

LEMMA ModuloSlot == ASSUME NEW i \in Slots PROVE i % QueueSize = i
BY SMTT(30) DEF Slots

(* Both ends move by one slot, in step with the count.                     *)
LEMMA TailMoves ==
    ASSUME NEW h \in Slots, NEW c \in 0..QueueSize - 1
    PROVE  (((h + c) % QueueSize) + 1) % QueueSize = (h + (c + 1)) % QueueSize
<1>1. (h + c) % QueueSize = IF h + c < QueueSize THEN h + c ELSE h + c - QueueSize
  BY Modulo DEF Slots
<1>2. (h + (c + 1)) % QueueSize = IF h + (c + 1) < QueueSize THEN h + (c + 1) ELSE h + (c + 1) - QueueSize
  BY Modulo DEF Slots
<1>3. ASSUME NEW r \in 0..QueueSize - 1
      PROVE  (r + 1) % QueueSize = IF r + 1 < QueueSize THEN r + 1 ELSE 0
  BY Modulo
<1>4. (h + c) % QueueSize \in 0..QueueSize - 1
  BY <1>1 DEF Slots
<1> HIDE QueueAssumption
<1> QED
  BY <1>1, <1>2, <1>3, <1>4, QueueAssumption DEF Slots

LEMMA HeadMoves ==
    ASSUME NEW h \in Slots, NEW c \in 1..QueueSize
    PROVE  (h + c) % QueueSize = (((h + 1) % QueueSize) + (c - 1)) % QueueSize
<1>1. (h + c) % QueueSize = IF h + c < QueueSize THEN h + c ELSE h + c - QueueSize
  BY Modulo DEF Slots
<1>2. (h + 1) % QueueSize = IF h + 1 < QueueSize THEN h + 1 ELSE 0
  BY Modulo DEF Slots
<1>3. ASSUME NEW r \in 0..QueueSize - 1
      PROVE  (r + (c - 1)) % QueueSize = IF r + (c - 1) < QueueSize THEN r + (c - 1) ELSE r + (c - 1) - QueueSize
  BY Modulo
<1>4. (h + 1) % QueueSize \in 0..QueueSize - 1
  BY <1>2 DEF Slots
<1> QED
  BY <1>1, <1>2, <1>3, <1>4 DEF Slots

(* The inductive invariant: the tail is count slots past the head, and     *)
(* only producers enqueue, items.                                          *)
TailInv  == tail = (head + count) % QueueSize
CallsInv == \A t \in Threads : at[t] \in {"enqueue", "not_full"} => t \in Producers /\ item[t] \in Items
QueueInv     == TypeOK /\ TailInv /\ CallsInv

(* Who a signal wakes is back in the call it waited in.                    *)
LEMMA SignalType ==
    ASSUME TypeOK, NEW t \in Threads, NEW W \in SUBSET Threads, ReturnAndSignal(t, W)
    PROVE  at' \in [Threads -> Places]
BY DEF TypeOK, ReturnAndSignal, Put, Woken, Places

LEMMA SignalCalls ==
    ASSUME TypeOK, CallsInv, NEW t \in Threads, NEW W \in SUBSET Threads,
           W = WaitingFull \/ W = WaitingEmpty,
           ReturnAndSignal(t, W), \A u \in Threads : u # t => item'[u] = item[u]
    PROVE  CallsInv'
<1>1. ASSUME NEW u \in Threads, at'[u] \in {"enqueue", "not_full"}
      PROVE  u # t /\ at[u] \in {"enqueue", "not_full"}
  BY <1>1 DEF TypeOK, ReturnAndSignal, Put, Woken, Places, WaitingFull, WaitingEmpty
<1> QED
  BY <1>1 DEF CallsInv

LEMMA InitQueueInv == Init => QueueInv
<1> SUFFICES ASSUME Init PROVE QueueInv
  OBVIOUS
<1>1. TypeOK
  BY DEF Init, TypeOK, Slots, Places
<1>2. TailInv
  BY Modulo DEF Init, TailInv
<1> QED
  BY <1>1, <1>2 DEF QueueInv, CallsInv, Init

LEMMA EnqueueKeeps == ASSUME QueueInv, NEW t \in Threads, Enqueue(t) PROVE QueueInv'
<1> USE DEF QueueInv, TypeOK, Slots
<1>1. t \in Producers /\ item[t] \in Items
  BY DEF CallsInv, Enqueue
<1>2. at' \in [Threads -> Places]
  BY SignalType DEF Enqueue, WaitingEmpty
<1>3. tail' \in Slots /\ count' \in 0..QueueSize
  BY Modulo DEF Enqueue, Store
<1>4. TypeOK'
  BY <1>1, <1>2, <1>3 DEF Enqueue, Store
<1>5. TailInv'
  BY TailMoves DEF Enqueue, Store, TailInv
<1>6. CallsInv'
  <2>1. WaitingEmpty \in SUBSET Threads /\ ReturnAndSignal(t, WaitingEmpty)
    BY DEF Enqueue, WaitingEmpty
  <2>2. \A u \in Threads : u # t => item'[u] = item[u]
    BY DEF Enqueue, Store
  <2> QED
    BY <2>1, <2>2, SignalCalls
<1> QED
  BY <1>4, <1>5, <1>6

LEMMA DequeueKeeps == ASSUME QueueInv, NEW t \in Threads, Dequeue(t) PROVE QueueInv'
<1> USE DEF QueueInv, TypeOK, Slots
<1>2. at' \in [Threads -> Places]
  BY SignalType DEF Dequeue, WaitingFull
<1>3. head' \in Slots /\ count' \in 0..QueueSize
  BY Modulo DEF Dequeue, Fetch
<1>4. TypeOK'
  BY <1>2, <1>3 DEF Dequeue, Fetch
<1>5. TailInv'
  <2>1. head \in Slots /\ count \in 1..QueueSize
    BY DEF Dequeue, Fetch
  <2>2. (head + count) % QueueSize = (((head + 1) % QueueSize) + (count - 1)) % QueueSize
    BY <2>1, HeadMoves
  <2> QED
    BY <2>2 DEF Dequeue, Fetch, TailInv
<1>6. CallsInv'
  <2>1. WaitingFull \in SUBSET Threads /\ ReturnAndSignal(t, WaitingFull)
    BY DEF Dequeue, WaitingFull
  <2>2. \A u \in Threads : u # t => item'[u] = item[u]
    BY DEF Dequeue, Fetch
  <2> QED
    BY <2>1, <2>2, SignalCalls
<1> QED
  BY <1>4, <1>5, <1>6

LEMMA ClearKeeps == ASSUME QueueInv, NEW t \in Threads, Clear(t) PROVE QueueInv'
<1> USE DEF QueueInv, TypeOK, Slots
<1>2. at' \in [Threads -> Places]
  BY SignalType DEF Clear, WaitingFull
<1>3. head' \in Slots /\ count' \in 0..QueueSize
  BY Modulo DEF Clear
<1>4. TypeOK'
  BY <1>2, <1>3 DEF Clear
<1>5. TailInv'
  <2>1. tail = head' /\ head' + count' = head' /\ tail' = tail
    BY <1>3 DEF Clear, TailInv
  <2>2. head' % QueueSize = head'
    BY <1>3, ModuloSlot
  <2> QED
    BY <1>3, <2>1, <2>2 DEF TailInv
<1>6. CallsInv'
  <2>1. WaitingFull \in SUBSET Threads /\ ReturnAndSignal(t, WaitingFull)
    BY DEF Clear, WaitingFull
  <2>2. \A u \in Threads : u # t => item'[u] = item[u]
    BY DEF Clear
  <2> QED
    BY <2>1, <2>2, SignalCalls
<1> QED
  BY <1>4, <1>5, <1>6

(* The other steps leave the ring alone.                                   *)
LEMMA OthersKeep ==
    ASSUME QueueInv, NEW t \in Threads,
           \/ AwaitRoom(t) \/ AwaitItem(t) \/ Expire(t) \/ ReturnNull(t)
           \/ WakeUp(t) \/ CallEnqueue(t) \/ CallDequeue(t)
    PROVE  QueueInv'
<1> USE DEF QueueInv, TypeOK, Places, Put, ring
<1>1. TypeOK'
  BY DEF AwaitRoom, AwaitItem, Expire, ReturnNull, WakeUp, CallEnqueue, CallDequeue, Woken
<1>2. TailInv'
  BY DEF AwaitRoom, AwaitItem, Expire, ReturnNull, WakeUp, CallEnqueue, CallDequeue, TailInv
<1>3. CallsInv'
  BY DEF AwaitRoom, AwaitItem, Expire, ReturnNull, WakeUp, CallEnqueue, CallDequeue, Woken, CallsInv
<1> QED
  BY <1>1, <1>2, <1>3

LEMMA NextKeeps == QueueInv /\ [Next]_vars => QueueInv'
<1> SUFFICES ASSUME QueueInv, [Next]_vars PROVE QueueInv'
  OBVIOUS
<1>1. CASE UNCHANGED vars
  BY <1>1 DEF vars, ring, QueueInv, TypeOK, TailInv, CallsInv
<1>2. CASE Next
  BY <1>2, EnqueueKeeps, DequeueKeeps, ClearKeeps, OthersKeep DEF Next, Proceed
<1> QED
  BY <1>1, <1>2

(* The ring is always a stretch of slots from the head to the tail.        *)
THEOREM QueueInvariance == Spec => []QueueInv
BY InitQueueInv, NextKeeps, PTL DEF Spec

(* Indices and counts stay in range, of every call in any order.           *)
THEOREM QueueTypeCorrect == Spec => []TypeOK
BY QueueInvariance, PTL DEF QueueInv

-----------------------------------------------------------------------------
(* Refinement.  The contents as a function of the ring, for lemmas that    *)
(* mention one state only.                                                 *)
Held(b, h, c) == [k \in 1..c |-> b[(h + k - 1) % QueueSize]]
Values        == Items \cup {NULL}

LEMMA HeldSeq ==
    ASSUME NEW b \in [Slots -> Values], NEW h \in Slots, NEW c \in 0..QueueSize
    PROVE  /\ Held(b, h, c) \in Seq(Values)
           /\ Len(Held(b, h, c)) = c
           /\ \A k \in 1..c : Held(b, h, c)[k] = b[(h + k - 1) % QueueSize]
<1>1. \A k \in 1..c : (h + k - 1) % QueueSize \in Slots
  BY Modulo DEF Slots
<1>2. Held(b, h, c) \in [1..c -> Values]
  BY <1>1 DEF Held
<1> QED
  BY <1>2 DEF Held

(* Two sequences with the same length and elements are the same.           *)
LEMMA SameSeq ==
    ASSUME NEW n \in Nat, NEW s \in Seq(Values), NEW r \in Seq(Values), Len(s) = n, Len(r) = n,
           \A k \in 1..n : s[k] = r[k]
    PROVE  s = r
OBVIOUS

LEMMA SlotOfSum == ASSUME NEW h \in Slots, NEW c \in 0..QueueSize PROVE (h + c) % QueueSize \in Slots
BY Modulo DEF Slots

LEMMA SlotsDiffer ==
    ASSUME NEW h \in Slots, NEW c \in 0..QueueSize - 1, NEW k \in 1..c
    PROVE  (h + k - 1) % QueueSize \in Slots /\ (h + k - 1) % QueueSize # (h + c) % QueueSize
BY Modulo DEF Slots

LEMMA SeqAppend ==
    ASSUME NEW n \in Nat, NEW s \in Seq(Values), Len(s) = n, NEW x \in Values
    PROVE  /\ Append(s, x) \in Seq(Values) /\ Len(Append(s, x)) = n + 1
           /\ Append(s, x)[n + 1] = x
           /\ \A k \in 1..n : Append(s, x)[k] = s[k]
OBVIOUS

(* A store at the tail is an append.                                       *)
LEMMA HeldAppend ==
    ASSUME NEW b \in [Slots -> Values], NEW b2 \in [Slots -> Values], NEW h \in Slots,
           NEW c \in 0..QueueSize - 1, NEW x \in Values,
           NEW e \in Slots, e = (h + c) % QueueSize,
           b2[e] = x, \A i \in Slots : i # e => b2[i] = b[i]
    PROVE  Held(b2, h, c + 1) = Append(Held(b, h, c), x)
<1>0. c \in 0..QueueSize /\ c + 1 \in 0..QueueSize /\ c \in Nat /\ c + 1 \in Nat
  BY QueueAssumption
<1>1. /\ Held(b, h, c) \in Seq(Values) /\ Len(Held(b, h, c)) = c
      /\ \A k \in 1..c : Held(b, h, c)[k] = b[(h + k - 1) % QueueSize]
  BY <1>0, HeldSeq
<1>2. /\ Held(b2, h, c + 1) \in Seq(Values) /\ Len(Held(b2, h, c + 1)) = c + 1
      /\ \A k \in 1..c + 1 : Held(b2, h, c + 1)[k] = b2[(h + k - 1) % QueueSize]
  BY <1>0, HeldSeq
<1>3. /\ Append(Held(b, h, c), x) \in Seq(Values) /\ Len(Append(Held(b, h, c), x)) = c + 1
      /\ Append(Held(b, h, c), x)[c + 1] = x
      /\ \A k \in 1..c : Append(Held(b, h, c), x)[k] = Held(b, h, c)[k]
  BY <1>0, <1>1, SeqAppend
<1>4. ASSUME NEW k \in 1..c + 1 PROVE Held(b2, h, c + 1)[k] = Append(Held(b, h, c), x)[k]
  <2>1. k = c + 1 \/ k \in 1..c
    BY <1>0
  <2>2. CASE k = c + 1
    <3>1. h + k - 1 = h + c
      BY <1>0, <2>2 DEF Slots
    <3> QED
      BY <1>2, <1>3, <2>2, <3>1
  <2>3. CASE k \in 1..c
    <3>1. (h + k - 1) % QueueSize \in Slots /\ (h + k - 1) % QueueSize # e
      BY <2>3, SlotsDiffer
    <3>2. b2[(h + k - 1) % QueueSize] = b[(h + k - 1) % QueueSize]
      BY <3>1
    <3> QED
      BY <1>1, <1>2, <1>3, <2>3, <3>2
  <2> QED
    BY <2>1, <2>2, <2>3
<1> QED
  BY <1>0, <1>2, <1>3, <1>4, SameSeq

LEMMA HeldTail ==
    ASSUME NEW b \in [Slots -> Values], NEW h \in Slots, NEW c \in 1..QueueSize,
           NEW h2 \in Slots, h2 = (h + 1) % QueueSize
    PROVE  /\ Held(b, h, c) # <<>> /\ Head(Held(b, h, c)) = b[h]
           /\ Held(b, h2, c - 1) = Tail(Held(b, h, c))
<1>0. c \in 0..QueueSize /\ c - 1 \in 0..QueueSize
  OBVIOUS
<1>1. PICK s \in Seq(Values) : s = Held(b, h, c)
  BY <1>0, HeldSeq
<1>2. Len(s) = c /\ \A k \in 1..c : s[k] = b[(h + k - 1) % QueueSize]
  BY <1>0, <1>1, HeldSeq
<1>3. s # <<>> /\ Head(s) = b[h]
  <2>1. s # <<>> /\ Head(s) = s[1] /\ s[1] = b[(h + 1 - 1) % QueueSize]
    BY <1>2
  <2>2. (h + 1 - 1) % QueueSize = h
    BY ModuloSlot DEF Slots
  <2> QED
    BY <2>1, <2>2
<1>4. Tail(s) \in Seq(Values) /\ Len(Tail(s)) = c - 1 /\ \A k \in 1..c - 1 : Tail(s)[k] = s[k + 1]
  BY <1>2, <1>3
<1>5. PICK r \in Seq(Values) : r = Held(b, h2, c - 1)
  BY <1>0, HeldSeq
<1>6. Len(r) = c - 1 /\ \A k \in 1..c - 1 : r[k] = b[(h2 + k - 1) % QueueSize]
  BY <1>0, <1>5, HeldSeq
<1>7. ASSUME NEW k \in 1..c - 1 PROVE r[k] = Tail(s)[k]
  <2>0. k \in 1..QueueSize
    BY <1>0
  <2>1. (h + k) % QueueSize = (h2 + (k - 1)) % QueueSize
    BY <2>0, HeadMoves
  <2>2. h + (k + 1) - 1 = h + k /\ h2 + k - 1 = h2 + (k - 1)
    BY DEF Slots
  <2>3. Tail(s)[k] = b[(h + (k + 1) - 1) % QueueSize]
    BY <1>2, <1>4
  <2>4. r[k] = b[(h2 + k - 1) % QueueSize]
    BY <1>6
  <2> QED
    BY <2>1, <2>2, <2>3, <2>4
<1>8. r = Tail(s)
  BY <1>4, <1>6, <1>7, SameSeq
<1> QED
  BY <1>1, <1>3, <1>5, <1>8

LEMMA EnqueuePuts == ASSUME QueueInv, NEW t \in Threads, Enqueue(t) PROVE Queue!Put(item[t])
<1>1. buffer \in [Slots -> Values] /\ head \in Slots /\ count \in 0..QueueSize - 1 /\ item[t] \in Values
  BY DEF QueueInv, TypeOK, Enqueue, Values
<1>2. Contents = Held(buffer, head, count) /\ Contents' = Held(buffer', head', count')
  BY DEF Contents, Held
<1>3. Len(Contents) = count
  BY <1>1, <1>2, HeldSeq
<1>4. Contents' = Append(Contents, item[t])
  <2>1. tail \in Slots /\ tail = (head + count) % QueueSize
    BY DEF QueueInv, TypeOK, TailInv
  <2>2. /\ buffer' \in [Slots -> Values] /\ buffer'[tail] = item[t]
        /\ \A i \in Slots : i # tail => buffer'[i] = buffer[i]
    BY <1>1, <2>1 DEF Enqueue, Store
  <2>3. count' = count + 1 /\ head' = head
    BY DEF Enqueue, Store
  <2>4. Held(buffer', head, count + 1) = Append(Held(buffer, head, count), item[t])
    BY <1>1, <2>1, <2>2, HeldAppend
  <2> QED
    BY <1>2, <2>3, <2>4
<1> QED
  BY <1>1, <1>3, <1>4 DEF Queue!Put, Enqueue, Store

LEMMA DequeueTakes == ASSUME QueueInv, NEW t \in Threads, Dequeue(t) PROVE Queue!Take(t)
<1>1. buffer \in [Slots -> Values] /\ head \in Slots /\ count \in 1..QueueSize
  BY DEF QueueInv, TypeOK, Dequeue, Fetch, Values
<1>2. Contents = Held(buffer, head, count) /\ Contents' = Held(buffer', head', count')
  BY DEF Contents, Held
<1>3. Contents # <<>> /\ Head(Contents) = buffer[head] /\ Contents' = Tail(Contents)
  <2>1. (head + 1) % QueueSize \in Slots
    BY <1>1, SlotOfSum
  <2>2. /\ Held(buffer, head, count) # <<>> /\ Head(Held(buffer, head, count)) = buffer[head]
        /\ Held(buffer, (head + 1) % QueueSize, count - 1) = Tail(Held(buffer, head, count))
    BY <1>1, <2>1, HeldTail
  <2> QED
    BY <1>2, <2>2 DEF Dequeue, Fetch
<1> QED
  BY <1>3 DEF Queue!Take, Dequeue, Fetch

LEMMA ClearEmpties == ASSUME NEW t \in Threads, Clear(t) PROVE Queue!Empty
BY DEF Queue!Empty, Clear, Contents

LEMMA NextRefines == QueueInv /\ [Next]_vars => [Queue!Next]_<<Contents, got>>
<1> SUFFICES ASSUME QueueInv, [Next]_vars PROVE [Queue!Next]_<<Contents, got>>
  OBVIOUS
<1>1. CASE UNCHANGED vars
  BY <1>1 DEF vars, ring, Contents
<1>2. ASSUME NEW t \in Threads, Enqueue(t) PROVE Queue!Next
  BY <1>2, EnqueuePuts DEF Queue!Next, Enqueue, QueueInv, CallsInv
<1>3. ASSUME NEW t \in Threads, Dequeue(t) PROVE Queue!Next
  BY <1>3, DequeueTakes DEF Queue!Next
<1>4. ASSUME NEW t \in Threads, Clear(t) PROVE Queue!Next
  BY <1>4, ClearEmpties DEF Queue!Next
<1>5. ASSUME NEW t \in Threads, ReturnNull(t) PROVE Queue!Next
  BY <1>5 DEF ReturnNull, ring, Contents, Queue!Next, Queue!Miss
<1>6. ASSUME NEW t \in Threads,
             AwaitRoom(t) \/ AwaitItem(t) \/ Expire(t) \/ WakeUp(t) \/ CallEnqueue(t) \/ CallDequeue(t)
      PROVE  UNCHANGED <<Contents, got>>
  BY <1>6 DEF AwaitRoom, AwaitItem, Expire, WakeUp, CallEnqueue, CallDequeue, ring, Contents
<1> QED
  BY <1>1, <1>2, <1>3, <1>4, <1>5, <1>6 DEF Next, Proceed

LEMMA InitRefines == Init => Queue!Init
BY DEF Init, Queue!Init, Contents

(* The ring buffer with its waits is the first-in first-out queue of Fifo: *)
(* nothing is lost, given twice or overtaken, whoever calls what and       *)
(* wherever the indices wrap.                                              *)
THEOREM Refinement == Spec => QueueSpec
<1>1. Init => Queue!Init
  BY InitRefines
<1>2. QueueInv /\ [Next]_vars => [Queue!Next]_<<Contents, got>>
  BY NextRefines
<1> QED
  BY <1>1, <1>2, QueueInvariance, PTL DEF Spec, QueueSpec, Queue!Spec

-----------------------------------------------------------------------------
(* Signals.  Each one wakes a single thread, which is enough when nobody   *)
(* else can be waiting at that end.                                        *)
OnePerEnd  == (\E p \in Producers : Producers = {p}) /\ (\E c \in Consumers : Consumers = {c})
InDequeue  == {"dequeue", "not_empty", "timed", "timed_wait"}
TakersInv  == \A t \in Threads : at[t] \in InDequeue => t \in Producers \cup Consumers
SignalInv  == QueueInv /\ TakersInv /\ (OnePerEnd => NoLostSignal)

LEMMA TakersKept == ASSUME QueueInv, TakersInv, NEW t \in Threads,
                           Proceed(t) \/ WakeUp(t) \/ CallEnqueue(t) \/ CallDequeue(t) \/ Clear(t)
                    PROVE  TakersInv'
<1> USE DEF QueueInv, TypeOK, Places, InDequeue, TakersInv, Put, ReturnAndSignal, Woken, WaitingFull, WaitingEmpty
<1>1. CASE Enqueue(t) \/ Dequeue(t) \/ Clear(t)
  BY <1>1 DEF Enqueue, Dequeue, Clear, Store, Fetch
<1>2. CASE AwaitRoom(t) \/ AwaitItem(t) \/ Expire(t) \/ ReturnNull(t) \/ WakeUp(t)
           \/ CallEnqueue(t) \/ CallDequeue(t)
  BY <1>2 DEF AwaitRoom, AwaitItem, Expire, ReturnNull, WakeUp, CallEnqueue, CallDequeue
<1> QED
  BY <1>1, <1>2 DEF Proceed

LEMMA SignalKept == ASSUME QueueInv, TakersInv, NoLostSignal, NEW p, Producers = {p}, NEW c, Consumers = {c},
                           NEW t \in Threads,
                           Proceed(t) \/ WakeUp(t) \/ CallEnqueue(t) \/ CallDequeue(t) \/ Clear(t)
                    PROVE  NoLostSignal'
<1>0. at \in [Threads -> Places] /\ count \in 0..QueueSize
  BY DEF QueueInv, TypeOK
<1>1. WaitingFull \subseteq {p}
  BY DEF QueueInv, CallsInv, WaitingFull
<1>2. WaitingEmpty \subseteq {p, c}
  BY DEF TakersInv, InDequeue, WaitingEmpty
<1>3. CASE Enqueue(t)
  <2>1. t = p /\ at[p] = "enqueue" /\ count' = count + 1
    BY <1>3 DEF QueueInv, CallsInv, Enqueue, Store
  <2>2. WaitingEmpty \subseteq {c} /\ WaitingFull = {}
    BY <1>1, <1>2, <2>1 DEF WaitingEmpty, WaitingFull
  <2>3. WaitingEmpty' = {} /\ WaitingFull' = {}
    BY <1>0, <1>3, <2>1, <2>2 DEF Enqueue, ReturnAndSignal, Put, Woken, WaitingEmpty, WaitingFull
  <2> QED
    BY <2>3 DEF NoLostSignal
<1>4. CASE Dequeue(t)
  <2>1. WaitingFull' = {}
    BY <1>0, <1>1, <1>4 DEF Dequeue, Fetch, ReturnAndSignal, Put, Woken, WaitingFull
  <2>2. WaitingEmpty = {} /\ count # 0
    BY <1>4 DEF Dequeue, Fetch, NoLostSignal
  <2>3. WaitingEmpty' = {}
    BY <1>0, <1>4, <2>2 DEF Dequeue, ReturnAndSignal, Put, Woken, WaitingEmpty, WaitingFull
  <2> QED
    BY <2>1, <2>3 DEF NoLostSignal
<1>5. CASE Clear(t)
  <2>1. WaitingFull' = {}
    BY <1>0, <1>1, <1>5 DEF Clear, ReturnAndSignal, Put, Woken, WaitingFull
  <2> QED
    BY <1>5, <2>1 DEF NoLostSignal, Clear
<1>6. CASE AwaitRoom(t) \/ AwaitItem(t)
  BY <1>0, <1>6 DEF AwaitRoom, AwaitItem, Put, ring, NoLostSignal, WaitingFull, WaitingEmpty
<1>7. CASE Expire(t) \/ ReturnNull(t) \/ WakeUp(t) \/ CallEnqueue(t) \/ CallDequeue(t)
  <2>1. WaitingFull' \subseteq WaitingFull /\ WaitingEmpty' \subseteq WaitingEmpty /\ count' = count
    BY <1>0, <1>7 DEF Expire, ReturnNull, WakeUp, CallEnqueue, CallDequeue, Put, Woken, ring,
                      WaitingFull, WaitingEmpty
  <2> QED
    BY <2>1 DEF NoLostSignal
<1> QED
  BY <1>3, <1>4, <1>5, <1>6, <1>7 DEF Proceed

LEMMA SignalStep == SignalInv /\ [Next]_vars => SignalInv'
<1> SUFFICES ASSUME SignalInv, [Next]_vars PROVE SignalInv'
  OBVIOUS
<1>1. QueueInv'
  BY NextKeeps DEF SignalInv
<1>2. CASE UNCHANGED vars
  BY <1>1, <1>2 DEF SignalInv, vars, ring, TakersInv, NoLostSignal, WaitingFull, WaitingEmpty
<1>3. CASE Next
  <2>1. PICK t \in Threads : Proceed(t) \/ WakeUp(t) \/ CallEnqueue(t) \/ CallDequeue(t) \/ Clear(t)
    BY <1>3 DEF Next
  <2>2. TakersInv'
    BY <2>1, TakersKept DEF SignalInv
  <2>3. ASSUME OnePerEnd PROVE NoLostSignal'
    <3>1. PICK p \in Producers : Producers = {p}
      BY <2>3 DEF OnePerEnd
    <3>2. PICK c \in Consumers : Consumers = {c}
      BY <2>3 DEF OnePerEnd
    <3> QED
      BY <2>1, <2>3, <3>1, <3>2, SignalKept DEF SignalInv
  <2> QED
    BY <1>1, <2>2, <2>3 DEF SignalInv, OnePerEnd
<1> QED
  BY <1>2, <1>3

(* With one producer and one consumer, as each pool's queue has, nobody is *)
(* left waiting at an end of the ring that has become usable, however many *)
(* tasks clear the queue.                                                  *)
THEOREM SignalsReach == Spec => [](OnePerEnd => NoLostSignal)
<1>1. Init => SignalInv
  BY InitQueueInv DEF Init, SignalInv, TakersInv, InDequeue, NoLostSignal, WaitingFull, WaitingEmpty
<1>2. SignalInv => (OnePerEnd => NoLostSignal)
  BY DEF SignalInv
<1> QED
  BY <1>1, <1>2, SignalStep, PTL DEF Spec

(* The two ends never wait for each other: a producer that waits for room  *)
(* and a consumer that waits for an item would both wait for a signal that *)
(* neither can send.                                                       *)
THEOREM EndsNeverBothWait == Spec => [](OnePerEnd => WaitingFull = {} \/ WaitingEmpty = {})
<1>1. ASSUME OnePerEnd => NoLostSignal PROVE OnePerEnd => WaitingFull = {} \/ WaitingEmpty = {}
  <2> SUFFICES ASSUME OnePerEnd, WaitingFull # {}, WaitingEmpty # {} PROVE FALSE
    OBVIOUS
  <2>1. count = QueueSize /\ count = 0
    BY <1>1 DEF NoLostSignal
  <2> QED
    BY <2>1, QueueAssumption
<1>2. (OnePerEnd => NoLostSignal) => (OnePerEnd => WaitingFull = {} \/ WaitingEmpty = {})
  BY <1>1
<1> QED
  BY <1>2, SignalsReach, PTL
=============================================================================
