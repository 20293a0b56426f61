--------------------------- MODULE PoolScheduler ---------------------------
(***************************************************************************)
(* The weighted time-slice scheduler of the dual-pool build:               *)
(* components/dual_pool/pool_scheduler.c with dual_clamp.c, driven the way *)
(* create_jobs_task drives it.  One create_jobs_task owns the struct, so   *)
(* its fields are ordinary variables; the while loop that catches up with  *)
(* elapsed time is one action per iteration.                               *)
(***************************************************************************)
EXTENDS Integers

CONSTANTS RatioInputs,     \* values of dual_ratio_a the settings may hold (uint8_t)
          IntervalInputs,  \* values of dual_interval_ms the settings may hold (uint16_t)
          ClockSteps,      \* microseconds that may pass between two calls
          MaxClock         \* bound on the clock, for model checking

ASSUME SchedulerAssumption ==
    /\ RatioInputs \subseteq Nat /\ IntervalInputs \subseteq Nat
    /\ \A r \in RatioInputs : r <= 255
    /\ \A i \in IntervalInputs : i <= 65535
    /\ ClockSteps \subseteq Nat
    /\ MaxClock \in Nat

VARIABLES dual_ratio_a, dual_interval_ms,  \* the settings, as GlobalState holds them
          ratio_a, interval_ms, acc, current, slice_start_us, initialized,
          clock,          \* esp_timer_get_time()
          now_us,         \* the argument of the call in progress (or the last one)
          elapsed_ms,     \* the local of pool_scheduler_select
          pc,             \* "idle" between calls, "catchup" inside the while loop
          slices,         \* history: slices assigned since the last init
          slicesA,        \* history: those of them given to Pool A
          run,            \* history: slices in a row owned by `current`
          first_us        \* history: time of the first select since the last init

settings == <<dual_ratio_a, dual_interval_ms>>
struct  == <<ratio_a, interval_ms, acc, current, slice_start_us, initialized>>
history == <<slices, slicesA, run, first_us>>
scheduler_vars == <<settings, struct, clock, now_us, elapsed_ms, pc, history>>

dual_clamp_ratio(v)    == IF v < 0 THEN 0 ELSE IF v > 100 THEN 100 ELSE v
dual_clamp_interval(v) == IF v < 100 THEN 100 ELSE IF v > 60000 THEN 60000 ELSE v

-----------------------------------------------------------------------------
(* Faulty variants, used only to show that the properties can fail.        *)

AdvanceDropsRemainder ==
    /\ slices' = slices + 1
    /\ \/ /\ acc + ratio_a >= 100
          /\ acc' = 0 /\ current' = "A"
          /\ slicesA' = slicesA + 1 /\ run' = IF current = "A" THEN run + 1 ELSE 1
       \/ /\ acc + ratio_a < 100
          /\ acc' = acc + ratio_a /\ current' = "B"
          /\ slicesA' = slicesA /\ run' = IF current = "B" THEN run + 1 ELSE 1

-----------------------------------------------------------------------------
(* The run of slices of one owner, once the next slice goes to p.          *)
RunWith(p) == IF slices > 0 /\ current = p THEN run + 1 ELSE 1

(* advance_slice: error diffusion.                                         *)
AdvanceSlice ==
    /\ slices' = slices + 1
    /\ \/ /\ acc + ratio_a >= 100
          /\ acc' = acc + ratio_a - 100 /\ current' = "A"
          /\ slicesA' = slicesA + 1 /\ run' = RunWith("A")
       \/ /\ acc + ratio_a < 100
          /\ acc' = acc + ratio_a /\ current' = "B"
          /\ slicesA' = slicesA /\ run' = RunWith("B")

(* pool_scheduler_init with the settings' values r and i at time t.        *)
Fresh(r, i, t) ==
    /\ ratio_a' = dual_clamp_ratio(r)
    /\ interval_ms' = dual_clamp_interval(i)
    /\ acc' = 0
    /\ current' = "A"
    /\ slice_start_us' = t
    /\ initialized' = FALSE
    /\ slices' = 0 /\ slicesA' = 0 /\ run' = 0 /\ first_us' = t

SchedulerInit ==
    /\ \E r \in RatioInputs, i \in IntervalInputs :
          /\ dual_ratio_a = r /\ dual_interval_ms = i
          /\ ratio_a = dual_clamp_ratio(r)
          /\ interval_ms = dual_clamp_interval(i)
    /\ acc = 0 /\ current = "A" /\ slice_start_us = 0 /\ initialized = FALSE
    /\ clock = 0 /\ now_us = 0 /\ elapsed_ms = 0 /\ pc = "idle"
    /\ slices = 0 /\ slicesA = 0 /\ run = 0 /\ first_us = 0

(* create_jobs_task reads changed settings: it initialises the struct      *)
(* again before the next select.                                           *)
Reinit(r, i) ==
    /\ pc = "idle"
    /\ <<r, i>> # settings
    /\ dual_ratio_a' = r /\ dual_interval_ms' = i
    /\ Fresh(r, i, clock)
    /\ UNCHANGED <<clock, now_us, elapsed_ms, pc>>

(* First call of pool_scheduler_select after an init.                      *)
SelectFirst ==
    /\ pc = "idle"
    /\ ~initialized
    /\ initialized' = TRUE
    /\ now_us' = clock
    /\ slice_start_us' = clock
    /\ first_us' = clock
    /\ AdvanceSlice
    /\ UNCHANGED <<settings, ratio_a, interval_ms, clock, elapsed_ms, pc>>

(* Any later call: measure the time since the slice began ...              *)
SelectBegin ==
    /\ pc = "idle"
    /\ initialized
    /\ now_us' = clock
    /\ elapsed_ms' = (clock - slice_start_us) \div 1000
    /\ pc' = "catchup"
    /\ UNCHANGED <<settings, struct, clock, history>>

(* ... advance one slice per whole interval elapsed ...                    *)
CatchUpRestartsAtNow ==
    /\ pc = "catchup"
    /\ elapsed_ms >= interval_ms
    /\ slice_start_us' = now_us
    /\ elapsed_ms' = elapsed_ms - interval_ms
    /\ AdvanceSlice
    /\ UNCHANGED <<settings, ratio_a, interval_ms, initialized, clock, now_us, pc, first_us>>

SelectCatchUp ==
    /\ pc = "catchup"
    /\ elapsed_ms >= interval_ms
    /\ slice_start_us' = slice_start_us + interval_ms * 1000
    /\ elapsed_ms' = elapsed_ms - interval_ms
    /\ AdvanceSlice
    /\ UNCHANGED <<settings, ratio_a, interval_ms, initialized, clock, now_us, pc, first_us>>

(* ... and return the owner of the slice reached.                          *)
SelectReturn ==
    /\ pc = "catchup"
    /\ elapsed_ms < interval_ms
    /\ pc' = "idle"
    /\ UNCHANGED <<settings, struct, clock, now_us, elapsed_ms, history>>

(* Time passes, also while a call runs.                                    *)
Tick(d) ==
    /\ clock + d <= MaxClock
    /\ clock' = clock + d
    /\ UNCHANGED <<settings, struct, now_us, elapsed_ms, pc, history>>

SchedulerNext ==
    \/ \E r \in RatioInputs, i \in IntervalInputs : Reinit(r, i)
    \/ SelectFirst
    \/ SelectBegin
    \/ SelectCatchUp
    \/ SelectReturn
    \/ \E d \in ClockSteps : Tick(d)

SchedulerSpec == SchedulerInit /\ [][SchedulerNext]_scheduler_vars

-----------------------------------------------------------------------------
(* The fields stay in the ranges the C types and the clamps give them.     *)
SchedulerTypeOK ==
    /\ dual_ratio_a \in Nat /\ dual_ratio_a <= 255
    /\ dual_interval_ms \in Nat /\ dual_interval_ms <= 65535
    /\ ratio_a \in Nat /\ ratio_a <= 100
    /\ interval_ms \in Nat /\ 100 <= interval_ms /\ interval_ms <= 60000
    /\ acc \in Nat /\ acc < 100
    /\ current \in {"A", "B"}
    /\ slice_start_us \in Nat
    /\ initialized \in BOOLEAN
    /\ clock \in Nat /\ now_us \in Nat /\ elapsed_ms \in Int
    /\ pc \in {"idle", "catchup"}
    /\ slices \in Nat /\ slicesA \in Nat /\ run \in Nat /\ first_us \in Nat

(* After any number of slices, at any call pattern and after any catch-up, *)
(* Pool A holds its configured share to within one slice: the comment of   *)
(* advance_slice ("converges to ratio_a percent") made exact.              *)
ShareWithinOneSlice ==
    /\ 100 * slicesA <= ratio_a * slices
    /\ 100 * slicesA > ratio_a * slices - 100

(* No pool with a non-zero share is starved: a run of slices owned by one  *)
(* pool is shorter than 100 / (the other pool's share).                    *)
NoStarvation ==
    /\ current = "B" => run * ratio_a < 100
    /\ current = "A" => run * (100 - ratio_a) < 100

(* When a call returns, the slice it answers for contains the call's time: *)
(* a late call does not answer with a slice that is already over.          *)
SliceCoversCall ==
    (pc = "idle" /\ initialized) =>
        /\ slice_start_us <= now_us
        /\ now_us < slice_start_us + interval_ms * 1000

(* "Within a single slice the returned pool is stable"                     *)
(* (pool_scheduler.h:22), and more: the pool returned is a function of the *)
(* time since the first call alone.  Skipped calls, late calls and calls   *)
(* that catch up over many slices do not shift the pattern: slice k goes   *)
(* to Pool A iff k * ratio has just passed a multiple of 100.              *)
OwnerOf(k) == IF (k * ratio_a) % 100 < ratio_a THEN "A" ELSE "B"
OwnerIsFunctionOfTime ==
    (pc = "idle" /\ initialized) =>
        current = OwnerOf((now_us - first_us) \div (interval_ms * 1000) + 1)
=============================================================================
