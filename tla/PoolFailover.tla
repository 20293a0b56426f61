---------------------------- MODULE PoolFailover ----------------------------
(***************************************************************************)
(* The endpoint selector of Pool B, components/dual_pool/pool_failover.c,  *)
(* on the value of a pool_failover_t: f before a step, g after it.          *)
(***************************************************************************)
EXTENDS Integers

TRY_PRIMARY  == "PF_TRY_PRIMARY"
ON_PRIMARY   == "PF_ON_PRIMARY"
TRY_FAILOVER == "PF_TRY_FAILOVER"
ON_FAILOVER  == "PF_ON_FAILOVER"
DOWN         == "PF_DOWN"
PFStates     == {TRY_PRIMARY, ON_PRIMARY, TRY_FAILOVER, ON_FAILOVER, DOWN}

FailoverValues ==
    [state : PFStates, retry_count : Nat, max_retries : Nat, has_failover : BOOLEAN]

(* pool_failover_init.                                                     *)
FailoverInit(max, has) ==
    [state |-> TRY_PRIMARY, retry_count |-> 0,
     max_retries |-> IF max < 0 THEN 0 ELSE max, has_failover |-> has]

(* pool_failover_endpoint: 0 primary, 1 failover, -1 none.                 *)
Endpoint(f) == IF f.state \in {TRY_PRIMARY, ON_PRIMARY} THEN 0
               ELSE IF f.state \in {TRY_FAILOVER, ON_FAILOVER} THEN 1 ELSE -1

To(f, state, retries) ==
    [state |-> state, retry_count |-> retries,
     max_retries |-> f.max_retries, has_failover |-> f.has_failover]

Exhausted(f) == f.retry_count + 1 > f.max_retries

(* pool_failover_step on PF_EV_CONNECTED.                                  *)
StepConnected(f, g) ==
    \/ f.state \in {TRY_PRIMARY, ON_PRIMARY} /\ g = To(f, ON_PRIMARY, 0)
    \/ f.state \notin {TRY_PRIMARY, ON_PRIMARY} /\ g = To(f, ON_FAILOVER, 0)

-----------------------------------------------------------------------------
(* Faulty variants, used only to show that the properties can fail.        *)

StepIgnoresFailover(f, g) ==
    \/ f.state = ON_PRIMARY /\ g = To(f, TRY_PRIMARY, 1)
    \/ f.state \in {ON_FAILOVER, TRY_FAILOVER, DOWN} /\ g = To(f, TRY_PRIMARY, 0)
    \/ f.state = TRY_PRIMARY /\ ~Exhausted(f) /\ g = To(f, TRY_PRIMARY, f.retry_count + 1)
    \/ f.state = TRY_PRIMARY /\ Exhausted(f) /\ g = To(f, DOWN, f.retry_count + 1)

StepTooEarly(f, g) ==
    LET exhausted == f.retry_count + 1 >= f.max_retries IN
    \/ f.state = ON_PRIMARY /\ g = To(f, TRY_PRIMARY, 1)
    \/ f.state \in {ON_FAILOVER, DOWN} /\ g = To(f, TRY_PRIMARY, 0)
    \/ f.state \in {TRY_PRIMARY, TRY_FAILOVER} /\ ~exhausted /\ g = To(f, f.state, f.retry_count + 1)
    \/ f.state = TRY_PRIMARY /\ exhausted /\ f.has_failover /\ g = To(f, TRY_FAILOVER, 0)
    \/ f.state = TRY_PRIMARY /\ exhausted /\ ~f.has_failover /\ g = To(f, DOWN, f.retry_count + 1)
    \/ f.state = TRY_FAILOVER /\ exhausted /\ g = To(f, TRY_PRIMARY, 0)

-----------------------------------------------------------------------------
(* pool_failover_step on PF_EV_DISCONNECTED, a drop or a failed attempt.   *)
StepDisconnected(f, g) ==
    \/ f.state = ON_PRIMARY /\ g = To(f, TRY_PRIMARY, 1)
    \/ f.state \in {ON_FAILOVER, DOWN} /\ g = To(f, TRY_PRIMARY, 0)
    \/ f.state \in {TRY_PRIMARY, TRY_FAILOVER} /\ ~Exhausted(f) /\ g = To(f, f.state, f.retry_count + 1)
    \/ f.state = TRY_PRIMARY /\ Exhausted(f) /\ f.has_failover /\ g = To(f, TRY_FAILOVER, 0)
    \/ f.state = TRY_PRIMARY /\ Exhausted(f) /\ ~f.has_failover /\ g = To(f, DOWN, f.retry_count + 1)
    \/ f.state = TRY_FAILOVER /\ Exhausted(f) /\ g = To(f, TRY_PRIMARY, 0)
=============================================================================
