---------------------------- MODULE Supervision ----------------------------
(***************************************************************************)
(* What the coordinator promises for Pool A: at any time at most one pool  *)
(* is worked on, the one it has chosen, in that pool's protocol.  It takes *)
(* another only when nobody works; gives up when as many pools have failed *)
(* in a row as there are, which the power gate is told; comes back from    *)
(* the fallback of its own accord, unless that is the user's choice.       *)
(***************************************************************************)
EXTENDS Naturals

CONSTANT POOLS

VARIABLES
    config,       \* the settings, fixed
    state,        \* the pool chosen, or "PAUSED"
    working,      \* the pool, and the protocol, that is worked with, if any
    unavailable,  \* what the power gate is told
    failures      \* pools that failed since the last success

vars == <<config, state, working, unavailable, failures>>

On(p)     == [pool |-> p, protocol |-> config.protocol[p]]
Choice    == IF config.use_fallback_stratum THEN "FALLBACK" ELSE "PRIMARY"
Threshold == IF config.has_fallback THEN 2 ELSE 1

Init ==
    /\ state = Choice /\ working = {On(state)}
    /\ unavailable = FALSE /\ failures = 0

(* Work may end at any time, for whatever reason.                          *)
End ==
    /\ working # {} /\ working' = {}
    /\ UNCHANGED <<config, state, unavailable, failures>>

Succeed ==
    /\ state \in POOLS
    /\ failures' = 0
    /\ UNCHANGED <<config, state, working, unavailable>>

Turn(p) ==
    /\ working = {}
    /\ state' = p /\ working' = {On(p)} /\ unavailable' = FALSE
    /\ UNCHANGED config

(* To the other pool, once, while there is one left to try.                *)
FailOver(p) ==
    /\ state \in POOLS \ {p} /\ config.has_fallback
    /\ failures + 1 < Threshold /\ failures' = failures + 1
    /\ Turn(p)

Pause ==
    /\ working = {} /\ state \in POOLS
    /\ failures + 1 >= Threshold /\ failures' = failures + 1
    /\ state' = "PAUSED" /\ unavailable' = TRUE
    /\ UNCHANGED <<config, working>>

Resume(p) ==
    /\ state = "PAUSED" /\ (p = "FALLBACK" => config.has_fallback)
    /\ failures' = 0
    /\ Turn(p)

Return ==
    /\ state = "FALLBACK" /\ Choice # "FALLBACK"
    /\ UNCHANGED failures
    /\ Turn("PRIMARY")

Next ==
    \/ End \/ Succeed \/ Pause \/ Return
    \/ \E p \in POOLS : FailOver(p) \/ Resume(p)

Spec == Init /\ [][Next]_vars
=============================================================================
