--------------------------- MODULE MCMiningPower ---------------------------
(* Settings for TLC: protocols, a fallback or none, the user's choice.     *)
EXTENDS MiningPower

Setting(primary, fallback, has, use) ==
    [protocol |-> [p \in POOLS |-> IF p = "PRIMARY" THEN primary ELSE fallback],
     has_fallback |-> has, use_fallback_stratum |-> use]

(* A V2 task that automatic fallback must stop is left out: it does not    *)
(* stop in time.                                                           *)
SafeSettings == {Setting("V1", "V1", TRUE, FALSE), Setting("V2", "V1", TRUE, FALSE),
                 Setting("V1", "V2", TRUE, TRUE), Setting("V1", "V1", FALSE, TRUE)}
DualSetting  == {Setting("V1", "V1", TRUE, FALSE)}

=============================================================================
