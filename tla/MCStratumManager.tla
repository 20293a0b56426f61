-------------------------- MODULE MCStratumManager --------------------------
(* Instance of StratumManager: a balance of three quarters; PRIMARY is     *)
(* verified.                                                               *)
EXTENDS StratumManager
MCBalances == {75}
MCForced   == {"PRIMARY"}

(* The refutation does not need a task to be held up between its callback  *)
(* and what it does next.                                                  *)
Prompt == \A p \in Pools : at[p] = "called" => at'[p] # "called"
=============================================================================
