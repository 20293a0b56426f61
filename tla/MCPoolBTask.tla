---------------------------- MODULE MCPoolBTask ----------------------------
(* Instance of PoolBTask: two handles, so that a destroyed one can come    *)
(* back while the other is in use; one retry; room for two templates.      *)
EXTENDS PoolBTask
CONSTANTS h1, h2
MCHandles == {h1, h2}
=============================================================================
