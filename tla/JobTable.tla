------------------------------ MODULE JobTable ------------------------------
(***************************************************************************)
(* What the ring of job slots promises asic_result_task: each pool has a   *)
(* table of its own latest jobs, emptied by its own clean_jobs and touched *)
(* by nothing the other pool does.  Answers come back in the order they    *)
(* were sent; each is judged against the job it was found for as long as   *)
(* the table keeps that job, else dropped or held against a later job of   *)
(* its own pool.                                                           *)
(***************************************************************************)
EXTENDS Integers, Sequences

CONSTANTS Pools, NoJob

VARIABLES
    depth,   \* how many of its latest jobs a pool may count on, fixed
    sent,    \* jobs sent, per pool
    kept,    \* the numbers of the jobs in each pool's table
    line,    \* the jobs that were answered, oldest first
    asked,   \* the job whose answer is being handled
    judged   \* the job it is held against

vars == <<depth, sent, kept, line, asked, judged>>

Job(p, n) == [pool |-> p, n |-> n]
Has(job)  == job.n \in kept[job.pool]

Init ==
    /\ depth \in Nat \ {0}
    /\ sent = [p \in Pools |-> 0] /\ kept = [p \in Pools |-> {}]
    /\ line = <<>> /\ asked = NoJob /\ judged = NoJob

(* A new job pushes out the job depth before it.                           *)
Send(p) ==
    /\ sent' = [sent EXCEPT ![p] = @ + 1]
    /\ kept' = [kept EXCEPT ![p] = (@ \cup {sent[p] + 1}) \ {(sent[p] + 1) - depth}]
    /\ UNCHANGED <<depth, line, asked, judged>>

Clean(p) ==
    /\ kept' = [kept EXCEPT ![p] = {}]
    /\ UNCHANGED <<depth, sent, line, asked, judged>>

(* Only jobs that were sent are answered.                                  *)
Answered(p, n) ==
    /\ line' = Append(line, Job(p, n))
    /\ UNCHANGED <<depth, sent, kept, asked, judged>>

(* The oldest answer is taken up, or dropped when its job is gone.         *)
Take ==
    /\ line # <<>> /\ asked = NoJob
    /\ line' = Tail(line)
    /\ asked' = Head(line) \/ (~Has(Head(line)) /\ UNCHANGED asked)
    /\ UNCHANGED <<depth, sent, kept, judged>>

(* It is held against its own job; when that is gone since, against a      *)
(* later job of its pool.                                                  *)
Look ==
    /\ asked # NoJob /\ judged = NoJob
    /\ \/ Has(asked) /\ judged' = asked
       \/ /\ ~Has(asked)
          /\ \E n \in kept[asked.pool] : n > asked.n /\ judged' = Job(asked.pool, n)
    /\ UNCHANGED <<depth, sent, kept, line, asked>>

(* Or it is dropped, its job gone.                                         *)
Drop ==
    /\ asked # NoJob /\ judged = NoJob /\ ~Has(asked)
    /\ asked' = NoJob
    /\ UNCHANGED <<depth, sent, kept, line, judged>>

Judge ==
    /\ judged # NoJob
    /\ asked' = NoJob /\ judged' = NoJob
    /\ UNCHANGED <<depth, sent, kept, line>>

Next ==
    \/ Take \/ Look \/ Drop \/ Judge
    \/ \E p \in Pools : Send(p) \/ Clean(p) \/ \E n \in 1..sent[p] : Answered(p, n)

Spec == Init /\ [][Next]_vars
=============================================================================
