-------------------------------- MODULE Fifo --------------------------------
(***************************************************************************)
(* What the notify queues promise: a bounded first-in first-out queue that *)
(* somebody may empty at once.                                             *)
(***************************************************************************)
EXTENDS Integers, Sequences

CONSTANTS Items, Threads, NULL, QueueSize

VARIABLES contents,  \* oldest first
          got        \* what each thread got from its latest dequeue

Init == contents = <<>> /\ got = [t \in Threads |-> NULL]

Put(x) == /\ Len(contents) < QueueSize
          /\ contents' = Append(contents, x)
          /\ UNCHANGED got

Take(t) == /\ contents # <<>>
           /\ got' = [got EXCEPT ![t] = Head(contents)]
           /\ contents' = Tail(contents)

(* A dequeue with a timeout may come back without an item at any time.     *)
Miss(t) == got' = [got EXCEPT ![t] = NULL] /\ UNCHANGED contents

Empty == contents' = <<>> /\ UNCHANGED got

Next == Empty \/ (\E x \in Items : Put(x)) \/ \E t \in Threads : Take(t) \/ Miss(t)

Spec == Init /\ [][Next]_<<contents, got>>
=============================================================================
