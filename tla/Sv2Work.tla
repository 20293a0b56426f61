------------------------------ MODULE Sv2Work ------------------------------
(***************************************************************************)
(* Pool A's templates with Stratum V2: how stratum_v2_task turns jobs and  *)
(* previous hashes, which come apart, into templates, how they reach       *)
(* create_jobs_task through stratum_queue, and what happens to those under *)
(* way when the coordinator goes to a pool of another protocol.  A         *)
(* template is a void* whose layout nobody records: it is inferred from    *)
(* stratum_protocol and from sv2_conn at each use.                         *)
(***************************************************************************)
EXTENDS Integers, Sequences, SequencesExt

CONSTANTS Pools,          \* the primary and the fallback
          Configurations, \* the kinds of channel they may be configured for
          Ring,           \* SV2_PENDING_JOBS_SIZE
          Outstanding,    \* a previous hash names one of so many latest jobs
          Early,          \* jobs for a hash to come, before there is the first
          QueueSize,      \* QUEUE_SIZE
          MaxJobs,        \* bound: jobs in a session
          MaxTips,        \* bound: previous hashes in a session
          Flips           \* sv2_conn may change while create_jobs_task is between
                          \* taking a template out of the queue, or giving up, and
                          \* handing it over (timing assumption)

Kinds == {"V1", "STD", "EXT"}
ProtocolOf(kind) == IF kind = "V1" THEN "V1" ELSE "V2"

ASSUME Sv2Assumption ==
    /\ Configurations \subseteq [Pools -> Kinds]
    /\ Ring \in Nat \ {0} /\ Outstanding \in Nat \ {0} /\ Early \in Nat \ {0}
    /\ QueueSize \in Nat \ {0}
    /\ MaxJobs \in Nat /\ MaxTips \in Nat
    /\ Flips \in BOOLEAN

VARIABLES
    config,
    pool,          \* the pool the coordinator is on
    \* the protocol task
    at,
    extended,      \* sv2_conn is there and its channel_type is extended
    ring,          \* pending_jobs or ext_pending_jobs: a job's id, or 0
    futures,       \* the pool: jobs announced for a previous hash to come
    jobs,          \* jobs announced in this session
    tip,           \* previous hashes received in it
    out,           \* templates a handler has still to enqueue
    \* stratum_queue
    stratum_queue, free_fn,
    \* create_jobs_task
    pc,
    current_work, new_work, current_work_protocol,
    mined,         \* what the ASIC was given last
    miscast,       \* history: a template was used in a layout not its own
    missed         \* history: the latest template was thrown away as unknown

channel == <<ring, futures, jobs, tip>>
queue   == <<stratum_queue, free_fn>>
creator == <<pc, current_work, new_work, current_work_protocol, mined>>
vars == <<config, pool, at, extended, channel, out, queue, creator, miscast, missed>>

(* Of an earlier session: tip 0.                                           *)
Template == [kind : Kinds, job : 1..MaxJobs, tip : 0..MaxTips, clean : BOOLEAN]
None     == [kind |-> "NONE", job |-> 0, tip |-> 0, clean |-> FALSE]

Kind     == config[pool]
Protocol == ProtocolOf(Kind)    \* GLOBAL_STATE->stratum_protocol
Made(j, t, clean) == [kind |-> Kind, job |-> j, tip |-> t, clean |-> clean]

(* The layout that is inferred, what reading in a wrong one is, and what   *)
(* freeing in it is: free() does no harm to a template that has parts, it  *)
(* loses them.                                                             *)
Layout(protocol)    == IF protocol = "V1" THEN "V1" ELSE IF extended THEN "EXT" ELSE "STD"
Misread(x, layout)  == x # None /\ x.kind # layout
Misfreed(x, layout) == Misread(x, layout) /\ layout # "STD"

Empty == [s \in 0..Ring - 1 |-> 0]

Init ==
    /\ config \in Configurations /\ pool \in Pools
    /\ at = "top" /\ extended = FALSE
    /\ ring = Empty /\ futures = {} /\ jobs = 0 /\ tip = 0 /\ out = <<>>
    /\ stratum_queue = <<>> /\ free_fn = Kind
    /\ pc = "top" /\ current_work = None /\ new_work = None /\ mined = None
    /\ current_work_protocol = Protocol
    /\ miscast = FALSE /\ missed = FALSE

(* queue_clear                                                             *)
Clear ==
    /\ stratum_queue' = <<>>
    /\ miscast' = (miscast \/ \E x \in ToSet(stratum_queue) : Misfreed(x, free_fn))

-----------------------------------------------------------------------------
(* The protocol task between sessions.                                     *)

Unhurried == Flips \/ pc \in {"top", "dequeue"}

(* A new connection: sv2_conn is zeroed, the session before is over.       *)
Dial ==
    LET Earlier(x) == IF x = None THEN x ELSE [x EXCEPT !.tip = 0]
    IN  /\ at = "top" /\ Unhurried
        /\ at' = "connected"
        /\ extended' = FALSE
        /\ ring' = Empty /\ futures' = {} /\ jobs' = 0 /\ tip' = 0
        /\ current_work' = Earlier(current_work) /\ new_work' = Earlier(new_work) /\ mined' = Earlier(mined)
        /\ Clear
        /\ UNCHANGED <<config, pool, out, free_fn, pc, current_work_protocol, missed>>

(* V2's Noise handshake is done.                                           *)
Handshake ==
    /\ at = "connected" /\ Unhurried
    /\ at' = "setup"
    /\ extended' = (Kind = "EXT")
    /\ UNCHANGED <<config, pool, channel, out, queue, creator, miscast, missed>>

(* The pool has accepted the connection, V2's channel is open.             *)
Open ==
    /\ at = "setup"
    /\ at' = "session"
    /\ UNCHANGED <<config, pool, extended, channel, out, queue, creator, miscast, missed>>

(* A connection is lost: stratum_v2_close_connection.                      *)
Close ==
    /\ at \in {"connected", "setup", "session"} /\ out = <<>>
    /\ at' = "top"
    /\ Clear
    /\ UNCHANGED <<config, pool, extended, channel, out, free_fn, creator, missed>>

(* The task gives up, or was told to: sv2_conn is freed.                   *)
Exit ==
    /\ at = "top" /\ Unhurried
    /\ at' = "exited"
    /\ extended' = FALSE
    /\ Clear
    /\ UNCHANGED <<config, pool, channel, out, free_fn, creator, missed>>

(* The coordinator empties the queue, sets stratum_protocol and starts a   *)
(* task, which sets the queue's destructor first of all.                   *)
Switch ==
    /\ at = "exited"
    /\ pool' \in Pools
    /\ at' = "top"
    /\ Clear
    /\ free_fn' = config[pool']
    /\ UNCHANGED <<config, extended, channel, out, creator, missed>>

-----------------------------------------------------------------------------
(* The protocol task in a session.                                         *)

Receive == at = "session" /\ out = <<>>

Slot(job) == job % Ring

(* NewMiningJob and NewExtendedMiningJob: a current job goes on top of the *)
(* previous hash there is, any other waits in its slot, whatever was there.*)
JobIs(future, stored) ==
    /\ Receive /\ Protocol = "V2" /\ jobs < MaxJobs
    /\ future /\ tip = 0 => Cardinality(futures) < Early
    /\ jobs' = jobs + 1
    /\ futures' = IF future THEN futures \cup {jobs'} ELSE futures
    /\ IF ~future /\ tip > 0
       THEN out' = <<Made(jobs', tip, TRUE)>> /\ UNCHANGED ring
       ELSE ring' = stored /\ UNCHANGED out
    /\ UNCHANGED <<config, pool, at, extended, tip, queue, creator, miscast, missed>>


NewJob(future) == JobIs(future, [ring EXCEPT ![Slot(jobs + 1)] = jobs + 1])

(* SetNewPrevHash names the job it is for.  At the first one the other     *)
(* pending jobs follow, slot by slot.                                      *)
BySlot(S) ==
    {s \in UNION {[1..n -> S] : n \in 0..Ring} :
        /\ ToSet(s) = S
        /\ \A i, k \in DOMAIN s : i < k => Slot(s[i]) < Slot(s[k])}

Named(j)  == IF ring[Slot(j)] = j THEN <<j>> ELSE <<>>
Others(j) == {ring[s] : s \in DOMAIN ring} \ {0, j}
Ready(j)  == IF tip = 0 THEN {Named(j) \o others : others \in BySlot(Others(j))} ELSE {Named(j)}

PrevHash(j, ready) ==
    /\ Receive /\ Protocol = "V2" /\ tip < MaxTips
    /\ j \in futures /\ j > jobs - Outstanding
    /\ futures' = futures \ {j}
    /\ tip' = tip + 1
    /\ out' = [i \in DOMAIN ready |-> Made(ready[i], tip', TRUE)]
    /\ UNCHANGED <<config, pool, at, extended, jobs, queue, creator, miscast, missed>>

(* Faulty variant, used only to show that a property can fail: the slot is *)
(* not given free.                                                         *)
SetNewPrevHashKeepsSlot(j) == (\E ready \in Ready(j) : PrevHash(j, ready)) /\ UNCHANGED ring

SetNewPrevHash(j) ==
    \E ready \in Ready(j) :
        /\ PrevHash(j, ready)
        /\ ring' = [s \in DOMAIN ring |-> IF ring[s] \in ToSet(ready) THEN 0 ELSE ring[s]]

(* V1: mining.notify, with clean_jobs for a new block.                     *)
Notify(clean) ==
    /\ Receive /\ Protocol = "V1" /\ jobs < MaxJobs
    /\ clean => tip < MaxTips
    /\ jobs' = jobs + 1
    /\ tip' = IF clean THEN tip + 1 ELSE tip
    /\ out' = <<Made(jobs', tip', clean)>>
    /\ UNCHANGED <<config, pool, at, extended, ring, futures, queue, creator, miscast, missed>>

EnqueueAfter(dropped) ==
    /\ out # <<>>
    /\ stratum_queue' = Append(SubSeq(stratum_queue, dropped + 1, Len(stratum_queue)), Head(out))
    /\ out' = Tail(out)
    /\ missed' = FALSE
    /\ miscast' = (miscast \/ \E i \in 1..dropped : Misfreed(stratum_queue[i], free_fn))
    /\ UNCHANGED <<config, pool, at, extended, channel, free_fn, creator>>

Oldest == IF Len(stratum_queue) = QueueSize THEN 1 ELSE 0

(* Faulty variant, used only to show that a property can fail: a clean     *)
(* template joins the queue as any other.                                  *)
EnqueueBehind == EnqueueAfter(Oldest)

(* stratum_v2_enqueue_job, _ext_job and V1's own: a clean template empties *)
(* the queue, any other takes the place of the oldest in a full one.       *)
Enqueue == out # <<>> /\ EnqueueAfter(IF Head(out).clean THEN Len(stratum_queue) ELSE Oldest)

-----------------------------------------------------------------------------
(* create_jobs_task, as far as Pool A's templates go.                      *)

Create == UNCHANGED <<config, pool, at, extended, channel, out, free_fn>>

Goto(p) == pc' = p

(* The protocol has changed: current_work goes, as what it was made for.   *)
Discard ==
    /\ current_work' = None
    /\ current_work_protocol' = Protocol
    /\ miscast' = (miscast \/ Misfreed(current_work, Layout(current_work_protocol)))

(* Faulty variant, used only to show that a property can fail: what is     *)
(* left of the other protocol is kept.                                     *)
TopKeepsWork ==
    /\ pc = "top" /\ Goto("dequeue")
    /\ current_work_protocol' = Protocol
    /\ UNCHANGED <<current_work, stratum_queue, new_work, mined, miscast, missed>> /\ Create

Top ==
    /\ pc = "top" /\ Goto("dequeue")
    /\ IF Protocol = current_work_protocol
       THEN UNCHANGED <<current_work, current_work_protocol, miscast>> ELSE Discard
    /\ UNCHANGED <<stratum_queue, new_work, mined, missed>> /\ Create

Dequeue ==
    /\ pc = "dequeue" /\ stratum_queue # <<>>
    /\ Goto("got")
    /\ new_work' = Head(stratum_queue)
    /\ stratum_queue' = Tail(stratum_queue)
    /\ UNCHANGED <<current_work, current_work_protocol, mined, miscast, missed>> /\ Create

(* Nothing came.  A standard channel's job is never sent again.            *)
TimesOut ==
    /\ pc = "dequeue" /\ stratum_queue = <<>>
    /\ Goto(IF current_work = None \/ Layout(current_work_protocol) = "STD" THEN "top" ELSE "final")
    /\ UNCHANGED <<stratum_queue, current_work, new_work, current_work_protocol, mined, miscast, missed>> /\ Create

(* The protocol has changed meanwhile: what was dequeued may be of either  *)
(* and goes as well, with free().                                          *)
GotUnknown ==
    /\ pc = "got" /\ Protocol # current_work_protocol
    /\ Goto("top")
    /\ Discard /\ new_work' = None
    /\ missed' = TRUE
    /\ UNCHANGED <<stratum_queue, mined>> /\ Create

Got ==
    /\ pc = "got" /\ Protocol = current_work_protocol
    /\ LET layout == Layout(current_work_protocol)
       IN  miscast' = (miscast \/ Misfreed(current_work, layout) \/ Misread(new_work, layout))
    /\ current_work' = new_work /\ new_work' = None
    /\ Goto(IF new_work.clean THEN "final" ELSE "top")
    /\ UNCHANGED <<stratum_queue, current_work_protocol, mined, missed>> /\ Create

Final ==
    /\ pc = "final"
    /\ IF Protocol = current_work_protocol
       THEN Goto("generate") /\ UNCHANGED <<current_work, current_work_protocol, miscast>>
       ELSE Goto("top") /\ Discard
    /\ UNCHANGED <<stratum_queue, new_work, mined, missed>> /\ Create

Generate ==
    /\ pc = "generate" /\ Goto("top")
    /\ mined' = current_work
    /\ miscast' = (miscast \/ Misread(current_work, Layout(current_work_protocol)))
    /\ UNCHANGED <<stratum_queue, current_work, new_work, current_work_protocol, missed>> /\ Create

-----------------------------------------------------------------------------

CreateJobs == Top \/ Dequeue \/ TimesOut \/ GotUnknown \/ Got \/ Final \/ Generate

Next ==
    \/ Dial \/ Handshake \/ Open \/ Close \/ Exit \/ Switch
    \/ \E b \in BOOLEAN : NewJob(b) \/ Notify(b)
    \/ \E j \in futures : SetNewPrevHash(j)
    \/ Enqueue
    \/ CreateJobs

Spec == Init /\ [][Next]_vars

(* create_jobs_task keeps running, and a handler comes to its end.         *)
FairSpec == Spec /\ WF_vars(CreateJobs) /\ WF_vars(Enqueue)

-----------------------------------------------------------------------------

TypeOK ==
    /\ config \in Configurations /\ pool \in Pools
    /\ at \in {"top", "connected", "setup", "session", "exited"} /\ extended \in BOOLEAN
    /\ ring \in [0..Ring - 1 -> 0..MaxJobs] /\ futures \subseteq 1..jobs
    /\ jobs \in 0..MaxJobs /\ tip \in 0..MaxTips
    /\ out \in Seq(Template) /\ stratum_queue \in Seq(Template)
    /\ Len(stratum_queue) <= QueueSize /\ free_fn \in Kinds
    /\ pc \in {"top", "dequeue", "got", "final", "generate"}
    /\ {current_work, new_work, mined} \subseteq Template \cup {None}
    /\ current_work_protocol \in {"V1", "V2"} /\ miscast \in BOOLEAN /\ missed \in BOOLEAN

(* No template is read, or freed, through fields it does not have.         *)
CastAsMade == ~miscast

(* A job of this session is handed over once: no extended job has two      *)
(* owners, who would each free it, and no job is mined twice.              *)
HandedOverOnce ==
    LET ours == {x \in ToSet(stratum_queue) \cup ToSet(out) \cup {current_work, new_work, mined} :
                    x.tip > 0 /\ at = "session"}
    IN  \A x \in ours : x.job \notin ToSet([s \in 1..Ring |-> ring[s - 1]])

(* Once a handler is done the queue holds nothing of an older tip, and     *)
(* with V2, whose templates are all clean, a single template.              *)
QueueIsOfTip ==
    out = <<>> => /\ \A x \in ToSet(stratum_queue) : x.tip = tip
                  /\ Protocol = "V2" => Len(stratum_queue) <= 1

=============================================================================
