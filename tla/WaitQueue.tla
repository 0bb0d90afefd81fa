----------------------------- MODULE WaitQueue -----------------------------
(***************************************************************************)
(* src/src/c/pthread_waitq/main.c: push and pop of a queue shared by       *)
(* threads, with a mutex and a condition variable.                         *)
(*                                                                         *)
(* The file is a sketch: it does not compile, the arguments of             *)
(* pthread_cond_wait (line 18) are in the wrong order and are read as they *)
(* are meant, and queue_t is not declared.  Its insert and pop are taken   *)
(* to be those of a container that knows nothing of threads: each reads    *)
(* the queue and then stores the changed one, and a pop that finds no job  *)
(* gives none.                                                             *)
(***************************************************************************)
EXTENDS Integers, Sequences, FiniteSets, Functions

CONSTANTS
    Producers, Consumers,   \* the threads that call push, and pop, for ever
    Nobody,                 \* the owner of a free mutex
    MaxJobs,                \* bound: jobs pushed
    Spurious                \* may pthread_cond_wait return without a signal?

Threads == Producers \cup Consumers

ASSUME ThreadAssumption ==
    /\ Producers \cap Consumers = {}
    /\ Nobody \notin Threads
    /\ MaxJobs \in Nat
    /\ Spurious \in BOOLEAN

\* Mutant: the pop of an empty queue gives -1.
MinusOne == -1

NoJob == 0
Jobs == 1 .. MaxJobs

VARIABLES
    pc,         \* pc[t]: where t is in push or pop
    queue_lock, \* the owner of queue_lock
    not_empty,  \* the consumers that wait for not_empty
    queue,      \* queue
    view,       \* view[t]: the queue as t has read it in insert or pop
    job,        \* job[c]: what c last popped
    \* History, for the properties only:
    pushed,     \* number of jobs pushed; jobs are numbered in order
    taken       \* the jobs popped, in order

vars == <<pc, queue_lock, not_empty, queue, view, job, pushed, taken>>

Init ==
    /\ pc = [t \in Threads |-> "idle"]
    /\ queue_lock = Nobody
    /\ not_empty = {}
    /\ queue = <<>>
    /\ view = [t \in Threads |-> <<>>]
    /\ job = [c \in Consumers |-> NoJob]
    /\ pushed = 0
    /\ taken = <<>>

Goto(t, place) == pc' = [pc EXCEPT ![t] = place]

Acquire(t) == queue_lock = Nobody /\ queue_lock' = t

Unlock(t) ==
    /\ pc[t] = "unlock"
    /\ queue_lock' = Nobody
    /\ Goto(t, "idle")
    /\ UNCHANGED <<not_empty, queue, view, job, pushed, taken>>

-----------------------------------------------------------------------------
PushLock(p) ==
    /\ pc[p] = "idle" /\ pushed < MaxJobs
    /\ Acquire(p)
    /\ Goto(p, "insert")
    /\ UNCHANGED <<not_empty, queue, view, job, pushed, taken>>

Read(t, there) ==
    /\ view' = [view EXCEPT ![t] = queue]
    /\ Goto(t, there)
    /\ UNCHANGED <<queue_lock, not_empty, queue, job, pushed, taken>>

PushRead(p) == pc[p] = "insert" /\ Read(p, "store")

PushInsert(p) ==
    /\ pc[p] = "store"
    /\ pushed' = pushed + 1
    /\ queue' = Append(view[p], pushed')
    /\ view' = [view EXCEPT ![p] = <<>>]
    /\ Goto(p, "signal")
    /\ UNCHANGED <<queue_lock, not_empty, job, taken>>

\* Mutant: the signal is sent only when a job was there before.
WakesOnSecond == not_empty # {} /\ Len(queue) > 1

\* pthread_cond_signal wakes a waiting thread if there is one.
Wakes == not_empty # {}

PushSignal(p) ==
    /\ pc[p] = "signal"
    /\ IF Wakes
       THEN \E c \in not_empty :
                /\ not_empty' = not_empty \ {c}
                /\ pc' = [pc EXCEPT ![p] = "unlock", ![c] = "woken"]
       ELSE Goto(p, "unlock") /\ UNCHANGED not_empty
    /\ UNCHANGED <<queue_lock, queue, view, job, pushed, taken>>

-----------------------------------------------------------------------------
PopLock(c) ==
    /\ pc[c] = "idle"
    /\ Acquire(c)
    /\ Goto(c, "check")
    /\ UNCHANGED <<not_empty, queue, view, job, pushed, taken>>

\* Mutant: the test is the wrong way round.
HasJobs == queue # <<>>

MustWait == queue = <<>>

\* pthread_cond_wait gives the mutex back while it waits.
PopCheck(c) ==
    /\ pc[c] = "check"
    /\ IF MustWait
       THEN /\ queue_lock' = Nobody
            /\ not_empty' = not_empty \cup {c}
            /\ Goto(c, "wait")
       ELSE Goto(c, "take") /\ UNCHANGED <<queue_lock, not_empty>>
    /\ UNCHANGED <<queue, view, job, pushed, taken>>

SpuriousWakeup(c) ==
    /\ Spurious
    /\ c \in not_empty
    /\ not_empty' = not_empty \ {c}
    /\ Goto(c, "woken")
    /\ UNCHANGED <<queue_lock, queue, view, job, pushed, taken>>

\* Mutant: it returns without the mutex.
TakesNothing(c) == UNCHANGED queue_lock

\* ... and takes it again before it returns.
Retakes(c) == Acquire(c)

Relock(c) ==
    /\ pc[c] = "woken"
    /\ Retakes(c)
    /\ Goto(c, "take")
    /\ UNCHANGED <<not_empty, queue, view, job, pushed, taken>>

PopRead(c) == pc[c] = "take" /\ Read(c, "remove")

Rest(s) == IF s = <<>> THEN <<>> ELSE Tail(s)

PopTake(c) ==
    /\ pc[c] = "remove"
    /\ IF view[c] = <<>>
       THEN job' = [job EXCEPT ![c] = NoJob] /\ UNCHANGED taken
       ELSE job' = [job EXCEPT ![c] = Head(view[c])] /\ taken' = Append(taken, Head(view[c]))
    /\ queue' = Rest(view[c])
    /\ view' = [view EXCEPT ![c] = <<>>]
    /\ Goto(c, "unlock")
    /\ UNCHANGED <<queue_lock, not_empty, pushed>>

-----------------------------------------------------------------------------
Push(p) == PushLock(p) \/ PushRead(p) \/ PushInsert(p) \/ PushSignal(p) \/ Unlock(p)

Pop(c) ==
    \/ PopLock(c)
    \/ PopCheck(c)
    \/ Relock(c)
    \/ PopRead(c)
    \/ PopTake(c)
    \/ Unlock(c)

Next ==
    \/ \E p \in Producers : Push(p)
    \/ \E c \in Consumers : Pop(c) \/ SpuriousWakeup(c)

Spec == Init /\ [][Next]_vars

(***************************************************************************)
(* Every thread runs when it can, and consumers call pop again when it     *)
(* returns: the queue itself can promise no more than its users ask for.   *)
(***************************************************************************)
FairSpec ==
    /\ Spec
    /\ \A p \in Producers : WF_vars(Push(p))
    /\ \A c \in Consumers : WF_vars(Pop(c))

-----------------------------------------------------------------------------
\* Types.
TypeOK ==
    /\ pc \in [Threads -> {"idle", "insert", "store", "signal", "unlock",
                           "check", "wait", "woken", "take", "remove"}]
    /\ queue_lock \in Threads \cup {Nobody}
    /\ not_empty \subseteq Consumers
    /\ queue \in Seq(Nat)
    /\ view \in [Threads -> Seq(Nat)]
    /\ job \in [Consumers -> Nat]
    /\ pushed \in Nat
    /\ taken \in Seq(Nat)

(***************************************************************************)
(* Every job pushed (main.c:9) is in the queue or was popped (main.c:19),  *)
(* and only once: as insert and pop are not atomic, this rests on the      *)
(* mutex, and on pthread_cond_wait (main.c:18) having it on its return.    *)
(***************************************************************************)
EachJobOnce ==
    /\ Range(taken) \cup Range(queue) = 1 .. pushed
    /\ Len(taken) + Len(queue) = pushed

(***************************************************************************)
(* main.c:3 and 17-19: pop waits for "not_empty" and then takes a job, so  *)
(* that queue.pop is never called on an empty queue.                       *)
(***************************************************************************)
PopFindsJob == \A c \in Consumers : pc[c] = "take" => queue # <<>>

(***************************************************************************)
(* No signal is lost (main.c:10, 18): while all consumers sleep in         *)
(* pthread_cond_wait, the queue is empty or a push is about to signal.     *)
(***************************************************************************)
NoLostSignal ==
    queue # <<>> /\ not_empty = Consumers /\ Consumers # {} =>
        \E p \in Producers : pc[p] = "signal"

\* A job that is pushed is popped, as long as there are consumers.
EveryJobTaken == \A n \in Jobs : (pushed = n) ~> (Len(taken) >= n)
=============================================================================
