-------------------------- MODULE WaitQueueProofs --------------------------
(***************************************************************************)
(* What holds of push and pop for any number of threads and jobs.          *)
(***************************************************************************)
EXTENDS WaitQueue, TLAPS, SequenceTheorems

-----------------------------------------------------------------------------
(* Types.                                                                  *)

LEMMA InitTypes == Init => TypeOK
BY ThreadAssumption DEF Init, TypeOK, NoJob

LEMMA StepTypes == TypeOK /\ [Next]_vars => TypeOK'
<1> SUFFICES ASSUME TypeOK, [Next]_vars
             PROVE  TypeOK'
  OBVIOUS
<1> USE ThreadAssumption DEF TypeOK, Goto, Acquire
<1>1. ASSUME NEW t \in Threads, Unlock(t) PROVE TypeOK'
  BY <1>1 DEF Unlock
<1>2. ASSUME NEW p \in Producers, Push(p) PROVE TypeOK'
  <2>0. p \in Threads
    BY DEF Threads
  <2>1. CASE PushLock(p)
    BY <2>0, <2>1 DEF PushLock
  <2>2. CASE PushRead(p)
    BY <2>0, <2>2 DEF PushRead, Read
  <2>3. CASE PushInsert(p)
    BY <2>0, <2>3 DEF PushInsert
  <2>4. CASE PushSignal(p)
    BY <2>0, <2>4 DEF PushSignal, Threads
  <2> QED
    BY <1>1, <1>2, <2>0, <2>1, <2>2, <2>3, <2>4 DEF Push
<1>3. ASSUME NEW c \in Consumers, Pop(c) PROVE TypeOK'
  <2>0. c \in Threads
    BY DEF Threads
  <2>1. CASE PopLock(c)
    BY <2>0, <2>1 DEF PopLock
  <2>2. CASE PopCheck(c)
    BY <2>0, <2>2 DEF PopCheck
  <2>3. CASE Relock(c)
    BY <2>0, <2>3 DEF Relock, Retakes
  <2>4. CASE PopRead(c)
    BY <2>0, <2>4 DEF PopRead, Read
  <2>5. CASE PopTake(c)
    <3>1. PICK q : q = view[c]
      OBVIOUS
    <3>2. q \in Seq(Nat) /\ (q # <<>> => Head(q) \in Nat /\ Tail(q) \in Seq(Nat))
      BY <2>0, <3>1
    <3>3. queue' \in Seq(Nat)
      BY <2>5, <3>1, <3>2 DEF PopTake, Rest
    <3>4. job' \in [Consumers -> Nat] /\ taken' \in Seq(Nat)
      <4>1. CASE q = <<>>
        <5>1. job' = [job EXCEPT ![c] = NoJob] /\ taken' = taken
          BY <2>5, <3>1, <4>1 DEF PopTake
        <5> QED
          BY <5>1 DEF NoJob
      <4>2. CASE q # <<>>
        <5>1. job' = [job EXCEPT ![c] = Head(q)] /\ taken' = Append(taken, Head(q))
          BY <2>5, <3>1, <4>2 DEF PopTake
        <5> QED
          BY <3>2, <4>2, <5>1
      <4> QED
        BY <4>1, <4>2
    <3> QED
      BY <2>0, <2>5, <3>3, <3>4 DEF PopTake
  <2> QED
    BY <1>1, <1>3, <2>0, <2>1, <2>2, <2>3, <2>4, <2>5 DEF Pop
<1>4. ASSUME NEW c \in Consumers, SpuriousWakeup(c) PROVE TypeOK'
  BY <1>4 DEF SpuriousWakeup, Threads
<1>5. CASE UNCHANGED vars
  BY <1>5 DEF vars
<1> QED
  BY <1>2, <1>3, <1>4, <1>5 DEF Next

\* Type correctness, with any number of producers, consumers and jobs.
THEOREM QueueTypes == Spec => []TypeOK
BY InitTypes, StepTypes, PTL DEF Spec

-----------------------------------------------------------------------------
(* The mutex.                                                              *)

\* A thread in the middle of push or pop owns the mutex: what it has read of
\* the queue is the queue.
Critical == {"insert", "store", "signal", "unlock", "check", "take", "remove"}

Mutex ==
    /\ \A t \in Threads : pc[t] \in Critical => queue_lock = t
    /\ \A t \in Threads : pc[t] \in {"store", "remove"} => view[t] = queue
    /\ \A c \in not_empty : pc[c] = "wait"

LEMMA StepMutex == TypeOK /\ Mutex /\ [Next]_vars => Mutex'
<1> SUFFICES ASSUME TypeOK, Mutex, [Next]_vars
             PROVE  Mutex'
  OBVIOUS
<1> USE ThreadAssumption DEF TypeOK, Mutex, Critical, Goto, Acquire, Threads
<1>1. ASSUME NEW t \in Threads, Unlock(t) PROVE Mutex'
  BY <1>1 DEF Unlock
<1>2. ASSUME NEW p \in Producers, Push(p) PROVE Mutex'
  <2>1. CASE PushLock(p)
    BY <2>1 DEF PushLock
  <2>2. CASE PushRead(p)
    BY <2>2 DEF PushRead, Read
  <2>3. CASE PushInsert(p)
    BY <2>3 DEF PushInsert
  <2>4. CASE PushSignal(p)
    <3>1. CASE Wakes
      <4>1. PICK c \in not_empty : /\ not_empty' = not_empty \ {c}
                                  /\ pc' = [pc EXCEPT ![p] = "unlock", ![c] = "woken"]
        BY <2>4, <3>1 DEF PushSignal
      <4>2. c # p /\ UNCHANGED <<queue_lock, queue, view>>
        BY <2>4 DEF PushSignal
      <4> QED
        BY <2>4, <4>1, <4>2 DEF PushSignal
    <3>2. CASE ~Wakes
      BY <2>4, <3>2 DEF PushSignal, Wakes
    <3> QED
      BY <3>1, <3>2
  <2> QED
    BY <1>1, <1>2, <2>1, <2>2, <2>3, <2>4 DEF Push
<1>3. ASSUME NEW c \in Consumers, Pop(c) PROVE Mutex'
  <2>1. CASE PopLock(c)
    BY <2>1 DEF PopLock
  <2>2. CASE PopCheck(c)
    <3>1. CASE MustWait
      <4>1. /\ pc' = [pc EXCEPT ![c] = "wait"] /\ not_empty' = not_empty \cup {c}
            /\ queue_lock' = Nobody /\ UNCHANGED <<queue, view>>
        BY <2>2, <3>1 DEF PopCheck
      <4>2. \A t \in Threads : t # c => pc[t] \notin Critical
        BY <2>2 DEF PopCheck
      <4> QED
        BY <4>1, <4>2
    <3>2. CASE ~MustWait
      BY <2>2, <3>2 DEF PopCheck
    <3> QED
      BY <3>1, <3>2
  <2>3. CASE Relock(c)
    BY <2>3 DEF Relock, Retakes
  <2>4. CASE PopRead(c)
    BY <2>4 DEF PopRead, Read
  <2>5. CASE PopTake(c)
    BY <2>5 DEF PopTake
  <2> QED
    BY <1>1, <1>3, <2>1, <2>2, <2>3, <2>4, <2>5 DEF Pop
<1>4. ASSUME NEW c \in Consumers, SpuriousWakeup(c) PROVE Mutex'
  BY <1>4 DEF SpuriousWakeup
<1>5. CASE UNCHANGED vars
  BY <1>5 DEF vars
<1> QED
  BY <1>2, <1>3, <1>4, <1>5 DEF Next

LEMMA MutexHolds == Spec => [](TypeOK /\ Mutex)
<1>1. Init => Mutex
  BY DEF Init, Mutex, Critical, Threads
<1> QED
  BY <1>1, InitTypes, StepTypes, StepMutex, PTL DEF Spec

-----------------------------------------------------------------------------
(* Each job once.                                                          *)

LEMMA RangeAppend ==
    ASSUME NEW q \in Seq(Nat), NEW n \in Nat
    PROVE  Range(Append(q, n)) = Range(q) \cup {n}
<1>1. PICK r : r = Append(q, n)
  OBVIOUS
<1>2. /\ DOMAIN r = 1 .. Len(q) + 1 /\ DOMAIN q = 1 .. Len(q) /\ Len(q) \in Nat
      /\ \A k \in 1 .. Len(q) : r[k] = q[k]
      /\ r[Len(q) + 1] = n
  BY <1>1, AppendProperties
<1>3. \A k \in 1 .. Len(q) + 1 : k \in 1 .. Len(q) \/ k = Len(q) + 1
  BY <1>2
<1>4. \A k \in 1 .. Len(q) : k \in 1 .. Len(q) + 1
  BY <1>2
<1>5. Len(q) + 1 \in 1 .. Len(q) + 1
  BY <1>2
<1> QED
  BY <1>1, <1>2, <1>3, <1>4, <1>5, Zenon DEF Range

LEMMA RangeHeadTail ==
    ASSUME NEW q \in Seq(Nat), q # <<>>
    PROVE  /\ Range(q) = {Head(q)} \cup Range(Tail(q))
           /\ Len(Tail(q)) = Len(q) - 1
<1>1. PICK n, r : n = Len(q) /\ r = Tail(q)
  OBVIOUS
<1>2. /\ n \in Nat /\ n > 0 /\ DOMAIN q = 1 .. n /\ DOMAIN r = 1 .. n - 1
      /\ Head(q) = q[1] /\ Len(r) = n - 1
      /\ \A k \in 1 .. n - 1 : r[k] = q[k + 1]
  BY <1>1, HeadTailProperties
<1>3. ASSUME NEW x \in Range(q) PROVE x = Head(q) \/ x \in Range(r)
  <2>1. PICK k \in 1 .. n : x = q[k]
    BY <1>2, <1>3 DEF Range
  <2>2. CASE k = 1
    BY <1>2, <2>1, <2>2
  <2>3. CASE k # 1
    <3>1. k - 1 \in 1 .. n - 1 /\ (k - 1) + 1 = k
      BY <1>2, <2>1, <2>3
    <3>2. r[k - 1] = x
      BY <1>2, <2>1, <3>1
    <3> QED
      BY <1>2, <3>1, <3>2 DEF Range
  <2> QED
    BY <2>2, <2>3
<1>4. ASSUME NEW x \in Range(r) PROVE x \in Range(q)
  <2>1. PICK k \in 1 .. n - 1 : x = r[k]
    BY <1>2, <1>4 DEF Range
  <2>2. k + 1 \in 1 .. n /\ q[k + 1] = x
    BY <1>2, <2>1
  <2> QED
    BY <1>2, <2>2 DEF Range
<1>5. Head(q) \in Range(q)
  BY <1>2 DEF Range
<1> QED
  BY <1>1, <1>2, <1>3, <1>4, <1>5

LEMMA StepOnce == TypeOK /\ Mutex /\ EachJobOnce /\ [Next]_vars => EachJobOnce'
<1> SUFFICES ASSUME TypeOK, Mutex, EachJobOnce, [Next]_vars
             PROVE  EachJobOnce'
  OBVIOUS
<1>1. /\ queue \in Seq(Nat) /\ taken \in Seq(Nat) /\ pushed \in Nat
      /\ Len(queue) \in Nat /\ Len(taken) \in Nat
      /\ Range(taken) \cup Range(queue) = 1 .. pushed
      /\ Len(taken) + Len(queue) = pushed
  BY DEF TypeOK, EachJobOnce
<1>2. CASE UNCHANGED <<queue, taken, pushed>>
  BY <1>2 DEF EachJobOnce
<1>3. ASSUME NEW p \in Producers, PushInsert(p) PROVE EachJobOnce'
  <2>1. view[p] = queue
    BY <1>3 DEF PushInsert, Mutex, Threads
  <2>2. taken' = taken /\ queue' = Append(queue, pushed + 1) /\ pushed' = pushed + 1
    BY <1>3, <2>1 DEF PushInsert
  <2>3. Range(queue') = Range(queue) \cup {pushed + 1} /\ Len(queue') = Len(queue) + 1
    <3>1. pushed + 1 \in Nat
      BY <1>1
    <3>2. Range(queue') = Range(queue) \cup {pushed + 1}
      BY <1>1, <2>2, <3>1, RangeAppend, Zenon
    <3>3. Len(Append(queue, pushed + 1)) = Len(queue) + 1
      BY <1>1, <3>1, AppendProperties
    <3>4. Len(queue') = Len(queue) + 1
      BY <2>2, <3>3, Zenon
    <3> QED
      BY <3>2, <3>4
  <2>4. (1 .. pushed) \cup {pushed + 1} = 1 .. pushed + 1
    <3>1. \A n \in Nat : n \in 1 .. pushed + 1 <=> n \in 1 .. pushed \/ n = pushed + 1
      BY <1>1
    <3>2. 1 .. pushed + 1 \subseteq Nat /\ 1 .. pushed \subseteq Nat /\ pushed + 1 \in Nat
      BY <1>1
    <3> QED
      BY ONLY <3>1, <3>2
  <2>5. Range(taken') \cup Range(queue') = 1 .. pushed'
    BY <1>1, <2>2, <2>3, <2>4, Zenon
  <2>6. Len(taken') + Len(queue') = pushed'
    BY <1>1, <2>2, <2>3
  <2> QED
    BY <2>5, <2>6 DEF EachJobOnce
<1>4. ASSUME NEW c \in Consumers, PopTake(c) PROVE EachJobOnce'
  <2>1. view[c] = queue /\ pushed' = pushed
    BY <1>4 DEF PopTake, Mutex, Threads
  <2>2. CASE queue = <<>>
    BY <1>2, <1>4, <2>1, <2>2 DEF PopTake, Rest
  <2>3. CASE queue # <<>>
    <3>1. taken' = Append(taken, Head(queue)) /\ queue' = Tail(queue)
      BY <1>4, <2>1, <2>3 DEF PopTake, Rest
    <3>2. Head(queue) \in Nat
      BY <1>1, <2>3
    <3>3. Range(taken') = Range(taken) \cup {Head(queue)} /\ Len(taken') = Len(taken) + 1
      BY <1>1, <3>1, <3>2, RangeAppend, AppendProperties
    <3>4. Range(queue) = {Head(queue)} \cup Range(queue') /\ Len(queue') = Len(queue) - 1
      BY <1>1, <2>3, <3>1, RangeHeadTail
    <3>5. Range(taken') \cup Range(queue') = 1 .. pushed'
      <4>1. PICK a, b, h : a = Range(taken) /\ b = Range(queue') /\ h = Head(queue)
        OBVIOUS
      <4>2. (a \cup {h}) \cup b = a \cup ({h} \cup b)
        OBVIOUS
      <4>3. a \cup ({h} \cup b) = 1 .. pushed
        BY <1>1, <3>4, <4>1, Zenon
      <4>4. Range(taken') = a \cup {h}
        BY <3>3, <4>1, Zenon
      <4> QED
        BY ONLY <2>1, <4>1, <4>2, <4>3, <4>4
    <3>6. Len(taken') + Len(queue') = pushed'
      <4>1. PICK a, b, q : a = Len(taken) /\ b = Len(queue') /\ q = Len(queue)
        OBVIOUS
      <4>2. a \in Nat /\ q \in Nat /\ a + q = pushed /\ b = q - 1
        BY <1>1, <3>4, <4>1
      <4>3. (a + 1) + b = pushed
        BY <4>2
      <4> QED
        BY <2>1, <3>3, <4>1, <4>3, Zenon
    <3> QED
      BY <3>5, <3>6 DEF EachJobOnce
  <2> QED
    BY <2>2, <2>3
<1> QED
  BY <1>2, <1>3, <1>4
  DEF Next, vars, Push, Pop, PushLock, PushRead, PushSignal, Unlock, PopLock, PopCheck,
      Relock, PopRead, Read, SpuriousWakeup

(***************************************************************************)
(* No job is lost, and none is popped twice, with any number of producers  *)
(* and consumers and with spurious wakeups, although insert and pop take   *)
(* two steps each: what the early wakeup of main.c:17 breaks is only that  *)
(* a consumer may find nothing.                                            *)
(***************************************************************************)
THEOREM JobsOnce == Spec => []EachJobOnce
<1>1. Init => EachJobOnce
  <2>1. SUFFICES ASSUME Init PROVE EachJobOnce
    OBVIOUS
  <2>2. taken = <<>> /\ queue = <<>> /\ pushed = 0
    BY <2>1 DEF Init
  <2>3. Range(<<>>) = {} /\ 1 .. 0 = {} /\ Len(<<>>) + Len(<<>>) = 0
    BY DEF Range
  <2> QED
    BY <2>2, <2>3 DEF EachJobOnce
<1> QED
  BY <1>1, StepOnce, MutexHolds, PTL DEF Spec

-----------------------------------------------------------------------------
(* One consumer.                                                           *)

\* A consumer that was woken or is about to take a job has one to take.
SoleConsumer ==
    /\ \A c \in Consumers : pc[c] \in {"woken", "take"} => queue # <<>>
    /\ \A p \in Producers : pc[p] = "signal" => queue # <<>>

LEMMA StepSole ==
    ASSUME ~Spurious, \A c, d \in Consumers : c = d
    PROVE  TypeOK /\ Mutex /\ SoleConsumer /\ [Next]_vars => SoleConsumer'
<1> SUFFICES ASSUME TypeOK, Mutex, SoleConsumer, [Next]_vars
             PROVE  SoleConsumer'
  OBVIOUS
<1> USE ThreadAssumption DEF TypeOK, Mutex, SoleConsumer, Critical, Goto, Acquire, Threads
<1>1. ASSUME NEW t \in Threads, Unlock(t) PROVE SoleConsumer'
  BY <1>1 DEF Unlock
<1>2. ASSUME NEW p \in Producers, Push(p) PROVE SoleConsumer'
  <2>1. CASE PushLock(p)
    BY <2>1 DEF PushLock
  <2>2. CASE PushRead(p)
    BY <2>2 DEF PushRead, Read
  <2>3. CASE PushInsert(p)
    <3>1. queue' # <<>>
      BY <2>3 DEF PushInsert
    <3> QED
      BY <2>3, <3>1 DEF PushInsert
  <2>4. CASE PushSignal(p)
    BY <2>4 DEF PushSignal, Wakes
  <2> QED
    BY <1>1, <1>2, <2>1, <2>2, <2>3, <2>4 DEF Push
<1>3. ASSUME NEW c \in Consumers, Pop(c) PROVE SoleConsumer'
  <2>1. CASE PopLock(c)
    BY <2>1 DEF PopLock
  <2>2. CASE PopCheck(c)
    BY <2>2 DEF PopCheck, MustWait
  <2>3. CASE Relock(c)
    BY <2>3 DEF Relock, Retakes
  <2>4. CASE PopRead(c)
    BY <2>4 DEF PopRead, Read
  <2>5. CASE PopTake(c)
    <3>1. \A p \in Producers : pc[p] # "signal" /\ pc'[p] = pc[p]
      BY <2>5 DEF PopTake
    <3>2. \A d \in Consumers : d = c
      OBVIOUS
    <3>3. pc' = [pc EXCEPT ![c] = "unlock"]
      BY <2>5 DEF PopTake
    <3> QED
      BY <3>1, <3>2, <3>3
  <2> QED
    BY <1>1, <1>3, <2>1, <2>2, <2>3, <2>4, <2>5 DEF Pop
<1>4. ASSUME NEW c \in Consumers PROVE ~SpuriousWakeup(c)
  BY DEF SpuriousWakeup
<1>5. CASE UNCHANGED vars
  BY <1>5 DEF vars
<1> QED
  BY <1>2, <1>3, <1>4, <1>5 DEF Next

(***************************************************************************)
(* With one consumer, and a pthread_cond_wait that returns only when       *)
(* signalled, pop never comes to an empty queue: the "if" of main.c:17 is  *)
(* then enough, however many producers there are.                          *)
(***************************************************************************)
THEOREM OneConsumerFindsJob ==
    ASSUME ~Spurious, \A c, d \in Consumers : c = d
    PROVE  Spec => []PopFindsJob
<1>1. Init => SoleConsumer
  BY DEF Init, SoleConsumer, Threads
<1>2. SoleConsumer => PopFindsJob
  BY DEF SoleConsumer, PopFindsJob
<1> QED
  BY <1>1, <1>2, StepSole, MutexHolds, PTL DEF Spec

-----------------------------------------------------------------------------
(* Signals.                                                                *)

LEMMA StepSignal == TypeOK /\ Mutex /\ NoLostSignal /\ [Next]_vars => NoLostSignal'
<1> SUFFICES ASSUME TypeOK, Mutex, NoLostSignal, [Next]_vars,
                    queue' # <<>>, not_empty' = Consumers, Consumers # {}
             PROVE  \E p \in Producers : pc'[p] = "signal"
  BY DEF NoLostSignal
<1> USE ThreadAssumption DEF TypeOK, Goto, Acquire, Threads
\* A step that adds neither a job nor a sleeper leaves the producer that is
\* about to signal where it is, unless it is that producer's.
<1>1. ASSUME queue # <<>>, not_empty = Consumers,
             \A p \in Producers : pc[p] = "signal" => pc'[p] = "signal"
      PROVE  \E p \in Producers : pc'[p] = "signal"
  BY <1>1 DEF NoLostSignal
<1>2. ASSUME NEW t \in Threads, Unlock(t)
      PROVE  \E p \in Producers : pc'[p] = "signal"
  BY <1>1, <1>2 DEF Unlock
<1>3. ASSUME NEW p \in Producers, Push(p)
      PROVE  \E q \in Producers : pc'[q] = "signal"
  <2>1. CASE PushLock(p)
    BY <1>1, <2>1 DEF PushLock
  <2>2. CASE PushRead(p)
    BY <1>1, <2>2 DEF PushRead, Read
  <2>3. CASE PushInsert(p)
    BY <2>3 DEF PushInsert
  <2>4. ~PushSignal(p)
    <3>1. SUFFICES ASSUME PushSignal(p) PROVE FALSE
      OBVIOUS
    <3>2. CASE Wakes
      BY <3>1, <3>2 DEF PushSignal
    <3>3. CASE ~Wakes
      BY <3>1, <3>3 DEF PushSignal, Wakes
    <3> QED
      BY <3>2, <3>3
  <2> QED
    BY <1>2, <1>3, <2>1, <2>2, <2>3, <2>4 DEF Push
<1>4. ASSUME NEW c \in Consumers, Pop(c)
      PROVE  \E p \in Producers : pc'[p] = "signal"
  <2>0. c \notin Producers
    OBVIOUS
  <2>1. CASE PopLock(c)
    BY <1>1, <2>0, <2>1 DEF PopLock
  <2>2. CASE PopCheck(c)
    BY <1>1, <2>0, <2>2 DEF PopCheck, MustWait
  <2>3. CASE Relock(c)
    BY <1>1, <2>0, <2>3 DEF Relock, Retakes
  <2>4. CASE PopRead(c)
    BY <1>1, <2>0, <2>4 DEF PopRead, Read
  <2>5. CASE PopTake(c)
    <3>1. view[c] = queue
      BY <2>5 DEF PopTake, Mutex
    <3> QED
      BY <1>1, <2>0, <2>5, <3>1 DEF PopTake, Rest
  <2> QED
    BY <1>2, <1>4, <2>1, <2>2, <2>3, <2>4, <2>5 DEF Pop
<1>5. ASSUME NEW c \in Consumers PROVE ~SpuriousWakeup(c)
  BY DEF SpuriousWakeup
<1>6. CASE UNCHANGED vars
  BY <1>1, <1>6 DEF vars
<1> QED
  BY <1>3, <1>4, <1>5, <1>6 DEF Next

(***************************************************************************)
(* No signal is lost, with any number of threads and with spurious         *)
(* wakeups: main.c:8-11 signals with the mutex held, after the insert, and *)
(* main.c:17-18 tests the queue and goes to sleep without letting a push   *)
(* in between.                                                             *)
(***************************************************************************)
THEOREM SignalsReachSleepers == Spec => []NoLostSignal
<1>1. Init => NoLostSignal
  BY DEF Init, NoLostSignal
<1> QED
  BY <1>1, StepSignal, MutexHolds, PTL DEF Spec
=============================================================================
