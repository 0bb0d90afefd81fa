----------------------------- MODULE SpinTimer -----------------------------
(***************************************************************************)
(* src/src/c/pthread/threads_and_timers.c: main and a timer thread that    *)
(* share a spin lock.  A thread that sleeps runs again some time after its *)
(* sleep is over, never before; a spinning thread waits for the lock.      *)
(***************************************************************************)
EXTENDS Integers

CONSTANT seconds    \* seconds, a natural number: what the timer is set to

Threads == {"main", "timer"}

VARIABLES
    pc,         \* pc[t]: the next line of t, by what it does
    left,       \* left[t]: seconds that t still sleeps
    lock,       \* lock: its owner, "free" or "none" before pthread_spin_init
    said        \* the lines of output that the properties speak of

vars == <<pc, left, lock, said>>

Init ==
    /\ pc = [t \in Threads |-> IF t = "main" THEN "init" ELSE "unborn"]
    /\ left = [t \in Threads |-> 0]
    /\ lock = "none"
    /\ said = {}

Runs(t, here) == pc[t] = here /\ left[t] = 0

\* The next step of t, after a sleep of n seconds.
Goto(t, there, n) ==
    /\ pc' = [pc EXCEPT ![t] = there]
    /\ left' = [left EXCEPT ![t] = n]

SpinLock(t) == lock = "free" /\ lock' = t

-----------------------------------------------------------------------------
SpinInit ==
    /\ Runs("main", "init")
    /\ lock' = "free"
    /\ Goto("main", "lock", 0)
    /\ UNCHANGED said

MainLock ==
    /\ Runs("main", "lock")
    /\ SpinLock("main")
    /\ Goto("main", "create", 1)
    /\ UNCHANGED said

Create ==
    /\ Runs("main", "create")
    /\ pc' = [pc EXCEPT !["main"] = "unlock", !["timer"] = "born"]
    /\ UNCHANGED <<left, lock, said>>

\* rc # 0 is only printed: main goes on without a timer thread.
CreateFails ==
    /\ Runs("main", "create")
    /\ Goto("main", "unlock", 0)
    /\ UNCHANGED <<lock, said>>

MainUnlock ==
    /\ Runs("main", "unlock")
    /\ lock' = "free"
    /\ Goto("main", "trylock", 1)
    /\ UNCHANGED said

TryLockOk ==
    /\ Runs("main", "trylock")
    /\ SpinLock("main")
    /\ Goto("main", "join", 0)
    /\ UNCHANGED said

TryLockFails ==
    /\ Runs("main", "trylock")
    /\ lock # "free"
    /\ said' = said \cup {"failed to get trylock, as expected"}
    /\ Goto("main", "join", 0)
    /\ UNCHANGED lock

Join ==
    /\ Runs("main", "join")
    /\ pc["timer"] = "exited"
    /\ said' = said \cup {"all threads in"}
    /\ Goto("main", "exited", 0)
    /\ UNCHANGED lock

\* With a thread_id that was never set, what pthread_join does is undefined.
JoinUnset ==
    /\ Runs("main", "join")
    /\ pc["timer"] = "unborn"
    /\ Goto("main", "undefined", 0)
    /\ UNCHANGED <<lock, said>>

-----------------------------------------------------------------------------
(* g_start_timer.                                                          *)
TimerStarts ==
    /\ Runs("timer", "born")
    /\ Goto("timer", "lock", 1)
    /\ UNCHANGED <<lock, said>>

TimerLock ==
    /\ Runs("timer", "lock")
    /\ SpinLock("timer")
    /\ Goto("timer", "set", 1)
    /\ UNCHANGED said

TimerSet ==
    /\ Runs("timer", "set")
    /\ Goto("timer", "callback", seconds)
    /\ UNCHANGED <<lock, said>>

\* timeout_cb and pthread_exit; the lock is kept.
Callback ==
    /\ Runs("timer", "callback")
    /\ said' = said \cup {"your time is up"}
    /\ Goto("timer", "exited", 0)
    /\ UNCHANGED lock

Second ==
    /\ \E t \in Threads : left[t] > 0
    /\ left' = [t \in Threads |-> IF left[t] > 0 THEN left[t] - 1 ELSE 0]
    /\ UNCHANGED <<pc, lock, said>>

Main ==
    \/ SpinInit \/ MainLock \/ Create \/ CreateFails \/ MainUnlock
    \/ TryLockOk \/ TryLockFails \/ Join \/ JoinUnset

Timer == TimerStarts \/ TimerLock \/ TimerSet \/ Callback

Next == Main \/ Timer \/ Second

Spec == Init /\ [][Next]_vars

\* Both threads run when they can, and time passes.
FairSpec == Spec /\ WF_vars(Main) /\ WF_vars(Timer) /\ WF_vars(Second)

-----------------------------------------------------------------------------
(***************************************************************************)
(* threads_and_timers.c:63: "failed to get trylock, as expected": the      *)
(* timer thread, if there is one, sleeps as long as main does and has the  *)
(* lock by then.                                                           *)
(***************************************************************************)
TryLockFailsAsExpected ==
    pc["timer"] # "unborn" /\ pc["main"] \in {"join", "exited"} =>
        "failed to get trylock, as expected" \in said
=============================================================================
