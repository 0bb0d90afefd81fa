------------------------------ MODULE TapLoop ------------------------------
(***************************************************************************)
(* src/src/c/tap: main opens a tap device, sets its interface up, sends    *)
(* back every frame it reads until there were enough, sets the interface   *)
(* down and closes the device.                                             *)
(*                                                                         *)
(* select is that of Linux: it takes the time it waited off the timeout it *)
(* is given, a timeout empties the set, and a signal leaves the set as it  *)
(* was.  Frames are numbered as the kernel queues them.                    *)
(***************************************************************************)
EXTENDS Integers, Sequences, Functions

CONSTANTS
    Timeout,    \* the initial timeout of select, in ticks
    Enough,     \* the loop ends when rx_count > Enough
    QueueLen,   \* the transmit queue of the interface
    MaxFrames,  \* bound: frames queued
    MaxSignals  \* bound: times that select fails, as it does on a signal

ASSUME TapAssumption ==
    /\ Timeout \in Nat /\ Enough \in Nat /\ QueueLen \in Nat
    /\ MaxFrames \in Nat /\ MaxSignals \in Nat

VARIABLES
    pc,         \* "open", "up", "select", "read", "write", "down", "close", "end"
    flags,      \* ifr_flags of the interface, as kept by the kernel
    readset,    \* is fd in readset?
    timeout,    \* timeout
    rx_count,   \* rx_count; tx_count is always the same
    buf,        \* the frame in buf
    queue,      \* frames queued for read
    signals,    \* signals so far
    \* History, for the properties only:
    arrived,    \* frames queued so far
    echoed,     \* frames written
    dropped     \* frames that were lost because read or write failed

history == <<arrived, echoed, dropped>>
vars == <<pc, flags, readset, timeout, rx_count, buf, queue, signals, history>>

Init ==
    /\ pc = "open"
    /\ flags = {}
    /\ readset = FALSE
    /\ timeout = Timeout
    /\ rx_count = 0
    /\ buf = 0
    /\ queue = <<>>
    /\ signals = 0
    /\ arrived = 0
    /\ echoed = <<>>
    /\ dropped = {}

-----------------------------------------------------------------------------
(* main, before and after the loop.                                        *)
TapOpen ==
    /\ pc = "open"
    /\ pc' \in {"up", "end"}       \* the open or the ioctl may fail
    /\ UNCHANGED <<flags, readset, timeout, rx_count, buf, queue, signals, history>>

\* tun_set_if: the flags are added to those the interface has.
SetIf(up) == flags' = flags \cup {"IFF_UP"} \cup (IF up THEN {"IFF_RUNNING"} ELSE {})

SetUp ==
    /\ pc = "up"
    /\ \/ SetIf(TRUE) /\ pc' = "select" /\ readset' = TRUE
       \/ UNCHANGED <<flags, readset>> /\ pc' = "end"
    /\ UNCHANGED <<timeout, rx_count, buf, queue, signals, history>>

SetDown ==
    /\ pc = "down"
    /\ SetIf(FALSE)
    /\ pc' = "close"
    /\ UNCHANGED <<readset, timeout, rx_count, buf, queue, signals, history>>

\* The error is not looked at.
SetDownFails ==
    /\ pc = "down"
    /\ pc' = "close"
    /\ UNCHANGED <<flags, readset, timeout, rx_count, buf, queue, signals, history>>

TapClose ==
    /\ pc = "close"
    /\ queue' = <<>>
    /\ pc' = "end"
    /\ UNCHANGED <<flags, readset, timeout, rx_count, buf, signals, history>>

-----------------------------------------------------------------------------
(* main_loop.                                                              *)
IsReady == readset /\ queue # <<>>

SelectReady ==
    /\ pc = "select"
    /\ IsReady
    /\ pc' = "read"
    /\ UNCHANGED <<flags, readset, timeout, rx_count, buf, queue, signals, history>>

\* Mutant: if (result >= 0).
AfterTimeoutRead == "read"

AfterTimeout == "select"

\* result is 0, and the set is empty from now on.
SelectTimeout ==
    /\ pc = "select"
    /\ ~IsReady /\ timeout = 0
    /\ readset' = FALSE
    /\ pc' = AfterTimeout
    /\ UNCHANGED <<flags, timeout, rx_count, buf, queue, signals, history>>

\* Mutant: FD_ZERO after a select that failed, and no FD_SET.
SetEmptied == FALSE

SetAfterError == readset

\* result is -1, with EINTR or not: "keep on going".
SelectInterrupted ==
    /\ pc = "select"
    /\ ~IsReady /\ timeout > 0 /\ signals < MaxSignals
    /\ signals' = signals + 1
    /\ readset' = SetAfterError
    /\ UNCHANGED <<pc, flags, timeout, rx_count, buf, queue, history>>

\* read waits for a frame if there is none.
Read ==
    /\ pc = "read"
    /\ queue # <<>>
    /\ buf' = Head(queue)
    /\ queue' = Tail(queue)
    /\ rx_count' = rx_count + 1
    /\ pc' = "write"
    /\ UNCHANGED <<flags, readset, timeout, signals, history>>

\* s <= 0: nothing is counted or written.  The frame may be lost or not.
ReadFails ==
    /\ pc = "read"
    /\ queue # <<>>
    /\ \/ UNCHANGED <<queue, dropped>>
       \/ queue' = Tail(queue) /\ dropped' = dropped \cup {Head(queue)}
    /\ pc' = "select"
    /\ UNCHANGED <<flags, readset, timeout, rx_count, buf, signals, arrived, echoed>>

\* Mutants: the count is looked at before the write; the bound is one too high.
WriteIfMore == IF rx_count > Enough THEN echoed ELSE Append(echoed, buf)
IsEnoughLate == rx_count > Enough + 1

Written == Append(echoed, buf)

IsEnough == rx_count > Enough

\* What write returns is only printed: a frame that is not written counts too.
Write ==
    /\ pc = "write"
    /\ \/ echoed' = Written /\ UNCHANGED dropped
       \/ dropped' = dropped \cup {buf} /\ UNCHANGED echoed
    /\ pc' = IF IsEnough THEN "down" ELSE "select"
    /\ UNCHANGED <<flags, readset, timeout, rx_count, buf, queue, signals, arrived>>

Main ==
    \/ TapOpen \/ SetUp \/ SetDown \/ SetDownFails \/ TapClose
    \/ SelectReady \/ SelectTimeout \/ Read \/ ReadFails \/ Write

-----------------------------------------------------------------------------
(* The kernel: time passes in select, frames are sent to the interface.    *)
Tick ==
    /\ pc = "select"
    /\ ~IsReady /\ timeout > 0
    /\ timeout' = timeout - 1
    /\ UNCHANGED <<pc, flags, readset, rx_count, buf, queue, signals, history>>

FrameArrives ==
    /\ "IFF_UP" \in flags /\ pc # "end"
    /\ Len(queue) < QueueLen /\ arrived < MaxFrames
    /\ arrived' = arrived + 1
    /\ queue' = Append(queue, arrived')
    /\ UNCHANGED <<pc, flags, readset, timeout, rx_count, buf, signals, echoed, dropped>>

Next == Main \/ SelectInterrupted \/ Tick \/ FrameArrives

Spec == Init /\ [][Next]_vars

\* The program runs when it can, and time passes.
FairSpec == Spec /\ WF_vars(Main) /\ WF_vars(Tick)

-----------------------------------------------------------------------------
\* Types.
TypeOK ==
    /\ pc \in {"open", "up", "select", "read", "write", "down", "close", "end"}
    /\ flags \subseteq {"IFF_UP", "IFF_RUNNING"}
    /\ readset \in BOOLEAN
    /\ timeout \in 0 .. Timeout
    /\ rx_count \in 0 .. Enough + 1
    /\ buf \in Nat
    /\ queue \in Seq(Nat)
    /\ signals \in Nat
    /\ arrived \in Nat
    /\ echoed \in Seq(Nat)
    /\ dropped \subseteq Nat

(***************************************************************************)
(* Of the frames that were queued, each that read and write did not fail   *)
(* on was written back, is in buf or is still to be read (test.c:63-77):   *)
(* once, and in the order they came, whatever timeouts, signals and errors *)
(* come between.  Those queued when the device is closed are lost.         *)
(***************************************************************************)
InHand == IF pc = "write" THEN <<buf>> ELSE <<>>

Increasing(f) == \A k, m \in DOMAIN f : k < m => f[k] < f[m]

EchoesInOrder ==
    pc # "end" =>
        /\ Increasing(echoed \o InHand \o queue)
        /\ Range(echoed \o InHand \o queue) = (1 .. arrived) \ dropped

\* The device is opened without O_NONBLOCK: read is only called when there is
\* a frame (test.c:61-63), also after a timeout or a signal.
NeverBlocksInRead == pc = "read" => queue # <<>>

(***************************************************************************)
(* A frame that comes before the time of select is used up (test.c:37) is  *)
(* sent back, or lost in a call that fails, or left when the loop ends,    *)
(* whatever signals and errors come between - unless read fails again and  *)
(* again.  Of frames that come after a timeout nothing is said: readset is *)
(* empty then and is not filled again, so the loop goes on and reads none. *)
(***************************************************************************)
IsDone(k) == k \in Range(echoed) \cup dropped \/ pc \in {"down", "close", "end"}

FramesServed ==
    <>[][~ReadFails]_vars =>
        \A k \in 1 .. MaxFrames : (timeout > 0 /\ k \in Range(queue)) ~> IsDone(k)
=============================================================================
