----------------------------- MODULE Multicast -----------------------------
(***************************************************************************)
(* src/src/c/mcast/mcast.c and src/src/c/socket/mcast.c: run with a group  *)
(* they print what is sent to it, run with a message as well they send one *)
(* datagram.  The first receives until a second passes without a datagram, *)
(* the second receives one.                                                *)
(*                                                                         *)
(* opt of mcast.c is argv[3] when argc is 3, and that is NULL: no run of   *)
(* the program calls SO_BINDTODEVICE, and it is left out.  A setsockopt of *)
(* IP_MULTICAST_LOOP is taken to succeed.                                  *)
(***************************************************************************)
EXTENDS Integers, Sequences, FiniteSets

CONSTANTS
    Procs,      \* the processes
    Prog,       \* Prog[p]: the program p runs, "mcast" or "socket"
    Host,       \* Host[p]: the host p runs on
    BufSize,    \* sizeof buf
    RcvBuf,     \* datagrams the kernel keeps for a socket
    Char,       \* the bytes of messages
    NUL, Junk,  \* the byte 0, any other byte that was in buf from the start
    Messages    \* what argv[2] may be

ASSUME ProcAssumption == Prog \in [Procs -> {"mcast", "socket"}]
ASSUME SizeAssumption == BufSize \in Nat \ {0} /\ RcvBuf \in Nat
ASSUME ByteAssumption == Messages \subseteq Seq(Char) /\ NUL \notin Char

VARIABLES
    args,       \* args[p]: what p is called with: "none", "group", "message"
    pc,         \* pc[p]: the next call of p
    queue,      \* queue[p]: datagrams received by the kernel for p
    err,        \* err[p]: an error of p's socket: "none", "pending", "reported"
    timeout,    \* timeout[p]: the timeout of poll
    member,     \* p has joined the group
    buf,        \* buf[p]: buf
    \* History, for the properties only:
    heard,      \* heard[p]: the datagrams p has received
    said        \* said[p]: the lines p has printed for them

history == <<heard, said>>
vars == <<args, pc, queue, err, timeout, member, buf, history>>

Init ==
    /\ args \in [Procs -> {"none", "group", "message"}]
    /\ pc = [p \in Procs |-> "socket"]
    /\ queue = [p \in Procs |-> <<>>]
    /\ err = [p \in Procs |-> "none"]
    /\ timeout = [p \in Procs |-> -1]
    /\ member = [p \in Procs |-> FALSE]
    /\ buf = [p \in Procs |-> [k \in 1 .. BufSize |-> NUL]]
    /\ heard = [p \in Procs |-> <<>>]
    /\ said = [p \in Procs |-> <<>>]

\* The socket is open and bound.
IsBound(p) == args[p] = "group" /\ pc[p] \in {"join", "poll", "recv", "recv one", "close"}

\* p, whose next call is here, makes it and goes on to there.
Step(p, here, there) == pc[p] = here /\ pc' = [pc EXCEPT ![p] = there]

-----------------------------------------------------------------------------
SocketOk(p) ==
    /\ Step(p, "socket", IF args[p] = "none" THEN "failed"
                         ELSE IF args[p] = "group" THEN "bind" ELSE "send")
    /\ UNCHANGED <<args, queue, err, timeout, member, buf, history>>

SocketFails(p) ==
    /\ Step(p, "socket", "failed")
    /\ UNCHANGED <<args, queue, err, timeout, member, buf, history>>

\* No SO_REUSEADDR: one receiver of the group's port on a host.  buf, declared
\* in this block, holds anything.
BindOk(p, b) ==
    /\ \A q \in Procs : Host[q] = Host[p] => ~IsBound(q)
    /\ Step(p, "bind", "join")
    /\ buf' = [buf EXCEPT ![p] = b]
    /\ UNCHANGED <<args, queue, err, timeout, member, history>>

BindFails(p) ==
    /\ Step(p, "bind", "failed")
    /\ UNCHANGED <<args, queue, err, timeout, member, buf, history>>

FirstCall(p) == IF Prog[p] = "mcast" THEN "poll" ELSE "recv one"

Join(p) ==
    /\ Step(p, "join", FirstCall(p))
    /\ member' = [member EXCEPT ![p] = TRUE]
    /\ UNCHANGED <<args, queue, err, timeout, buf, history>>

\* Printed, and nothing else: the receiver waits for what cannot come.
JoinFails(p) ==
    /\ Step(p, "join", FirstCall(p))
    /\ UNCHANGED <<args, queue, err, timeout, member, buf, history>>

-----------------------------------------------------------------------------
\* A datagram reaches a host, or not; its own only if IP_MULTICAST_LOOP is 1.
MayReach(p) ==
    {q \in Procs : IsBound(q) /\ member[q] /\ (Host[q] = Host[p] => Prog[p] = "mcast")}

\* sendto of argv[2]; a full queue drops it.
Send(p, m) ==
    /\ Step(p, "send", "close")
    /\ \E Q \in SUBSET MayReach(p) :
        queue' = [q \in Procs |->
                    IF q \in Q /\ Len(queue[q]) < RcvBuf
                    THEN Append(queue[q], [from |-> p, data |-> m])
                    ELSE queue[q]]
    /\ UNCHANGED <<args, err, timeout, member, buf, history>>

\* sendto returns -1: printed, and that is all.
SendFails(p) ==
    /\ Step(p, "send", "close")
    /\ UNCHANGED <<args, queue, err, timeout, member, buf, history>>

-----------------------------------------------------------------------------
IsReady(p) == queue[p] # <<>> \/ err[p] = "pending"

PollReady(p) ==
    /\ IsReady(p)
    /\ Step(p, "poll", "recv")
    /\ UNCHANGED <<args, queue, err, timeout, member, buf, history>>

\* poll returns 0: a second has passed.
PollQuiet(p) ==
    /\ ~IsReady(p)
    /\ timeout[p] # -1
    /\ Step(p, "poll", "close")
    /\ UNCHANGED <<args, queue, err, timeout, member, buf, history>>

\* An error, once for a process (a bound): poll returns -1 ...
PollFails(p) ==
    /\ err[p] = "none"
    /\ Step(p, "poll", "close")
    /\ err' = [err EXCEPT ![p] = "reported"]
    /\ UNCHANGED <<args, queue, timeout, member, buf, history>>

\* ... or the socket has an error for recvfrom to report.
SocketError(p) ==
    /\ pc[p] \in {"poll", "recv", "recv one"}
    /\ err[p] = "none"
    /\ err' = [err EXCEPT ![p] = "pending"]
    /\ UNCHANGED <<args, pc, queue, timeout, member, buf, history>>

\* Mutant: no wait is limited.
TimeoutNever(p) == timeout

\* timeout = 1000
TimeoutAfter(p) == [timeout EXCEPT ![p] = 1000]

\* The bytes of s that recvfrom stores.
Stored(s) == IF Len(s) < BufSize THEN Len(s) ELSE BufSize

\* Mutants: the 0 that is missing is put on the last byte, or behind the buffer.
FillAndCut(b, s) == [k \in 1 .. BufSize |-> IF k = Stored(s) THEN NUL
                                           ELSE IF k <= Len(s) THEN s[k] ELSE b[k]]

FillAndEnd(b, s) ==
    LET n == Stored(s)
    IN  [k \in DOMAIN b \cup {n + 1} |-> IF k <= n THEN s[k] ELSE IF k = n + 1 THEN NUL ELSE b[k]]

\* recvfrom: what does not fit is cut off, and no 0 is added.
Fill(b, s) == [k \in 1 .. BufSize |-> IF k <= Len(s) THEN s[k] ELSE b[k]]

\* %s: up to the first 0.  Without one printf reads on behind buf.
Text(b) == [k \in {n \in 1 .. BufSize : \A m \in 1 .. n : b[m] # NUL} |-> b[k]]

TakeFirst(p) ==
    /\ err[p] # "pending" /\ queue[p] # <<>>
    /\ queue' = [queue EXCEPT ![p] = Tail(@)]
    /\ buf' = [buf EXCEPT ![p] = Fill(@, Head(queue[p]).data)]
    /\ heard' = [heard EXCEPT ![p] = Append(@, Head(queue[p]))]
    /\ said' = [said EXCEPT ![p] = Append(@, Text(buf'[p]))]
    /\ UNCHANGED <<args, err, member>>

TakeError(p) ==
    /\ err[p] = "pending"
    /\ err' = [err EXCEPT ![p] = "reported"]
    /\ UNCHANGED <<args, queue, member, buf, history>>

Recv(p) ==
    /\ Step(p, "recv", "poll")
    /\ TakeFirst(p) \/ TakeError(p)
    /\ timeout' = TimeoutAfter(p)

RecvOne(p) ==
    /\ Step(p, "recv one", "close")
    /\ TakeFirst(p) \/ TakeError(p)
    /\ UNCHANGED timeout

\* close, with whatever has come in the meantime.
Close(p) ==
    /\ Step(p, "close", "ended")
    /\ queue' = [queue EXCEPT ![p] = <<>>]
    /\ UNCHANGED <<args, err, timeout, member, buf, history>>

-----------------------------------------------------------------------------
Process(p) ==
    \/ SocketOk(p) \/ SocketFails(p)
    \/ (\E b \in [1 .. BufSize -> {NUL, Junk}] : BindOk(p, b)) \/ BindFails(p)
    \/ Join(p) \/ JoinFails(p)
    \/ (\E m \in Messages : Send(p, m)) \/ SendFails(p)
    \/ PollReady(p) \/ PollQuiet(p) \/ PollFails(p)
    \/ Recv(p) \/ RecvOne(p)
    \/ Close(p)

Next == \E p \in Procs : Process(p) \/ SocketError(p)

Spec == Init /\ [][Next]_vars

\* A process runs when it can, and a second passes when nothing comes.
FairSpec == Spec /\ \A p \in Procs : WF_vars(Process(p))

-----------------------------------------------------------------------------
(* Properties.                                                             *)

\* Types.
Datagram == [from : Procs, data : Messages]
Cell == Char \cup {NUL, Junk}

TypeOK ==
    /\ args \in [Procs -> {"none", "group", "message"}]
    /\ pc \in [Procs -> {"socket", "bind", "join", "poll", "recv", "recv one",
                         "send", "close", "ended", "failed"}]
    /\ queue \in [Procs -> Seq(Datagram)]
    /\ \A p \in Procs : Len(queue[p]) <= RcvBuf
    /\ err \in [Procs -> {"none", "pending", "reported"}]
    /\ timeout \in [Procs -> {-1, 1000}]
    /\ member \in [Procs -> BOOLEAN]
    /\ buf \in [Procs -> [1 .. BufSize -> Cell]]
    /\ heard \in [Procs -> Seq(Datagram)]
    /\ \A p \in Procs : DOMAIN said[p] = DOMAIN heard[p]

(***************************************************************************)
(* Each line printed starts with the whole datagram it is printed for,     *)
(* cut to the buffer (mcast.c:83-87).  Nothing ends the string there, so   *)
(* the line may go on with the end of a longer datagram before it, or with *)
(* what was in buf from the start: of that nothing is said.  And a         *)
(* receiver waits without limit for the first datagram (mcast.c:80): it    *)
(* never ends with nothing received and no error reported.                 *)
(***************************************************************************)
HasReceived(p) == heard[p] # <<>> \/ err[p] = "reported"

StartsWith(line, text) ==
    \A n \in 1 .. BufSize : n <= Len(text) => n \in DOMAIN line /\ line[n] = text[n]

SaysWhatCame ==
    \A p \in Procs :
        /\ \A k \in DOMAIN said[p] : StartsWith(said[p][k], heard[p][k].data)
        /\ args[p] = "group" /\ pc[p] = "ended" => HasReceived(p)

(***************************************************************************)
(* A receiver that has received ends: in the first second without a        *)
(* datagram (mcast.c:82, 89), whatever recvfrom reports in between, or     *)
(* after the one datagram of socket/mcast.c.                               *)
(***************************************************************************)
EndsWhenQuiet == \A p \in Procs : HasReceived(p) ~> pc[p] = "ended"
=============================================================================
