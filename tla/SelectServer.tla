---------------------------- MODULE SelectServer ----------------------------
(***************************************************************************)
(* src/src/c/tcp_select/server.c: one thread that waits in select and      *)
(* sends whatever a client writes to every other client.                   *)
(*                                                                         *)
(* Each blocking call of the loop is a step of its own, so that clients    *)
(* connect, write, hang up and reset between any two of them: between the  *)
(* select that reported a descriptor and the accept or recv on it, and     *)
(* between two sends of one broadcast.  Scanning descriptors that are not  *)
(* set changes nothing and is not a step.                                  *)
(***************************************************************************)
EXTENDS Sockets, SequencesExt

VARIABLES
    pc,         \* "start", "select", "scan", "broadcast", "exited", "killed"
    master,     \* master
    read_fds,   \* read_fds
    fdmax,      \* fdmax
    i,          \* i: the next descriptor of the scan, or the one being served
    j,          \* j: the next descriptor of the broadcast
    buf,        \* buf[0 .. nbytes-1]
    \* History, for the properties only:
    said,       \* said[c]: all bytes c has written
    log,        \* log[x]: what the x-th recv gave, and of whom
    joined,     \* joined[c]: Len(log) when c was accepted
    got         \* got[c]: what was sent to c, and for which recv

srvVars == <<pc, master, read_fds, fdmax, i, j, buf>>
history == <<said, log, joined, got>>
vars == <<sockVars, srvVars, history>>

Stopped == pc \in {"exited", "killed"}

Init ==
    /\ SockInit
    /\ pc = "start"
    /\ master = {} /\ read_fds = {} /\ fdmax = NoFd
    /\ i = 0 /\ j = 0 /\ buf = <<>>
    /\ said = [c \in Conns |-> <<>>]
    /\ log = <<>>
    /\ joined = [c \in Conns |-> 0]
    /\ got = [c \in Conns |-> <<>>]

-----------------------------------------------------------------------------
(* socket, setsockopt, bind and listen all succeed.                        *)
Startup(n) ==
    /\ pc = "start"
    /\ IsLowestFree(n)
    /\ listener' = n
    /\ master' = {n}
    /\ fdmax' = n
    /\ pc' = "select"
    /\ UNCHANGED <<fd, cli, link, inq, outq, backlog, wrote>>
    /\ UNCHANGED <<read_fds, i, j, buf, history>>

\* One of them fails: exit(1).
StartupFails ==
    /\ pc = "start"
    /\ pc' = "exited"
    /\ UNCHANGED <<sockVars, master, read_fds, fdmax, i, j, buf, history>>

\* select fails only on a watched descriptor that is not open (EBADF).
SelectFails == \E k \in master : k <= fdmax /\ k \notin OpenFds

\* Mutant: the scan tests master instead of the set that select returned.
IsWatched(k) == k <= fdmax

\* Left in read_fds by select.
IsReported(k) == k <= fdmax /\ Readable(k)

Select ==
    /\ pc = "select"
    /\ \E k \in master : k <= fdmax /\ (k \notin OpenFds \/ Readable(k))
    /\ pc' = IF SelectFails THEN "exited" ELSE "scan"
    /\ read_fds' = {k \in master : IsReported(k)}
    /\ i' = 0
    /\ UNCHANGED <<sockVars, master, fdmax, j, buf, history>>

-----------------------------------------------------------------------------
(* The scan: for (i = 0; i <= fdmax; i++) if (FD_ISSET(i, &read_fds)).     *)
\* Mutant: the listener is passed over.
IsNextReadyClient(k) ==
    /\ k \in read_fds /\ i <= k /\ k <= fdmax /\ k # listener
    /\ \A m \in read_fds : m < i \/ k <= m

IsNextReady(k) ==
    /\ k \in read_fds /\ i <= k /\ k <= fdmax
    /\ \A m \in read_fds : m < i \/ k <= m

\* Mutants: fdmax follows the latest connection; it is never raised.
FdmaxLatest(n) == n
FdmaxKept(n) == fdmax

FdmaxWith(n) == IF n > fdmax THEN n ELSE fdmax

Accept(c, n) ==
    /\ pc = "scan"
    /\ IsNextReady(listener)
    /\ SockAccept(c, n)
    /\ master' = master \cup {n}
    /\ fdmax' = FdmaxWith(n)
    /\ i' = listener + 1
    /\ joined' = [joined EXCEPT ![c] = Len(log)]
    /\ UNCHANGED <<pc, read_fds, j, buf, said, log, got>>

\* Mutants: the scan ends with an accept that fails; the listener is no longer
\* watched.
AcceptBreaks ==
    /\ pc = "scan"
    /\ IsNextReady(listener)
    /\ AcceptCannot
    /\ pc' = "select"
    /\ UNCHANGED <<sockVars, master, read_fds, fdmax, i, j, buf, history>>

AcceptGivesUp ==
    /\ pc = "scan"
    /\ IsNextReady(listener)
    /\ AcceptCannot
    /\ i' = listener + 1
    /\ master' = master \ {listener}
    /\ UNCHANGED <<sockVars, pc, read_fds, fdmax, j, buf, history>>

\* accept returns -1: a message is printed and the loop goes on.
AcceptFails ==
    /\ pc = "scan"
    /\ IsNextReady(listener)
    /\ AcceptCannot
    /\ i' = listener + 1
    /\ UNCHANGED <<sockVars, pc, master, read_fds, fdmax, j, buf, history>>

\* Mutant: a hang-up counts before the data that came ahead of it.
IsHungUp(c) == Hangup(c)

\* recv(...) <= 0
IsAtEnd(c) == RecvEnds(c)

RecvClosed(c) ==
    /\ pc = "scan"
    /\ IsOpen(c) /\ IsNextReady(fd[c])
    /\ IsAtEnd(c)
    /\ SockClose(c)
    /\ master' = master \ {fd[c]}
    /\ i' = fd[c] + 1
    /\ UNCHANGED <<pc, read_fds, fdmax, j, buf, history>>

\* Mutant: buf[nbytes] = 0.
TerminatedAfter(s) == Append(s, NUL)

\* buf[nbytes-1] = 0
Terminated(s) == [s EXCEPT ![Len(s)] = NUL]

RecvData(c) ==
    /\ pc = "scan"
    /\ IsOpen(c) /\ IsNextReady(fd[c])
    /\ SockRecv(c)
    /\ LET came == SubSeq(inq[c], 1, RecvLen(c))
       IN  /\ buf' = Terminated(came)
           /\ log' = Append(log, [from |-> c, data |-> came])
    /\ i' = fd[c]
    /\ j' = 0
    /\ pc' = "broadcast"
    /\ UNCHANGED <<master, read_fds, fdmax, said, joined, got>>

\* The loop ends: back to select.
EndScan ==
    /\ pc = "scan"
    /\ ~ \E k \in read_fds : IsNextReady(k)
    /\ pc' = "select"
    /\ UNCHANGED <<sockVars, master, read_fds, fdmax, i, j, buf, history>>

-----------------------------------------------------------------------------
(* The broadcast: for (j = 0; j <= fdmax; j++) if (FD_ISSET(j, &master)).  *)
\* Mutants: j < fdmax; the sender gets its own.
TargetsShort == {k \in master : j <= k /\ k < fdmax /\ k # listener /\ k # i}
TargetsAll == {k \in master : j <= k /\ k <= fdmax /\ k # listener}

Targets == {k \in master : j <= k /\ k <= fdmax /\ k # listener /\ k # i}

IsNextTarget(c) ==
    /\ IsOpen(c) /\ fd[c] \in Targets
    /\ \A k \in Targets : fd[c] <= k

SendOk(c) ==
    /\ pc = "broadcast"
    /\ IsNextTarget(c)
    /\ SockSend(c, Len(buf))
    /\ j' = fd[c] + 1
    /\ got' = [got EXCEPT ![c] = Append(@, [at |-> Len(log), data |-> buf])]
    /\ UNCHANGED <<pc, master, read_fds, fdmax, i, buf, said, log, joined>>

\* send returns -1: a message is printed and the loop goes on.
SendError(c) ==
    /\ pc = "broadcast"
    /\ IsNextTarget(c)
    /\ SockSendFails(c)
    /\ j' = fd[c] + 1
    /\ UNCHANGED <<pc, master, read_fds, fdmax, i, buf, history>>

SendSigpipe(c) ==
    /\ pc = "broadcast"
    /\ IsNextTarget(c)
    /\ SendIsFatal(c)
    /\ pc' = "killed"
    /\ UNCHANGED <<sockVars, master, read_fds, fdmax, i, j, buf, history>>

EndBroadcast ==
    /\ pc = "broadcast"
    /\ Targets = {}
    /\ i' = i + 1
    /\ pc' = "scan"
    /\ UNCHANGED <<sockVars, master, read_fds, fdmax, j, buf, history>>

-----------------------------------------------------------------------------
Server ==
    \/ \E n \in Fds : Startup(n)
    \/ StartupFails
    \/ Select
    \/ \E c \in Conns, n \in Fds : Accept(c, n)
    \/ AcceptFails
    \/ \E c \in Conns : RecvClosed(c)
    \/ \E c \in Conns : RecvData(c)
    \/ EndScan
    \/ \E c \in Conns : SendOk(c)
    \/ \E c \in Conns : SendError(c)
    \/ \E c \in Conns : SendSigpipe(c)
    \/ EndBroadcast

\* The clients go on as long as the server lives.
Clients ==
    /\ ~Stopped
    /\ \E c \in Conns :
        \/ \E w \in Writes :
            ClientWrite(c, w) /\ said' = [said EXCEPT ![c] = @ \o w]
        \/ OtherThanWrite(c) /\ UNCHANGED said
    /\ UNCHANGED <<srvVars, log, joined, got>>

Next == Server \/ Clients

Spec == Init /\ [][Next]_vars

(***************************************************************************)
(* The server runs whenever it can.  Nothing in the code makes a client    *)
(* read, so that fairness is assumed by name: the clients in readers keep  *)
(* reading until they hang up, and a reset on its way arrives.             *)
(***************************************************************************)
ClientAct(A) == ~Stopped /\ A /\ UNCHANGED <<srvVars, history>>

Fairness(readers) ==
    /\ WF_vars(Server)
    /\ \A c \in readers : WF_vars(ClientAct(ClientRead(c)))
    /\ \A c \in Conns : WF_vars(ClientAct(ResetArrives(c)))

-----------------------------------------------------------------------------
(* Properties.                                                             *)

\* What one recv may return.
Chunk == UNION {[1 .. n -> Byte] : n \in 1 .. BufSize}

\* Types.
SrvTypeOK ==
    /\ pc \in {"start", "select", "scan", "broadcast", "exited", "killed"}
    /\ master \subseteq Fds
    /\ read_fds \subseteq Fds
    /\ fdmax \in Fds \cup {NoFd}
    /\ i \in 0 .. NumFds
    /\ j \in 0 .. NumFds
    /\ buf \in Chunk \cup {<<>>}
    /\ said \in [Conns -> Seq(Byte)]
    /\ log \in Seq([from : Conns, data : Chunk])
    /\ joined \in [Conns -> Nat]
    /\ got \in [Conns -> Seq([at : Nat, data : Chunk])]

TypeOK == SockTypeOK /\ SrvTypeOK

(***************************************************************************)
(* The watched descriptors (server.c:82, 112, 134) are the listener and    *)
(* the open connections, each with a number of its own, and fdmax          *)
(* (server.c:84, 113-116, never lowered) bounds them: no connection is     *)
(* forgotten or leaked, and select is never given a closed descriptor,     *)
(* which would make it return -1 and the server exit (server.c:90-94).     *)
(***************************************************************************)
WatchedExactly ==
    listener # NoFd =>
        /\ master = {listener} \cup {fd[c] : c \in {d \in Conns : IsOpen(d)}}
        /\ \A k \in master : k <= fdmax /\ k \notin Inherited
        /\ \A c \in Conns : fd[c] # listener
        /\ \A c, d \in Conns : IsOpen(c) /\ fd[c] = fd[d] => c = d

(***************************************************************************)
(* A descriptor that select reported is still worth a call when the scan   *)
(* gets to it (server.c:99-105, 123), although accepts, closes and whole   *)
(* broadcasts come between and descriptor numbers are used again: accept   *)
(* and recv never block the one thread of the server.                      *)
(***************************************************************************)
StillToScan == {k \in read_fds : IF pc = "scan" THEN i <= k ELSE pc = "broadcast" /\ i < k}

NeverBlocksInScan == \A k \in StillToScan : k \in master /\ Readable(k)

(***************************************************************************)
(* Every client whose connection is whole has been sent, once and in       *)
(* order, what the server received from the others since it was accepted,  *)
(* and nothing of its own (server.c:145-157); in a broadcast, all but the  *)
(* present one if its turn is still to come.  What is sent is as long as   *)
(* what was received, but the last byte of every recv, whatever it was, is *)
(* lost to the 0 of server.c:140: the line "a\n" goes out as "a\0".        *)
(***************************************************************************)
Pending(c) == pc = "broadcast" /\ IsOpen(c) /\ fd[c] \in Targets

Due(c) ==
    {x \in joined[c] + 1 .. Len(log) :
        log[x].from # c /\ (x = Len(log) => ~Pending(c))}

IsCutCopy(sent, came) ==
    /\ DOMAIN sent = DOMAIN came
    /\ \A k \in DOMAIN came : sent[k] = IF k < Len(came) THEN came[k] ELSE NUL

InOrder(c) ==
    /\ {got[c][p].at : p \in DOMAIN got[c]} = Due(c)
    /\ \A p, q \in DOMAIN got[c] : p < q => got[c][p].at < got[c][q].at
    /\ \A p \in DOMAIN got[c] : IsCutCopy(got[c][p].data, log[got[c][p].at].data)

BroadcastInOrder ==
    ~Stopped => \A c \in Conns : IsOpen(c) /\ link[c] \in {"up", "fin"} => InOrder(c)

(***************************************************************************)
(* The server implements the group of BroadcastSpec: one order of posts    *)
(* for everybody, no join, leave or post in the middle of a broadcast, and *)
(* nothing missed but by a client whose connection was reset.  A post is   *)
(* what one recv gave, and reaches the others with 0 for its last byte.    *)
(***************************************************************************)
Group == INSTANCE BroadcastSpec WITH
    Data <- Chunk,
    alive <- ~Stopped,
    members <- {c \in Conns : IsOpen(c)},
    lost <- {c \in Conns : link[c] \in {"reset", "broken", "closed"}},
    owed <- {c \in Conns : Pending(c)}

ImplementsGroup == Group!Spec

-----------------------------------------------------------------------------
\* All bytes that were received from c.
ReadFrom(c) ==
    FoldLeft(LAMBDA s, e : IF e.from = c THEN s \o e.data ELSE s, <<>>, log)

(***************************************************************************)
(* Every byte that an accepted client wrote is received, in its order,     *)
(* also when the client hangs up or resets right after it (server.c:       *)
(* 123-135): the server never closes a descriptor over data that is still  *)
(* unread, and keeps no client waiting for ever.  SendToEveryone says      *)
(* where the data goes from there.                                         *)
(***************************************************************************)
ReadInFull ==
    \A c \in Conns :
        (IsOpen(c) /\ ReadFrom(c) # said[c]) ~> (ReadFrom(c) = said[c] \/ Stopped)

\* Once a client hangs up its descriptor is given back (server.c:132).
HangupServed == \A c \in Conns : (IsOpen(c) /\ Hangup(c)) ~> (~IsOpen(c) \/ Stopped)

(***************************************************************************)
(* A connection that waits in the backlog is accepted (server.c:101-118),  *)
(* however busy the others are, unless accept fails again and again for    *)
(* want of a descriptor (server.c:105-108).  The loop then goes round      *)
(* without a pause; it serves the others meanwhile, which ReadInFull and   *)
(* SendToEveryone say, and accepts once there is a descriptor again.       *)
(***************************************************************************)
Accepted ==
    <>[][~AcceptFails]_vars =>
        \A c \in Conns :
            (\E k \in DOMAIN backlog : backlog[k] = c) ~> (IsOpen(c) \/ Stopped)

(***************************************************************************)
(* server.c:147, "send to everyone!": what the x-th recv gave is sent to   *)
(* each client that had been accepted, unless its connection is lost and   *)
(* as long as every client reads what it is sent.                          *)
(***************************************************************************)
IsDue(c, x) == IsOpen(c) /\ x \in DOMAIN log /\ joined[c] < x /\ log[x].from # c

IsSent(c, x) == \E p \in DOMAIN got[c] : got[c][p].at = x

SendToEveryone ==
    \A c \in Conns, x \in 1 .. Cardinality(Conns) * MaxWrites :
        IsDue(c, x) ~> (IsSent(c, x) \/ link[c] \notin {"up", "fin"} \/ Stopped)
=============================================================================
