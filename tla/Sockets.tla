------------------------------ MODULE Sockets ------------------------------
(***************************************************************************)
(* What the two servers of src/src/c/tcp_select see of the operating       *)
(* system: a descriptor table, one listening socket, TCP connections and   *)
(* the clients at their far ends.  None of it is code of the repository;   *)
(* it is modelled from how the servers use it: blocking sockets, no        *)
(* MSG_NOSIGNAL, no signal handler, listen(listener, 10), Linux TCP.       *)
(*                                                                         *)
(* A connection is used once: a client that comes back is another element  *)
(* of Conns, and its descriptor number may be one used before.             *)
(***************************************************************************)
EXTENDS Bytes, Integers, Sequences, FiniteSets

CONSTANTS
    Conns,      \* the connections clients may open
    NumFds,     \* RLIMIT_NOFILE: descriptors are 0 .. NumFds-1
    Inherited,  \* descriptors open when main starts (stdin, stdout, stderr)
    Backlog,    \* the second argument of listen
    BufSize,    \* sizeof(buf) in the servers
    SndBuf,     \* bytes the kernel holds for a client that does not read
    Char,       \* the bytes other than '\n' and 0 that clients use
    Writes,     \* byte sequences a client may write in one call
    MaxWrites,  \* bound: writes of one client
    Faults      \* what may go wrong: subset of {"close", "abort", "enfile"}

NoFd == -1
Fds == 0 .. NumFds - 1
Byte == Char \cup {NL, NUL}

ASSUME FdAssumption == NumFds \in Nat /\ Inherited \subseteq Fds

\* A buffer holds a byte, and a whole buffer fits in an empty send queue.
ASSUME SizeAssumption ==
    /\ Backlog \in Nat
    /\ BufSize \in Nat \ {0}
    /\ SndBuf \in Nat /\ BufSize <= SndBuf

ASSUME ClientAssumption ==
    /\ MaxWrites \in Nat
    /\ Faults \subseteq {"close", "abort", "enfile"}
    /\ Writes \subseteq Seq(Byte) \ {<<>>}

VARIABLES
    listener,   \* the listening descriptor, NoFd before socket() succeeds
    fd,         \* fd[c]: the server's descriptor for c, NoFd if it has none
    cli,        \* cli[c]: the client: idle, open, half (has sent FIN), gone
    link,       \* link[c]: what the server's kernel knows of c (LinkState)
    inq,        \* inq[c]: bytes received and not yet read by the server
    outq,       \* outq[c]: number of bytes sent and not yet read by the client
    backlog,    \* established connections waiting for accept
    wrote       \* wrote[c]: number of writes c has made

sockVars == <<listener, fd, cli, link, inq, outq, backlog, wrote>>

(***************************************************************************)
(* none    no connection yet                                               *)
(* up      established                                                     *)
(* fin     the client's FIN has arrived: end of file after the data        *)
(* reset   an RST has arrived: the next send or recv reports it            *)
(* broken  the error has been reported, or the RST followed a FIN: the     *)
(*         next send raises SIGPIPE                                        *)
(* closed  the server has called close                                     *)
(***************************************************************************)
LinkState == {"none", "up", "fin", "reset", "broken", "closed"}

SockTypeOK ==
    /\ listener \in Fds \cup {NoFd}
    /\ fd \in [Conns -> Fds \cup {NoFd}]
    /\ cli \in [Conns -> {"idle", "open", "half", "gone"}]
    /\ link \in [Conns -> LinkState]
    /\ inq \in [Conns -> Seq(Byte)]
    /\ outq \in [Conns -> 0 .. SndBuf]
    /\ backlog \in Seq(Conns)
    /\ wrote \in [Conns -> 0 .. MaxWrites]

SockInit ==
    /\ listener = NoFd
    /\ fd = [c \in Conns |-> NoFd]
    /\ cli = [c \in Conns |-> "idle"]
    /\ link = [c \in Conns |-> "none"]
    /\ inq = [c \in Conns |-> <<>>]
    /\ outq = [c \in Conns |-> 0]
    /\ backlog = <<>>
    /\ wrote = [c \in Conns |-> 0]

-----------------------------------------------------------------------------
(* System calls of the server.                                             *)

IsOpen(c) == fd[c] # NoFd
OpenFds == Inherited \cup ({listener} \ {NoFd}) \cup {fd[c] : c \in {d \in Conns : IsOpen(d)}}

\* POSIX gives out the lowest free number.
IsLowestFree(n) ==
    /\ n \in Fds \ OpenFds
    /\ \A m \in Fds \ OpenFds : n <= m

Hangup(c) == link[c] \in {"fin", "reset", "broken"}

\* select reports k: a call on it would not block.
Readable(k) ==
    \/ k = listener /\ backlog # <<>>
    \/ \E c \in Conns : IsOpen(c) /\ fd[c] = k /\ (inq[c] # <<>> \/ Hangup(c))

\* accept: takes the oldest waiting connection (one already reset as well).
SockAccept(c, n) ==
    /\ backlog # <<>> /\ c = Head(backlog)
    /\ IsLowestFree(n)
    /\ fd' = [fd EXCEPT ![c] = n]
    /\ backlog' = Tail(backlog)
    /\ UNCHANGED <<listener, cli, link, inq, outq, wrote>>

\* accept returns -1: EMFILE, or ENFILE when the whole system has run out of
\* files.  The connection stays in the backlog.
AcceptCannot ==
    /\ backlog # <<>>
    /\ Fds \subseteq OpenFds \/ "enfile" \in Faults

\* recv returns data before it returns the end of the stream or an error.
RecvLen(c) == IF Len(inq[c]) < BufSize THEN Len(inq[c]) ELSE BufSize

SockRecv(c) ==
    /\ inq[c] # <<>>
    /\ inq' = [inq EXCEPT ![c] = SubSeq(inq[c], RecvLen(c) + 1, Len(inq[c]))]
    /\ UNCHANGED <<listener, fd, cli, link, outq, backlog, wrote>>

\* recv returns 0 or -1: the servers then close the descriptor.
RecvEnds(c) == inq[c] = <<>> /\ Hangup(c)

SockClose(c) ==
    /\ fd' = [fd EXCEPT ![c] = NoFd]
    /\ link' = [link EXCEPT ![c] = "closed"]
    /\ inq' = [inq EXCEPT ![c] = <<>>]
    /\ outq' = [outq EXCEPT ![c] = 0]
    /\ UNCHANGED <<listener, cli, backlog, wrote>>

\* send of n bytes that the kernel takes; it blocks until there is room.
SockSend(c, n) ==
    /\ link[c] \in {"up", "fin"}
    /\ outq[c] + n <= SndBuf
    /\ outq' = [outq EXCEPT ![c] = @ + n]
    /\ UNCHANGED <<listener, fd, cli, link, inq, backlog, wrote>>

\* send returns -1 with the pending error ECONNRESET, and consumes it.
SockSendFails(c) ==
    /\ link[c] = "reset"
    /\ link' = [link EXCEPT ![c] = "broken"]
    /\ UNCHANGED <<listener, fd, cli, inq, outq, backlog, wrote>>

\* send raises SIGPIPE, whose default action ends the process.
SendIsFatal(c) == link[c] = "broken"

-----------------------------------------------------------------------------
(* The clients and the network.                                            *)

Connect(c) ==
    /\ cli[c] = "idle"
    /\ listener # NoFd
    /\ Len(backlog) <= Backlog     \* Linux queues one more than asked for
    /\ cli' = [cli EXCEPT ![c] = "open"]
    /\ link' = [link EXCEPT ![c] = "up"]
    /\ backlog' = Append(backlog, c)
    /\ UNCHANGED <<listener, fd, inq, outq, wrote>>

ClientWrite(c, w) ==
    /\ cli[c] = "open" /\ link[c] = "up"
    /\ wrote[c] < MaxWrites
    /\ inq' = [inq EXCEPT ![c] = @ \o w]
    /\ wrote' = [wrote EXCEPT ![c] = @ + 1]
    /\ UNCHANGED <<listener, fd, cli, link, outq, backlog>>

\* The client reads everything it has been sent.
ClientRead(c) ==
    /\ cli[c] \in {"open", "half"}
    /\ outq[c] > 0
    /\ outq' = [outq EXCEPT ![c] = 0]
    /\ UNCHANGED <<listener, fd, cli, link, inq, backlog, wrote>>

\* The orderly end: shutdown(SHUT_WR), and reading on until the server closes.
ClientShutdown(c) ==
    /\ cli[c] = "open" /\ link[c] = "up"
    /\ cli' = [cli EXCEPT ![c] = "half"]
    /\ link' = [link EXCEPT ![c] = "fin"]
    /\ UNCHANGED <<listener, fd, inq, outq, backlog, wrote>>

\* close, or the end of the client's process: a FIN is sent, nobody reads.
ClientClose(c) ==
    /\ "close" \in Faults
    /\ cli[c] \in {"open", "half"} /\ link[c] \in {"up", "fin"}
    /\ cli' = [cli EXCEPT ![c] = "gone"]
    /\ link' = [link EXCEPT ![c] = "fin"]
    /\ UNCHANGED <<listener, fd, inq, outq, backlog, wrote>>

\* close with data unread, or an abortive close: an RST is sent.
ClientAbort(c) ==
    /\ "abort" \in Faults
    /\ cli[c] \in {"open", "half"} /\ link[c] \in {"up", "fin"}
    /\ cli' = [cli EXCEPT ![c] = "gone"]
    /\ link' = [link EXCEPT ![c] = IF @ = "up" THEN "reset" ELSE "broken"]
    /\ outq' = [outq EXCEPT ![c] = 0]
    /\ UNCHANGED <<listener, fd, inq, backlog, wrote>>

\* Bytes sent to a client that has closed are answered with an RST.
ResetArrives(c) ==
    /\ cli[c] = "gone" /\ link[c] = "fin"
    /\ outq[c] > 0
    /\ link' = [link EXCEPT ![c] = "broken"]
    /\ outq' = [outq EXCEPT ![c] = 0]
    /\ UNCHANGED <<listener, fd, cli, inq, backlog, wrote>>

OtherThanWrite(c) ==
    \/ Connect(c)
    \/ ClientRead(c)
    \/ ClientShutdown(c)
    \/ ClientClose(c)
    \/ ClientAbort(c)
    \/ ResetArrives(c)

Client(c) == OtherThanWrite(c) \/ \E w \in Writes : ClientWrite(c, w)
=============================================================================
