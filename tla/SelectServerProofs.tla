------------------------- MODULE SelectServerProofs -------------------------
(***************************************************************************)
(* Proofs about SelectServer for any number of clients and descriptors,    *)
(* any buffer sizes and any faults.                                        *)
(***************************************************************************)
EXTENDS SelectServer, SequenceTheorems, TLAPS

USE FdAssumption, SizeAssumption, ClientAssumption

-----------------------------------------------------------------------------
(* The sockets: what every step of the server may rely on.                 *)

\* The loops of the servers go on after a descriptor.
LEMMA NextFd == \A k \in Fds : k \in 0 .. NumFds /\ k + 1 \in 0 .. NumFds
BY DEF Fds

LEMMA SubSeqType ==
    ASSUME NEW S, NEW s \in Seq(S), NEW m \in 1 .. Len(s) + 1, NEW n \in 0 .. Len(s),
           m <= n + 1
    PROVE  SubSeq(s, m, n) \in Seq(S) /\ Len(SubSeq(s, m, n)) = n - m + 1
OBVIOUS

LEMMA AppendLast ==
    ASSUME NEW S, NEW s \in Seq(S), NEW e \in S
    PROVE  /\ Append(s, e) \in Seq(S) /\ Append(s, e) # <<>>
           /\ Len(Append(s, e)) = Len(s) + 1
           /\ Append(s, e)[Len(Append(s, e))] = e
           /\ \A k \in 1 .. Len(s) : Append(s, e)[k] = s[k]
BY AppendProperties

LEMMA RecvLenType ==
    ASSUME SockTypeOK, NEW c \in Conns, inq[c] # <<>>
    PROVE  /\ inq[c] \in Seq(Byte) /\ Len(inq[c]) \in Nat
           /\ RecvLen(c) \in 1 .. BufSize /\ RecvLen(c) \in 1 .. Len(inq[c])
<1>1. inq[c] \in Seq(Byte) /\ Len(inq[c]) \in Nat \ {0}
    BY DEF SockTypeOK
<1>2. QED
    BY <1>1 DEF RecvLen

-----------------------------------------------------------------------------
(* Types of the sockets.                                                   *)

LEMMA SockAcceptTypes ==
    ASSUME SockTypeOK, NEW c \in Conns, NEW n \in Fds, SockAccept(c, n)
    PROVE  SockTypeOK'
BY DEF SockAccept, SockTypeOK

LEMMA SockRecvTypes ==
    ASSUME SockTypeOK, NEW c \in Conns, SockRecv(c)
    PROVE  SockTypeOK'
<1>1. SubSeq(inq[c], RecvLen(c) + 1, Len(inq[c])) \in Seq(Byte)
    <2>1. inq[c] \in Seq(Byte) /\ RecvLen(c) + 1 \in 1 .. Len(inq[c]) + 1
          /\ Len(inq[c]) \in 0 .. Len(inq[c]) /\ RecvLen(c) + 1 <= Len(inq[c]) + 1
        BY RecvLenType DEF SockRecv
    <2>2. QED
        BY <2>1, SubSeqType
<1>2. QED
    BY <1>1 DEF SockRecv, SockTypeOK

LEMMA SockCloseTypes ==
    ASSUME SockTypeOK, NEW c \in Conns, SockClose(c)
    PROVE  SockTypeOK'
<1>1. <<>> \in Seq(Byte) /\ 0 \in 0 .. SndBuf /\ "closed" \in LinkState
    BY DEF LinkState
<1>2. QED
    BY <1>1 DEF SockClose, SockTypeOK

LEMMA SockSendTypes ==
    ASSUME SockTypeOK, NEW c \in Conns, NEW n \in Nat, SockSend(c, n)
    PROVE  SockTypeOK'
<1>1. outq[c] + n \in 0 .. SndBuf
    BY DEF SockSend, SockTypeOK
<1>2. QED
    BY <1>1 DEF SockSend, SockTypeOK

LEMMA SockSendFailsTypes ==
    ASSUME SockTypeOK, NEW c \in Conns, SockSendFails(c)
    PROVE  SockTypeOK'
BY DEF SockSendFails, SockTypeOK, LinkState

LEMMA SockSame ==
    ASSUME SockTypeOK, UNCHANGED sockVars
    PROVE  SockTypeOK'
BY DEF sockVars, SockTypeOK

\* Steps of the clients and of the network.
LEMMA ClientTypes ==
    ASSUME SockTypeOK, NEW c \in Conns, Client(c)
    PROVE  SockTypeOK'
<1>1. CASE Connect(c)
    BY <1>1 DEF Connect, SockTypeOK, LinkState
<1>2. CASE \E w \in Writes : ClientWrite(c, w)
    <2>1. PICK w \in Writes : ClientWrite(c, w)
        BY <1>2
    <2>2. w \in Seq(Byte) /\ inq[c] \o w \in Seq(Byte)
        BY DEF SockTypeOK
    <2>3. QED
        BY <2>1, <2>2 DEF ClientWrite, SockTypeOK
<1>3. CASE ClientRead(c)
    BY <1>3 DEF ClientRead, SockTypeOK
<1>4. CASE ClientShutdown(c)
    BY <1>4 DEF ClientShutdown, SockTypeOK, LinkState
<1>5. CASE ClientClose(c)
    BY <1>5 DEF ClientClose, SockTypeOK, LinkState
<1>6. CASE ClientAbort(c)
    BY <1>6 DEF ClientAbort, SockTypeOK, LinkState
<1>7. CASE ResetArrives(c)
    BY <1>7 DEF ResetArrives, SockTypeOK, LinkState
<1>8. QED
    BY <1>1, <1>2, <1>3, <1>4, <1>5, <1>6, <1>7 DEF Client, OtherThanWrite

-----------------------------------------------------------------------------
(* The descriptor table and the backlog.                                   *)

(***************************************************************************)
(* What the kernel guarantees: a connection waits in the backlog once, and *)
(* has no descriptor before it is accepted.                                *)
(***************************************************************************)
SockInv ==
    /\ \A c \in Conns : listener = NoFd => cli[c] = "idle"
    /\ \A c \in Conns : cli[c] = "idle" => fd[c] = NoFd
    /\ \A k \in DOMAIN backlog : cli[backlog[k]] # "idle" /\ fd[backlog[k]] = NoFd
    /\ \A k, l \in DOMAIN backlog : backlog[k] = backlog[l] => k = l

\* Clients change neither descriptors nor the listener.
LEMMA ClientSockInv ==
    ASSUME SockTypeOK, SockInv, NEW c \in Conns, Client(c)
    PROVE  SockInv' /\ UNCHANGED <<listener, fd>>
<1>1. CASE Connect(c)
    <2>1. backlog' = Append(backlog, c) /\ backlog \in Seq(Conns)
        BY <1>1 DEF Connect, SockTypeOK
    <2>2. /\ DOMAIN backlog' = 1 .. Len(backlog) + 1 /\ DOMAIN backlog = 1 .. Len(backlog)
          /\ Len(backlog) \in Nat
          /\ backlog'[Len(backlog) + 1] = c
          /\ \A k \in DOMAIN backlog : backlog'[k] = backlog[k] /\ backlog[k] \in Conns
        BY <2>1, AppendProperties
    <2>3. \A k \in DOMAIN backlog : backlog[k] # c
        BY <1>1 DEF Connect, SockInv
    <2>4. \A d \in Conns : cli'[d] = IF d = c THEN "open" ELSE cli[d]
        BY <1>1 DEF Connect, SockTypeOK
    <2>5. fd[c] = NoFd /\ listener # NoFd /\ UNCHANGED <<listener, fd>>
        BY <1>1 DEF Connect, SockInv
    <2>6. \A k \in DOMAIN backlog' : k \in DOMAIN backlog \/ k = Len(backlog) + 1
        BY <2>2
    <2>7. \A k \in DOMAIN backlog' : cli'[backlog'[k]] # "idle" /\ fd'[backlog'[k]] = NoFd
        BY <2>2, <2>4, <2>5, <2>6 DEF SockInv
    <2>8. \A k, l \in DOMAIN backlog' : backlog'[k] = backlog'[l] => k = l
        BY <2>2, <2>3, <2>6 DEF SockInv
    <2>9. QED
        BY <2>4, <2>5, <2>7, <2>8 DEF SockInv
<1>2. CASE UNCHANGED <<listener, fd, backlog>> /\ \A d \in Conns : cli'[d] = "idle" <=> cli[d] = "idle"
    <2>1. \A k \in DOMAIN backlog : backlog[k] \in Conns
        BY DEF SockTypeOK
    <2>2. QED
        BY <1>2, <2>1 DEF SockInv
<1>3. CASE ~Connect(c)
    <2>1. UNCHANGED <<listener, fd, backlog>>
        BY <1>3 DEF Client, OtherThanWrite, ClientWrite, ClientRead, ClientShutdown,
            ClientClose, ClientAbort, ResetArrives
    <2>2. cli' = cli \/ (cli[c] # "idle" /\ (cli' = [cli EXCEPT ![c] = "half"] \/ cli' = [cli EXCEPT ![c] = "gone"]))
        BY <1>3 DEF Client, OtherThanWrite, ClientWrite, ClientRead, ClientShutdown,
            ClientClose, ClientAbort, ResetArrives
    <2>3. \A d \in Conns : cli'[d] = "idle" <=> cli[d] = "idle"
        BY <2>2 DEF SockTypeOK
    <2>4. QED
        BY <1>2, <2>1, <2>3
<1>4. QED
    BY <1>1, <1>3

LEMMA SockFrame ==
    ASSUME SockInv, UNCHANGED <<listener, fd, cli, backlog>>
    PROVE  SockInv'
BY DEF SockInv

\* A lowest free descriptor is nobody's.
LEMMA FreshFd ==
    ASSUME SockTypeOK, NEW n \in Fds, IsLowestFree(n)
    PROVE  /\ n \notin Inherited /\ n # listener /\ n # NoFd
           /\ \A c \in Conns : fd[c] # n
<1>1. n \notin OpenFds /\ n # NoFd
    BY DEF IsLowestFree, Fds, NoFd
<1>2. QED
    BY <1>1 DEF OpenFds, IsOpen

(***************************************************************************)
(* accept gives a connection that had none a number that nobody else has.  *)
(***************************************************************************)
LEMMA AcceptFresh ==
    ASSUME SockTypeOK, SockInv, NEW c \in Conns, NEW n \in Fds, SockAccept(c, n)
    PROVE  /\ listener # NoFd /\ fd[c] = NoFd
           /\ n \notin Inherited /\ n # listener /\ n # NoFd
           /\ \A d \in Conns : fd[d] # n
           /\ \A d \in Conns : fd'[d] = IF d = c THEN n ELSE fd[d]
           /\ SockInv'
<1>1. backlog \in Seq(Conns) /\ backlog # <<>> /\ backlog' = Tail(backlog)
      /\ c = Head(backlog) /\ UNCHANGED <<listener, cli>>
    BY DEF SockTypeOK, SockAccept
<1>2. c = backlog[1] /\ 1 \in DOMAIN backlog
    BY <1>1
<1>3. fd[c] = NoFd /\ cli[c] # "idle" /\ listener # NoFd
    BY <1>2 DEF SockInv
<1>4. n \notin Inherited /\ n # listener /\ n # NoFd /\ \A d \in Conns : fd[d] # n
    BY FreshFd DEF SockAccept
<1>5. \A d \in Conns : fd'[d] = IF d = c THEN n ELSE fd[d]
    BY DEF SockTypeOK, SockAccept
<1>6. SockInv'
    <2>1. \A k \in DOMAIN backlog' :
            /\ k \in Nat /\ k >= 1
            /\ k + 1 \in DOMAIN backlog
            /\ backlog'[k] = backlog[k + 1]
            /\ backlog[k + 1] \in Conns
        BY <1>1
    <2>2. \A k \in DOMAIN backlog' : backlog'[k] # c
        BY <2>1, <1>2 DEF SockInv
    <2>3. \A k \in DOMAIN backlog' : cli'[backlog'[k]] # "idle" /\ fd'[backlog'[k]] = NoFd
        BY <1>1, <1>5, <2>1, <2>2 DEF SockInv
    <2>4. \A k, l \in DOMAIN backlog' : backlog'[k] = backlog'[l] => k = l
        BY <2>1 DEF SockInv
    <2>5. QED
        BY <1>1, <1>3, <1>5, <2>3, <2>4 DEF SockInv
<1>7. QED
    BY <1>3, <1>4, <1>5, <1>6

LEMMA CloseSockInv ==
    ASSUME SockTypeOK, SockInv, NEW c \in Conns, SockClose(c)
    PROVE  SockInv' /\ \A d \in Conns : fd'[d] = IF d = c THEN NoFd ELSE fd[d]
<1>1. \A k \in DOMAIN backlog : backlog[k] \in Conns
    BY DEF SockTypeOK
<1>2. UNCHANGED <<listener, cli, backlog>>
      /\ \A d \in Conns : fd'[d] = IF d = c THEN NoFd ELSE fd[d]
    BY DEF SockTypeOK, SockClose
<1>3. QED
    BY <1>1, <1>2 DEF SockInv

-----------------------------------------------------------------------------
(* What select has reported and a call does not touch stays worth a call.  *)

Ready(c) == inq[c] # <<>> \/ Hangup(c)

\* Nothing a client does takes back what select has reported.
LEMMA ClientReady ==
    ASSUME SockTypeOK, SockInv, NEW c \in Conns, Client(c)
    PROVE  \A k \in Fds : Readable(k) => Readable(k)'
<1>1. UNCHANGED <<listener, fd>>
    BY ClientSockInv
<1>2. backlog # <<>> => backlog' # <<>>
    <2>1. CASE Connect(c)
        <3>1. backlog \in Seq(Conns) /\ backlog' = Append(backlog, c)
            BY <2>1 DEF Connect, SockTypeOK
        <3>2. QED
            BY <3>1, AppendProperties
    <2>2. CASE ~Connect(c)
        BY <2>2 DEF Client, OtherThanWrite, ClientWrite, ClientRead, ClientShutdown,
            ClientClose, ClientAbort, ResetArrives
    <2>3. QED
        BY <2>1, <2>2
<1>3. ASSUME NEW d \in Conns, fd[d] # NoFd, Ready(d) PROVE Ready(d)'
    <2>1. CASE Connect(c)
        <3>1. d # c
            BY <1>3, <2>1 DEF Connect, SockInv
        <3>2. QED
            BY <1>3, <2>1, <3>1 DEF Connect, SockTypeOK, Ready, Hangup
    <2>2. ASSUME NEW w \in Writes, ClientWrite(c, w) PROVE Ready(d)'
        <3>1. w \in Seq(Byte) /\ w # <<>> /\ inq \in [Conns -> Seq(Byte)]
            BY DEF SockTypeOK
        <3>2. inq[c] \o w # <<>>
            BY <3>1, ConcatEqualIffEmpty
        <3>3. QED
            BY <1>3, <2>2, <3>1, <3>2 DEF ClientWrite, Ready, Hangup
    <2>3. CASE ClientRead(c)
        BY <1>3, <2>3 DEF ClientRead, Ready, Hangup
    <2>4. CASE ClientShutdown(c)
        BY <1>3, <2>4 DEF ClientShutdown, SockTypeOK, Ready, Hangup
    <2>5. CASE ClientClose(c)
        BY <1>3, <2>5 DEF ClientClose, SockTypeOK, Ready, Hangup
    <2>6. CASE ClientAbort(c)
        BY <1>3, <2>6 DEF ClientAbort, SockTypeOK, Ready, Hangup
    <2>7. CASE ResetArrives(c)
        BY <1>3, <2>7 DEF ResetArrives, SockTypeOK, Ready, Hangup
    <2>8. QED
        BY <2>1, <2>2, <2>3, <2>4, <2>5, <2>6, <2>7 DEF Client, OtherThanWrite
<1>4. QED
    BY <1>1, <1>2, <1>3 DEF Readable, IsOpen, Ready

LEMMA AcceptReadable ==
    ASSUME SockTypeOK, SockInv, NEW c \in Conns, NEW n \in Fds, SockAccept(c, n),
           NEW k \in Fds, k # listener, Readable(k)
    PROVE  Readable(k)'
<1>1. fd[c] = NoFd /\ \A d \in Conns : fd'[d] = IF d = c THEN n ELSE fd[d]
    BY AcceptFresh
<1>2. PICK d \in Conns : IsOpen(d) /\ fd[d] = k /\ (inq[d] # <<>> \/ Hangup(d))
    BY DEF Readable
<1>3. d # c
    BY <1>1, <1>2 DEF IsOpen
<1>4. QED
    BY <1>1, <1>2, <1>3 DEF SockAccept, Readable, IsOpen, Hangup

LEMMA CloseReadable ==
    ASSUME SockTypeOK, NEW c \in Conns, SockClose(c), NEW k \in Fds, k # fd[c], Readable(k)
    PROVE  Readable(k)'
<1>1. UNCHANGED <<listener, backlog>>
      /\ \A d \in Conns : d # c => fd'[d] = fd[d] /\ link'[d] = link[d] /\ inq'[d] = inq[d]
    BY DEF SockClose, SockTypeOK
<1>2. CASE k = listener /\ backlog # <<>>
    BY <1>1, <1>2 DEF Readable
<1>3. CASE \E d \in Conns : IsOpen(d) /\ fd[d] = k /\ (inq[d] # <<>> \/ Hangup(d))
    BY <1>1, <1>3 DEF Readable, IsOpen, Hangup
<1>4. QED
    BY <1>2, <1>3 DEF Readable

LEMMA RecvReadable ==
    ASSUME SockTypeOK, NEW c \in Conns, SockRecv(c), NEW k \in Fds, k # fd[c], Readable(k)
    PROVE  Readable(k)'
<1>1. UNCHANGED <<listener, backlog, fd, link>>
      /\ \A d \in Conns : d # c => inq'[d] = inq[d]
    BY DEF SockRecv, SockTypeOK
<1>2. QED
    BY <1>1 DEF Readable, IsOpen, Hangup

LEMMA SendFailsReadable ==
    ASSUME SockTypeOK, NEW c \in Conns, SockSendFails(c), NEW k, Readable(k)
    PROVE  Readable(k)'
<1>1. UNCHANGED <<listener, backlog, fd, inq>> /\ \A d \in Conns : Hangup(d) => Hangup(d)'
    BY DEF SockSendFails, SockTypeOK, Hangup
<1>2. QED
    BY <1>1 DEF Readable, IsOpen

-----------------------------------------------------------------------------
(* What a client sent, as recv delivers it.                                *)

USE DEF FdmaxWith, IsReported

(***************************************************************************)
(* What one recv gives fits in the buffer, and is sent on as it is but for *)
(* its last byte.                                                          *)
(***************************************************************************)
LEMMA CutCopy ==
    ASSUME NEW came \in Chunk
    PROVE  /\ Terminated(came) \in Chunk
           /\ IsCutCopy(Terminated(came), came)
           /\ Terminated(came) = Group!Sealed(came)
<1>1. PICK n \in 1 .. BufSize : came \in [1 .. n -> Byte]
    BY DEF Chunk
<1>2. Len(came) = n /\ DOMAIN came = 1 .. n /\ n \in Int
    BY <1>1
<1>3. NUL \in Byte
    BY DEF Byte
<1>4. Terminated(came) = [came EXCEPT ![n] = NUL]
    BY <1>2 DEF Terminated
<1>5. Terminated(came) \in [1 .. n -> Byte]
    BY <1>1, <1>3, <1>4
<1>6. \A k \in 1 .. n : Terminated(came)[k] = IF k < n THEN came[k] ELSE NUL
    BY <1>1, <1>2, <1>4
<1>7. QED
    BY <1>1, <1>2, <1>5, <1>6 DEF Chunk, IsCutCopy, Terminated, Group!Sealed

LEMMA LastPosted ==
    ASSUME log \in Seq([from : Conns, data : Chunk]), log # <<>>
    PROVE  log[Len(log)].data \in Chunk
<1> DEFINE S == [from : Conns, data : Chunk]
<1>1. \A e \in S : e.data \in Chunk
    OBVIOUS
<1>2. log \in Seq(S) /\ log # <<>>
    OBVIOUS
<1> HIDE DEF S
<1>3. log[Len(log)] \in S
    BY <1>2
<1>4. QED
    BY <1>1, <1>3

LEMMA RecvStep ==
    ASSUME SockTypeOK, NEW c \in Conns, RecvData(c)
    PROVE  \E came \in Chunk :
               /\ buf' = Terminated(came)
               /\ log' = Append(log, [from |-> c, data |-> came])
<1> DEFINE n == RecvLen(c)
           came == SubSeq(inq[c], 1, n)
<1>0. inq[c] # <<>>
    BY DEF RecvData, SockRecv
<1>1. inq[c] \in Seq(Byte) /\ n \in 1 .. BufSize /\ n \in 1 .. Len(inq[c])
    BY <1>0, RecvLenType
<1>2. came \in Seq(Byte) /\ Len(came) = n
    <2>1. n \in 0 .. Len(inq[c]) /\ 1 \in 1 .. Len(inq[c]) + 1 /\ 1 <= n + 1
        BY <1>1
    <2> HIDE DEF n
    <2>2. QED
        BY <1>1, <2>1, SubSeqType
<1>3. buf' = Terminated(came) /\ log' = Append(log, [from |-> c, data |-> came])
    BY DEF RecvData
<1> HIDE DEF n, came
<1>4. came \in [1 .. n -> Byte]
    BY <1>1, <1>2
<1>5. came \in Chunk
    BY <1>1, <1>4 DEF Chunk
<1>6. QED
    BY <1>3, <1>5

-----------------------------------------------------------------------------
(* Types of the server.                                                    *)

(***************************************************************************)
(* In a broadcast i is the sender's descriptor and buf holds what the last *)
(* recv gave, cut.                                                         *)
(***************************************************************************)
InBroadcast ==
    pc = "broadcast" =>
        /\ i \in Fds /\ buf \in Chunk
        /\ log # <<>> /\ buf = Terminated(log[Len(log)].data)

TypeInv == TypeOK /\ InBroadcast

LEMMA TypesInit == Init => TypeInv
BY DEF Init, SockInit, TypeInv, TypeOK, SockTypeOK, SrvTypeOK, InBroadcast, NoFd, LinkState, Fds

LEMMA TypesNext ==
    ASSUME TypeInv, [Next]_vars
    PROVE  TypeInv'
<1> USE DEF TypeInv, TypeOK
<1>1. ASSUME NEW n \in Fds, Startup(n) PROVE TypeInv'
    <2>1. SockTypeOK'
        BY <1>1 DEF Startup, SockTypeOK
    <2>2. QED
        BY <1>1, <2>1 DEF Startup, SrvTypeOK, InBroadcast, history
<1>2. CASE StartupFails
    BY <1>2, SockSame DEF StartupFails, SrvTypeOK, InBroadcast, history
<1>3. CASE Select
    <2>1. read_fds' \subseteq Fds
        BY <1>3 DEF Select, SrvTypeOK
    <2>2. pc' \in {"exited", "scan"} /\ i' \in 0 .. NumFds
        BY <1>3 DEF Select, SrvTypeOK
    <2>3. QED
        BY <1>3, <2>1, <2>2, SockSame DEF Select, SrvTypeOK, InBroadcast, history
<1>4. ASSUME NEW c \in Conns, NEW n \in Fds, Accept(c, n) PROVE TypeInv'
    <2>1. SockTypeOK'
        BY <1>4, SockAcceptTypes DEF Accept
    <2>2. listener + 1 \in 0 .. NumFds
        BY <1>4, NextFd DEF Accept, IsNextReady, SrvTypeOK
    <2>3. joined' \in [Conns -> Nat]
        BY <1>4 DEF Accept, SrvTypeOK
    <2>4. QED
        BY <1>4, <2>1, <2>2, <2>3 DEF Accept, SrvTypeOK, InBroadcast
<1>5. CASE AcceptFails
    <2>1. listener + 1 \in 0 .. NumFds
        BY <1>5, NextFd DEF AcceptFails, IsNextReady, SrvTypeOK
    <2>2. QED
        BY <1>5, <2>1, SockSame DEF AcceptFails, SrvTypeOK, InBroadcast, history
<1>6. ASSUME NEW c \in Conns, RecvClosed(c) PROVE TypeInv'
    <2>1. SockTypeOK'
        BY <1>6, SockCloseTypes DEF RecvClosed
    <2>2. fd[c] + 1 \in 0 .. NumFds
        BY <1>6, NextFd DEF RecvClosed, IsNextReady, SrvTypeOK
    <2>3. QED
        BY <1>6, <2>1, <2>2 DEF RecvClosed, SrvTypeOK, InBroadcast, history
<1>7. ASSUME NEW c \in Conns, RecvData(c) PROVE TypeInv'
    <2>1. SockTypeOK'
        BY <1>7, SockRecvTypes DEF RecvData
    <2>2. PICK came \in Chunk : /\ buf' = Terminated(came)
                                 /\ log' = Append(log, [from |-> c, data |-> came])
        BY <1>7, RecvStep
    <2>3. i' \in Fds /\ i' \in 0 .. NumFds /\ j' \in 0 .. NumFds
        BY <1>7, NextFd DEF RecvData, IsNextReady, SrvTypeOK
    <2>4. buf' \in Chunk
        BY <2>2, CutCopy
    <2>5. log' \in Seq([from : Conns, data : Chunk]) /\ log' # <<>>
          /\ log'[Len(log')] = [from |-> c, data |-> came]
        <3> DEFINE S == [from : Conns, data : Chunk]
                   e == [from |-> c, data |-> came]
        <3>1. e \in S /\ log \in Seq(S)
            BY DEF SrvTypeOK
        <3> HIDE DEF S, e
        <3>2. Append(log, e) \in Seq(S) /\ Append(log, e) # <<>>
              /\ Append(log, e)[Len(Append(log, e))] = e
            BY <3>1, AppendLast
        <3>3. QED
            BY <2>2, <3>2 DEF S, e
    <2>6. SrvTypeOK'
        BY <1>7, <2>3, <2>4, <2>5 DEF RecvData, SrvTypeOK
    <2>7. InBroadcast'
        BY <2>2, <2>3, <2>4, <2>5 DEF InBroadcast
    <2>8. QED
        BY <2>1, <2>6, <2>7
<1>8. CASE EndScan
    BY <1>8, SockSame DEF EndScan, SrvTypeOK, InBroadcast, history
<1>9. ASSUME NEW c \in Conns, SendOk(c) PROVE TypeInv'
    <2>1. fd[c] \in Fds /\ fd[c] + 1 \in 0 .. NumFds
        BY <1>9, NextFd DEF SendOk, IsNextTarget, Targets, SrvTypeOK
    <2>2. buf \in Chunk
        BY <1>9 DEF SendOk, SrvTypeOK, InBroadcast
    <2>3. Len(buf) \in Nat
        BY <2>2 DEF Chunk
    <2>4. SockTypeOK'
        BY <1>9, <2>3, SockSendTypes DEF SendOk
    <2>5. got' \in [Conns -> Seq([at : Nat, data : Chunk])]
        <3> DEFINE S == [at : Nat, data : Chunk]
                   e == [at |-> Len(log), data |-> buf]
        <3>1. e \in S /\ got \in [Conns -> Seq(S)]
            <4>1. log \in Seq([from : Conns, data : Chunk])
                BY DEF SrvTypeOK
            <4>2. Len(log) \in Nat
                BY <4>1
            <4>3. QED
                BY <2>2, <4>2 DEF SrvTypeOK
        <3>2. got' = [got EXCEPT ![c] = Append(@, e)]
            BY <1>9 DEF SendOk
        <3> HIDE DEF S, e
        <3>3. Append(got[c], e) \in Seq(S)
            BY <3>1, AppendLast
        <3>4. got' \in [Conns -> Seq(S)]
            BY <3>1, <3>2, <3>3
        <3>5. QED
            BY <3>4 DEF S
    <2>6. QED
        BY <1>9, <2>1, <2>4, <2>5 DEF SendOk, SrvTypeOK, InBroadcast
<1>10. ASSUME NEW c \in Conns, SendError(c) PROVE TypeInv'
    <2>1. fd[c] + 1 \in 0 .. NumFds
        BY <1>10, NextFd DEF SendError, IsNextTarget, Targets, SrvTypeOK
    <2>2. SockTypeOK'
        BY <1>10, SockSendFailsTypes DEF SendError
    <2>3. QED
        BY <1>10, <2>1, <2>2 DEF SendError, SrvTypeOK, InBroadcast, history
<1>11. ASSUME NEW c \in Conns, SendSigpipe(c) PROVE TypeInv'
    BY <1>11, SockSame DEF SendSigpipe, SrvTypeOK, InBroadcast, history
<1>12. CASE EndBroadcast
    <2>1. i + 1 \in 0 .. NumFds
        BY <1>12, NextFd DEF EndBroadcast, InBroadcast
    <2>2. QED
        BY <1>12, <2>1, SockSame DEF EndBroadcast, SrvTypeOK, InBroadcast, history
<1>13. CASE Clients
    <2>1. PICK c \in Conns :
              /\ Client(c)
              /\ UNCHANGED said \/ \E w \in Writes : said' = [said EXCEPT ![c] = @ \o w]
        BY <1>13 DEF Clients, Client
    <2>2. SockTypeOK'
        BY <2>1, ClientTypes
    <2>3. \A w \in Writes : said[c] \o w \in Seq(Byte)
        BY DEF SrvTypeOK
    <2>4. said' \in [Conns -> Seq(Byte)]
        BY <2>1, <2>3 DEF SrvTypeOK
    <2>5. QED
        BY <1>13, <2>2, <2>4 DEF Clients, SrvTypeOK, InBroadcast, srvVars
<1>14. CASE UNCHANGED vars
    <2>1. SockTypeOK'
        BY <1>14, SockSame DEF vars
    <2>2. QED
        BY <1>14, <2>1 DEF vars, SrvTypeOK, InBroadcast, srvVars, history
<1>15. QED
    BY <1>1, <1>2, <1>3, <1>4, <1>5, <1>6, <1>7, <1>8, <1>9, <1>10, <1>11,
       <1>12, <1>13, <1>14 DEF Next, Server

(***************************************************************************)
(* Every variable keeps its type, for any instance of the system.          *)
(***************************************************************************)
THEOREM SelectTypes == Spec => []TypeOK
<1>1. TypeInv => TypeOK
    BY DEF TypeInv
<1>2. QED
    BY <1>1, TypesInit, TypesNext, PTL DEF Spec

-----------------------------------------------------------------------------
(* The descriptor bookkeeping.                                             *)

WatchInv ==
    /\ pc = "start" => listener = NoFd
    /\ listener = NoFd => pc \in {"start", "exited"} /\ read_fds = {} /\ log = <<>>
    /\ WatchedExactly

Inv == TypeInv /\ SockInv /\ WatchInv

LEMMA InvInit == Init => Inv
<1>1. Init => SockInv /\ WatchInv
    BY DEF Init, SockInit, SockInv, WatchInv, WatchedExactly
<1>2. QED
    BY <1>1, TypesInit DEF Inv

LEMMA WatchFrame ==
    ASSUME WatchInv, UNCHANGED <<listener, fd, master, fdmax>>,
           \/ pc \notin {"start", "exited"} /\ pc' # "start"
           \/ pc' \in {pc, "exited"} /\ UNCHANGED <<read_fds, log>>
    PROVE  WatchInv'
<1>1. WatchedExactly'
    BY DEF WatchInv, WatchedExactly, IsOpen
<1>2. QED
    BY <1>1 DEF WatchInv

(***************************************************************************)
(* The new connection is watched under a number nobody else has.           *)
(***************************************************************************)
LEMMA WatchAccept ==
    ASSUME Inv, NEW c \in Conns, NEW n \in Fds, Accept(c, n)
    PROVE  SockInv' /\ WatchInv'
<1>1. /\ listener # NoFd /\ fd[c] = NoFd
      /\ n \notin Inherited /\ n # listener /\ n # NoFd
      /\ \A d \in Conns : fd[d] # n
      /\ \A d \in Conns : fd'[d] = IF d = c THEN n ELSE fd[d]
      /\ SockInv'
    BY AcceptFresh DEF Inv, TypeInv, TypeOK, Accept
<1>2. WatchInv'
    <2>1. /\ master' = master \cup {n}
          /\ fdmax' = IF n > fdmax THEN n ELSE fdmax
          /\ listener' = listener /\ pc' = "scan" /\ pc = "scan"
        BY DEF Accept, SockAccept
    <2>2. fdmax \in Int /\ n \in Int /\ master \subseteq Fds
        BY DEF Inv, TypeInv, TypeOK, SrvTypeOK, Fds, NoFd
    <2>3. WatchedExactly
        BY DEF Inv, WatchInv
    <2>4. master' = {listener'} \cup {fd'[d] : d \in {e \in Conns : fd'[e] # NoFd}}
        BY <1>1, <2>1, <2>3 DEF WatchedExactly, IsOpen
    <2>5. \A k \in master' : k <= fdmax' /\ k \notin Inherited
        <3>1. \A k \in master : k <= fdmax /\ k \in Int /\ k \notin Inherited
            BY <1>1, <2>2, <2>3 DEF WatchedExactly, Fds
        <3>2. QED
            BY <1>1, <2>1, <2>2, <3>1
    <2>6. \A d \in Conns : fd'[d] # listener'
        BY <1>1, <2>1, <2>3 DEF WatchedExactly
    <2>7. \A d, e \in Conns : fd'[d] # NoFd /\ fd'[d] = fd'[e] => d = e
        BY <1>1, <2>3 DEF WatchedExactly, IsOpen
    <2>8. QED
        BY <1>1, <2>1, <2>4, <2>5, <2>6, <2>7 DEF WatchInv, WatchedExactly, IsOpen
<1>3. QED
    BY <1>1, <1>2

(***************************************************************************)
(* The closed connection, and no other, is no longer watched.              *)
(***************************************************************************)
LEMMA WatchClose ==
    ASSUME Inv, NEW c \in Conns, RecvClosed(c)
    PROVE  SockInv' /\ WatchInv'
<1>1. SockInv' /\ \A d \in Conns : fd'[d] = IF d = c THEN NoFd ELSE fd[d]
    BY CloseSockInv DEF Inv, TypeInv, TypeOK, RecvClosed
<1>2. /\ UNCHANGED <<listener, pc, fdmax, read_fds, log>>
      /\ master' = master \ {fd[c]}
      /\ fd[c] # NoFd /\ pc = "scan"
    BY DEF RecvClosed, SockClose, IsOpen, history
<1>3. listener # NoFd /\ WatchedExactly
    BY <1>2 DEF Inv, WatchInv
<1>4. WatchedExactly'
    BY <1>1, <1>2, <1>3 DEF WatchedExactly, IsOpen
<1>5. QED
    BY <1>1, <1>2, <1>3, <1>4 DEF WatchInv

LEMMA InvNext ==
    ASSUME Inv, [Next]_vars
    PROVE  Inv'
<1> USE DEF Inv
<1>0. TypeInv'
    BY TypesNext
<1>1. ASSUME NEW n \in Fds, Startup(n) PROVE SockInv' /\ WatchInv'
    <2>1. \A c \in Conns : cli[c] = "idle" /\ fd[c] = NoFd
        BY <1>1 DEF Startup, SockInv, WatchInv
    <2>2. n \notin Inherited /\ n # NoFd /\ n \in Int
        BY <1>1, FreshFd DEF Startup, TypeInv, TypeOK, Fds
    <2>3. listener' = n /\ master' = {n} /\ fdmax' = n /\ pc' = "select"
          /\ UNCHANGED <<fd, cli, backlog>>
        BY <1>1 DEF Startup
    <2>4. SockInv'
        BY <2>1, <2>2, <2>3 DEF SockInv
    <2>5. WatchedExactly'
        BY <2>1, <2>2, <2>3 DEF WatchedExactly, IsOpen
    <2>6. QED
        BY <2>2, <2>3, <2>4, <2>5 DEF WatchInv
<1>2. CASE StartupFails
    BY <1>0, <1>2, SockFrame, WatchFrame DEF StartupFails, sockVars, history
<1>3. CASE Select
    <2>1. pc = "select" /\ pc' \in {"scan", "exited"} /\ UNCHANGED <<sockVars, master, fdmax>>
        BY <1>3 DEF Select
    <2>2. QED
        BY <1>0, <2>1, SockFrame, WatchFrame DEF sockVars
<1>4. ASSUME NEW c \in Conns, NEW n \in Fds, Accept(c, n) PROVE SockInv' /\ WatchInv'
    BY <1>4, WatchAccept
<1>5. CASE AcceptFails
    BY <1>0, <1>5, SockFrame, WatchFrame DEF AcceptFails, sockVars
<1>6. ASSUME NEW c \in Conns, RecvClosed(c) PROVE SockInv' /\ WatchInv'
    BY <1>6, WatchClose
<1>7. ASSUME NEW c \in Conns, RecvData(c) PROVE SockInv' /\ WatchInv'
    <2>1. pc = "scan" /\ pc' = "broadcast" /\ UNCHANGED <<listener, fd, cli, backlog, master, fdmax>>
        BY <1>7 DEF RecvData, SockRecv
    <2>2. QED
        BY <1>0, <2>1, SockFrame, WatchFrame
<1>8. CASE EndScan
    BY <1>0, <1>8, SockFrame, WatchFrame DEF EndScan, sockVars
<1>9. ASSUME NEW c \in Conns, SendOk(c) PROVE SockInv' /\ WatchInv'
    BY <1>9, SockFrame, WatchFrame DEF SendOk, SockSend
<1>10. ASSUME NEW c \in Conns, SendError(c) PROVE SockInv' /\ WatchInv'
    BY <1>10, SockFrame, WatchFrame DEF SendError, SockSendFails
<1>11. ASSUME NEW c \in Conns, SendSigpipe(c) PROVE SockInv' /\ WatchInv'
    BY <1>11, SockFrame, WatchFrame DEF SendSigpipe, sockVars
<1>12. CASE EndBroadcast
    BY <1>0, <1>12, SockFrame, WatchFrame DEF EndBroadcast, sockVars
<1>13. CASE Clients
    <2>1. SockInv' /\ UNCHANGED <<listener, fd>>
        BY <1>13, ClientSockInv DEF Clients, Client, TypeInv, TypeOK
    <2>2. UNCHANGED <<pc, master, fdmax, read_fds, log>>
        BY <1>13 DEF Clients, srvVars
    <2>3. QED
        BY <1>0, <2>1, <2>2, WatchFrame
<1>14. CASE UNCHANGED vars
    <2>1. UNCHANGED <<listener, fd, cli, backlog, pc, master, fdmax, read_fds, log>>
        BY <1>14 DEF vars, sockVars, srvVars, history
    <2>2. QED
        BY <1>0, <2>1, SockFrame, WatchFrame
<1>15. QED
    BY <1>0, <1>1, <1>2, <1>3, <1>4, <1>5, <1>6, <1>7, <1>8, <1>9, <1>10, <1>11,
       <1>12, <1>13, <1>14 DEF Next, Server

(***************************************************************************)
(* The watched set is exact, for any number of clients and descriptors.    *)
(***************************************************************************)
THEOREM SelectWatches == Spec => []WatchedExactly
<1>1. Inv => WatchedExactly
    BY DEF Inv, WatchInv
<1>2. QED
    BY <1>1, InvInit, InvNext, PTL DEF Spec

-----------------------------------------------------------------------------
(* The scan.                                                               *)

\* A step that leaves fewer descriptors to scan, and those as they were.
LEMMA ScanFrame ==
    ASSUME NeverBlocksInScan, StillToScan' \subseteq StillToScan,
           \A k \in StillToScan' : k \in master /\ Readable(k) => k \in master' /\ Readable(k)'
    PROVE  NeverBlocksInScan'
BY DEF NeverBlocksInScan

LEMMA ScanInit == Init => NeverBlocksInScan
BY DEF Init, NeverBlocksInScan, StillToScan

LEMMA ScanNext ==
    ASSUME Inv, NeverBlocksInScan, [Next]_vars
    PROVE  NeverBlocksInScan'
<1>1. read_fds \subseteq Fds /\ i \in Int /\ \A k \in Fds : k \in Int /\ k # NoFd
    BY DEF Inv, TypeInv, TypeOK, SrvTypeOK, Fds, NoFd
<1>2. SockTypeOK /\ SockInv /\ WatchInv
    BY DEF Inv, TypeInv, TypeOK
<1>3. ASSUME pc' \notin {"scan", "broadcast"} PROVE NeverBlocksInScan'
    BY <1>3 DEF NeverBlocksInScan, StillToScan
<1>4. ASSUME NEW n \in Fds, Startup(n) PROVE NeverBlocksInScan'
    BY <1>3, <1>4 DEF Startup
<1>5. CASE StartupFails
    BY <1>3, <1>5 DEF StartupFails
<1>6. CASE Select
    BY <1>6 DEF Select, NeverBlocksInScan, StillToScan, Readable, sockVars, IsOpen, Hangup
<1>7. ASSUME NEW c \in Conns, NEW n \in Fds, Accept(c, n) PROVE NeverBlocksInScan'
    <2>1. /\ pc = "scan" /\ pc' = "scan" /\ read_fds' = read_fds
          /\ listener \in read_fds /\ i <= listener /\ i' = listener + 1
          /\ master \subseteq master'
        BY <1>7 DEF Accept, IsNextReady
    <2>2. StillToScan' = {k \in read_fds : listener + 1 <= k}
          /\ StillToScan = {k \in read_fds : i <= k}
        BY <2>1 DEF StillToScan
    <2>3. \A k \in StillToScan' : k \in StillToScan /\ k # listener /\ k \in Fds
        BY <1>1, <2>1, <2>2
    <2>4. \A k \in StillToScan' : Readable(k) => Readable(k)'
        BY <1>2, <1>7, <2>3, AcceptReadable DEF Accept
    <2>5. QED
        BY <2>1, <2>3, <2>4, ScanFrame
<1>8. CASE AcceptFails
    <2>1. /\ pc = "scan" /\ i <= listener /\ i' = listener + 1 /\ listener \in read_fds
          /\ UNCHANGED <<sockVars, pc, master, read_fds>>
        BY <1>8 DEF AcceptFails, IsNextReady
    <2>2. StillToScan' \subseteq StillToScan
        BY <1>1, <2>1 DEF StillToScan
    <2>3. \A k : Readable(k) => Readable(k)'
        BY <2>1 DEF sockVars, Readable, IsOpen, Hangup
    <2>4. QED
        BY <2>1, <2>2, <2>3, ScanFrame
<1>9. ASSUME NEW c \in Conns, RecvClosed(c) PROVE NeverBlocksInScan'
    <2>1. /\ pc = "scan" /\ pc' = "scan" /\ read_fds' = read_fds
          /\ fd[c] \in read_fds /\ i <= fd[c] /\ i' = fd[c] + 1
          /\ master' = master \ {fd[c]}
        BY <1>9 DEF RecvClosed, IsNextReady
    <2>2. StillToScan' = {k \in read_fds : fd[c] + 1 <= k}
          /\ StillToScan = {k \in read_fds : i <= k}
        BY <2>1 DEF StillToScan
    <2>3. \A k \in StillToScan' : k \in StillToScan /\ k # fd[c] /\ k \in Fds
        BY <1>1, <2>1, <2>2
    <2>4. \A k \in StillToScan' : Readable(k) => Readable(k)'
        BY <1>2, <1>9, <2>3, CloseReadable DEF RecvClosed
    <2>5. QED
        BY <2>1, <2>3, <2>4, ScanFrame
<1>10. ASSUME NEW c \in Conns, RecvData(c) PROVE NeverBlocksInScan'
    <2>1. /\ pc = "scan" /\ pc' = "broadcast" /\ read_fds' = read_fds
          /\ fd[c] \in read_fds /\ i <= fd[c] /\ i' = fd[c] /\ master' = master
        BY <1>10 DEF RecvData, IsNextReady
    <2>2. StillToScan' = {k \in read_fds : fd[c] < k}
          /\ StillToScan = {k \in read_fds : i <= k}
        BY <2>1 DEF StillToScan
    <2>3. \A k \in StillToScan' : k \in StillToScan /\ k # fd[c] /\ k \in Fds
        BY <1>1, <2>1, <2>2
    <2>4. \A k \in StillToScan' : Readable(k) => Readable(k)'
        BY <1>2, <1>10, <2>3, RecvReadable DEF RecvData
    <2>5. QED
        BY <2>1, <2>3, <2>4, ScanFrame
<1>11. CASE EndScan
    BY <1>3, <1>11 DEF EndScan
<1>12. ASSUME NEW c \in Conns, SendOk(c) PROVE NeverBlocksInScan'
    BY <1>12, ScanFrame DEF SendOk, SockSend, StillToScan, Readable, IsOpen, Hangup
<1>13. ASSUME NEW c \in Conns, SendError(c) PROVE NeverBlocksInScan'
    <2>1. UNCHANGED <<pc, read_fds, i, master>>
        BY <1>13 DEF SendError
    <2>2. StillToScan' = StillToScan
        BY <2>1 DEF StillToScan
    <2>3. \A k : Readable(k) => Readable(k)'
        BY <1>2, <1>13, SendFailsReadable DEF SendError
    <2>4. QED
        BY <2>1, <2>2, <2>3, ScanFrame
<1>14. ASSUME NEW c \in Conns, SendSigpipe(c) PROVE NeverBlocksInScan'
    BY <1>3, <1>14 DEF SendSigpipe
<1>15. CASE EndBroadcast
    <2>1. pc = "broadcast" /\ pc' = "scan" /\ i' = i + 1 /\ UNCHANGED <<sockVars, master, read_fds>>
        BY <1>15 DEF EndBroadcast
    <2>2. StillToScan' = {k \in read_fds : i + 1 <= k} /\ StillToScan = {k \in read_fds : i < k}
        BY <2>1 DEF StillToScan
    <2>3. StillToScan' \subseteq StillToScan
        BY <1>1, <2>2
    <2>4. \A k : Readable(k) => Readable(k)'
        BY <2>1 DEF sockVars, Readable, IsOpen, Hangup
    <2>5. QED
        BY <2>1, <2>3, <2>4, ScanFrame
<1>16. CASE Clients
    <2>1. UNCHANGED <<pc, read_fds, i, master>>
        BY <1>16 DEF Clients, srvVars
    <2>2. StillToScan' = StillToScan /\ StillToScan \subseteq Fds
        BY <1>1, <2>1 DEF StillToScan
    <2>3. \A k \in Fds : Readable(k) => Readable(k)'
        BY <1>2, <1>16, ClientReady DEF Clients, Client
    <2>4. QED
        BY <2>1, <2>2, <2>3, ScanFrame
<1>17. CASE UNCHANGED vars
    BY <1>17 DEF vars, sockVars, srvVars, NeverBlocksInScan, StillToScan, Readable, IsOpen, Hangup
<1>18. QED
    BY <1>4, <1>5, <1>6, <1>7, <1>8, <1>9, <1>10, <1>11, <1>12, <1>13, <1>14, <1>15,
       <1>16, <1>17 DEF Next, Server

(***************************************************************************)
(* No accept and no recv of a scan blocks the server, for any number of    *)
(* clients and whatever they do meanwhile.                                 *)
(***************************************************************************)
THEOREM SelectNeverBlocks == Spec => []NeverBlocksInScan
BY InvInit, InvNext, ScanInit, ScanNext, PTL DEF Spec
-----------------------------------------------------------------------------
(***************************************************************************)
(* What the server promises to the clients: every one is sent what the     *)
(* others write, once and in order (BroadcastInOrder), and the server      *)
(* implements the group of BroadcastSpec.                                  *)
(***************************************************************************)

(* Who the present chunk is still owed to.                                 *)

LEMMA NoPending == pc # "broadcast" => \A c \in Conns : ~Pending(c)
BY DEF Pending

LEMMA NoPendingAtEnd ==
    ASSUME EndBroadcast
    PROVE  \A c \in Conns : ~Pending(c) /\ ~Pending(c)'
BY DEF EndBroadcast, Pending

LEMMA PendingRecv ==
    ASSUME Inv, NEW c \in Conns, RecvData(c)
    PROVE  \A d \in Conns : Pending(d)' <=> IsOpen(d) /\ d # c
<1>1. /\ pc = "scan" /\ pc' = "broadcast" /\ i' = fd[c] /\ j' = 0 /\ fd[c] # NoFd
      /\ UNCHANGED <<listener, fd, master, fdmax>>
    BY DEF RecvData, SockRecv, IsOpen
<1>2. listener # NoFd /\ WatchedExactly
    BY <1>1 DEF Inv, WatchInv
<1>3. \A d \in Conns : IsOpen(d) => fd[d] \in master /\ 0 <= fd[d] /\ fd[d] <= fdmax /\ fd[d] # listener
    <2>1. \A d \in Conns : IsOpen(d) => fd[d] \in Fds
        BY DEF Inv, TypeInv, TypeOK, SockTypeOK, IsOpen
    <2>2. QED
        BY <1>2, <2>1 DEF WatchedExactly, Fds
<1>4. \A d \in Conns : IsOpen(d) => (fd[d] = fd[c] <=> d = c)
    BY <1>2 DEF WatchedExactly
<1>5. QED
    BY <1>1, <1>3, <1>4 DEF Pending, Targets, IsOpen

\* One more has had its turn.
LEMMA PendingSend ==
    ASSUME Inv, NEW c \in Conns, IsNextTarget(c), pc = "broadcast", pc' = "broadcast",
           j' = fd[c] + 1, UNCHANGED <<listener, fd, master, fdmax, i>>
    PROVE  Pending(c) /\ \A d \in Conns : Pending(d)' <=> Pending(d) /\ d # c
<1>1. /\ IsOpen(c) /\ fd[c] \in master /\ j <= fd[c] /\ fd[c] <= fdmax
      /\ fd[c] # listener /\ fd[c] # i
      /\ \A k \in Targets : fd[c] <= k
    BY DEF IsNextTarget, Targets
<1>2. j \in Int /\ fd[c] \in Int /\ \A d \in Conns : fd[d] \in Int
    BY DEF Inv, TypeInv, TypeOK, SockTypeOK, SrvTypeOK, Fds, NoFd
<1>3. Pending(c)
    BY <1>1 DEF Pending, Targets
<1>4. WatchedExactly /\ listener # NoFd
    BY DEF Inv, WatchInv
<1>5. \A d \in Conns : IsOpen(d) /\ fd[d] = fd[c] => d = c
    BY <1>4 DEF WatchedExactly
<1>6. ASSUME NEW d \in Conns, Pending(d)' PROVE Pending(d) /\ d # c
    <2>1. IsOpen(d) /\ fd[d] \in master /\ fd[c] + 1 <= fd[d] /\ fd[d] <= fdmax
          /\ fd[d] # listener /\ fd[d] # i
        BY <1>6 DEF Pending, Targets, IsOpen
    <2>2. j <= fd[d] /\ fd[d] # fd[c]
        BY <1>1, <1>2, <2>1
    <2>3. QED
        BY <2>1, <2>2 DEF Pending, Targets
<1>7. ASSUME NEW d \in Conns, Pending(d), d # c PROVE Pending(d)'
    <2>1. IsOpen(d) /\ fd[d] \in Targets /\ fd[d] # fd[c]
        BY <1>5, <1>7 DEF Pending
    <2>2. fd[c] <= fd[d]
        BY <1>1, <2>1
    <2>3. fd[c] + 1 <= fd[d]
        BY <1>2, <2>1, <2>2
    <2>4. QED
        BY <2>1, <2>3 DEF Pending, Targets, IsOpen
<1>8. QED
    BY <1>3, <1>6, <1>7

LEMMA PendingFrame ==
    ASSUME UNCHANGED <<pc, listener, fd, master, fdmax, i, j>>
    PROVE  \A c \in Conns : Pending(c)' <=> Pending(c)
BY DEF Pending, Targets, IsOpen

-----------------------------------------------------------------------------
(* The order of what clients are sent.                                     *)

(***************************************************************************)
(* BroadcastInOrder is not inductive: it needs that a client starts with   *)
(* an empty got, and that while a chunk is sent, its sender is the one the *)
(* loop leaves out and everyone was accepted before it.                    *)
(***************************************************************************)
OrderInv ==
    /\ \A k \in DOMAIN backlog : got[backlog[k]] = <<>>
    /\ \A c \in Conns : cli[c] = "idle" => got[c] = <<>> /\ link[c] = "none"
    /\ \A c \in Conns : joined[c] <= Len(log)
    /\ pc = "broadcast" =>
        /\ fd[log[Len(log)].from] = i
        /\ \A c \in Conns : IsOpen(c) => joined[c] < Len(log)
    /\ BroadcastInOrder

GroupInv == Inv /\ OrderInv

Whole(c) == IsOpen(c) /\ link[c] \in {"up", "fin"}

LEMMA GroupInit == Init => GroupInv
<1>1. Init => OrderInv
    BY DEF Init, SockInit, OrderInv, BroadcastInOrder, IsOpen
<1>2. QED
    BY <1>1, InvInit DEF GroupInv

\* A step that sends nothing and posts nothing.
LEMMA OrderFrame ==
    ASSUME GroupInv, UNCHANGED <<joined, got, log>>,
           ~Stopped' => ~Stopped,
           \A c \in Conns : Whole(c)' => Whole(c) /\ (Pending(c)' <=> Pending(c))
    PROVE  BroadcastInOrder'
<1>1. ASSUME NEW c \in Conns, Whole(c)', ~Stopped' PROVE InOrder(c)'
    <2>1. InOrder(c) /\ (Pending(c)' <=> Pending(c))
        BY <1>1 DEF GroupInv, OrderInv, BroadcastInOrder, Whole
    <2>2. Due(c)' = Due(c)
        BY <2>1 DEF Due
    <2>3. QED
        BY <2>1, <2>2 DEF InOrder
<1>2. QED
    BY <1>1 DEF BroadcastInOrder, Whole

\* The new client is owed nothing that was posted before it came.
LEMMA OrderAccept ==
    ASSUME GroupInv, NEW c \in Conns, NEW n \in Fds, Accept(c, n)
    PROVE  OrderInv'
<1>1. SockTypeOK /\ SrvTypeOK /\ Inv
    BY DEF GroupInv, Inv, TypeInv, TypeOK
<1>2. /\ backlog # <<>> /\ c = Head(backlog) /\ backlog' = Tail(backlog)
      /\ pc = "scan" /\ pc' = "scan" /\ UNCHANGED <<cli, link, log, got>>
    BY DEF Accept, SockAccept
<1>3. c = backlog[1] /\ 1 \in DOMAIN backlog
    BY <1>1, <1>2 DEF SockTypeOK
<1>4. got[c] = <<>>
    BY <1>3 DEF GroupInv, OrderInv
<1>5. \A d \in Conns : joined'[d] = IF d = c THEN Len(log) ELSE joined[d]
    BY <1>1 DEF Accept, SrvTypeOK
<1>6. \A d \in Conns : d # c => fd'[d] = fd[d]
    BY <1>1 DEF Accept, SockAccept, SockTypeOK
<1>7. Len(log) \in Nat
    BY <1>1 DEF SrvTypeOK
<1>8. \A d \in Conns : ~Pending(d) /\ ~Pending(d)'
    BY <1>2 DEF Pending
<1>9. ASSUME NEW d \in Conns, Whole(d)' PROVE InOrder(d)'
    <2>1. CASE d = c
        <3>1. Due(c)' = {}
            <4>1. joined'[c] + 1 .. Len(log') = {}
                BY <1>2, <1>5, <1>7
            <4>2. QED
                BY <4>1 DEF Due
        <3>2. got'[c] = <<>>
            BY <1>2, <1>4
        <3>3. QED
            BY <2>1, <3>1, <3>2 DEF InOrder
    <2>2. CASE d # c
        <3>1. Whole(d)
            BY <1>2, <1>6, <1>9, <2>2 DEF Whole, IsOpen
        <3>2. InOrder(d)
            BY <1>2, <3>1 DEF GroupInv, OrderInv, BroadcastInOrder, Whole, Stopped
        <3>3. Due(d)' = Due(d)
            BY <1>2, <1>5, <1>8, <2>2 DEF Due
        <3>4. QED
            BY <1>2, <3>2, <3>3 DEF InOrder
    <2>3. QED
        BY <2>1, <2>2
<1>10. \A k \in DOMAIN backlog' : got'[backlog'[k]] = <<>>
    <2>1. \A k \in DOMAIN backlog' : k + 1 \in DOMAIN backlog /\ backlog'[k] = backlog[k + 1]
        BY <1>1, <1>2 DEF SockTypeOK
    <2>2. QED
        BY <1>2, <2>1 DEF GroupInv, OrderInv
<1>11. \A d \in Conns : joined'[d] <= Len(log')
    BY <1>2, <1>5, <1>7 DEF GroupInv, OrderInv
<1>12. QED
    BY <1>2, <1>9, <1>10, <1>11 DEF GroupInv, OrderInv, BroadcastInOrder, Whole

(***************************************************************************)
(* The new chunk is owed to everyone but its sender.                       *)
(***************************************************************************)
LEMMA OrderRecv ==
    ASSUME GroupInv, NEW c \in Conns, RecvData(c)
    PROVE  OrderInv'
<1>1. SockTypeOK /\ SrvTypeOK /\ Inv
    BY DEF GroupInv, Inv, TypeInv, TypeOK
<1>2. /\ pc = "scan" /\ pc' = "broadcast" /\ i' = fd[c]
      /\ UNCHANGED <<listener, fd, cli, link, backlog, joined, got>>
    BY DEF RecvData, SockRecv
<1>3. /\ Len(log) \in Nat /\ Len(log') = Len(log) + 1
      /\ log'[Len(log')].from = c
      /\ \A x \in 1 .. Len(log) : log'[x] = log[x]
    <2>1. PICK came \in Chunk : log' = Append(log, [from |-> c, data |-> came])
        BY <1>1, RecvStep
    <2> DEFINE S == [from : Conns, data : Chunk]
               e == [from |-> c, data |-> came]
    <2>2. e \in S /\ log \in Seq(S)
        BY <1>1 DEF SrvTypeOK
    <2>3. log' = Append(log, e)
        BY <2>1
    <2>4. e.from = c
        OBVIOUS
    <2> HIDE DEF S, e
    <2>5. QED
        BY <2>2, <2>3, <2>4, AppendLast
<1>4. \A d \in Conns : Pending(d)' <=> IsOpen(d) /\ d # c
    BY <1>1, PendingRecv
<1>5. \A d \in Conns : ~Pending(d)
    BY <1>2 DEF Pending
<1>6. \A d \in Conns : joined[d] \in Nat /\ joined[d] <= Len(log)
    BY <1>1 DEF SrvTypeOK, GroupInv, OrderInv
<1>7. ASSUME NEW d \in Conns, Whole(d)' PROVE InOrder(d)'
    <2>1. Whole(d) /\ IsOpen(d)
        BY <1>2, <1>7 DEF Whole, IsOpen
    <2>2. InOrder(d)
        BY <1>2, <2>1 DEF GroupInv, OrderInv, BroadcastInOrder, Whole, Stopped
    <2>3. Due(d)' = Due(d)
        <3>1. \A x \in joined[d] + 1 .. Len(log) + 1 : x \in 1 .. Len(log) \/ x = Len(log) + 1
            BY <1>3, <1>6
        <3>2. Due(d)' = {x \in joined[d] + 1 .. Len(log) + 1 :
                            log'[x].from # d /\ (x = Len(log) + 1 => ~Pending(d)')}
            BY <1>2, <1>3 DEF Due
        <3>3. Due(d) = {x \in joined[d] + 1 .. Len(log) : log[x].from # d}
            BY <1>5 DEF Due
        <3>4. Len(log) + 1 \notin Due(d)'
            BY <1>3, <1>4, <2>1, <3>2
        <3>5. \A x : x \in Due(d)' <=> x \in Due(d)
            <4>1. TAKE x
            <4>2. CASE x \in 1 .. Len(log)
                BY <1>3, <1>6, <3>2, <3>3, <4>2
            <4>3. CASE x \notin 1 .. Len(log)
                BY <1>3, <1>6, <3>1, <3>2, <3>3, <3>4, <4>3
            <4>4. QED
                BY <4>2, <4>3
        <3>6. QED
            BY <3>5
    <2>4. \A p \in DOMAIN got[d] : got[d][p].at \in 1 .. Len(log)
        BY <1>6, <1>3, <2>2 DEF InOrder, Due
    <2>5. QED
        BY <1>2, <1>3, <2>2, <2>3, <2>4 DEF InOrder
<1>8. \A d \in Conns : joined'[d] <= Len(log') /\ joined'[d] < Len(log')
    BY <1>2, <1>3, <1>6
<1>9. QED
    BY <1>2, <1>3, <1>7, <1>8 DEF GroupInv, OrderInv, BroadcastInOrder, Whole

(***************************************************************************)
(* The client whose turn it is gets the last chunk after all it had.       *)
(***************************************************************************)
LEMMA OrderSend ==
    ASSUME GroupInv, NEW c \in Conns, SendOk(c)
    PROVE  OrderInv'
<1>1. SrvTypeOK /\ Inv /\ InBroadcast
    BY DEF GroupInv, Inv, TypeInv, TypeOK
<1>2. /\ pc = "broadcast" /\ pc' = "broadcast" /\ IsNextTarget(c) /\ j' = fd[c] + 1
      /\ UNCHANGED <<listener, fd, cli, link, backlog, master, fdmax, i, buf, log, joined>>
    BY DEF SendOk, SockSend
<1>3. Pending(c) /\ \A d \in Conns : Pending(d)' <=> Pending(d) /\ d # c
    BY <1>1, <1>2, PendingSend
<1> DEFINE e == [at |-> Len(log), data |-> buf]
<1>4. /\ Len(log) \in Nat \ {0} /\ IsCutCopy(buf, log[Len(log)].data)
      /\ log[Len(log)].from # c
      /\ joined[c] \in Nat /\ joined[c] < Len(log)
    <2>0. log # <<>> /\ buf = Terminated(log[Len(log)].data)
          /\ log \in Seq([from : Conns, data : Chunk])
        BY <1>1, <1>2 DEF InBroadcast, SrvTypeOK
    <2>1. IsCutCopy(buf, log[Len(log)].data)
        <3>1. log[Len(log)].data \in Chunk
            BY <2>0, LastPosted
        <3>2. QED
            BY <2>0, <3>1, CutCopy
    <2>2. IsOpen(c) /\ fd[c] # i
        BY <1>2 DEF IsNextTarget, Targets
    <2>3. fd[log[Len(log)].from] = i /\ joined[c] < Len(log)
        BY <1>2, <2>2 DEF GroupInv, OrderInv
    <2>4. QED
        BY <1>1, <2>0, <2>1, <2>2, <2>3 DEF SrvTypeOK
<1>5. \A d \in Conns : got'[d] = IF d = c THEN Append(got[c], e) ELSE got[d]
    BY <1>1 DEF SendOk, SrvTypeOK
<1>6. ASSUME Whole(c) PROVE InOrder(c)'
    <2>1. InOrder(c)
        BY <1>2, <1>6 DEF GroupInv, OrderInv, BroadcastInOrder, Whole, Stopped
    <2>2. got[c] \in Seq([at : Nat, data : Chunk])
        BY <1>1 DEF SrvTypeOK
    <2> DEFINE g == got[c]
               h == Append(g, e)
    <2>3. /\ Len(g) \in Nat /\ DOMAIN g = 1 .. Len(g)
          /\ DOMAIN h = 1 .. Len(g) + 1
          /\ h[Len(g) + 1] = e
          /\ \A p \in 1 .. Len(g) : h[p] = g[p]
        <3>1. buf \in Chunk
            BY <1>1, <1>2 DEF InBroadcast
        <3>2. e \in [at : Nat, data : Chunk]
            BY <1>4, <3>1
        <3> HIDE DEF e, g
        <3>3. g \in Seq([at : Nat, data : Chunk])
            BY <2>2 DEF g
        <3>4. QED
            BY <3>2, <3>3, AppendProperties
    <2>4. e.at = Len(log) /\ e.data = buf
        OBVIOUS
    <2> HIDE DEF e, g, h
    <2>5. Due(c)' = Due(c) \cup {Len(log)}
        <3>1. Due(c) = {x \in joined[c] + 1 .. Len(log) : log[x].from # c /\ x # Len(log)}
            BY <1>3 DEF Due
        <3>2. Due(c)' = {x \in joined[c] + 1 .. Len(log) : log[x].from # c}
            BY <1>2, <1>3 DEF Due
        <3>3. Len(log) \in joined[c] + 1 .. Len(log)
            BY <1>4
        <3>4. QED
            BY <1>4, <3>1, <3>2, <3>3
    <2>6. /\ {g[p].at : p \in DOMAIN g} = Due(c)
          /\ \A p, q \in DOMAIN g : p < q => g[p].at < g[q].at
          /\ \A p \in DOMAIN g : IsCutCopy(g[p].data, log[g[p].at].data)
        BY <2>1 DEF InOrder, g
    <2>7. \A p \in DOMAIN g : g[p].at \in Int /\ g[p].at < Len(log)
        <3>1. \A x \in Due(c) : x \in Int /\ x < Len(log)
            BY <1>3, <1>4 DEF Due
        <3>2. QED
            BY <2>6, <3>1
    <2>8. {h[p].at : p \in DOMAIN h} = Due(c) \cup {Len(log)}
        <3>0. \A p \in DOMAIN h : p \in DOMAIN g \/ p = Len(g) + 1
            BY <2>3
        <3>1. \A p \in DOMAIN h : (p \in DOMAIN g /\ h[p] = g[p]) \/ h[p] = e
            BY <2>3, <3>0
        <3>2. \A p \in DOMAIN g : p \in DOMAIN h /\ h[p] = g[p]
            BY <2>3
        <3>3. Len(g) + 1 \in DOMAIN h /\ h[Len(g) + 1].at = Len(log)
            BY <2>3, <2>4
        <3>4. QED
            BY <2>4, <2>6, <3>1, <3>2, <3>3
    <2>9. \A p, q \in DOMAIN h : p < q => h[p].at < h[q].at
        BY <2>3, <2>4, <2>6, <2>7
    <2>10. \A p \in DOMAIN h : IsCutCopy(h[p].data, log[h[p].at].data)
        BY <1>4, <2>3, <2>4, <2>6
    <2>11. got'[c] = h
        BY <1>5 DEF h, g, e
    <2>12. QED
        BY <1>2, <2>5, <2>8, <2>9, <2>10, <2>11 DEF InOrder
<1>7. ASSUME NEW d \in Conns, d # c, Whole(d) PROVE InOrder(d)'
    <2>1. InOrder(d) /\ got'[d] = got[d] /\ (Pending(d)' <=> Pending(d))
        BY <1>2, <1>3, <1>5, <1>7 DEF GroupInv, OrderInv, BroadcastInOrder, Whole, Stopped
    <2>2. Due(d)' = Due(d)
        BY <1>2, <2>1 DEF Due
    <2>3. QED
        BY <1>2, <2>1, <2>2 DEF InOrder
<1>8. BroadcastInOrder'
    BY <1>2, <1>6, <1>7 DEF BroadcastInOrder, Whole, IsOpen
<1>9. \A k \in DOMAIN backlog : backlog[k] # c /\ backlog[k] \in Conns
    BY <1>1, <1>2 DEF Inv, SockInv, TypeInv, TypeOK, SockTypeOK, IsNextTarget, IsOpen
<1>10. cli[c] # "idle"
    BY <1>1, <1>2 DEF Inv, SockInv, IsNextTarget, IsOpen
<1>11. QED
    BY <1>2, <1>5, <1>8, <1>9, <1>10 DEF GroupInv, OrderInv, IsOpen

\* Clients send nothing on; a connection that is made starts with nothing.
LEMMA OrderClients ==
    ASSUME GroupInv, Clients
    PROVE  OrderInv'
<1>1. SockTypeOK /\ SrvTypeOK /\ SockInv
    BY DEF GroupInv, Inv, TypeInv, TypeOK
<1>2. UNCHANGED <<listener, fd, pc, master, fdmax, i, j, log, joined, got>>
    <2>1. PICK c \in Conns : Client(c)
        BY DEF Clients, Client
    <2>2. UNCHANGED <<listener, fd>>
        BY <1>1, <2>1, ClientSockInv
    <2>3. QED
        BY <2>2 DEF Clients, srvVars
<1>3. PICK c \in Conns : Client(c)
    BY DEF Clients, Client
<1>4. \A d \in Conns : Pending(d)' <=> Pending(d)
    BY <1>2, PendingFrame
<1>5. /\ \A d \in Conns : Whole(d)' => Whole(d)
      /\ \A d \in Conns : cli'[d] = "idle" => cli[d] = "idle" /\ link'[d] = link[d]
      /\ \A k \in DOMAIN backlog' : got[backlog'[k]] = <<>>
    <2>1. CASE Connect(c)
        <3>1. fd[c] = NoFd /\ got[c] = <<>>
            BY <1>1, <2>1 DEF Connect, SockInv, GroupInv, OrderInv
        <3>2. backlog' = Append(backlog, c) /\ backlog \in Seq(Conns)
            BY <1>1, <2>1 DEF Connect, SockTypeOK
        <3>3. \A k \in DOMAIN backlog' : backlog'[k] = c \/ (k \in DOMAIN backlog /\ backlog'[k] = backlog[k])
            BY <3>2
        <3>4. /\ fd' = fd /\ got' = got
              /\ cli' = [cli EXCEPT ![c] = "open"] /\ link' = [link EXCEPT ![c] = "up"]
            BY <1>2, <2>1 DEF Connect
        <3>5. /\ cli \in [Conns -> {"idle", "open", "half", "gone"}]
              /\ link \in [Conns -> LinkState]
            BY <1>1 DEF SockTypeOK
        <3>6. ASSUME NEW d \in Conns, Whole(d)' PROVE Whole(d)
            <4>1. d # c /\ link'[d] = link[d]
                BY <3>1, <3>4, <3>5, <3>6 DEF Whole, IsOpen
            <4>2. QED
                BY <3>4, <3>6, <4>1 DEF Whole, IsOpen
        <3>7. \A d \in Conns : cli'[d] = "idle" => cli[d] = "idle" /\ link'[d] = link[d]
            BY <3>4, <3>5
        <3>8. \A k \in DOMAIN backlog' : got[backlog'[k]] = <<>>
            BY <3>1, <3>3 DEF GroupInv, OrderInv
        <3>9. QED
            BY <3>6, <3>7, <3>8
    <2>2. CASE ~Connect(c)
        <3>1. UNCHANGED backlog
            BY <1>3, <2>2 DEF Client, OtherThanWrite, ClientWrite, ClientRead, ClientShutdown,
                ClientClose, ClientAbort, ResetArrives
        <3>2. \/ UNCHANGED <<cli, link>>
              \/ /\ cli[c] # "idle" /\ link[c] \in {"up", "fin"}
                 /\ \E v \in {"half", "gone"} : cli' = [cli EXCEPT ![c] = v]
                 /\ \E v \in {"fin", "reset", "broken"} : link' = [link EXCEPT ![c] = v]
            <4>1. CASE \E w \in Writes : ClientWrite(c, w)
                BY <4>1 DEF ClientWrite
            <4>2. CASE ClientRead(c)
                BY <4>2 DEF ClientRead
            <4>3. CASE ClientShutdown(c)
                BY <4>3 DEF ClientShutdown
            <4>4. CASE ClientClose(c)
                BY <4>4 DEF ClientClose
            <4>5. CASE ClientAbort(c)
                BY <4>5 DEF ClientAbort
            <4>6. CASE ResetArrives(c)
                <5>1. cli' = [cli EXCEPT ![c] = "gone"]
                    BY <1>1, <4>6 DEF ResetArrives, SockTypeOK
                <5>2. QED
                    BY <4>6, <5>1 DEF ResetArrives
            <4>7. QED
                BY <1>3, <2>2, <4>1, <4>2, <4>3, <4>4, <4>5, <4>6 DEF Client, OtherThanWrite
        <3>3. QED
            BY <1>1, <1>2, <3>1, <3>2 DEF SockTypeOK, GroupInv, OrderInv, Whole, IsOpen
    <2>3. QED
        BY <2>1, <2>2
<1>6. BroadcastInOrder'
    BY <1>2, <1>4, <1>5, OrderFrame DEF Stopped
<1>7. QED
    BY <1>2, <1>5, <1>6 DEF GroupInv, OrderInv, IsOpen

LEMMA GroupNext ==
    ASSUME GroupInv, [Next]_vars
    PROVE  GroupInv'
<1>0. Inv /\ Inv' /\ SockTypeOK
    BY InvNext DEF GroupInv, Inv, TypeInv, TypeOK
<1>1. ASSUME UNCHANGED <<fd, cli, link, backlog, log, joined, got>>,
             pc' = "broadcast" => pc = "broadcast" /\ i' = i,
             BroadcastInOrder'
      PROVE  OrderInv'
    BY <1>1 DEF GroupInv, OrderInv, IsOpen
\* Steps that touch no connection and begin or end no send.
<1>2. ASSUME UNCHANGED <<fd, cli, link, backlog, log, joined, got>>, pc' # "broadcast",
             \A c \in Conns : ~Pending(c), ~Stopped' => ~Stopped
      PROVE  OrderInv'
    <2>1. \A c \in Conns : Whole(c)' => Whole(c) /\ (Pending(c)' <=> Pending(c))
        BY <1>2, NoPending DEF Whole, IsOpen, Pending
    <2>2. QED
        BY <1>1, <1>2, <2>1, OrderFrame DEF GroupInv
<1>3. ASSUME NEW n \in Fds, Startup(n) PROVE OrderInv'
    BY <1>2, <1>3, NoPending DEF Startup, Stopped, history
<1>4. ASSUME StartupFails PROVE OrderInv'
    BY <1>2, <1>4, NoPending DEF StartupFails, Stopped, history, sockVars
<1>5. ASSUME Select PROVE OrderInv'
    <2>1. pc = "select" /\ pc' \in {"scan", "exited"} /\ UNCHANGED <<sockVars, history>>
        BY <1>5 DEF Select
    <2>2. QED
        BY <1>2, <2>1, NoPending DEF Stopped, history, sockVars
<1>6. ASSUME NEW c \in Conns, NEW n \in Fds, Accept(c, n) PROVE OrderInv'
    BY <1>6, OrderAccept
<1>7. ASSUME AcceptFails PROVE OrderInv'
    BY <1>2, <1>7, NoPending DEF AcceptFails, Stopped, history, sockVars
<1>8. ASSUME NEW c \in Conns, RecvClosed(c) PROVE OrderInv'
    <2>1. /\ pc = "scan" /\ pc' = "scan"
          /\ UNCHANGED <<cli, backlog, log, joined, got>>
          /\ IsOpen(c)
          /\ \A d \in Conns : fd'[d] = (IF d = c THEN NoFd ELSE fd[d])
                             /\ link'[d] = (IF d = c THEN "closed" ELSE link[d])
        BY <1>0, <1>8 DEF RecvClosed, SockClose, SockTypeOK, history
    <2>2. cli[c] # "idle"
        BY <1>0, <2>1 DEF Inv, SockInv, IsOpen
    <2>3. \A d \in Conns : Whole(d)' => Whole(d) /\ (Pending(d)' <=> Pending(d))
        BY <2>1 DEF Whole, IsOpen, Pending
    <2>4. BroadcastInOrder'
        BY <2>1, <2>3, OrderFrame DEF Stopped
    <2>5. QED
        BY <2>1, <2>2, <2>4 DEF GroupInv, OrderInv
<1>9. ASSUME NEW c \in Conns, RecvData(c) PROVE OrderInv'
    BY <1>9, OrderRecv
<1>10. ASSUME EndScan PROVE OrderInv'
    BY <1>2, <1>10, NoPending DEF EndScan, Stopped, history, sockVars
<1>11. ASSUME NEW c \in Conns, SendOk(c) PROVE OrderInv'
    BY <1>11, OrderSend
<1>12. ASSUME NEW c \in Conns, SendError(c) PROVE OrderInv'
    <2>1. /\ pc = "broadcast" /\ pc' = "broadcast" /\ IsNextTarget(c) /\ j' = fd[c] + 1
          /\ UNCHANGED <<listener, fd, cli, backlog, master, fdmax, i, log, joined, got>>
          /\ link[c] = "reset"
          /\ \A d \in Conns : link'[d] = IF d = c THEN "broken" ELSE link[d]
        BY <1>0, <1>12 DEF SendError, SockSendFails, SockTypeOK, history
    <2>2. \A d \in Conns : Pending(d)' <=> Pending(d) /\ d # c
        BY <1>0, <2>1, PendingSend
    <2>3. \A d \in Conns : Whole(d)' => Whole(d) /\ (Pending(d)' <=> Pending(d))
        BY <2>1, <2>2 DEF Whole, IsOpen
    <2>4. BroadcastInOrder'
        BY <2>1, <2>3, OrderFrame DEF Stopped
    <2>5. \A d \in Conns : cli[d] = "idle" => link'[d] = "none"
        BY <2>1 DEF GroupInv, OrderInv
    <2>6. QED
        BY <2>1, <2>4, <2>5 DEF GroupInv, OrderInv, IsOpen
<1>13. ASSUME NEW c \in Conns, SendSigpipe(c) PROVE OrderInv'
    <2>1. pc' = "killed" /\ UNCHANGED <<sockVars, history>>
        BY <1>13 DEF SendSigpipe
    <2>2. BroadcastInOrder'
        BY <2>1 DEF BroadcastInOrder, Stopped
    <2>3. QED
        BY <1>1, <2>1, <2>2 DEF sockVars, history
<1>14. ASSUME EndBroadcast PROVE OrderInv'
    <2>1. pc = "broadcast" /\ pc' = "scan" /\ UNCHANGED <<sockVars, history>>
        BY <1>14 DEF EndBroadcast
    <2>2. QED
        BY <1>2, <1>14, <2>1, NoPendingAtEnd DEF Stopped, history, sockVars
<1>15. ASSUME Clients PROVE OrderInv'
    BY <1>15, OrderClients
<1>16. ASSUME UNCHANGED vars PROVE OrderInv'
    <2>1. UNCHANGED <<sockVars, srvVars, history>>
        BY <1>16 DEF vars
    <2>2. \A d \in Conns : Whole(d)' => Whole(d) /\ (Pending(d)' <=> Pending(d))
        BY <2>1, PendingFrame DEF Whole, IsOpen, sockVars, srvVars
    <2>3. QED
        BY <1>1, <2>1, <2>2, OrderFrame DEF sockVars, srvVars, history, Stopped
<1>17. OrderInv'
    BY <1>3, <1>4, <1>5, <1>6, <1>7, <1>8, <1>9, <1>10, <1>11, <1>12, <1>13, <1>14,
       <1>15, <1>16 DEF Next, Server
<1>18. QED
    BY <1>0, <1>17 DEF GroupInv

(***************************************************************************)
(* Every whole connection is sent what was received from the others, once, *)
(* in order and whole but for the last byte of each recv, which is sent as *)
(* 0: for any number of clients, any writes and any faults.                *)
(***************************************************************************)
THEOREM SelectBroadcasts == Spec => []BroadcastInOrder
<1>1. GroupInv => BroadcastInOrder
    BY DEF GroupInv, OrderInv
<1>2. QED
    BY <1>1, GroupInit, GroupNext, PTL DEF Spec

-----------------------------------------------------------------------------
(* The server implements the group.                                        *)

members == {c \in Conns : IsOpen(c)}
lost == {c \in Conns : link[c] \in {"reset", "broken", "closed"}}
owed == {c \in Conns : Pending(c)}

LEMMA GroupStartsEmpty == Init => Group!Init
BY DEF Init, SockInit, Group!Init, Stopped, IsOpen, Pending

\* Steps the group does not see.
LEMMA GroupStutter ==
    ASSUME Stopped' <=> Stopped, members' = members, lost' = lost, owed' = owed,
           UNCHANGED <<log, got>>
    PROVE  UNCHANGED Group!vars
BY DEF Group!vars, members, lost, owed

LEMMA GroupClients ==
    ASSUME GroupInv, Clients
    PROVE  [Group!Next]_(Group!vars)
<1>1. SockTypeOK /\ SockInv
    BY DEF GroupInv, Inv, TypeInv, TypeOK
<1>2. PICK c \in Conns : Client(c)
    BY DEF Clients, Client
<1>3. /\ UNCHANGED <<listener, fd, pc, master, fdmax, i, j, log, got>>
      /\ ~Stopped
    BY <1>1, <1>2, ClientSockInv DEF Clients, srvVars
<1>4. members' = members /\ owed' = owed /\ (Stopped' <=> Stopped)
    BY <1>3, PendingFrame DEF members, owed, IsOpen, Stopped
<1>5. CASE lost' = lost
    BY <1>3, <1>4, <1>5, GroupStutter
<1>6. CASE c \notin lost /\ lost' = lost \cup {c}
    <2>1. Group!Lose(c)
        BY <1>3, <1>4, <1>6 DEF Group!Lose, members, lost, owed, Stopped
    <2>2. QED
        BY <2>1 DEF Group!Next
<1>7. \/ UNCHANGED link
      \/ link[c] \in {"none", "up", "fin"} /\ \E v \in LinkState : link' = [link EXCEPT ![c] = v]
    <2>1. CASE Connect(c)
        BY <2>1 DEF Connect, LinkState, GroupInv, OrderInv
    <2>2. CASE \E w \in Writes : ClientWrite(c, w)
        BY <2>2 DEF ClientWrite
    <2>3. CASE ClientRead(c)
        BY <2>3 DEF ClientRead
    <2>4. CASE ClientShutdown(c)
        BY <2>4 DEF ClientShutdown, LinkState
    <2>5. CASE ClientClose(c)
        BY <2>5 DEF ClientClose, LinkState
    <2>6. CASE ClientAbort(c)
        <3>1. link' = [link EXCEPT ![c] = IF link[c] = "up" THEN "reset" ELSE "broken"]
            BY <2>6 DEF ClientAbort
        <3>2. (IF link[c] = "up" THEN "reset" ELSE "broken") \in LinkState
            BY DEF LinkState
        <3>3. QED
            BY <2>6, <3>1, <3>2 DEF ClientAbort
    <2>7. CASE ResetArrives(c)
        BY <2>7 DEF ResetArrives, LinkState
    <2>8. QED
        BY <1>2, <2>1, <2>2, <2>3, <2>4, <2>5, <2>6, <2>7 DEF Client, OtherThanWrite
<1>8. lost' = lost \/ (c \notin lost /\ lost' = lost \cup {c})
    BY <1>1, <1>7 DEF lost, SockTypeOK, LinkState
<1>9. QED
    BY <1>5, <1>6, <1>8

LEMMA GroupSimulation ==
    ASSUME GroupInv, [Next]_vars
    PROVE  [Group!Next]_(Group!vars)
<1>0. Inv /\ SockTypeOK /\ SrvTypeOK /\ SockInv /\ WatchInv /\ InBroadcast
    BY DEF GroupInv, Inv, TypeInv, TypeOK
<1>1. ASSUME UNCHANGED <<fd, link, log, got>>, pc # "broadcast", pc' # "broadcast",
             Stopped' <=> Stopped
      PROVE  UNCHANGED Group!vars
    <2>1. owed' = owed
        BY <1>1, NoPending DEF owed, Pending
    <2>2. members' = members /\ lost' = lost
        BY <1>1 DEF members, lost, IsOpen
    <2>3. QED
        BY <1>1, <2>1, <2>2, GroupStutter
<1>2. ASSUME NEW n \in Fds, Startup(n) PROVE [Group!Next]_(Group!vars)
    BY <1>1, <1>2 DEF Startup, Stopped, history
<1>3. ASSUME StartupFails PROVE [Group!Next]_(Group!vars)
    <2>1. /\ pc = "start" /\ pc' = "exited" /\ UNCHANGED <<fd, link, log, got>>
        BY <1>3 DEF StartupFails, sockVars, history
    <2>2. log = <<>> /\ members = {}
        BY <1>0, <2>1 DEF WatchInv, SockInv, members, IsOpen
    <2>3. Group!Stop
        BY <2>1, <2>2 DEF Group!Stop, members, Stopped, Pending, IsOpen
    <2>4. QED
        BY <2>3 DEF Group!Next
<1>4. ASSUME Select PROVE [Group!Next]_(Group!vars)
    <2>1. pc = "select" /\ UNCHANGED <<fd, link, log, got>>
          /\ pc' = IF SelectFails THEN "exited" ELSE "scan"
        BY <1>4 DEF Select, sockVars, history
    <2>2. WatchedExactly /\ listener # NoFd
        BY <1>0, <2>1 DEF WatchInv
    <2>3. ~SelectFails
        BY <2>2 DEF WatchedExactly, SelectFails, OpenFds
    <2>4. QED
        BY <1>1, <2>1, <2>3 DEF Stopped
<1>5. ASSUME NEW c \in Conns, NEW n \in Fds, Accept(c, n) PROVE [Group!Next]_(Group!vars)
    <2>1. /\ pc = "scan" /\ pc' = "scan" /\ UNCHANGED <<link, log, got>>
          /\ \A d \in Conns : fd'[d] = IF d = c THEN n ELSE fd[d]
          /\ backlog # <<>> /\ c = Head(backlog)
        BY <1>0, <1>5 DEF Accept, SockAccept, SockTypeOK
    <2>2. fd[c] = NoFd /\ n # NoFd
        <3>1. c = backlog[1] /\ 1 \in DOMAIN backlog
            BY <1>0, <2>1 DEF SockTypeOK
        <3>2. QED
            BY <1>0, <3>1 DEF SockInv, Fds, NoFd
    <2>3. c \notin members /\ members' = members \cup {c} /\ lost' = lost
        BY <2>1, <2>2 DEF members, lost, IsOpen
    <2>4. owed = {} /\ owed' = {}
        BY <2>1 DEF owed, Pending
    <2>5. Group!Join(c)
        BY <2>1, <2>3, <2>4 DEF Group!Join, Group!Quiet, members, lost, owed, Stopped
    <2>6. QED
        BY <2>5 DEF Group!Next
<1>6. ASSUME AcceptFails PROVE [Group!Next]_(Group!vars)
    BY <1>1, <1>6 DEF AcceptFails, Stopped, sockVars, history
<1>7. ASSUME NEW c \in Conns, RecvClosed(c) PROVE [Group!Next]_(Group!vars)
    <2>1. /\ pc = "scan" /\ pc' = "scan" /\ UNCHANGED <<log, got>> /\ IsOpen(c)
          /\ \A d \in Conns : fd'[d] = (IF d = c THEN NoFd ELSE fd[d])
                             /\ link'[d] = (IF d = c THEN "closed" ELSE link[d])
        BY <1>0, <1>7 DEF RecvClosed, SockClose, SockTypeOK, history
    <2>2. c \in members /\ members' = members \ {c} /\ lost' = lost \cup {c}
        BY <2>1 DEF members, lost, IsOpen
    <2>3. owed = {} /\ owed' = {}
        BY <2>1 DEF owed, Pending
    <2>4. Group!Leave(c)
        BY <2>1, <2>2, <2>3 DEF Group!Leave, Group!Quiet, members, lost, owed, Stopped
    <2>5. QED
        BY <2>4 DEF Group!Next
<1>8. ASSUME NEW c \in Conns, RecvData(c) PROVE [Group!Next]_(Group!vars)
    <2>1. /\ pc = "scan" /\ pc' = "broadcast" /\ IsOpen(c)
          /\ UNCHANGED <<fd, link, got>>
        BY <1>8 DEF RecvData, SockRecv
    <2>2. PICK came \in Chunk : log' = Append(log, [from |-> c, data |-> came])
        BY <1>0, <1>8, RecvStep
    <2>3. owed = {} /\ owed' = members \ {c} /\ members' = members /\ lost' = lost /\ c \in members
        BY <1>0, <1>8, <2>1, PendingRecv DEF owed, members, lost, Pending, IsOpen
    <2>4. Group!Post(c, came)
        BY <2>1, <2>2, <2>3 DEF Group!Post, Group!Quiet, members, lost, owed, Stopped
    <2>5. QED
        BY <2>2, <2>4 DEF Group!Next
<1>9. ASSUME EndScan PROVE [Group!Next]_(Group!vars)
    BY <1>1, <1>9 DEF EndScan, Stopped, sockVars, history
<1>10. ASSUME NEW c \in Conns, SendOk(c) PROVE [Group!Next]_(Group!vars)
    <2>1. /\ pc = "broadcast" /\ pc' = "broadcast" /\ IsNextTarget(c) /\ j' = fd[c] + 1
          /\ UNCHANGED <<listener, fd, link, master, fdmax, i, log>>
          /\ link[c] \in {"up", "fin"}
          /\ got' = [got EXCEPT ![c] = Append(@, [at |-> Len(log), data |-> buf])]
        BY <1>10 DEF SendOk, SockSend
    <2>2. buf = Group!Sealed(log[Len(log)].data)
        <3>1. log # <<>> /\ buf = Terminated(log[Len(log)].data)
              /\ log \in Seq([from : Conns, data : Chunk])
            BY <1>0, <2>1 DEF InBroadcast, SrvTypeOK
        <3>2. log[Len(log)].data \in Chunk
            BY <3>1, LastPosted
        <3>3. QED
            BY <3>1, <3>2, CutCopy
    <2>3. c \in owed /\ owed' = owed \ {c} /\ members' = members /\ lost' = lost /\ c \notin lost
        BY <1>0, <2>1, PendingSend DEF owed, members, lost, IsOpen
    <2>4. Group!Deliver(c)
        BY <2>1, <2>2, <2>3 DEF Group!Deliver, members, lost, owed, Stopped
    <2>5. QED
        BY <2>4 DEF Group!Next
<1>11. ASSUME NEW c \in Conns, SendError(c) PROVE [Group!Next]_(Group!vars)
    <2>1. /\ pc = "broadcast" /\ pc' = "broadcast" /\ IsNextTarget(c) /\ j' = fd[c] + 1
          /\ UNCHANGED <<listener, fd, master, fdmax, i, log, got>>
          /\ link[c] = "reset"
          /\ \A d \in Conns : link'[d] = IF d = c THEN "broken" ELSE link[d]
        BY <1>0, <1>11 DEF SendError, SockSendFails, SockTypeOK, history
    <2>2. c \in owed /\ owed' = owed \ {c} /\ members' = members
        BY <1>0, <2>1, PendingSend DEF owed, members, IsOpen
    <2>3. lost' = lost /\ c \in lost
        BY <2>1 DEF lost
    <2>4. Group!Miss(c)
        BY <2>1, <2>2, <2>3 DEF Group!Miss, members, lost, owed, Stopped
    <2>5. QED
        BY <2>4 DEF Group!Next
<1>12. ASSUME NEW c \in Conns, SendSigpipe(c) PROVE [Group!Next]_(Group!vars)
    <2>1. /\ pc = "broadcast" /\ pc' = "killed" /\ UNCHANGED <<fd, link, log, got>>
          /\ IsNextTarget(c) /\ link[c] = "broken"
        BY <1>12 DEF SendSigpipe, SendIsFatal, sockVars, history
    <2>2. c \in owed /\ c \in lost /\ owed' = {} /\ members' = members /\ lost' = lost
        BY <2>1 DEF owed, lost, members, Pending, IsNextTarget, IsOpen
    <2>3. Group!Stop
        BY <2>1, <2>2 DEF Group!Stop, members, lost, owed, Stopped
    <2>4. QED
        BY <2>3 DEF Group!Next
<1>13. ASSUME EndBroadcast PROVE [Group!Next]_(Group!vars)
    <2>1. pc = "broadcast" /\ pc' = "scan" /\ UNCHANGED <<fd, link, log, got>>
        BY <1>13 DEF EndBroadcast, sockVars, history
    <2>2. owed = {} /\ owed' = {}
        BY <1>13, NoPendingAtEnd DEF owed
    <2>3. members' = members /\ lost' = lost
        BY <2>1 DEF members, lost, IsOpen
    <2>4. QED
        BY <2>1, <2>2, <2>3, GroupStutter DEF Stopped
<1>14. ASSUME Clients PROVE [Group!Next]_(Group!vars)
    BY <1>14, GroupClients
<1>15. ASSUME UNCHANGED vars PROVE [Group!Next]_(Group!vars)
    <2>1. UNCHANGED <<listener, fd, link, pc, master, fdmax, i, j, log, got>>
        BY <1>15 DEF vars, sockVars, srvVars, history
    <2>2. members' = members /\ lost' = lost /\ owed' = owed
        BY <2>1, PendingFrame DEF members, lost, owed, IsOpen
    <2>3. QED
        BY <2>1, <2>2, GroupStutter DEF Stopped
<1>16. QED
    BY <1>2, <1>3, <1>4, <1>5, <1>6, <1>7, <1>8, <1>9, <1>10, <1>11, <1>12, <1>13,
       <1>14, <1>15 DEF Next, Server

(***************************************************************************)
(* Every behaviour of the server is one of the group.                      *)
(***************************************************************************)
THEOREM SelectImplementsGroup == Spec => ImplementsGroup
<1>1. Init => Group!Init
    BY GroupStartsEmpty
<1>2. GroupInv /\ [Next]_vars => [Group!Next]_(Group!vars)
    BY GroupSimulation
<1>3. QED
    BY <1>1, <1>2, GroupInit, GroupNext, PTL DEF Spec, ImplementsGroup, Group!Spec
=============================================================================
