-------------------------- MODULE MulticastProofs --------------------------
(***************************************************************************)
(* What the multicast receivers print, for any number of processes and     *)
(* hosts, any buffer, any messages and any queue of the kernel.            *)
(***************************************************************************)
EXTENDS Multicast, SequenceTheorems, TLAPS

-----------------------------------------------------------------------------
(* Types.  The sets are named so that a step sees only those it needs.     *)

Call == {"none", "group", "message"}
Place == {"socket", "bind", "join", "poll", "recv", "recv one", "send", "close",
          "ended", "failed"}
Error == {"none", "pending", "reported"}
Wait == {-1, 1000}
Queue == {q \in Seq(Datagram) : Len(q) <= RcvBuf}
Buffer == [1 .. BufSize -> Cell]
\* A line printed: what is in a buffer up to some place.
Line == UNION {[D -> Cell] : D \in SUBSET (1 .. BufSize)}

Types ==
    /\ args \in [Procs -> Call]
    /\ pc \in [Procs -> Place]
    /\ queue \in [Procs -> Queue]
    /\ err \in [Procs -> Error]
    /\ timeout \in [Procs -> Wait]
    /\ member \in [Procs -> BOOLEAN]
    /\ buf \in [Procs -> Buffer]
    /\ heard \in [Procs -> Seq(Datagram)]
    /\ said \in [Procs -> Seq(Line)]
    /\ \A p \in Procs : Len(said[p]) = Len(heard[p])

LEMMA TypesImply == Types => TypeOK
<1> SUFFICES ASSUME Types PROVE TypeOK
    OBVIOUS
<1>1. \A p \in Procs : queue[p] \in Seq(Datagram) /\ Len(queue[p]) <= RcvBuf
    BY DEF Types, Queue
<1>2. queue \in [Procs -> Seq(Datagram)]
    BY <1>1 DEF Types
<1>3. \A p \in Procs : DOMAIN said[p] = DOMAIN heard[p]
    <2>1. ASSUME NEW p \in Procs PROVE DOMAIN said[p] = DOMAIN heard[p]
        <3>1. said[p] \in Seq(Line) /\ heard[p] \in Seq(Datagram) /\ Len(said[p]) = Len(heard[p])
            BY DEF Types
        <3>2. QED
            BY <3>1, LenProperties
    <2>2. QED
        BY <2>1
<1>4. QED
    BY <1>1, <1>2, <1>3 DEF Types, TypeOK, Call, Place, Error, Wait, Buffer

LEMMA FillType ==
    ASSUME NEW b \in Buffer, NEW s \in Messages
    PROVE  Fill(b, s) \in Buffer
<1>1. s \in Seq(Char)
    BY ByteAssumption
<1>2. \A k \in 1 .. BufSize : k <= Len(s) => s[k] \in Char
    BY <1>1
<1>3. \A k \in 1 .. BufSize : (IF k <= Len(s) THEN s[k] ELSE b[k]) \in Cell
    BY <1>2 DEF Buffer, Cell
<1>4. QED
    BY <1>3 DEF Fill, Buffer

LEMMA TextType ==
    ASSUME NEW b \in Buffer
    PROVE  Text(b) \in Line
<1> DEFINE D == {n \in 1 .. BufSize : \A m \in 1 .. n : b[m] # NUL}
<1>1. D \in SUBSET (1 .. BufSize) /\ Text(b) = [k \in D |-> b[k]]
    BY DEF Text
<1>2. [k \in D |-> b[k]] \in [D -> Cell]
    BY <1>1 DEF Buffer
<1> HIDE DEF D
<1>3. QED
    BY <1>1, <1>2 DEF Line

LEMMA TypesInit == Init => Types
<1> SUFFICES ASSUME Init PROVE Types
    OBVIOUS
<1>1. [k \in 1 .. BufSize |-> NUL] \in Buffer
    BY DEF Buffer, Cell
<1>2. <<>> \in Queue /\ <<>> \in Seq(Datagram) /\ <<>> \in Seq(Line)
    BY SizeAssumption DEF Queue
<1>3. "socket" \in Place /\ "none" \in Error /\ -1 \in Wait
    BY DEF Place, Error, Wait
<1>4. args \in [Procs -> Call]
    BY DEF Init, Call
<1>5. QED
    BY <1>1, <1>2, <1>3, <1>4 DEF Init, Types

\* A datagram leaves the queue, fills the buffer and is printed.
LEMMA TakeFirstTypes ==
    ASSUME Types, NEW p \in Procs, TakeFirst(p)
    PROVE  /\ Head(queue[p]) \in Datagram
           /\ queue' = [queue EXCEPT ![p] = Tail(queue[p])] /\ Tail(queue[p]) \in Queue
           /\ buf' = [buf EXCEPT ![p] = Fill(buf[p], Head(queue[p]).data)]
           /\ Fill(buf[p], Head(queue[p]).data) \in Buffer
           /\ heard' = [heard EXCEPT ![p] = Append(heard[p], Head(queue[p]))]
           /\ said' = [said EXCEPT ![p] = Append(said[p], Text(Fill(buf[p], Head(queue[p]).data)))]
           /\ Append(heard[p], Head(queue[p])) \in Seq(Datagram)
           /\ Append(said[p], Text(Fill(buf[p], Head(queue[p]).data))) \in Seq(Line)
           /\ Len(Append(heard[p], Head(queue[p]))) = Len(heard[p]) + 1
           /\ Len(Append(said[p], Text(Fill(buf[p], Head(queue[p]).data)))) = Len(said[p]) + 1
<1>1. queue[p] \in Seq(Datagram) /\ queue[p] # <<>> /\ Len(queue[p]) <= RcvBuf
    BY DEF TakeFirst, Types, Queue
<1>2. /\ Head(queue[p]) \in Datagram /\ Tail(queue[p]) \in Seq(Datagram)
      /\ Len(Tail(queue[p])) = Len(queue[p]) - 1
    BY <1>1, HeadTailProperties
<1>3. Len(queue[p]) \in Nat /\ Tail(queue[p]) \in Queue
    BY <1>1, <1>2, SizeAssumption DEF Queue
<1>4. Fill(buf[p], Head(queue[p]).data) \in Buffer
    <2>1. Head(queue[p]).data \in Messages
        BY <1>2 DEF Datagram
    <2>2. buf[p] \in Buffer
        BY DEF Types
    <2>3. QED
        BY <2>1, <2>2, FillType
<1> DEFINE b == Fill(buf[p], Head(queue[p]).data)
<1>5. Text(b) \in Line
    BY <1>4, TextType
<1>6. /\ queue' = [queue EXCEPT ![p] = Tail(queue[p])]
      /\ buf' = [buf EXCEPT ![p] = b]
      /\ heard' = [heard EXCEPT ![p] = Append(heard[p], Head(queue[p]))]
      /\ said' = [said EXCEPT ![p] = Append(said[p], Text(buf'[p]))]
    BY DEF TakeFirst
<1>7. buf'[p] = b
    BY <1>6 DEF Types
<1>8. heard[p] \in Seq(Datagram) /\ said[p] \in Seq(Line)
    BY DEF Types
<1>9. /\ Append(heard[p], Head(queue[p])) \in Seq(Datagram)
      /\ Len(Append(heard[p], Head(queue[p]))) = Len(heard[p]) + 1
    BY <1>2, <1>8, AppendProperties
<1>10. /\ Append(said[p], Text(b)) \in Seq(Line)
       /\ Len(Append(said[p], Text(b))) = Len(said[p]) + 1
    BY <1>5, <1>8, AppendProperties
<1>11. QED
    BY <1>2, <1>3, <1>4, <1>6, <1>7, <1>9, <1>10

\* One entry of a function is replaced by another of its type.
LEMMA UpdateType ==
    ASSUME NEW S, NEW T, NEW f \in [S -> T], NEW x \in S, NEW e \in T
    PROVE  [f EXCEPT ![x] = e] \in [S -> T]
OBVIOUS

LEMMA TakeFirstKeeps ==
    ASSUME Types, NEW p \in Procs, TakeFirst(p)
    PROVE  /\ queue' \in [Procs -> Queue] /\ buf' \in [Procs -> Buffer]
           /\ heard' \in [Procs -> Seq(Datagram)] /\ said' \in [Procs -> Seq(Line)]
           /\ \A q \in Procs : Len(said'[q]) = Len(heard'[q])
<1> DEFINE d == Head(queue[p])
           b == Fill(buf[p], d.data)
           line == Text(b)
<1>1. queue' = [queue EXCEPT ![p] = Tail(queue[p])] /\ Tail(queue[p]) \in Queue
    BY TakeFirstTypes
<1>2. buf' = [buf EXCEPT ![p] = b] /\ b \in Buffer
    BY TakeFirstTypes
<1>3. heard' = [heard EXCEPT ![p] = Append(heard[p], d)] /\ Append(heard[p], d) \in Seq(Datagram)
    BY TakeFirstTypes
<1>4. said' = [said EXCEPT ![p] = Append(said[p], line)] /\ Append(said[p], line) \in Seq(Line)
    BY TakeFirstTypes
<1>5. Len(Append(heard[p], d)) = Len(Append(said[p], line))
    <2>1. /\ Len(Append(heard[p], d)) = Len(heard[p]) + 1
          /\ Len(Append(said[p], line)) = Len(said[p]) + 1
        BY TakeFirstTypes
    <2>2. Len(said[p]) = Len(heard[p])
        BY DEF Types
    <2>3. QED
        BY <2>1, <2>2
<1> HIDE DEF d, b, line
<1>6. queue' \in [Procs -> Queue]
    <2>1. queue \in [Procs -> Queue]
        BY DEF Types
    <2>2. QED
        BY <1>1, <2>1, UpdateType
<1>7. buf' \in [Procs -> Buffer]
    <2>1. buf \in [Procs -> Buffer]
        BY DEF Types
    <2>2. QED
        BY <1>2, <2>1, UpdateType
<1>8. heard \in [Procs -> Seq(Datagram)] /\ heard' \in [Procs -> Seq(Datagram)]
    <2>1. heard \in [Procs -> Seq(Datagram)]
        BY DEF Types
    <2>2. QED
        BY <1>3, <2>1, UpdateType
<1>9. said \in [Procs -> Seq(Line)] /\ said' \in [Procs -> Seq(Line)]
    <2>1. said \in [Procs -> Seq(Line)]
        BY DEF Types
    <2>2. QED
        BY <1>4, <2>1, UpdateType
<1>10. ASSUME NEW q \in Procs PROVE Len(said'[q]) = Len(heard'[q])
    <2>1. CASE q = p
        <3>1. heard'[q] = Append(heard[p], d) /\ said'[q] = Append(said[p], line)
            BY <1>3, <1>4, <1>8, <1>9, <2>1
        <3>2. QED
            BY <1>5, <3>1
    <2>2. CASE q # p
        <3>1. heard'[q] = heard[q] /\ said'[q] = said[q]
            BY <1>3, <1>4, <1>8, <1>9, <2>2
        <3>2. QED
            BY <3>1 DEF Types
    <2>3. QED
        BY <2>1, <2>2
<1>11. QED
    BY <1>6, <1>7, <1>8, <1>9, <1>10

LEMMA TypesNext ==
    ASSUME Types, [Next]_vars
    PROVE  Types'
<1> USE DEF Types, Step, history
<1>1. ASSUME NEW p \in Procs, SocketOk(p) \/ SocketFails(p) \/ BindFails(p) PROVE Types'
    BY <1>1 DEF SocketOk, SocketFails, BindFails, Place
<1>2. ASSUME NEW p \in Procs, NEW b \in [1 .. BufSize -> {NUL, Junk}], BindOk(p, b) PROVE Types'
    <2>1. b \in Buffer
        BY DEF Buffer, Cell
    <2>2. buf' \in [Procs -> Buffer]
        BY <1>2, <2>1 DEF BindOk
    <2>3. QED
        BY <1>2, <2>2 DEF BindOk, Place
<1>3. ASSUME NEW p \in Procs, Join(p) \/ JoinFails(p) PROVE Types'
    BY <1>3 DEF Join, JoinFails, FirstCall, Place
<1>4. ASSUME NEW p \in Procs, NEW m \in Messages, Send(p, m) PROVE Types'
    <2>1. PICK Q \in SUBSET MayReach(p) :
            queue' = [q \in Procs |->
                        IF q \in Q /\ Len(queue[q]) < RcvBuf
                        THEN Append(queue[q], [from |-> p, data |-> m])
                        ELSE queue[q]]
        BY <1>4 DEF Send
    <2>2. [from |-> p, data |-> m] \in Datagram
        BY DEF Datagram
    <2>3. ASSUME NEW q \in Queue, NEW d \in Datagram, Len(q) < RcvBuf PROVE Append(q, d) \in Queue
        <3>1. q \in Seq(Datagram)
            BY DEF Queue
        <3>2. Append(q, d) \in Seq(Datagram) /\ Len(Append(q, d)) = Len(q) + 1 /\ Len(q) \in Nat
            BY <3>1, AppendProperties
        <3>3. QED
            BY <2>3, <3>2, SizeAssumption DEF Queue
    <2>4. queue' \in [Procs -> Queue]
        BY <2>1, <2>2, <2>3
    <2>5. QED
        BY <1>4, <2>4 DEF Send, Place
<1>5. ASSUME NEW p \in Procs, SendFails(p) \/ PollReady(p) \/ PollQuiet(p) \/ PollFails(p) PROVE Types'
    BY <1>5 DEF SendFails, PollReady, PollQuiet, PollFails, Place, Error
<1>6. ASSUME NEW p \in Procs, Recv(p) \/ RecvOne(p) PROVE Types'
    <2>1. timeout' \in [Procs -> Wait] /\ pc' \in [Procs -> Place] /\ (TakeFirst(p) \/ TakeError(p))
        <3>1. CASE Recv(p)
            <4>1. timeout' = [timeout EXCEPT ![p] = 1000] /\ 1000 \in Wait
                BY <3>1 DEF Recv, TimeoutAfter, Wait
            <4>2. "poll" \in Place /\ pc' = [pc EXCEPT ![p] = "poll"]
                BY <3>1 DEF Recv, Place
            <4>3. QED
                BY <3>1, <4>1, <4>2 DEF Recv
        <3>2. CASE RecvOne(p)
            BY <3>2 DEF RecvOne, Place
        <3>3. QED
            BY <1>6, <3>1, <3>2
    <2>2. CASE TakeFirst(p)
        <3>1. /\ queue' \in [Procs -> Queue] /\ buf' \in [Procs -> Buffer]
              /\ heard' \in [Procs -> Seq(Datagram)] /\ said' \in [Procs -> Seq(Line)]
              /\ \A q \in Procs : Len(said'[q]) = Len(heard'[q])
            BY <2>2, TakeFirstKeeps
        <3>2. QED
            BY <2>1, <2>2, <3>1 DEF TakeFirst
    <2>3. CASE TakeError(p)
        BY <2>1, <2>3 DEF TakeError, Error
    <2>4. QED
        BY <2>1, <2>2, <2>3
<1>7. ASSUME NEW p \in Procs, Close(p) PROVE Types'
    <2>1. <<>> \in Queue
        BY SizeAssumption DEF Queue
    <2>2. QED
        BY <1>7, <2>1 DEF Close, Place
<1>8. ASSUME NEW p \in Procs, SocketError(p) PROVE Types'
    BY <1>8 DEF SocketError, Error
<1>9. ASSUME UNCHANGED vars PROVE Types'
    BY <1>9 DEF vars
<1>10. QED
    BY <1>1, <1>2, <1>3, <1>4, <1>5, <1>6, <1>7, <1>8, <1>9 DEF Next, Process

(***************************************************************************)
(* Type correctness: the kernel's queue stays inside its limit, and what   *)
(* recvfrom stores inside the buffer (mcast.c:86), whatever is sent.       *)
(***************************************************************************)
THEOREM McastTypes == Spec => []TypeOK
BY TypesInit, TypesNext, TypesImply, PTL DEF Spec

-----------------------------------------------------------------------------
(* What is printed.                                                        *)

\* How a receiver came where it is.
Flow(p) ==
    /\ pc[p] \in {"socket", "bind"} => heard[p] = <<>>
    /\ pc[p] = "send" => args[p] # "group"
    /\ timeout[p] # -1 => HasReceived(p)
    /\ args[p] = "group" /\ pc[p] \in {"close", "ended"} => HasReceived(p)

\* Each line starts with the datagram it is printed for.
Lines(p) == \A k \in 1 .. Len(heard[p]) : StartsWith(said[p][k], heard[p][k].data)

Inv == Types /\ \A p \in Procs : Flow(p) /\ Lines(p)

\* recvfrom stores the datagram from the start of the buffer, and a message
\* has no 0 in it at which %s would stop.
LEMMA TextStarts ==
    ASSUME NEW b \in Buffer, NEW s \in Messages
    PROVE  StartsWith(Text(Fill(b, s)), s)
<1>1. s \in Seq(Char)
    BY ByteAssumption
<1>2. \A k \in 1 .. BufSize : k <= Len(s) => Fill(b, s)[k] = s[k] /\ s[k] \in Char
    BY <1>1 DEF Fill
<1>3. ASSUME NEW n \in 1 .. BufSize, n <= Len(s)
      PROVE  n \in DOMAIN Text(Fill(b, s)) /\ Text(Fill(b, s))[n] = s[n]
    <2>1. \A m \in 1 .. n : m \in 1 .. BufSize /\ m <= Len(s)
        BY <1>1, <1>3, SizeAssumption
    <2>2. \A m \in 1 .. n : Fill(b, s)[m] # NUL
        BY <1>2, <2>1, ByteAssumption
    <2>3. QED
        BY <1>2, <1>3, <2>2 DEF Text
<1>4. QED
    BY <1>3 DEF StartsWith

-----------------------------------------------------------------------------
LEMMA InvInit == Init => Inv
<1> SUFFICES ASSUME Init PROVE Inv
    OBVIOUS
<1>1. Types
    BY TypesInit
<1>2. ASSUME NEW p \in Procs PROVE Flow(p) /\ Lines(p)
    <2>1. heard[p] = <<>> /\ pc[p] = "socket" /\ timeout[p] = -1
        BY <1>2 DEF Init
    <2>2. Len(heard[p]) = 0 /\ 1 .. Len(heard[p]) = {}
        BY <2>1
    <2>3. QED
        BY <2>1, <2>2 DEF Flow, Lines
<1>3. QED
    BY <1>1, <1>2 DEF Inv

\* A process that receives nothing in a step.
LEMMA LinesStay ==
    ASSUME NEW p \in Procs, Lines(p), heard'[p] = heard[p], said'[p] = said[p]
    PROVE  Lines(p)'
BY DEF Lines

\* One that receives.
LEMMA LinesOn ==
    ASSUME Types, NEW p \in Procs, Lines(p), TakeFirst(p)
    PROVE  /\ Lines(p)'
           /\ \A q \in Procs \ {p} : heard'[q] = heard[q] /\ said'[q] = said[q]
           /\ heard'[p] # <<>>
           /\ UNCHANGED <<err, args>>
<1> DEFINE d == Head(queue[p])
           h == heard[p]
           N == Len(heard[p])
<1>1. /\ heard'[p] = Append(h, d) /\ d \in Datagram /\ h \in Seq(Datagram)
      /\ said'[p] = Append(said[p], Text(Fill(buf[p], d.data)))
      /\ said[p] \in Seq(Line) /\ Len(said[p]) = N /\ N \in Nat
      /\ Text(Fill(buf[p], d.data)) \in Line
      /\ buf[p] \in Buffer
    BY TakeFirstTypes, TextType DEF Types
<1>2. UNCHANGED <<err, args>>
    BY DEF TakeFirst
<1>3. Len(heard'[p]) = N + 1 /\ heard'[p] # <<>>
    BY <1>1, AppendProperties
<1>4. \A q \in Procs \ {p} : heard'[q] = heard[q] /\ said'[q] = said[q]
    BY TakeFirstTypes DEF Types
<1> HIDE DEF d, h, N
<1>5. ASSUME NEW k \in 1 .. N + 1 PROVE StartsWith(said'[p][k], heard'[p][k].data)
    <2>1. CASE k = N + 1
        <3>1. said'[p][k] = Text(Fill(buf[p], d.data)) /\ heard'[p][k] = d
            BY <1>1, <2>1, AppendProperties DEF h, N
        <3>2. StartsWith(Text(Fill(buf[p], d.data)), d.data)
            BY <1>1, TextStarts DEF Datagram
        <3>3. QED
            BY <3>1, <3>2
    <2>2. CASE k # N + 1
        <3>1. k \in 1 .. N
            BY <1>1, <2>2
        <3>2. said'[p][k] = said[p][k] /\ heard'[p][k] = heard[p][k]
            BY <1>1, <3>1, AppendProperties DEF h, N
        <3>3. QED
            BY <3>1, <3>2 DEF Lines, N
    <2>3. QED
        BY <2>1, <2>2
<1>6. Lines(p)'
    BY <1>3, <1>5 DEF Lines
<1>7. QED
    BY <1>2, <1>3, <1>4, <1>6

\* What a step leaves alone, the invariant does not see.
LEMMA OthersStay ==
    ASSUME NEW q \in Procs, Flow(q), Lines(q), args' = args,
           pc'[q] = pc[q], timeout'[q] = timeout[q],
           err'[q] = err[q] \/ (err'[q] = "pending" /\ err[q] = "none"),
           heard'[q] = heard[q], said'[q] = said[q]
    PROVE  Flow(q)' /\ Lines(q)'
<1>1. HasReceived(q) => HasReceived(q)'
    BY DEF HasReceived
<1>2. QED
    BY <1>1, LinesStay DEF Flow

LEMMA InvNext ==
    ASSUME Inv, [Next]_vars
    PROVE  Inv'
<1>1. Types /\ Types' /\ \A q \in Procs : Flow(q) /\ Lines(q)
    BY TypesNext DEF Inv
<1> SUFFICES \A q \in Procs : Flow(q)' /\ Lines(q)'
    BY <1>1 DEF Inv
\* The steps in which nobody receives.
<1>2. ASSUME NEW p \in Procs,
             \/ SocketOk(p) \/ SocketFails(p) \/ BindFails(p) \/ Join(p) \/ JoinFails(p)
             \/ SendFails(p) \/ PollReady(p) \/ PollQuiet(p) \/ PollFails(p) \/ Close(p)
             \/ \E m \in Messages : Send(p, m)
      PROVE  \A q \in Procs : Flow(q)' /\ Lines(q)'
    <2>1. UNCHANGED <<args, heard, said, timeout>>
        BY <1>2 DEF SocketOk, SocketFails, BindFails, Join, JoinFails, Send, SendFails,
                    PollReady, PollQuiet, PollFails, Close, history
    <2>2. \A q \in Procs \ {p} : pc'[q] = pc[q] /\ err'[q] = err[q]
        BY <1>1, <1>2 DEF SocketOk, SocketFails, BindFails, Join, JoinFails, Send, SendFails,
                    PollReady, PollQuiet, PollFails, Close, Step, Types
    <2>3. Lines(p)'
        BY <1>1, <2>1, LinesStay
    <2>4. Flow(p)'
        <3>1. HasReceived(p) => HasReceived(p)'
            BY <1>1, <1>2, <2>1 DEF HasReceived, Types, SocketOk, SocketFails, BindFails, Join, JoinFails,
                    Send, SendFails, PollReady, PollQuiet, PollFails, Close
        <3>2. timeout'[p] # -1 => HasReceived(p)'
            BY <1>1, <2>1, <3>1 DEF Flow
        <3>3. pc[p] \in {"socket", "bind"} \/ pc'[p] \notin {"socket", "bind"}
            BY <1>1, <1>2 DEF Types, Step, SocketOk, SocketFails, BindFails, Join, JoinFails, FirstCall,
                    Send, SendFails, PollReady, PollQuiet, PollFails, Close
        <3>4. pc'[p] = "send" => args[p] # "group"
            BY <1>1, <1>2 DEF Types, Step, SocketOk, SocketFails, BindFails, Join, JoinFails, FirstCall,
                    Send, SendFails, PollReady, PollQuiet, PollFails, Close
        <3>5. ASSUME args[p] = "group", pc'[p] \in {"close", "ended"} PROVE HasReceived(p)'
            <4>1. CASE PollQuiet(p)
                BY <1>1, <3>1, <4>1 DEF PollQuiet, Flow
            <4>2. CASE PollFails(p)
                BY <1>1, <4>2 DEF PollFails, HasReceived, Types
            <4>3. CASE Close(p)
                BY <1>1, <3>1, <3>5, <4>3 DEF Close, Step, Flow
            <4>4. CASE SendFails(p) \/ \E m \in Messages : Send(p, m)
                BY <1>1, <3>5, <4>4 DEF Send, SendFails, Step, Flow
            <4>5. CASE SocketOk(p) \/ SocketFails(p) \/ BindFails(p) \/ Join(p) \/ JoinFails(p) \/ PollReady(p)
                BY <1>1, <3>5, <4>5 DEF SocketOk, SocketFails, BindFails, Join, JoinFails, FirstCall,
                    PollReady, Step, Types
            <4>6. QED
                BY <1>2, <4>1, <4>2, <4>3, <4>4, <4>5
        <3>6. QED
            BY <1>1, <2>1, <3>2, <3>3, <3>4, <3>5 DEF Flow
    <2>5. ASSUME NEW q \in Procs, q # p PROVE Flow(q)' /\ Lines(q)'
        BY <1>1, <2>1, <2>2, <2>5, OthersStay
    <2>6. QED
        BY <2>3, <2>4, <2>5
<1>3. ASSUME NEW p \in Procs, NEW b \in [1 .. BufSize -> {NUL, Junk}], BindOk(p, b)
      PROVE  \A q \in Procs : Flow(q)' /\ Lines(q)'
    <2>1. /\ UNCHANGED <<args, heard, said, timeout, err>>
          /\ pc[p] = "bind" /\ pc' = [pc EXCEPT ![p] = "join"]
        BY <1>3 DEF BindOk, Step, history
    <2>2. heard[p] = <<>>
        BY <1>1, <2>1 DEF Flow
    <2>3. Lines(p)'
        BY <1>1, <2>1, LinesStay
    <2>4. Flow(p)'
        BY <1>1, <2>1 DEF Flow, HasReceived, Types
    <2>5. ASSUME NEW q \in Procs, q # p PROVE Flow(q)' /\ Lines(q)'
        <3>1. pc'[q] = pc[q]
            BY <1>1, <2>1, <2>5 DEF Types
        <3>2. QED
            BY <1>1, <2>1, <3>1, OthersStay
    <2>6. QED
        BY <2>3, <2>4, <2>5
<1>4. ASSUME NEW p \in Procs, Recv(p) \/ RecvOne(p)
      PROVE  \A q \in Procs : Flow(q)' /\ Lines(q)'
    <2>1. /\ TakeFirst(p) \/ TakeError(p)
          /\ pc'[p] \in {"poll", "close"}
          /\ \A q \in Procs \ {p} : pc'[q] = pc[q] /\ timeout'[q] = timeout[q]
        <3>1. CASE Recv(p)
            <4>1. pc' = [pc EXCEPT ![p] = "poll"] /\ timeout' = [timeout EXCEPT ![p] = 1000]
                BY <3>1 DEF Recv, Step, TimeoutAfter
            <4>2. QED
                BY <1>1, <3>1, <4>1 DEF Recv, Types
        <3>2. CASE RecvOne(p)
            BY <1>1, <3>2 DEF RecvOne, Step, Types
        <3>3. QED
            BY <1>4, <3>1, <3>2
    <2>2. /\ HasReceived(p)' /\ Lines(p)'
          /\ args' = args
          /\ \A q \in Procs \ {p} : /\ err'[q] = err[q]
                                    /\ heard'[q] = heard[q] /\ said'[q] = said[q]
        <3>1. CASE TakeFirst(p)
            BY <1>1, <3>1, LinesOn DEF HasReceived
        <3>2. CASE TakeError(p)
            BY <1>1, <3>2, LinesStay DEF TakeError, HasReceived, Types, history
        <3>3. QED
            BY <2>1, <3>1, <3>2
    <2>3. Flow(p)'
        BY <2>1, <2>2 DEF Flow
    <2>4. ASSUME NEW q \in Procs, q # p PROVE Flow(q)' /\ Lines(q)'
        BY <1>1, <2>1, <2>2, <2>4, OthersStay
    <2>5. QED
        BY <2>2, <2>3, <2>4
<1>5. ASSUME NEW p \in Procs, SocketError(p)
      PROVE  \A q \in Procs : Flow(q)' /\ Lines(q)'
    <2>1. /\ UNCHANGED <<args, pc, timeout, heard, said>>
          /\ err[p] = "none" /\ err' = [err EXCEPT ![p] = "pending"]
        BY <1>5 DEF SocketError, history
    <2>2. QED
        BY <1>1, <2>1, OthersStay DEF Types
<1>6. ASSUME UNCHANGED vars
      PROVE  \A q \in Procs : Flow(q)' /\ Lines(q)'
    BY <1>1, <1>6, OthersStay DEF vars, history
<1>7. QED
    BY <1>2, <1>3, <1>4, <1>5, <1>6 DEF Next, Process

(***************************************************************************)
(* Whatever is sent, lost or queued, each line a receiver prints starts    *)
(* with the whole datagram, cut to the buffer (mcast.c:83-87), and no      *)
(* receiver ends before it has received something or an error              *)
(* (mcast.c:80-84).                                                        *)
(***************************************************************************)
THEOREM McastSaysWhatCame == Spec => []SaysWhatCame
<1>1. Inv => SaysWhatCame
    <2>1. ASSUME Inv, NEW p \in Procs
          PROVE  /\ \A k \in DOMAIN said[p] : StartsWith(said[p][k], heard[p][k].data)
                 /\ args[p] = "group" /\ pc[p] = "ended" => HasReceived(p)
        <3>1. DOMAIN said[p] = 1 .. Len(heard[p])
            BY <2>1, LenProperties DEF Inv, Types
        <3>2. QED
            BY <2>1, <3>1 DEF Inv, Flow, Lines
    <2>2. QED
        BY <2>1 DEF SaysWhatCame
<1>2. QED
    BY <1>1, InvInit, InvNext, PTL DEF Spec
=============================================================================
