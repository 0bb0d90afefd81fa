----------------------------- MODULE CliServer -----------------------------
(***************************************************************************)
(* src/src/c/tcp_select/cli_server.c with the main and the callback of     *)
(* cli_server_cli.c: once a second, until a client commands "shutdown",    *)
(* an event is sent to every client and what clients wrote is read without *)
(* waiting for more.  The descriptors are kept as in SelectServer.         *)
(*                                                                         *)
(* pars_incomming_data touches only the buffer and the callback, so one    *)
(* recv and all its callbacks are one step; its loop is module CmdParser.  *)
(***************************************************************************)
EXTENDS Sockets, Commands

CONSTANTS
    ShutdownWord,   \* the command "shutdown"
    EventLen        \* strlen(m), the length of the unsolicited event

ASSUME EventAssumption == EventLen \in 1 .. SndBuf

VARIABLES
    pc,         \* "start", "check", "send", "select", "scan", "exited", "killed"
    master,     \* ctx->master
    read_fds,   \* read_fds
    fdmax,      \* ctx->fdmax
    i,          \* i of cli_server_non_blocking_run
    j,          \* j of cli_server_send
    shutdown,   \* shutdown
    \* History, for the properties only:
    said,       \* said[c]: all bytes c has written
    cmds        \* cmds[c]: the commands the callback was given for c

srvVars == <<pc, master, read_fds, fdmax, i, j, shutdown>>
history == <<said, cmds>>
vars == <<sockVars, srvVars, history>>

Stopped == pc \in {"exited", "killed"}

Init ==
    /\ SockInit
    /\ pc = "start"
    /\ master = {} /\ read_fds = {} /\ fdmax = NoFd
    /\ i = 0 /\ j = 0
    /\ shutdown = 0
    /\ said = [c \in Conns |-> <<>>]
    /\ cmds = [c \in Conns |-> <<>>]

-----------------------------------------------------------------------------
(* cli_server_init.                                                        *)
InitOk(n) ==
    /\ pc = "start"
    /\ IsLowestFree(n)
    /\ listener' = n
    /\ master' = {n}
    /\ fdmax' = n
    /\ pc' = "check"
    /\ UNCHANGED <<fd, cli, link, inq, outq, backlog, wrote>>
    /\ UNCHANGED <<read_fds, i, j, shutdown, history>>

InitFails ==
    /\ pc = "start"
    /\ pc' = "exited"
    /\ UNCHANGED <<sockVars, master, read_fds, fdmax, i, j, shutdown, history>>

\* Mutant: while (shutdown != 1), and two clients command it in one run.
MustEndExactly == shutdown = 1

\* while (!shutdown)
MustEnd == shutdown > 0

Check ==
    /\ pc = "check"
    /\ pc' = IF MustEnd THEN "exited" ELSE "send"
    /\ j' = 0
    /\ UNCHANGED <<sockVars, master, read_fds, fdmax, i, shutdown, history>>

-----------------------------------------------------------------------------
(* cli_server_send: the event goes to every client.                        *)
Targets == {k \in master : j <= k /\ k <= fdmax /\ k # listener}

IsNextTarget(c) ==
    /\ IsOpen(c) /\ fd[c] \in Targets
    /\ \A k \in Targets : fd[c] <= k

SendOk(c) ==
    /\ pc = "send"
    /\ IsNextTarget(c)
    /\ SockSend(c, EventLen)
    /\ j' = fd[c] + 1
    /\ UNCHANGED <<pc, master, read_fds, fdmax, i, shutdown, history>>

SendError(c) ==
    /\ pc = "send"
    /\ IsNextTarget(c)
    /\ SockSendFails(c)
    /\ j' = fd[c] + 1
    /\ UNCHANGED <<pc, master, read_fds, fdmax, i, shutdown, history>>

SendSigpipe(c) ==
    /\ pc = "send"
    /\ IsNextTarget(c)
    /\ SendIsFatal(c)
    /\ pc' = "killed"
    /\ UNCHANGED <<sockVars, master, read_fds, fdmax, i, j, shutdown, history>>

EndSend ==
    /\ pc = "send"
    /\ Targets = {}
    /\ pc' = "select"
    /\ UNCHANGED <<sockVars, master, read_fds, fdmax, i, j, shutdown, history>>

-----------------------------------------------------------------------------
(* cli_server_non_blocking_run.  Its timeout is 0: select never waits.     *)
SelectFails == \E k \in master : k <= fdmax /\ k \notin OpenFds

\* Mutant: the scan tests master instead of the set that select returned.
IsWatched(k) == k <= fdmax

\* Left in read_fds by select.
IsReported(k) == k <= fdmax /\ Readable(k)

Select ==
    /\ pc = "select"
    /\ pc' = IF SelectFails THEN "exited" ELSE "scan"
    /\ read_fds' = {k \in master : IsReported(k)}
    /\ i' = 0
    /\ UNCHANGED <<sockVars, master, fdmax, j, shutdown, history>>

IsNextReady(k) ==
    /\ k \in read_fds /\ i <= k /\ k <= fdmax
    /\ \A m \in read_fds : m < i \/ k <= m

\* Mutants: fdmax is never raised; it is select's nfds, one more than the
\* highest.
FdmaxKept(n) == fdmax
FdmaxPlusOne(n) == IF n >= fdmax THEN n + 1 ELSE fdmax

FdmaxWith(n) == IF n > fdmax THEN n ELSE fdmax

Accept(c, n) ==
    /\ pc = "scan"
    /\ IsNextReady(listener)
    /\ SockAccept(c, n)
    /\ master' = master \cup {n}
    /\ fdmax' = FdmaxWith(n)
    /\ i' = listener + 1
    /\ UNCHANGED <<pc, read_fds, j, shutdown, history>>

AcceptFails ==
    /\ pc = "scan"
    /\ IsNextReady(listener)
    /\ AcceptCannot
    /\ i' = listener + 1
    /\ UNCHANGED <<sockVars, pc, master, read_fds, fdmax, j, shutdown, history>>

RecvClosed(c) ==
    /\ pc = "scan"
    /\ IsOpen(c) /\ IsNextReady(fd[c])
    /\ RecvEnds(c)
    /\ SockClose(c)
    /\ master' = master \ {fd[c]}
    /\ i' = fd[c] + 1
    /\ UNCHANGED <<pc, read_fds, fdmax, j, shutdown, history>>

\* Mutant: buf[nbytes-2] = 0.
TerminatedEarly(s) == [s EXCEPT ![Len(s) - 1] = NUL]

\* buf[nbytes-1] = 0
Terminated(s) == [s EXCEPT ![Len(s)] = NUL]

\* cli_server_cmd, for each command of a buffer.
Shutdowns(words) == Cardinality({k \in DOMAIN words : words[k] = ShutdownWord})

RecvData(c) ==
    /\ pc = "scan"
    /\ IsOpen(c) /\ IsNextReady(fd[c])
    /\ SockRecv(c)
    /\ \E buf \in {Terminated(SubSeq(inq[c], 1, RecvLen(c)))} :
        \E words \in {Commands(buf)} :
            /\ cmds' = [cmds EXCEPT ![c] = @ \o words]
            /\ shutdown' = shutdown + Shutdowns(words)
    /\ i' = fd[c] + 1
    /\ UNCHANGED <<pc, master, read_fds, fdmax, j, said>>

\* The run returns, main sleeps for a second and looks at shutdown again.
EndScan ==
    /\ pc = "scan"
    /\ ~ \E k \in read_fds : IsNextReady(k)
    /\ pc' = "check"
    /\ UNCHANGED <<sockVars, master, read_fds, fdmax, i, j, shutdown, history>>

-----------------------------------------------------------------------------
Server ==
    \/ \E n \in Fds : InitOk(n)
    \/ InitFails
    \/ Check
    \/ \E c \in Conns : SendOk(c)
    \/ \E c \in Conns : SendError(c)
    \/ \E c \in Conns : SendSigpipe(c)
    \/ EndSend
    \/ Select
    \/ \E c \in Conns, n \in Fds : Accept(c, n)
    \/ AcceptFails
    \/ \E c \in Conns : RecvClosed(c)
    \/ \E c \in Conns : RecvData(c)
    \/ EndScan

\* The clients go on as long as the server lives.
Clients ==
    /\ ~Stopped
    /\ \E c \in Conns :
        \/ \E w \in Writes :
            ClientWrite(c, w) /\ said' = [said EXCEPT ![c] = @ \o w]
        \/ OtherThanWrite(c) /\ UNCHANGED said
    /\ UNCHANGED <<srvVars, cmds>>

Next == Server \/ Clients

Spec == Init /\ [][Next]_vars

\* The program runs whenever it can, and clients read what they are sent.
ClientAct(A) == ~Stopped /\ A /\ UNCHANGED <<srvVars, history>>

FairSpec ==
    /\ Spec
    /\ WF_vars(Server)
    /\ \A c \in Conns : WF_vars(ClientAct(ClientRead(c)))
    /\ \A c \in Conns : WF_vars(ClientAct(ResetArrives(c)))

-----------------------------------------------------------------------------
(* Properties.                                                             *)

\* Types.
TypeOK ==
    /\ SockTypeOK
    /\ pc \in {"start", "check", "send", "select", "scan", "exited", "killed"}
    /\ master \subseteq Fds
    /\ read_fds \subseteq Fds
    /\ fdmax \in Fds \cup {NoFd}
    /\ i \in 0 .. NumFds
    /\ j \in 0 .. NumFds
    /\ shutdown \in Nat
    /\ said \in [Conns -> Seq(Byte)]
    /\ cmds \in [Conns -> Seq(Seq(Byte))]

(***************************************************************************)
(* ctx->master (cli_server.c:74, 164, 186) is the listener and the open    *)
(* connections, each with a number of its own, all at most ctx->fdmax      *)
(* (cli_server.c:76, 165-168): none is leaked, none forgotten by an event, *)
(* and select is never given a closed one.                                 *)
(***************************************************************************)
WatchedExactly ==
    listener # NoFd =>
        /\ master = {listener} \cup {fd[c] : c \in {d \in Conns : IsOpen(d)}}
        /\ \A k \in master : k <= fdmax /\ k \notin Inherited
        /\ \A c \in Conns : fd[c] # listener
        /\ \A c, d \in Conns : IsOpen(c) /\ fd[c] = fd[d] => c = d

(***************************************************************************)
(* "don't block" (cli_server.c:131): the accept and the recv of a run      *)
(* (cli_server.c:155, 175) are only called on a descriptor that still has  *)
(* something to give, whatever the run did before it got there.            *)
(***************************************************************************)
NeverBlocksInScan ==
    pc = "scan" => \A k \in {m \in read_fds : i <= m} : k \in master /\ Readable(k)

(***************************************************************************)
(* "this will not truncate commands" (cli_server.c:81): what the callback  *)
(* is given for a connection, with the lines still to be read, is what its *)
(* client wrote, line by line and in order.                                *)
(***************************************************************************)
CommandsIntact ==
    \A c \in Conns : IsOpen(c) => cmds[c] \o Lines(inq[c]) = Lines(said[c])

(***************************************************************************)
(* "shutdown" works (cli_server_cli.c:13-19): once a client has written    *)
(* the line the program ends, also when the client hangs up at once, and   *)
(* whatever the others do.                                                 *)
(***************************************************************************)
ShutdownHonoured ==
    \A c \in Conns :
        (IsOpen(c) /\ \E k \in DOMAIN Lines(inq[c]) : Lines(inq[c])[k] = ShutdownWord)
            ~> Stopped
=============================================================================
