# A verification of leakim_misc

leakim_misc is a collection of small tools and demonstrations: servers and
system-call programs in C, Wireshark taps in Lua, shell scripts that drive a
Wi-Fi supplicant, a few Python and Perl scripts, and a good deal of
configuration and notes.  This directory holds TLA+ models of the parts that
have state worth reasoning about, the TLC configurations that check them, and
TLAPS proofs of what matters most.  Paths below are relative to `src/`.

## 1. The system

The programs are independent: none calls another, except that the two files of
the command server make one program and that the Wi-Fi scripts share a library
and files.  What they interact with is the kernel, through sockets, descriptors,
a tap device, processes and threads, and with the clients on the other side.

| Component | State | Operations | What is hard |
|---|---|---|---|
| Broadcast server, `src/c/tcp_select/server.c` | `master`, `read_fds`, `fdmax`, loop indices `i` and `j`, one buffer; per connection the kernel's queues | select; accept; recv; send to all others; close | one thread serves all with blocking calls on what an earlier select reported; descriptor numbers are used again; clients hang up or reset between any two calls; send may block or raise SIGPIPE |
| Command server, `src/c/tcp_select/cli_server.c`, `cli_server_cli.c` | `ctx->master`, `ctx->fdmax`, `shutdown` | init; event to all clients; one run that does not wait; the callback; the loop of `main` | the same, and commands cut out of a byte stream in place |
| Wait queue, `src/c/pthread_waitq/main.c` | the queue, a mutex, a condition | push; pop | any interleaving of threads, wakeups that come late or for nothing |
| Tap echo, `src/c/tap` | the descriptor set and timeout of select, frame counters, the interface's flags | open; up; echo loop; down; close | select changes its arguments; timeouts and signals come in between |
| USB hub control, `src/c/usb_hub/hub-ctrl.c` | option variables, table of hubs | options; scan; choice; request | options in any order, hubs named by index or by address |
| Process control demo, `src/c/fork_exec_kill` | two pids | vfork and execl, kill, waitpid | process numbers are used again; signals race with exits |
| Spin lock and timer demo, `src/c/pthread` | a spin lock, a timer | lock, trylock, join, timer callback | sleeps in two threads decide the order |
| Wi-Fi P2P scripts, `etc/wpa_supplicant_conf/wifi-p2p_pbc` | globals `IF`, `MAC`, `DONE`; shared files in `/tmp` | find, wait for peer, connect, monitor | both scripts read and write files of the same names; the supplicants answer as they please |
| Access point and station taps, `src/lua/wlan/wlan_list_*.lua` | tables filled by three listeners | packet, draw | the order in which frames of different kinds arrive |
| Signal and loss taps, `wlan_rssi.lua`, `wlan_nav.lua`, `src/lua/eth` | minimum, maximum, sum, count; last sequence number | packet, draw | no frames at all; wrap-around |
| Information element printer, `src/python/pars_ies.py` | the rest of the buffer | one element per call | truncated elements |
| Multicast tools, `src/c/mcast/mcast.c`, `src/c/socket/mcast.c` | socket, timeout, receive buffer | bind, join, receive loop, send | datagrams lost or longer than the buffer; the first wait has no limit, the others a second; the buffer keeps what was in it |
| Option parser demo, `src/c/optargs` | getopt's | -s, -d, -v | conversions that overwrite one another |

What makes each correct:

* *Broadcast server*: what it watches is exactly what is open; it never blocks
  in accept or recv; all that clients write is received, and every client is sent
  what was received from every other, once, in one order; hang-ups are noticed,
  and cost their own connection only; running out of descriptors costs those who
  wait, and only while it lasts.
* *Command server*: the same for descriptors; each command reaches the callback
  whole, once and in order; `shutdown` ends the program; the parser stays inside
  its buffer and ends.
* *Wait queue*: no job is lost or popped twice; no job lies in the queue while all
  consumers sleep; pop finds a job.
* *Tap echo*: frames go back once each and in order, but for those that a failing
  call loses; read never blocks; a frame that comes in time is served.
* *Multicast tools*: a receiver prints each datagram and nothing that was not in
  it, waits for the first and ends in the first quiet second after it.
* *Spin lock and timer demo*: the output says which of the two threads gets the
  lock.
* *USB hub control*: the request that is sent, and the hub it is sent to, are
  those the command line asked for.
* *Taps*: what is listed, summed and reported is what was in the file, whatever
  the order of its frames; a listing is written to its end.

Not all of this is so: section 4.

`PROJECT.json` lists every component with its status, and under `hazards` what
in this code is hard to test, at its line, with the properties about it.

## 2. The modules

```
Bytes    <- Sockets       <- SelectServer  <- MCSelectServer
   |           |                  |        <- SelectServerProofs
   |           |                  +-- refines BroadcastSpec
   |           |          <- CliServer     <- MCCliServer
   |           |              (and Commands)  <- CliServerProofs
   |     <- Commands      <- CliServer
   |                      <- CmdParser     <- MCCmdParser
   |                                       <- CmdParserProofs
WaitQueue                 <- WaitQueueProofs
TapLoop                   <- TapLoopProofs
Multicast                 <- MCMulticast
                          <- MulticastProofs
SpinTimer
HubCtrl                   <- MCHubCtrl
                          <- HubCtrlProofs
WlanTaps                  <- MCWlanTaps
                          <- WlanTapsProofs
```

**Bytes** names the two bytes that the servers look for, newline and 0.

**Sockets** is the environment of both servers: TCP connections as the server's
kernel and the clients see them.  It is external to `src/` and modelled from how
the code uses it: descriptors are small numbers, the lowest free one is given
out (so that a number is used again at once); a connection waits in the
backlog; received bytes queue in `inq`, sent ones in `outq` until the client
reads; a client may write, read, shut down, close with a FIN or abort with an
RST at any time.  `link` is what matters of TCP's state: after an RST one call
reports the error (`reset`), and the next send raises SIGPIPE (`broken`).
`Faults` says which endings are possible, and with `"enfile"` whether the whole
system may be out of descriptors: `AcceptCannot` is when accept fails with EMFILE
(none is left to the process) or ENFILE (at any time).

**SelectServer** is `server.c`.  `Startup` is everything up to the loop.
`Select` fills `read_fds`; in `scan`, `i` goes through the descriptors:
`Accept` or `AcceptFails`, `RecvClosed` or `RecvData`;
`RecvData` starts a broadcast, in which `j` goes through the targets with
`SendOk`, `SendError` (the error is printed and ignored) or `SendSigpipe`; then
the scan goes on.  A client may take a step between any two of these.  The
numbers in `i` and `j` are the next ones to look at, so the many descriptors at
which the loops do nothing cost no steps.  `said`, `log`, `joined` and `got` are
history, and no action reads them: what each client wrote, what each recv gave,
and what was sent.  `log` has the bytes as recv gave them; what is sent has a 0 in
place of the last of them (`server.c:140`, `Terminated`), so that `a\n` goes out as
`a\0`, and the properties say so (`IsCutCopy`).

**BroadcastSpec** is what the server promises, without descriptors, scans or
queues: members join and leave, a post is handed to all others, its last byte
replaced by 0 (`Sealed`), before the next join, leave or post, and only a lost
connection may miss one.
`SelectServer!ImplementsGroup` is the refinement: members are the open
connections, owed are those the broadcast has still to get to.

**CliServer** is `cli_server.c` with the `main` and callback of
`cli_server_cli.c`: `Check` (the while of `main`), the event to all clients
(`SendOk` ... `EndSend`), `Select`, the scan, and again.  A recv with all the
callbacks of its buffer is one step, since the parser touches nothing shared;
that step uses `Commands`.

**CmdParser** is that parser, `pars_incomming_data`, an iteration per step, with
the buffer changed in place and `strlen` as the search it is: where there is no
0, there is no step.  **Commands** says what a buffer means, by cutting it at its
newlines all at once, and is the reference.

**WaitQueue** is `main.c` of `pthread_waitq`, a step for each line that touches
the lock, the condition or the queue.  A consumer in `pthread_cond_wait` is
woken by a signal, or for nothing if `Spurious`, and then has to compete for the
mutex.  `queue_t` is not declared in the repository; it is taken as a container
that knows nothing of threads: `insert` and `pop` read the queue and then store it
changed, in two steps, so that what protects the queue is the mutex and not the
model.  Its `pop` gives no job when empty.  The file is a sketch that does not
compile: `pthread_cond_wait` (line 18) has its arguments in the wrong order, and
is modelled as what it is meant to be.

**TapLoop** is `tap/test.c` with `tun_dev.c`: open, interface up, the loop, down,
close.  `select` is Linux's: it counts the timeout down in place and empties the
set when it times out; the code sets neither again, and the model keeps that.
`read` may return 0 or less (`ReadFails`: nothing is counted, and the frame may be
gone or not), and `write` may fail, which is only printed: the frame counts and is
lost.

**Multicast** is `mcast/mcast.c` and `socket/mcast.c`, which differ in a loop, a
timeout and `IP_MULTICAST_LOOP`: a process runs one of them on some host, called
with nothing, a group, or a group and a message.  An action is a system call with
one outcome.  The kernel's side is external: a datagram reaches any part of the
members, a full queue drops it, an error may be pending on a socket.  `buf` is kept
byte by byte, with anything in it at first (`BindOk`), because nothing ends what
`recvfrom` stores; `Text` is what `%s` prints of it, which may go on with the end of
an earlier datagram or with what was there at first.  When the buffer holds no 0,
`printf` reads on behind it, and what it finds there is not modelled.

**SpinTimer** is `threads_and_timers.c`: two threads and the seconds they sleep.  A
thread runs again at some time after its sleep is over (`Runs`), never before.
After a `pthread_create` that failed, `main` goes on to a `pthread_join` of a thread
that never was (`JoinUnset`).

**HubCtrl** is `hub-ctrl.c`: an action per option, the scan a device at a time,
`get_hub`, the request, and what the status reports of `-v` ask of which hub.  An
argument is one of the seven options, something else, or a word that `Number` gives
the value of.  A device's request for its descriptor gives a whole one, a short one
or an error; an error passes the code's comparison of an `int` with a `size_t`, and
the fields of the device are then whatever was in `buf` (`IsTakenForGood`).  The
index of a request is the set of its bits, so that a port that does not fit in its
byte spoils the value next to it in the model as it does in the code.  What a line
asks for is said without the loop: `OptionAt` is true of the arguments that are
options and not arguments of one.

**WlanTaps** is the scripts of `src/lua`, loaded into one tshark that reads a
file.  `Packet` hands a frame to all nine listeners; `Row` and `DrawEnds` write the
two listings of `wlan_list_ap_sta.lua`, whose order is any because that of `pairs` is.  A frame is
a record of the fields the scripts ask for, with `None` for a field it does not
have; a signal is a signed byte, as in radiotap.  An error ends the call it happens
in, which for `get_channel` is after the entry has been made.  tshark's Lua is taken
to be 5.1, in which formatting nil with `%s` is an error.

## 3. What the runs check

| Run | Question | Instance |
|---|---|---|
| SelectSafety | descriptors and who is sent what: `TypeOK`, `WatchedExactly`, `NeverBlocksInScan`, `BroadcastInOrder`, `ImplementsGroup` | 3 clients, room for 3, a line each, ENFILE at any time |
| SelectLive | `ReadInFull`, `HangupServed`, `Accepted`, `SendToEveryone` | 2 clients, two lines each, ENFILE for a while or for ever |
| Parser | `TypeOK`, `StrlenStaysInside`, `CallsAreCommands`, `CallsMatchReference` | all buffers of up to 6 bytes over two letters, newline and 0 |
| CliSafety | `TypeOK`, `WatchedExactly`, `NeverBlocksInScan`, `CommandsIntact`, `ShutdownHonoured` | 2 clients, one line or two at once, each may command the shutdown; ENFILE |
| CliPieces | expected to fail: `CommandsIntact` | a line may come in two pieces |
| WaitQueueSafety | `TypeOK`, `EachJobOnce`, `NoLostSignal`, `EveryJobTaken` | 2 producers, 3 consumers, 4 jobs, spurious wakeups |
| WaitQueueStolen | expected to fail: `PopFindsJob` | 2 producers, 2 consumers, no spurious wakeups |
| TapSafety | `TypeOK`, `EchoesInOrder`, `NeverBlocksInRead`, `FramesServed` | 5 frames, a queue of 2, the end after 3, 2 signals; read and write may fail at any time |
| McastSafety | `TypeOK`, `SaysWhatCame`, `EndsWhenQuiet` | 3 processes of both programs on 2 hosts; messages empty, shorter and longer than the buffer; a queue of 1 |
| SpinTrylock | expected to fail: `TryLockFailsAsExpected` | the program as it is, with its 3 seconds |
| HubSafety | `TypeOK`, `AsksTheRightHub`, `SaysWhatWasAsked`, `ReportsEachHub` | all command lines of up to 4 arguments, with numbers from -1 to 257, and some of 6; five sets of devices, two with a hub that does not give its descriptor |
| Taps | `TypeOK`, `TablesMatch`, `HeardRssi`, `ListingsComplete`, `StatsMatch`, `AirTimeAddsUp`, `GapsReported` | files of up to 4 frames of 18 kinds |

Why these bounds are enough for the interesting cases.  Three clients are a
sender, one that has been served and one whose turn is still to come; accept
fails when ENFILE is possible, with a client waiting and without, and a number is
given out again as soon as a client has gone.  Each connection is used once, and
what a client that comes back would do to the server is done by the next
connection.  The command server treats its clients alike and one after the other,
and does not send what one wrote to another: two are enough for a run to be
disturbed between two descriptors, and the proofs are for any number.  In the
servers' runs a line fits into the buffer; a recv that returns part of a line is in
*CliPieces*, and the proofs of section 5 are for lines and buffers of any length.
Descriptor 0 is inherited, so
that the listener is not the lowest number.  Six bytes hold two commands and
every arrangement of empty lines, embedded zeros and ends without a newline.
Five frames, a queue of two and an end after three let frames arrive before,
in, and after every part of the loop.  Three multicast processes are one on
another host than the other two and one of the other program than its
neighbour, in every distribution of receivers and senders; a buffer of two
characters and messages of none, one and three show every way one datagram can lie
over another, and a queue of one drops datagrams.  Four arguments hold two options with
their arguments, and the longer lines name a hub by bus and address; the numbers are a
negative one, 0, two that name hubs and ports, and one that does not fit in a byte; of
the hub that does not answer, `buf` is once that of a hub with a feature and once not,
in front of a hub that is well, so that the number of that one depends on it.  Four frames in any
order put a beacon, a frame to and a frame from an access point in every order,
with one more in between, and a gap on either side of a frame numbered 0.

Symmetry is used in *SelectSafety* only (`Permutations(Conns)`): clients differ in
nothing but their name, no property orders them, and `ImplementsGroup` is checked
there as the safety formula it is.

`CHECK_DEADLOCK FALSE` is in every configuration because every program may
rightly stop or wait for ever: a server whose clients have all gone waits in
select, a program that has ended takes no step, and consumers sleep when the
bounded number of jobs is used up.

Liveness and fairness.  The programs are sequential, and the operating system runs
them: weak fairness of the whole server (`WF_vars(Server)`), of the
tap loop and of each thread.  In `Multicast` each process is weakly fair, which
includes that poll's second passes when nothing comes; that datagrams come or arrive
is not assumed.  Weak fairness of a thread in `WaitQueue` is that of its push or pop
as a whole; the mutex is given to some waiting thread, not fairly to each, and
`EveryJobTaken` needs no more.  A RST on its way arrives. Nothing in the servers
makes a client read: that clients read what they are sent (`ClientRead`) is an
assumption, stated in `Fairness(readers)` and `FairSpec`, under which alone
`ReadInFull`, `SendToEveryone`, `HangupServed`, `Accepted` and `ShutdownHonoured` are
claimed.  Without it a single client that stops reading fills its queue, `send` waits
for it and everyone else waits with it: this is what blocking sockets do, and the
comment "send to everyone!" (`server.c:147`) holds only as far as everyone reads.
`Accepted` supposes besides that `accept` does not fail for ever, and `FramesServed`
that `read` does not; both are antecedents of the formulas.

## 4. What was found

Three of these are runs that are expected to fail, each for a statement of the
repository that the code does not keep.

* *CliPieces*.  `cli_server.c:81` says "this will not truncate commands".  The 0
  at line 192 is stored over the last byte of whatever recv returned; when TCP
  delivers a line in pieces, a byte is lost and the pieces are commands of their
  own.  *CliSafety* shows that nothing is lost while lines arrive whole.
* *WaitQueueStolen*.  `pop` tests with `if` (`main.c:17`): another consumer may
  take the job between the signal and the wakeup, and `pop` goes to an empty
  queue.  With one consumer and no spurious wakeup it cannot happen, which is
  proved.
* *SpinTrylock*.  `threads_and_timers.c:63` prints "failed to get trylock, as
  expected".  `main` and the thread both sleep one second first, and nothing orders
  them: `main` may get the lock.  It then waits in `pthread_join` for a thread that
  spins for the lock, and neither ever ends.

Of the others there are no runs; the properties of the passing runs are stated so that
they say what is left.

* `hub-ctrl.c:197` says "Can't get hub descriptor" and passes the hub over.  Line 163
  compares the `int` that the request returned with a `size_t`, so an error, which is
  negative, is the greatest length of all: the hub is taken as good with whatever was
  in `buf`, is numbered with the others, and may be sent the request.  Of a hub named
  by its address `AsksTheRightHub` says that it is the right one all the same; of one
  named by its number, only while all hubs give their descriptor.
* The comment at `hub-ctrl.c:241` has `-P 2 -l` for "LED on at port 1".  It goes to
  port 2.  A port of 256 or more may change the indicator asked for, since value and
  port are joined by `|` (`hub-ctrl.c:391`): `-l 2 -P 257` sends indicator 3 to port 1.
  `SaysWhatWasAsked` speaks of values that fit in a byte.
* `mcast.c:87` prints "Received multicast from" a sender and what was received.
  Nothing ends the string: the line goes on with the end of a longer datagram before
  it, or with what was in the buffer from the start, and so does that of
  `socket/mcast.c:69`.  `SaysWhatCame` is about how a line begins.
* `wlan_list_ap_sta.lua:23` is to give an unknown channel in parentheses; it names a
  variable that does not exist.  The entry is left without a channel (`get_channel` is
  called after it has been made), and the listing ends at it.  A station of an access
  point without a beacon in the file ends the other listing: `ap_t[key]` is nil at line
  96.  `ListingsComplete` supposes that every access point named was first heard on one
  of the channels 1 to 13.
* If every signal is below -100 dBm, where `stats_max` starts (`wlan_rssi.lua:25`),
  -100 is printed as the maximum.  `StatsMatch` says for which files both are right.
* A gap after a datagram numbered 0 is not reported, since 0 stands for none yet
  (`iperf_udp_ploss.lua:43`).  `GapsReported` exempts it.

Seen in passing: the broadcast server sends a 0 for the last byte of whatever it
received (`server.c:140`), of a line its newline; SIGPIPE is left at its default, so
that a send to a client whose reset has been reported, or followed its FIN, ends the
whole of either server (`server.c:153`, `cli_server.c:219`; `SendSigpipe` in the
models) where a failed send would cost that client only; after the first timeout the
tap loop selects on an empty set and never reads again although
`tap/logs/nano_net0.txt` shows frames after timeouts (`FramesServed` is about the
frames before the first); `tun_set_if(dev, 0)` only adds flags and leaves the
interface up; `hub-ctrl -l -P 2` takes `-P` for the value although the usage text says
it may be left out; the device of a hub without a feature is not closed (`hub-
ctrl.c:167`); `mcast.c:26` takes `argv[3]` when `argc` is 3, so that the interface
given as fourth word is never used; a receiver whose `IP_ADD_MEMBERSHIP` fails waits
for ever (`mcast.c:71`, `JoinFails`). A script of `wifi-p2p_pbc` may read the other's
`OK` as the address of a peer, since both write `/tmp/wpa_cli_$IF` for both
interfaces. The models behave as the code does in each of these, except that the open
handle is left out and the scripts are not yet modelled.

## 5. What is proved

For every number of clients, descriptors, threads and processes, every buffer size
and every content, timeout and queue, from the named assumptions on the constants
(`DelimiterAssumption`, `FdAssumption`, `SizeAssumption`, `ClientAssumption`,
`EventAssumption`, `ByteAssumption`, `BufferAssumption`, `ThreadAssumption`,
`TapAssumption`, `ProcAssumption`, `FrameAssumption`, `HubAssumption`).
The proofs of both servers begin with what they rest on, each with its own copy, since
the sockets are the servers' own variables and no module can extend both: a step of a
client never makes a descriptor unreadable, the lowest free number is nobody's, and
`SockInv`, below.

| Theorem | States | Argument |
|---|---|---|
| `SelectTypes` | `[]TypeOK` | `TypeInv`: types, and what is known of `buf` and `log` inside a broadcast |
| `SelectWatches` | `[]WatchedExactly` | `Inv`: adds `SockInv`, how a connection's `link`, `cli` and place in the backlog go together (a client in the backlog has no descriptor and is there once), without which an accept could give one connection two numbers |
| `SelectNeverBlocks` | `[]NeverBlocksInScan` | inductive with `Inv`: a step of a client never makes a descriptor unreadable, a step of the scan touches only the descriptor it is at, and a new number is not in the part of `read_fds` still to scan |
| `SelectBroadcasts` | `[]BroadcastInOrder`: what was received of the others is sent, with a 0 for the last byte of each piece | `OrderInv`: the same for all connections in all states, with what a broadcast has done so far |
| `SelectImplementsGroup` | `Spec => ImplementsGroup` | `GroupSimulation`: under `GroupInv` each action is a step of `BroadcastSpec` or a stutter |
| `CliWatches` | `[]WatchedExactly` | `Inv`: `SockInv` and the types of the descriptors only; what the bytes are does not matter |
| `CliNeverBlocks` | `[]NeverBlocksInScan` | as for the other server, with the sends of an event in place of the broadcast |
| `CliTypes` | `[]TypeOK` | `Inv` and `DataTypes`: what was written and what was called back are sequences of bytes and of strings |
| `CliIntactIfWhole` | `[]CommandsIntact` as long as each `recv` returns whole lines (`ReadsWholeLines`) | `Intact`: for each connection that has not gone, what has been read is whole lines, what was written is that followed by `inq`, and the commands called back are its lines. `CommandsAreLines` says that the commands of a text whose last newline has become a 0 are its lines; `LinesConcat`, that the lines of two texts are those of the one and those of the other |
| `ParserTypes` | `[]TypeOK` | `LoopInv`, next line |
| `ParserStaysInside` | `[]StrlenStaysInside` | `LoopInv`: the bytes from `i` on are those received, and the last is 0 |
| `ParserCalls` | `[]CallsAreCommands` | the same, with no newline between `i` and `j` |
| `ParserMatches` | `[]CallsMatchReference` | `MatchInv`: the newlines before `j` have become 0, the piece at hand begins after the last of them, and the calls are the commands that end before `j`, in order (`Enumerates`) |
| `QueueTypes` | `[]TypeOK` | inductive as it is |
| `JobsOnce` | `[]EachJobOnce` | `Mutex`: whoever is inside owns the mutex, and what an insert or pop has read of the queue is still the queue when it stores it |
| `SignalsReachSleepers` | `[]NoLostSignal` | inductive with types: only a push adds a job, and then it is about to signal; only a pop that finds nothing adds a sleeper |
| `OneConsumerFindsJob` | `[]PopFindsJob` with at most one consumer and no spurious wakeup | `SoleConsumer`: who is inside holds the mutex, and who was woken has a job |
| `TapTypes`, `TapEchoes`, `TapNeverBlocks` | `[]TypeOK`, `[]EchoesInOrder`, `[]NeverBlocksInRead` | `Inv`: all of them together, and that the count of frames is not past its limit while the loop runs. A read or write that fails moves a frame to those that were lost, and the rest stay in order |
| `McastTypes` | `[]TypeOK` | `Types`, which names the sets, and what `recvfrom` stores (`FillType`) |
| `McastSaysWhatCame` | `[]SaysWhatCame` | `Inv`: each line printed starts with its datagram (`Lines`), and how a receiver came where it is (`Flow`: a limited timeout means that something was received or reported) |
| `WlanTypes`, `TablesAlwaysMatch`, `AlwaysHeardRssi`, `StatsAlwaysMatch`, `AirTimeAlwaysAddsUp`, `GapsAlwaysReported` | `[]TypeOK`, `[]TablesMatch`, `[]HeardRssi`, `[]StatsMatch`, `[]AirTimeAddsUp`, `[]GapsReported` | `IInv`: each table and each variable is a function of the file read so far, proved a listener at a time. Sums do not depend on the order in which they are taken (`Total`, `SumRemove`), so a frame adds its own term only |
| `ListingsAreComplete` | `[]ListingsComplete` | `Listed`, in `IInv`: which rows may have been written, and that a row that cannot be is what ends a listing early |
| `HubTypes` | `[]TypeOK` | `Types`, with `SentLast` and `ChosenIsHub`: the hub of the request is one of the table |
| `HubAsksTheRightHub` | `[]AsksTheRightHub`: the address for any devices; number and feature while all hubs give their descriptor | `IInv`: `HubChosen` on `Understood` and `Numbered`. The table holds the devices picked before `d`, which are the controllable ones if no hub is without its descriptor (`ListedIfRead`), each at the place that is its number; `get_hub` returns the first that has the address, which only a positive bus can have |
| `HubSaysWhatWasAsked` | `[]SaysWhatWasAsked`, for ports and values of a byte | `IndexBytes`: the bits of two such numbers do not meet in an index. `Reading`, then `Understood`: each variable is what the last of the options before `i` says (`Seen`, `LastOf`), and at the end of the line those are all of them (`AllSeen`) |
| `HubReports` | `[]ReportsEachHub` | `ReportsOf`: the reports match the table entry by entry, and the message last |

The hypotheses of two theorems deserve a word.  That *no command is truncated* needs
each `recv` to return whole lines, none of which is empty or holds a 0.
`CliIntactIfWhole` supposes just that, step by step: lines may be sent in pieces, and
any number of them, if they are complete when they are read.  Nothing in the code
ensures it: a line is cut where the buffer ends, or where it has arrived so far, and
*CliPieces* refutes the property then.
`OneConsumerFindsJob` supposes at most one consumer and no spurious wakeup, without
which *WaitQueueStolen* refutes it.

What needs an induction over data (sums, the lines of a text, the enumeration of a
set of positions) is proved by the smallest counterexample: sets of naturals
have a least element by the well-foundedness of `<` (`HasLeast`), which is a plain
fact and not a rule with an operator as parameter.  `OptionAt`, which is recursive,
is known by its equation only when some function satisfies it: the least set of
positions that holds 1 and goes on from each option to the next gives one
(`HasSolution`), and `OptionNext` is then a step of the loop.

Only model-checked: the properties under fairness (`ReadInFull`, `HangupServed`,
`Accepted`, `SendToEveryone`, `ShutdownHonoured`,
`EveryJobTaken`, `FramesServed`, `EndsWhenQuiet`), which these provers cannot do.
Every invariant of a passing run has its theorem, `CommandsIntact` as long as recv
returns whole lines.  What the three runs with a violation show is one behaviour each,
and TLC's to find.

## 6. What is not modelled, and the plan

Not modelled for good: demonstrations of compiler, linker and debugger, which
have no behaviour of their own; third-party Vim plugins; configuration, logs and
notes; scripts that are one pipeline; printing.  FD_SETSIZE is not modelled, as
the descriptor limit stays below it, nor is the width of `hubs` (128 entries).
The number of ports of a hub is that of a signed char, as `nport = buf[2]` reads it.

Not modelled so far, each with the reason:

* **Process control demo** (`fork_exec_kill`): two children, a kill each and a wait
  each, in one fixed order.  What could go wrong is that a number is given out
  again, and it cannot before the wait; a second `vfork` that fails ends `main` with
  the first child left running (`test.c:56`), and no interleaving is needed for that.  The child of a failed `vfork`/`execl`
  returns into `main` on its parent's stack, which is undefined and has no set of
  outcomes to choose from.
* **Wi-Fi P2P scripts**: nearly all of what they do is done by `wpa_cli` and the
  supplicants, whose answers would have to be made up; what the scripts themselves
  get wrong, two of them writing one file, is described in section 4.
* **Information element printer**, **option parser demo**: a loop over a buffer and
  one over arguments, without another actor; a unit test reaches everything in them.
* **Structure and enum reader**, **socket and plot scripts**: regular expressions over
  lines, and one blocking call in a loop.

What would come next: the P2P scripts with a supplicant that answers anything (an
action per command, and the file between `wc` and `cat`).
