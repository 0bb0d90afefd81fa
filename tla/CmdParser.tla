----------------------------- MODULE CmdParser -----------------------------
(***************************************************************************)
(* pars_incomming_data of src/src/c/tcp_select/cli_server.c: the loop that *)
(* cuts a buffer into commands, in place, and calls back for each.         *)
(*                                                                         *)
(* The buffer is a sequence, so in[k] here is in[k-1] in the code, and     *)
(* strlen looks for a 0 between i and the end of the buffer: if there were *)
(* none, no step could be taken and the loop would not end.                *)
(***************************************************************************)
EXTENDS Commands

CONSTANTS
    Byte,       \* all bytes
    Buffers     \* what the caller may pass

ASSUME ByteAssumption == NL \in Byte /\ NUL \in Byte

\* cli_server.c:190-193 stores a 0 in the last byte received.
ASSUME BufferAssumption ==
    \A b \in Buffers : b \in Seq(Byte) /\ b # <<>> /\ b[Len(b)] = NUL

VARIABLES
    pc,         \* "loop" or "done"
    data,       \* the buffer as received (for the properties only)
    in,         \* in
    i,          \* i: where the piece begins
    j,          \* j: the byte under the loop
    calls       \* the strings handed to the callback

vars == <<pc, data, in, i, j, calls>>

Init ==
    /\ pc = "loop"
    /\ data \in Buffers
    /\ in = data
    /\ i = 1 /\ j = 1
    /\ calls = <<>>

\* strlen(&s[k]) stops at m.
StringEndsAt(s, k, m) ==
    /\ k <= m /\ m <= Len(s) /\ s[m] = NUL
    /\ \A x \in k .. m - 1 : s[x] # NUL

\* Mutant: the index is incremented in the loop's body as well.
StepTwo == j + 2

StepOne == j + 1

OtherByte ==
    /\ pc = "loop" /\ j <= Len(in)
    /\ in[j] # NL
    /\ j' = StepOne
    /\ UNCHANGED <<pc, data, in, i, calls>>

\* Mutant: the newline is left in the buffer.
NotCut == in

\* in[j] = 0
Cut == [in EXCEPT ![j] = NUL]

\* Mutant: a command of one byte is taken for an empty line.
IsLong(m) == m > i + 1

\* l > 0
IsNotEmpty(m) == m > i

\* Mutant: a "\r\n" is expected.
PieceTwoOn == j + 2

PieceNext == j + 1

Newline(m) ==
    /\ pc = "loop" /\ j <= Len(in)
    /\ in[j] = NL
    /\ in' = Cut
    /\ StringEndsAt(in', i, m)
    /\ calls' = IF IsNotEmpty(m) THEN Append(calls, SubSeq(in', i, m - 1)) ELSE calls
    /\ i' = PieceNext
    /\ j' = j + 1
    /\ UNCHANGED <<pc, data>>

\* After the loop; its test is of len, which is not 0 when i # j.
Finish ==
    /\ pc = "loop" /\ j > Len(in)
    /\ pc' = "done"
    /\ IF i # j
       THEN \E m \in DOMAIN in :
                StringEndsAt(in, i, m) /\ calls' = Append(calls, SubSeq(in, i, m - 1))
       ELSE UNCHANGED calls
    /\ UNCHANGED <<data, in, i, j>>

Next ==
    \/ OtherByte
    \/ \E m \in DOMAIN in : Newline(m)
    \/ Finish

Spec == Init /\ [][Next]_vars

-----------------------------------------------------------------------------
\* Types.
TypeOK ==
    /\ pc \in {"loop", "done"}
    /\ data \in Seq(Byte) /\ in \in Seq(Byte) /\ Len(in) = Len(data)
    /\ i \in 1 .. Len(in) + 1
    /\ j \in 1 .. Len(in) + 1
    /\ calls \in Seq(Seq(Byte))

(***************************************************************************)
(* Whenever strlen may be called on the piece that begins at i             *)
(* (cli_server.c:96, 104), there is a 0 in the buffer from i on: it never  *)
(* reads past the bytes that recv stored.                                  *)
(***************************************************************************)
StrlenStaysInside ==
    pc = "loop" => i <= Len(in) /\ \E m \in i .. Len(in) : in[m] = NUL

(***************************************************************************)
(* A callback (cli_server.c:98, 106) is never given a newline or a 0, and  *)
(* an empty command only as the last one of the buffer.                    *)
(***************************************************************************)
CallsAreCommands ==
    /\ \A k \in DOMAIN calls : \A x \in DOMAIN calls[k] : calls[k][x] \notin {NL, NUL}
    /\ \A k \in DOMAIN calls : calls[k] = <<>> => pc = "done" /\ k = Len(calls)

(***************************************************************************)
(* The callbacks are, in order, the commands of the buffer                 *)
(* (cli_server.c:91-107): what the loop finds in one pass, with the buffer *)
(* changed under it, is what Commands finds by looking at it as a whole.   *)
(***************************************************************************)
CallsMatchReference == pc = "done" => calls = Commands(data)
=============================================================================
