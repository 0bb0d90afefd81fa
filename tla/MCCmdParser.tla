---------------------------- MODULE MCCmdParser ----------------------------
(* All buffers of at most MaxLen bytes that end in 0.                      *)
EXTENDS CmdParser

CONSTANTS a, b, nl, nul, MaxLen

AllBytes == {a, b, nl, nul}

AllBuffers ==
    {s \in UNION {[1 .. n -> AllBytes] : n \in 1 .. MaxLen} : s[Len(s)] = nul}
=============================================================================
