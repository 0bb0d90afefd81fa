-------------------------------- MODULE Bytes --------------------------------
(* The two bytes that the servers look for in what clients send.           *)

CONSTANTS NL, NUL    \* '\n' and 0

ASSUME DelimiterAssumption == NL # NUL
=============================================================================
