---------------------------- MODULE BroadcastSpec ----------------------------
(***************************************************************************)
(* What src/src/c/tcp_select/server.c promises, without descriptors, sets, *)
(* scans or queues: a group that clients join and leave.  Posts are in one *)
(* order for everybody; a post is handed to every other member before the  *)
(* next post, join or leave, with its last byte replaced by 0.  Only a     *)
(* member whose connection is lost may miss one, and handing one to it may *)
(* be the end of the group.                                                *)
(***************************************************************************)
EXTENDS Integers, Sequences

CONSTANTS
    Conns,      \* who may join
    Data,       \* what a post may be: non-empty sequences
    NUL         \* what its last element is replaced by on the way

VARIABLES
    alive,      \* the server runs
    members,    \* who is in the group
    lost,       \* connections that can no longer be handed anything
    owed,       \* members the last post is still to be handed to
    log,        \* all posts, in order
    got         \* got[c]: what was handed to c, each with the place of its post

vars == <<alive, members, lost, owed, log, got>>

Init ==
    /\ alive = TRUE
    /\ members = {} /\ lost = {} /\ owed = {}
    /\ log = <<>>
    /\ got = [c \in Conns |-> <<>>]

Quiet == alive /\ owed = {}

Join(c) ==
    /\ Quiet /\ c \notin members
    /\ members' = members \cup {c}
    /\ UNCHANGED <<alive, lost, owed, log, got>>

Leave(c) ==
    /\ Quiet /\ c \in members
    /\ members' = members \ {c}
    /\ lost' = lost \cup {c}
    /\ UNCHANGED <<alive, owed, log, got>>

Post(c, d) ==
    /\ Quiet /\ c \in members
    /\ log' = Append(log, [from |-> c, data |-> d])
    /\ owed' = members \ {c}
    /\ UNCHANGED <<alive, members, lost, got>>

Sealed(d) == [d EXCEPT ![Len(d)] = NUL]

Deliver(c) ==
    /\ alive /\ c \in owed \ lost
    /\ owed' = owed \ {c}
    /\ got' = [got EXCEPT ![c] = Append(@, [at |-> Len(log), data |-> Sealed(log[Len(log)].data)])]
    /\ UNCHANGED <<alive, members, lost, log>>

Miss(c) ==
    /\ alive /\ c \in owed \cap lost
    /\ owed' = owed \ {c}
    /\ UNCHANGED <<alive, members, lost, log, got>>

Lose(c) ==
    /\ alive /\ c \notin lost
    /\ lost' = lost \cup {c}
    /\ UNCHANGED <<alive, members, owed, log, got>>

\* Before anyone joined (the server could not start), or on a lost member.
Stop ==
    /\ alive
    /\ (log = <<>> /\ members = {}) \/ owed \cap lost # {}
    /\ alive' = FALSE
    /\ owed' = {}
    /\ UNCHANGED <<members, lost, log, got>>

Next ==
    \/ \E c \in Conns :
        Join(c) \/ Leave(c) \/ Deliver(c) \/ Miss(c) \/ Lose(c)
    \/ \E c \in Conns, d \in Data : Post(c, d)
    \/ Stop

Spec == Init /\ [][Next]_vars
=============================================================================
