------------------------------ MODULE Sockets ------------------------------
(***************************************************************************)
(* The TCP connections between the clients and the server, as far as the   *)
(* programs can tell: which ends are open, the one command a client writes *)
(* on a connection, the frames the server has written and the client has   *)
(* not read, and the queue of connections the server has not accepted.     *)
(* External: the kernels' sockets, modelled from how client.cpp and        *)
(* server.cpp use them.  The bytes of a frame are abstracted to whether    *)
(* all of them have been written.                                          *)
(***************************************************************************)
EXTENDS Null, Naturals, Sequences, SequencesExt

CONSTANT Conns  \* connections that may exist at a time (bound), a set of numbers

ASSUME ConnsAssumption == Conns \subseteq Nat \ {0} /\ IsFiniteSet(Conns)

VARIABLES
    net,        \* net[c], the state of connection c
    backlog     \* connections waiting for accept(), oldest first

Closed == [cli |-> FALSE, srv |-> "closed", cmd |-> None, up |-> "none", down |-> <<>>]

NetInit ==
    /\ net = [c \in Conns |-> Closed]
    /\ backlog = <<>>

FreeConns(n) == {c \in Conns : n[c] = Closed}

\* socket() and connect(): the connection exists before the server accepts it
Connect(n, c) ==
    [n EXCEPT ![c] = [cli |-> TRUE, srv |-> "backlog", cmd |-> None,
                      up |-> "none", down |-> <<>>]]

\* The client writes its command, all of it or the first bytes
WriteUp(n, c, cmd, how) == [n EXCEPT ![c].cmd = cmd, ![c].up = how]

\* What is in flight towards a closed end is lost; the connection is free
\* when both ends are closed
CloseClient(n, c) ==
    IF n[c].srv = "closed"
    THEN [n EXCEPT ![c] = Closed]
    ELSE [n EXCEPT ![c].cli = FALSE, ![c].down = <<>>]

CloseServer(n, c) ==
    IF n[c].cli
    THEN [n EXCEPT ![c].srv = "closed"]
    ELSE [n EXCEPT ![c] = Closed]

\* c is a descriptor of the server
Open(n, c) == c \in Conns /\ n[c].srv = "open"

\* The server writes all of a frame
WriteDown(n, c, frame) ==
    IF n[c].cli THEN [n EXCEPT ![c].down = Append(@, frame)] ELSE n

\* A whole command, or the end of the stream, can be read by the server
HasCommand(n, c) == Open(n, c) /\ n[c].up = "sent"

Readable(n, c) == Open(n, c) /\ (n[c].up = "sent" \/ ~n[c].cli)
=============================================================================
