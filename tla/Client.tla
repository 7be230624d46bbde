------------------------------- MODULE Client -------------------------------
(***************************************************************************)
(* The client programs (src/app/client/client.cpp), each one a process     *)
(* that runs the commands of a script, one new connection for each, and    *)
(* reacts to what arrives on its connections meanwhile.                    *)
(*                                                                         *)
(* A handler is an operator from the state of a client, with the network,  *)
(* to the next one; an action runs one handler from start to end.          *)
(***************************************************************************)
EXTENDS Sockets

CONSTANTS
    Clients,
    Scripts,        \* a set of functions from Clients to sequences of commands
    FILE_CONNS,
    MAX_CONNS,
    SlowUp,         \* commands too big for a socket's buffer
    MayCrash        \* clients that may be killed

ASSUME FileConnsAssumption == FILE_CONNS \in Nat

VARIABLES
    script,         \* the commands of each client
    client          \* the state of each client

cliVars == <<script, client>>

\* A command of a script; name is a recipient, or the username of a
\* registration or a login
Cmd(op, name, pwd) == [op |-> op, name |-> name, pwd |-> pwd]

StartState ==
    [status |-> "running",
     next |-> 1,                    \* commandIndex
     loggedInUser |-> None,
     unconfirmedLogin |-> FALSE,
     unconfirmedLogout |-> FALSE,
     paused |-> FALSE,              \* t0 # -1
     conns |-> <<>>,                \* peers, rStats, sStats and connTypes
     printed |-> <<>>]              \* history: messages printed in this session

CliInit ==
    /\ script \in Scripts
    /\ client = [k \in Clients |-> StartState]

Cli(k) == [me |-> client[k], net |-> net, backlog |-> backlog]

-----------------------------------------------------------------------------
(* Connections *)

\* exit(): every descriptor is closed
ExitGracefully(x) ==
    LET mine == {x.me.conns[i].id : i \in DOMAIN x.me.conns}
    IN  [x EXCEPT !.me = [StartState EXCEPT !.status = "exited", !.next = x.me.next],
                  !.net = [c \in Conns |-> IF c \in mine THEN CloseClient(@, c)[c] ELSE @[c]]]

\* BuildConn, PrepareMessage and SendMessage, on the lowest free connection
Issue(x, type, cmd) ==
    LET c    == Min(FreeConns(x.net))
        how  == IF cmd.op \in SlowUp THEN "part" ELSE "sent"
        conn == [id |-> c, type |-> type]
    IN  CASE x.me.status = "exited" -> x
          [] x.me.status = "running" /\ Len(x.me.conns) > MAX_CONNS -> ExitGracefully(x)
          [] OTHER ->
                 [x EXCEPT !.me.conns = Append(@, conn),
                           !.net = WriteUp(Connect(@, c), c, cmd, how),
                           !.backlog = Append(@, c)]

\* The connections after it move down
RemoveConn(x, i) ==
    [x EXCEPT !.me.conns = RemoveAt(@, i),
              !.net = CloseClient(@, x.me.conns[i].id)]

Setup(op, u) == [op |-> op, name |-> None, pwd |-> None, user |-> u, id |-> <<>>]

\* One UI connection and FILE_CONNS file connections: all are made before the
\* server accepts the first of them (granularity)
SetupSession(x) ==
    LET u == x.me.loggedInUser
    IN  FoldLeft(LAMBDA y, j : Issue(y, "FIL", Setup("FILE_CONN", u)),
                 Issue(x, "UI", Setup("UI_CONN", u)),
                 [j \in 1..FILE_CONNS |-> j])

\* The loop goes on to the next index also after a removal, and so passes over
\* the connection that moved down into the place of the removed one
DisconnectFromServer(x) ==
    FoldLeft(LAMBDA y, i : IF i <= Len(y.me.conns) /\ y.me.conns[i].type # "REG"
                           THEN RemoveConn(y, i) ELSE y,
             x, [i \in DOMAIN x.me.conns |-> i])

-----------------------------------------------------------------------------
(* What arrives *)

\* HandleResponse; a LOGGED_OUT leaves its own connection for the server's
\* close to end
HandleResponse(x, i, frame) ==
    CASE frame.status = "LOGGED_IN" ->
             LET y == SetupSession([x EXCEPT !.me.unconfirmedLogin = FALSE,
                                             !.me.loggedInUser = frame.user,
                                             !.me.printed = <<>>])
             IN  IF y.me.status = "running" THEN RemoveConn(y, i) ELSE y
      [] frame.status = "LOGGED_OUT" ->
             DisconnectFromServer([x EXCEPT !.me.unconfirmedLogout = FALSE,
                                            !.me.loggedInUser = None,
                                            !.me.printed = <<>>])
      [] OTHER -> RemoveConn(x, i)

\* HandleMsg and HandleFile: a frame of another type ends the program.  A torn
\* frame has the type of its beginning; what it prints or stores is garbage.
HandleMsg(x, frame) ==
    CASE frame.kind = "UI_MSG" -> [x EXCEPT !.me.printed = Append(@, frame)]
      [] frame.kind = "TORN"   -> x
      [] OTHER                 -> ExitGracefully(x)

HandleFile(x, frame) ==
    IF frame.kind \in {"FILE_MSG", "TORN"} THEN x ELSE ExitGracefully(x)

\* RecvMessage on a connection with a whole frame
RecvFrame(x, i) ==
    LET conn  == x.me.conns[i]
        frame == Head(x.net[conn.id].down)
        read  == [x EXCEPT !.net[conn.id].down = Tail(@)]
    IN  CASE conn.type = "UI"  -> HandleMsg(read, frame)
          [] conn.type = "FIL" -> HandleFile(read, frame)
          [] conn.type = "REG" -> HandleResponse(read, i, frame)

-----------------------------------------------------------------------------
(* Actions *)

Become(k, x) ==
    /\ client' = [client EXCEPT ![k] = x.me]
    /\ net' = x.net
    /\ backlog' = x.backlog
    /\ UNCHANGED script

Running(k) == client[k].status = "running"

\* The loop starts a command when it is not pausing and nConns <= MAX_CONNS
MayStart(k) ==
    /\ Running(k)
    /\ ~client[k].paused
    /\ Len(client[k].conns) <= MAX_CONNS

\* StartCommand's checks: is the command put on the wire?
Passes(me, op) ==
    CASE op = "LOGIN"    -> me.loggedInUser = None /\ ~me.unconfirmedLogin
      [] op = "REGISTER" -> TRUE
      [] op = "DELAY"    -> FALSE
      [] OTHER           -> me.loggedInUser # None

\* fileToChar: a file may be missing or too big
IsReadable(op) == IF op \in {"SEND_FILE", "SEND_FILE_TO"} THEN BOOLEAN ELSE {TRUE}

\* StartCommand on the next command; a command whose file cannot be read is
\* dropped, and a connection that is refused ends the program
StartCommand(k, up) ==
    /\ MayStart(k)
    /\ client[k].next <= Len(script[k])
    /\ FreeConns(net) # {}
    /\ LET me  == client[k]
           c   == script[k][me.next]
           cmd == [op |-> c.op, name |-> c.name, pwd |-> c.pwd, id |-> <<k, me.next>>,
                   user |-> IF c.op \in {"LOGIN", "REGISTER"} THEN None ELSE me.loggedInUser]
           x   == [Cli(k) EXCEPT !.me.next = @ + 1,
                                 !.me.paused = c.op = "DELAY",
                                 !.me.unconfirmedLogin = @ \/ (c.op = "LOGIN" /\ Passes(me, c.op)),
                                 !.me.unconfirmedLogout = @ \/ (c.op = "LOGOUT" /\ Passes(me, c.op))]
       IN  \E read \in IsReadable(c.op) :
              Become(k, CASE ~(Passes(me, c.op) /\ read)   -> x
                          [] Passes(me, c.op) /\ read /\ up  -> Issue(x, "REG", cmd)
                          [] Passes(me, c.op) /\ read /\ ~up -> ExitGracefully(x))

\* Every command has been started: the program ends
Finish(k) ==
    /\ MayStart(k)
    /\ client[k].next > Len(script[k])
    /\ Become(k, ExitGracefully(Cli(k)))

\* IsDelay finds the pause over
EndPause(k) ==
    /\ Running(k)
    /\ client[k].paused
    /\ Become(k, [Cli(k) EXCEPT !.me.paused = FALSE])

\* SendMessage on a connection that has become writable.  When the server is
\* gone and the connection was the last one, the loop goes on to look at an
\* entry that was never written, which may make it read from no connection.
SendRest(k, i) ==
    /\ Running(k)
    /\ LET c    == client[k].conns[i].id
           gone == net[c].srv = "closed"
       IN  /\ net[c].up = "part"
           /\ \/ ~gone /\ Become(k, [Cli(k) EXCEPT !.net[c].up = "sent"])
              \/ gone /\ Become(k, RemoveConn(Cli(k), i))
              \/ /\ gone
                 /\ i = Len(client[k].conns)
                 /\ Become(k, ExitGracefully(Cli(k)))

\* RecvMessage on a connection with something to read; setting up a session
\* ends the program when the server is gone
Receive(k, i, up) ==
    /\ Running(k)
    /\ LET c    == client[k].conns[i].id
           down == net[c].down
           signsIn == /\ down # <<>>
                      /\ client[k].conns[i].type = "REG"
                      /\ Head(down).status = "LOGGED_IN"
       IN  \/ /\ down # <<>>
              /\ signsIn /\ up => Cardinality(FreeConns(net)) > FILE_CONNS
              /\ Become(k, IF signsIn /\ ~up THEN ExitGracefully(Cli(k))
                                            ELSE RecvFrame(Cli(k), i))
           \/ /\ down = <<>>
              /\ net[c].srv = "closed"
              /\ Become(k, RemoveConn(Cli(k), i))

Kill(k) ==
    /\ Running(k)
    /\ k \in MayCrash
    /\ Become(k, ExitGracefully(Cli(k)))
=============================================================================
