----------------------------- MODULE GopherChat -----------------------------
(***************************************************************************)
(* The chat system: the server and the clients, joined by the connections  *)
(* between them.                                                           *)
(***************************************************************************)
EXTENDS Server, Client

vars == <<srvVars, cliVars, net, backlog>>

Init == NetInit /\ SrvInit /\ CliInit

ServerStep ==
    \/ CheckMessageDeques /\ UNCHANGED cliVars
    \/ Poll /\ UNCHANGED cliVars
    \/ ScanRead /\ UNCHANGED cliVars
    \/ ScanWrite /\ UNCHANGED cliVars

ServerIsUp == pc # "down"

ClientStep(k) ==
    \/ StartCommand(k, ServerIsUp) /\ UNCHANGED srvVars
    \/ Finish(k) /\ UNCHANGED srvVars
    \/ EndPause(k) /\ UNCHANGED srvVars
    \/ \E i \in DOMAIN client[k].conns : SendRest(k, i) /\ UNCHANGED srvVars
    \/ \E i \in DOMAIN client[k].conns : Receive(k, i, ServerIsUp) /\ UNCHANGED srvVars
    \/ Kill(k) /\ UNCHANGED srvVars

Next ==
    \/ ServerStep
    \/ StopServer /\ UNCHANGED cliVars
    \/ StartServer /\ UNCHANGED cliVars
    \/ \E k \in Clients : ClientStep(k)

\* A client serves the connections that poll() reports
Serve(k) ==
    /\ \E i \in DOMAIN client[k].conns : SendRest(k, i) \/ Receive(k, i, ServerIsUp)
    /\ UNCHANGED srvVars

\* When a ServerStep is possible: always but when the server sleeps in poll()
ServerReady ==
    \/ pc \in {"deques", "scan", "resume"}
    \/ /\ pc = "poll"
       /\ \/ backlog # <<>> /\ nConns < MAX_CONCURRENCY_LIMIT
          \/ \E i \in 1..nConns : Readable(net, slots[i].fd) \/ slots[i].wantWr

\* When Serve(k) is possible: poll() reports one of the client's connections,
\* and there are connections enough for the session an answer begins
ClientReady(k) ==
    /\ Running(k)
    /\ \E i \in DOMAIN client[k].conns :
          LET x == net[client[k].conns[i].id]
          IN  \/ x.up = "part"
              \/ x.down = <<>> /\ x.srv = "closed"
              \/ x.down # <<>> /\ \/ client[k].conns[i].type # "REG"
                                  \/ Head(x.down).status # "LOGGED_IN"
                                  \/ ~ServerIsUp
                                  \/ Cardinality(FreeConns(net)) > FILE_CONNS

\* The operating system runs every process.  The conjuncts are WF_vars(ServerStep)
\* and WF_vars(Serve(k)) with their ENABLED spelled out, which TLC cannot
\* evaluate in reasonable time.  A client is not assumed to go on with its
\* script, since what it waits for must not depend on that.
Fairness ==
    /\ []<>~ServerReady \/ []<><<ServerStep>>_vars
    /\ \A k \in Clients : []<>~ClientReady(k) \/ []<><<Serve(k)>>_vars

Spec == Init /\ [][Next]_vars /\ Fairness

-----------------------------------------------------------------------------
(* Properties *)

Ids == {<<>>} \cup UNION {UNION {{<<k, j>> : j \in DOMAIN sc[k]} : k \in Clients} :
                               sc \in Scripts}

Pwds == ({Persisted[j].pwd : j \in DOMAIN Persisted} \cup
         UNION {UNION {{sc[k][j].pwd : j \in DOMAIN sc[k]} : k \in Clients} :
                    sc \in Scripts}) \ {None}

\* The commands of a script
ScriptOps == {"REGISTER", "LOGIN", "LOGOUT", "SEND", "SEND_ANON", "SEND_TO", "SEND_TO_ANON",
              "SEND_FILE", "SEND_FILE_TO", "LIST", "DELAY"}

\* What script_reader makes of a file: only it names commands, and registrations
\* and logins have both of their arguments
ASSUME ScriptsAssumption ==
    \A sc \in Scripts : \A k \in Clients :
        /\ sc[k] \in Seq({sc[k][j] : j \in DOMAIN sc[k]})
        /\ \A j \in DOMAIN sc[k] :
              /\ sc[k][j].op \in ScriptOps
              /\ sc[k][j].name \in Users \cup {None}
              /\ sc[k][j].op \in {"LOGIN", "REGISTER"} =>
                     sc[k][j].name \in Users /\ sc[k][j].pwd # None

\* A command as it is sent: with its sender's name, or the name it is about
CmdOK(cmd) ==
    /\ cmd.id \in Ids
    /\ cmd.op \in ScriptOps \cup {"UI_CONN", "FILE_CONN"}
    /\ cmd.name \in Users \cup {None}
    /\ IF cmd.op \in {"LOGIN", "REGISTER"} THEN cmd.name \in Users /\ cmd.pwd \in Pwds
                                           ELSE cmd.user \in Users

UiMessages ==
    [kind : {"UI_MSG"}, from : Users \cup {"Server", "Anon"}, sender : Users \cup {"Server"},
     to : Users \cup {None}, id : Ids]

FileMessages ==
    [kind : {"FILE_MSG"}, from : Users, sender : Users, to : Users \cup {None}, id : Ids]

FrameOK(f) ==
    \/ f = Torn
    \/ f.kind = "RESP" /\ f.user \in Users /\ f.id \in Ids
    \/ f \in UiMessages \cup FileMessages

SlotOK(x) ==
    /\ x.fd \in Conns \cup {0}
    /\ {x.wantWr, x.rd, x.wr, x.begun, x.active} \subseteq BOOLEAN
    /\ x.out = None \/ FrameOK(x.out)
    /\ x.type \in {"REG", "UI", "FIL"}
    /\ x.user \in Users \cup {None}

ConnOK(x) ==
    /\ x.srv \in {"closed", "backlog", "open"}
    /\ x.up \in {"none", "part", "sent", "read"}
    /\ x.up # "none" => CmdOK(x.cmd)
    /\ \A j \in DOMAIN x.down : FrameOK(x.down[j])

\* Every field holds what its C++ type and its writers allow
TypeOK ==
    /\ nConns \in 0..MAX_CONCURRENCY_LIMIT
    /\ \A i \in Slots : SlotOK(slots[i])
    /\ \A i \in DOMAIN registrar : registrar[i].user \in Users /\ registrar[i].pwd \in Pwds
    /\ \A i \in DOMAIN profiles :
          /\ profiles[i].user \in Users
          /\ \A j \in DOMAIN profiles[i].messages : profiles[i].messages[j] \in UiMessages
    /\ pc \in {"deques", "poll", "scan", "resume", "down"}
    /\ scanned \in Slots \cup {0}
    /\ \A c \in Conns : ConnOK(net[c])
    /\ \A k \in Clients :
          /\ client[k].status \in {"running", "exited"}
          /\ client[k].next \in 1..(Len(script[k]) + 1)
          /\ client[k].loggedInUser \in Users \cup {None}

\* Although removals move the entries of the table under the loops that go over
\* it and entries are used again, it never overflows, has no entry of a closed
\* descriptor and no connection twice
EntriesAreConnections ==
    /\ nConns <= MAX_CONCURRENCY_LIMIT
    /\ \A i \in 1..nConns : net[slots[i].fd].srv = "open"
    /\ \A i, j \in 1..nConns : slots[i].fd = slots[j].fd => i = j

\* Each connection that is open at the server is in the table, at every step of
\* a pass: none is forgotten, whatever was removed
NoneForgotten ==
    \A c \in Conns : net[c].srv = "open" => \E i \in 1..nConns : slots[i].fd = c

\* data_store.hpp and registrar.hpp keep one profile and one line for each user:
\* so it stays when clients of one user sign in at the same time, one session is
\* taken over by another, connections are removed or the server starts again, and
\* only registered users are signed in
AccountsAreSound ==
    /\ \A i, j \in DOMAIN registrar : registrar[i].user = registrar[j].user => i = j
    /\ \A i, j \in DOMAIN profiles : profiles[i].user = profiles[j].user => i = j
    /\ \A i \in DOMAIN profiles : IsIn(registrar, profiles[i].user)

\* Whatever is sent and whichever process fails, a user who has registered stays
\* registered, with the same password
RegistrationsLast ==
    [][\A u \in Users : IsIn(registrar, u) =>
           PasswordOf(registrar', u) = PasswordOf(registrar, u)]_vars

\* A response travels only on the connection of the command it answers
ResponseToSender ==
    \A c \in Conns : \A j \in DOMAIN net[c].down :
        net[c].down[j].kind = "RESP" => net[c].down[j].id = net[c].cmd.id

\* Sent to everybody by another user, or to the user by name
MeantFor(f, u) == f.to = u \/ (f.to = None /\ f.sender # u)

\* The names that client k has sent a login for
Names(k) == {script[k][j].name : j \in {i \in DOMAIN script[k] :
                                          i < client[k].next /\ script[k][i].op = "LOGIN"}}

\* A client prints only what was sent to a user it has signed in as, also after
\* a logout that left it a connection
PrintsOwnMessages ==
    \A k \in Clients : \A j \in DOMAIN client[k].printed :
        \E u \in Names(k) : MeantFor(client[k].printed[j], u)

Kinds(frames, kind) == SelectSeq(frames, LAMBDA f : f.kind = kind)

\* What was posted for the user of client k, by where it is now: printed, in the
\* socket c, in slot i, in the deque
Pipeline(k, c, i) ==
    client[k].printed \o net[c].down
        \o (IF slots[i].out = None THEN <<>> ELSE <<slots[i].out>>)
        \o MessagesOf(profiles, client[k].loggedInUser)

\* While a user's session lasts, the messages posted for the user since the
\* login are printed once each and in the order they were posted in, with none
\* left out
OnceEachInOrder ==
    pc = "poll" =>
    \A k \in Clients : \A j \in DOMAIN client[k].conns, i \in 1..nConns :
        LET c == client[k].conns[j].id
            u == client[k].loggedInUser
        IN  (/\ u # None
             /\ client[k].conns[j].type = "UI"
             /\ slots[i].fd = c
             /\ slots[i].type = "UI"
             /\ IsLoggedIn(profiles, u))
            => Pipeline(k, c, i) = posted[u]

\* No order of logins, messages and logouts ends the server, whose handlers
\* exit when they write to a descriptor that a removal has closed
ServerStaysUp == pc # "down"

\* But for a signal the server ends, by exit() or abort(), in one of three ways
\* only: the scan looks for events at an entry that it has removed itself, at the
\* end of the table; a client asks for the list of users when nobody is signed in;
\* or a public file finds two clients gone.  No other removal leaves an index or a
\* mark behind that a later send, of whatever handler, follows to a closed
\* descriptor.
KnownEnds ==
    [][pc # "down" /\ pc' = "down" /\ ~StopServer =>
          \/ pc = "resume" /\ scanned > nConns
          \/ /\ pc = "scan"
             /\ HasCommand(net, slots[scanned].fd)
             /\ LET cmd  == net[slots[scanned].fd].cmd
                    left == {c \in Conns : net[c].srv = "open" /\ ~net[c].cli}
                IN  \/ cmd.op = "LIST" /\ profiles = <<>>
                    \/ cmd.op = "SEND_FILE" /\ \E c, d \in left : c # d]_vars

\* server.cpp 336 says of the status OK in HandleLogout "should never happen":
\* a client that signs out once in a session is signed in until then
LogoutFindsUser ==
    \A c \in Conns : \A j \in DOMAIN net[c].down :
        LET f == net[c].down[j]
        IN  f.kind = "RESP" /\ f.note = "logout" => f.status = "LOGGED_OUT"

\* server.cpp 182: only the failure of a user's UI or file connection logs the
\* user out; a client whose UI connection the server has not closed is signed in
\* at the server, whatever connections of other clients end and however the
\* entries move
SessionIsSignedIn ==
    \A k \in Clients : \A j \in DOMAIN client[k].conns :
        (/\ client[k].conns[j].type = "UI"
         /\ net[client[k].conns[j].id].srv # "closed"
         /\ client[k].loggedInUser # None
         /\ ~client[k].unconfirmedLogout)
        => IsLoggedIn(profiles, client[k].loggedInUser)

MessageIds(ms) == [j \in DOMAIN ms |-> ms[j].id]

Abs == INSTANCE Accounts WITH
    Passwords <- Pwds,
    Bodies    <- Ids,
    password  <- [u \in Users |-> PasswordOf(registrar, u)],
    online    <- {profiles[i].user : i \in DOMAIN profiles},
    mail      <- [u \in Users |-> MessageIds(MessagesOf(profiles, u))],
    running   <- pc # "down"

\* Whatever the table, the scan and the connections do, a user's password,
\* presence and mailbox change only as the abstract accounts do
ServerImplementsAccounts == [][Abs!Next]_(Abs!vars)

\* The answer to cmd: only a login signs a client in, as the user it was for, and
\* only a login or a logout ends a session
Answers(f, cmd) ==
    /\ f.op = cmd.op /\ f.id = cmd.id
    /\ f.status = "LOGGED_IN"  => cmd.op = "LOGIN" /\ f.user = cmd.name
    /\ f.status = "LOGGED_OUT" => cmd.op \in {"LOGIN", "LOGOUT"}

\* The answer to a file command, which may go astray (ResponseToSender)
AboutFile(f) == f.op \in {"SEND_FILE", "SEND_FILE_TO"} /\ f.status \in {"OK", "FAILURE"}

\* What may be written on a connection that began with command cmd
Fits(f, cmd) ==
    /\ f.kind = "UI_MSG"   => cmd.op = "UI_CONN" /\ MeantFor(f, cmd.user)
    /\ f.kind = "FILE_MSG" => cmd.op = "FILE_CONN" /\ MeantFor(f, cmd.user)
    /\ f.kind = "RESP"     => Answers(f, cmd) \/ AboutFile(f)
    /\ f.kind = "TORN"     => cmd.op \in {"UI_CONN", "FILE_CONN"}

\* A message or a file is written only on a connection that was declared for its
\* kind and for a user it is meant for, and an answer only on the connection of
\* its command, unless it is the status of a file, although the entries of the
\* table move while a command is handled and are used again
DeliveredToRecipients ==
    \A c \in Conns : \A j \in DOMAIN net[c].down : Fits(net[c].down[j], net[c].cmd)

\* Every request a client has issued is over at some time, answered or with its
\* connection, whatever the client and the others do in the meantime
RequestsEnd ==
    \A c \in Conns :
        LET Issued == \E k \in Clients : \E j \in DOMAIN client[k].conns :
                        client[k].conns[j] = [id |-> c, type |-> "REG"]
        IN  Issued ~> ~Issued
=============================================================================
