------------------------------- MODULE Server -------------------------------
(***************************************************************************)
(* The chat server (src/app/server/server.cpp): one thread that repeats    *)
(* CheckMessageDeques, poll, accept and a scan of the connection table.    *)
(*                                                                         *)
(* A handler and the methods it calls are operators from server states to  *)
(* server states (records of the variables they may change); an action     *)
(* runs one of them from start to end, since nothing else runs in the      *)
(* process meanwhile.  What the kernel answers to send() is the parameter  *)
(* o: o.full are the connections whose buffer has no room for the rest of  *)
(* a frame, o.gone those whose reset by the client has reached the server. *)
(***************************************************************************)
EXTENDS Sockets, DataStoreOps

CONSTANTS
    Users,
    MAX_CONCURRENCY_LIMIT,
    MayBlock,       \* kinds of frames too big for a socket's buffer
    Lags,           \* connections whose bytes may be overtaken by others'
    Persisted,      \* the registrar file when the server starts first
    MaxRestarts     \* how often it may start again (bound)

ASSUME LimitAssumption == MAX_CONCURRENCY_LIMIT \in Nat

\* An answer is all that is written on the connection of a command: it finds the
\* socket's buffer empty, and is far smaller (the longest lists who is signed in)
ASSUME BlockAssumption == MayBlock \subseteq {"UI_MSG", "FILE_MSG"}

\* The file was left by an earlier server: a name is in one of its lines
ASSUME PersistedAssumption ==
    /\ Persisted \in Seq([user : Users, pwd : {Persisted[i].pwd : i \in DOMAIN Persisted}])
    /\ \A i, j \in DOMAIN Persisted : Persisted[i].user = Persisted[j].user => i = j
    /\ \A i \in DOMAIN Persisted : Persisted[i].pwd # None

VARIABLES
    slots,          \* peers, sStat, rStat and connData, which move together
    nConns,
    registrar,
    profiles,
    pc,             \* "deques", "poll", "scan", "resume" or "down"
    scanned,        \* the i of CheckMessageDeques or of the scan
    posted,         \* history: what was enqueued for a user since the last login
    restarts        \* history: how often the server has been started again

srvVars == <<slots, nConns, registrar, profiles, pc, scanned, posted, restarts>>

Slots == 1..MAX_CONCURRENCY_LIMIT

FreshSlot == [fd |-> 0, wantWr |-> FALSE, rd |-> FALSE, wr |-> FALSE,
              out |-> None, begun |-> FALSE,
              type |-> "REG", user |-> None, active |-> FALSE]

SrvInit ==
    /\ slots = [i \in Slots |-> FreshSlot]
    /\ nConns = 0
    /\ registrar = Persisted
    /\ profiles = <<>>
    /\ pc = "poll"
    /\ scanned = 0
    /\ posted = [u \in Users |-> <<>>]
    /\ restarts = 0

Srv == [slots |-> slots, nConns |-> nConns, registrar |-> registrar,
        profiles |-> profiles, net |-> net, up |-> TRUE, posted |-> posted]

-----------------------------------------------------------------------------
(* Frames *)

\* user is what the client signs in as; note, id and op are not on the wire
Response(status, note, cmd) ==
    [kind |-> "RESP", status |-> status, note |-> note, id |-> cmd.id, op |-> cmd.op,
     user |-> IF cmd.op \in {"LOGIN", "REGISTER"} THEN cmd.name ELSE cmd.user]

\* A UI_MSG or FILE_MSG; to and sender are not on the wire
Message(kind, from, sender, to, id) ==
    [kind |-> kind, from |-> from, sender |-> sender, to |-> to, id |-> id]

Onboarding(u) == Message("UI_MSG", "Server", "Server", u, <<>>)

\* Where a frame that was partly written gives way to another one
Torn == [kind |-> "TORN"]

-----------------------------------------------------------------------------
(* The connection table *)

\* exit() or abort(): every descriptor is closed
Exit(s) ==
    [s EXCEPT !.up = FALSE, !.nConns = 0, !.profiles = <<>>,
              !.slots = [i \in Slots |-> FreshSlot],
              !.net = [c \in Conns |-> IF @[c].cli
                                       THEN [@[c] EXCEPT !.srv = "closed"]
                                       ELSE Closed]]

\* username and isActive of the slot keep what its last occupant left
SetConn(s, c) ==
    LET old == s.slots[s.nConns + 1]
    IN  [s EXCEPT !.nConns = @ + 1,
                  !.slots[s.nConns + 1] = [FreshSlot EXCEPT !.fd = c,
                                                            !.user = old.user,
                                                            !.active = old.active],
                  !.net[c].srv = "open"]

IsUiConn(s, i) == s.slots[i].type = "UI"
IsFileConn(s, i) == s.slots[i].type = "FIL"

\* Slip: the last entry is left where it is
RemoveConnectionShort(s, i) ==
    LET gone == s.slots[i]
    IN  [s EXCEPT
           !.net = IF Open(@, gone.fd) THEN CloseServer(@, gone.fd) ELSE @,
           !.profiles = IF IsUiConn(s, i) \/ IsFileConn(s, i)
                        THEN AfterLogout(@, gone.user) ELSE @,
           !.slots = [j \in Slots |-> IF j \in i..(s.nConns - 2) THEN @[j + 1] ELSE @[j]],
           !.nConns = @ - 1]

\* Slip: the user the entry names is logged out, whatever the connection was
RemoveConnectionLogout(s, i) ==
    LET gone == s.slots[i]
    IN  [s EXCEPT
           !.net = IF Open(@, gone.fd) THEN CloseServer(@, gone.fd) ELSE @,
           !.profiles = IF gone.user # None THEN AfterLogout(@, gone.user) ELSE @,
           !.slots = [j \in Slots |-> IF j \in i..(s.nConns - 1) THEN @[j + 1] ELSE @[j]],
           !.nConns = @ - 1]

\* Slip: the descriptor stays open
RemoveConnectionOpen(s, i) ==
    LET gone == s.slots[i]
    IN  [s EXCEPT
           !.profiles = IF IsUiConn(s, i) \/ IsFileConn(s, i)
                        THEN AfterLogout(@, gone.user) ELSE @,
           !.slots = [j \in Slots |-> IF j \in i..(s.nConns - 1) THEN @[j + 1] ELSE @[j]],
           !.nConns = @ - 1]

\* The entry past the new end keeps a copy of the last one
RemoveConnection(s, i) ==
    LET gone == s.slots[i]
    IN  [s EXCEPT
           !.net = IF Open(@, gone.fd) THEN CloseServer(@, gone.fd) ELSE @,
           !.profiles = IF IsUiConn(s, i) \/ IsFileConn(s, i)
                        THEN AfterLogout(@, gone.user) ELSE @,
           !.slots = [j \in Slots |-> IF j \in i..(s.nConns - 1) THEN @[j + 1] ELSE @[j]],
           !.nConns = @ - 1]

Live(s) == SubSeq(s.slots, 1, s.nConns)

\* 0 is the -1 of the code; any slot with the name matches, of whatever type
GetUiConn(s, u) == SelectInSeq(Live(s), LAMBDA x : x.user = u)

\* Slip: the UI connection of the user is a candidate as well
GetFileConnAny(s, u) ==
    SelectInSeq(Live(s), LAMBDA x : x.user = u /\ x.type # "REG" /\ ~x.active)

GetFileConn(s, u) ==
    SelectInSeq(Live(s), LAMBDA x : x.user = u /\ x.type = "FIL" /\ ~x.active)

-----------------------------------------------------------------------------
(* Sending *)

\* InitSendStat and BuildSendMsg.  What a receiver makes of the bytes after a torn
\* frame is not followed.
BuildSendMsg(s, i, frame) ==
    LET old == s.slots[i]
    IN  [s EXCEPT !.slots[i].out = frame, !.slots[i].begun = FALSE,
                  !.net = IF old.begun /\ Open(@, old.fd)
                          THEN WriteDown(@, old.fd, Torn) ELSE @]

\* All of the frame, if there is one, has been written
SendCompleted(s, i) ==
    LET idle == [s EXCEPT !.slots[i].out = None, !.slots[i].begun = FALSE,
                          !.slots[i].wantWr = FALSE]
    IN  IF IsFileConn(s, i) \/ IsUiConn(s, i)
        THEN [idle EXCEPT !.slots[i].active = FALSE]
        ELSE RemoveConnection(idle, i)

\* SendMsgNB, of what is left of a frame, and SendMessage's reaction
SendFrame(s, i, o) ==
    LET x == s.slots[i]
    IN  CASE ~Open(s.net, x.fd) -> Exit(s)    \* EBADF
          [] Open(s.net, x.fd) /\ x.fd \in o.gone -> RemoveConnection(s, i)
          [] Open(s.net, x.fd) /\ x.fd \in o.full \ o.gone /\ x.out.kind \in MayBlock ->
                 [s EXCEPT !.slots[i].wantWr = TRUE, !.slots[i].begun = TRUE]
          [] OTHER ->
                 SendCompleted([s EXCEPT !.net = WriteDown(@, x.fd, x.out)], i)

\* With nothing left to send, SendMsgNB is done at once
SendMessage(s, i, o) ==
    IF s.slots[i].out = None THEN SendCompleted(s, i) ELSE SendFrame(s, i, o)

\* Slip: the answer goes to the user's UI connection, as with SendMessageToUi
SendResponseToUi(s, i, response, o) ==
    LET k == GetUiConn(s, response.user)
    IN  IF k = 0 THEN SendMessage(BuildSendMsg(s, i, response), i, o)
                 ELSE SendMessage(BuildSendMsg(s, k, response), k, o)

\* SendMessage, with an answer to send
SendResponse(s, i, response, o) == SendFrame(BuildSendMsg(s, i, response), i, o)

-----------------------------------------------------------------------------
(* The data store calls of the handlers, with the history of what they post *)

Start(s, u, p) ==
    [s EXCEPT !.profiles = AfterLogin(s.registrar, @, u, p),
              !.posted = IF LoginStatus(s.registrar, s.profiles, u, p) = "LOGGED_IN"
                         THEN [@ EXCEPT ![u] = <<>>] ELSE @]

Post(s, u, m) ==
    [s EXCEPT !.profiles = AfterEnqueue(@, u, m),
              !.posted = IF IsLoggedIn(s.profiles, u)
                         THEN [@ EXCEPT ![u] = Append(@, m)] ELSE @]

PostAllExcept(s, u, m) ==
    [s EXCEPT !.profiles = AfterEnqueueAllExcept(@, u, m),
              !.posted = [v \in Users |-> IF v # u /\ IsLoggedIn(s.profiles, v)
                                          THEN Append(@[v], m) ELSE @[v]]]

-----------------------------------------------------------------------------
(* Handlers *)

HandleRegister(s, i, cmd, o) ==
    SendResponse([s EXCEPT !.registrar = AfterRegister(@, cmd.name, cmd.pwd)], i,
                 Response(RegisterStatus(s.registrar, cmd.name), "registration", cmd), o)

\* After GetUiConn has found no slot with the name, ShedConnections finds none
HandleLogin(s, i, cmd, o) ==
    LET status == LoginStatus(s.registrar, s.profiles, cmd.name, cmd.pwd)
        taken  == GetUiConn(s, cmd.name) # 0
        fresh  == [s EXCEPT !.profiles = AfterLogout(@, cmd.name)]
    IN  CASE status = "OK" /\ taken ->
                 SendResponse(s, i, Response("OK", "already logged in", cmd), o)
          [] status = "OK" /\ ~taken ->
                 SendResponse(Start(fresh, cmd.name, cmd.pwd), i,
                              Response("OK", "logged in", cmd), o)
          [] status # "OK" ->
                 SendResponse(Start(s, cmd.name, cmd.pwd), i,
                              Response(status, "login", cmd), o)

HandleLogout(s, i, cmd, o) ==
    SendResponse([s EXCEPT !.profiles = AfterLogout(@, cmd.user)], i,
                 Response(LogoutStatus(s.profiles, cmd.user), "logout", cmd), o)

VisibleName(cmd) == IF cmd.op \in {"SEND_ANON", "SEND_TO_ANON"} THEN "Anon" ELSE cmd.user

\* HandleSend, HandleSendAnon and StartMessageToAllUsers
HandleSend(s, i, cmd, o) ==
    LET m == Message("UI_MSG", VisibleName(cmd), cmd.user, None, cmd.id)
    IN  IF IsLoggedIn(s.profiles, cmd.user)
        THEN SendResponse(PostAllExcept(s, cmd.user, m), i,
                          Response("OK", EnqueueAllStatus(s.profiles), cmd), o)
        ELSE SendResponse(s, i, Response("FAILURE", "not logged in", cmd), o)

\* Slip: a message that is not delivered is not answered
HandleSendToSilent(s, i, cmd, o) ==
    LET m == Message("UI_MSG", VisibleName(cmd), cmd.user, cmd.name, cmd.id)
    IN  IF IsLoggedIn(s.profiles, cmd.user) /\ IsLoggedIn(s.profiles, cmd.name)
        THEN SendResponse(Post(s, cmd.name, m), i, Response("OK", "QUEUED", cmd), o)
        ELSE s

\* HandleSendTo, HandleSendToAnon and StartMessageToUser
HandleSendTo(s, i, cmd, o) ==
    LET m      == Message("UI_MSG", VisibleName(cmd), cmd.user, cmd.name, cmd.id)
        result == EnqueueStatus(s.registrar, s.profiles, cmd.name)
    IN  IF IsLoggedIn(s.profiles, cmd.user)
        THEN SendResponse(Post(s, cmd.name, m), i,
                          Response(IF result = "QUEUED" THEN "OK" ELSE "FAILURE",
                                   result, cmd), o)
        ELSE SendResponse(s, i, Response("FAILURE", "not logged in", cmd), o)

\* One recipient of StartFileToAllUsers or SendFileToUser: a file goes straight
\* to a file connection, which is never marked active
FileTo(s, u, file, o) ==
    LET k == GetFileConn(s, u)
    IN  IF k = 0 THEN s ELSE SendMessage(BuildSendMsg(s, k, file), k, o)

StartFileToAllUsers(s, cmd, o) ==
    LET file == Message("FILE_MSG", cmd.user, cmd.user, None, cmd.id)
    IN  FoldLeft(LAMBDA x, u : IF x.up /\ u # cmd.user THEN FileTo(x, u, file, o) ELSE x,
                 s, GetSignedInUsers(s.profiles))

\* i is not looked up again after the recipients' connections have been written
\* to, and perhaps removed
HandleSendFile(s, i, cmd, o) ==
    LET sent == StartFileToAllUsers(s, cmd, o)
    IN  IF ~IsLoggedIn(s.profiles, cmd.user)
        THEN SendResponse(s, i, Response("FAILURE", "not logged in", cmd), o)
        ELSE IF sent.up
        THEN SendResponse(sent, i, Response("OK", EnqueueAllStatus(s.profiles), cmd), o)
        ELSE sent

SendFileToUser(s, cmd, o) ==
    LET file == Message("FILE_MSG", cmd.user, cmd.user, cmd.name, cmd.id)
    IN  IF IsLoggedIn(s.profiles, cmd.name) THEN FileTo(s, cmd.name, file, o) ELSE s

\* The cases are the results of SendFileToUser; i is not looked up again after it
HandleSendFileTo(s, i, cmd, o) ==
    LET sent       == SendFileToUser(s, cmd, o)
        fail(note) == SendResponse(s, i, Response("FAILURE", note, cmd), o)
    IN  CASE ~IsLoggedIn(s.profiles, cmd.user) -> fail("not logged in")
          [] IsLoggedIn(s.profiles, cmd.user) /\ ~IsLoggedIn(s.profiles, cmd.name) ->
                 fail(EnqueueStatus(s.registrar, s.profiles, cmd.name))
          [] IsLoggedIn(s.profiles, cmd.user) /\ IsLoggedIn(s.profiles, cmd.name)
                                              /\ GetFileConn(s, cmd.name) = 0 ->
                 fail("no file connection")
          [] OTHER ->
                 IF sent.up THEN SendResponse(sent, i, Response("OK", "sent", cmd), o)
                            ELSE sent

\* The list of nobody is a string literal, and delete[] of it aborts
HandleList(s, i, cmd, o) ==
    LET answered == SendResponse(s, i, Response("LISTT", "list", cmd), o)
    IN  IF s.profiles = <<>> THEN Exit(answered) ELSE answered

SetUiConn(s, i, cmd) ==
    Post([s EXCEPT !.slots[i].user = cmd.user, !.slots[i].type = "UI"],
         cmd.user, Onboarding(cmd.user))

SetFileConn(s, i, cmd) ==
    [s EXCEPT !.slots[i].user = cmd.user, !.slots[i].type = "FIL"]

HandleReceivedCommand(s, i, cmd, o) ==
    CASE cmd.op = "REGISTER"                       -> HandleRegister(s, i, cmd, o)
      [] cmd.op = "LOGIN"                          -> HandleLogin(s, i, cmd, o)
      [] cmd.op = "LOGOUT"                         -> HandleLogout(s, i, cmd, o)
      [] cmd.op \in {"SEND", "SEND_ANON"}          -> HandleSend(s, i, cmd, o)
      [] cmd.op \in {"SEND_TO", "SEND_TO_ANON"}    -> HandleSendTo(s, i, cmd, o)
      [] cmd.op = "SEND_FILE"                      -> HandleSendFile(s, i, cmd, o)
      [] cmd.op = "SEND_FILE_TO"                   -> HandleSendFileTo(s, i, cmd, o)
      [] cmd.op = "LIST"                           -> HandleList(s, i, cmd, o)
      [] cmd.op = "UI_CONN"                        -> SetUiConn(s, i, cmd)
      [] cmd.op = "FILE_CONN"                      -> SetFileConn(s, i, cmd)
      [] cmd.op = "DELAY"                          -> s
      [] OTHER                                     -> Exit(s)

\* RecvMessage with RecvMsgNB: a whole command, or the end of the stream
RecvMessage(s, i, o) ==
    LET c == s.slots[i].fd
    IN  IF HasCommand(s.net, c)
        THEN HandleReceivedCommand([s EXCEPT !.net[c].up = "read"], i, s.net[c].cmd, o)
        ELSE RemoveConnection(s, i)

-----------------------------------------------------------------------------
(* The main loop *)

\* Slip: the message is looked at and stays in the deque
DequeueForPeek(s, i, o) ==
    LET m == DequeueBody(s.profiles, s.slots[i].user)
    IN  SendMessage([BuildSendMsg(s, i, m) EXCEPT !.slots[i].active = TRUE], i, o)

\* A UI connection with nothing in flight takes the oldest waiting message
DequeueFor(s, i, o) ==
    LET m == DequeueBody(s.profiles, s.slots[i].user)
    IN  SendMessage([BuildSendMsg(s, i, m) EXCEPT
                        !.slots[i].active = TRUE,
                        !.profiles = AfterDequeue(@, s.slots[i].user)], i, o)

HasEvents(s, i) == i <= s.nConns /\ (s.slots[i].rd \/ s.slots[i].wr)

\* The next slot the scan has work at, 0 at its end
NextAfter(s, i) ==
    LET at == {j \in (i + 1)..MAX_CONCURRENCY_LIMIT : HasEvents(s, j)}
    IN  IF at = {} THEN 0 ELSE Min(at)

\* poll() writes the events of all the slots again, and SetConn all but the
\* username and isActive of a slot past the end
Settled(s) ==
    [s EXCEPT !.slots = [i \in Slots |->
        IF i <= s.nConns
        THEN [@[i] EXCEPT !.rd = FALSE, !.wr = FALSE]
        ELSE [FreshSlot EXCEPT !.user = s.slots[i].user, !.active = s.slots[i].active]]]

\* Slip: a connection with a message in flight is given the next one
HasMailWhileActive(s, i) ==
    /\ i <= s.nConns
    /\ IsUiConn(s, i)
    /\ MessagesOf(s.profiles, s.slots[i].user) # <<>>

HasMail(s, i) ==
    /\ i <= s.nConns
    /\ IsUiConn(s, i)
    /\ ~s.slots[i].active
    /\ MessagesOf(s.profiles, s.slots[i].user) # <<>>

\* The next slot CheckMessageDeques has a message for, 0 if there is none.  Its
\* slot 0, the listening socket, is never a UI connection.
NextMail(s, i) ==
    LET at == {j \in (i + 1)..MAX_CONCURRENCY_LIMIT : HasMail(s, j)}
    IN  IF at = {} THEN 0 ELSE Min(at)

Assign(s) ==
    /\ slots' = s.slots
    /\ nConns' = s.nConns
    /\ registrar' = s.registrar
    /\ profiles' = s.profiles
    /\ net' = s.net
    /\ posted' = s.posted
    /\ UNCHANGED restarts

\* To step p of the loop at slot i, unless the process has ended
Goto(s, p, i) ==
    /\ pc' = IF s.up THEN p ELSE "down"
    /\ scanned' = IF s.up THEN i ELSE 0
    /\ Assign(s)

\* On with CheckMessageDeques after slot i
AfterDeque(s, i) ==
    LET j == NextMail(s, i) IN Goto(s, IF j = 0 THEN "poll" ELSE "deques", j)

\* On with the scan after slot i, at its end with CheckMessageDeques
AfterSlot(s, i) ==
    LET j == NextAfter(s, i)
    IN  IF s.up /\ j = 0 THEN AfterDeque(Settled(s), 0) ELSE Goto(s, "scan", j)

\* What the kernel may answer to a send() during one step
Outcomes ==
    [gone : SUBSET {c \in Conns : net[c].srv = "open" /\ ~net[c].cli},
     full : IF MayBlock = {} THEN {{}}
            ELSE SUBSET {slots[i].fd : i \in {j \in 1..nConns : slots[j].type # "REG"}}]

\* One pass of CheckMessageDeques
CheckMessageDeques ==
    /\ pc = "deques"
    /\ \E o \in Outcomes : AfterDeque(DequeueFor(Srv, scanned, o), scanned)
    /\ UNCHANGED backlog

\* Slip: one connection too many
HasRoomForOneMore(n) == n <= MAX_CONCURRENCY_LIMIT

HasRoom(n) == n < MAX_CONCURRENCY_LIMIT

\* poll() returns when there is something to report, and reports what has
\* reached the server by then; one waiting connection is accepted
Poll ==
    /\ pc = "poll"
    /\ \E late \in SUBSET Lags, drained \in SUBSET {i \in 1..nConns : slots[i].wantWr} :
          LET ready == {i \in 1..nConns : Readable(net, slots[i].fd)
                                             /\ slots[i].fd \notin late}
              marked == [Srv EXCEPT !.slots = [i \in Slots |->
                            [@[i] EXCEPT !.rd = i \in ready, !.wr = i \in drained]]]
              accepts == backlog # <<>> /\ HasRoom(nConns)
              s == IF accepts THEN SetConn(marked, Head(backlog)) ELSE marked
          IN  /\ backlog # <<>> \/ ready # {} \/ drained # {}
              /\ backlog' = IF accepts THEN Tail(backlog) ELSE backlog
              /\ AfterSlot(s, 0)

\* The first half of a pass of the scan: something to read at slot i.  The second
\* half looks at the events of whatever is at slot i then.
ScanRead ==
    /\ pc = "scan"
    /\ slots[scanned].rd
    /\ \E o \in Outcomes :
          LET s == RecvMessage(Srv, scanned, o)
          IN  /\ IF s.up /\ s.slots[scanned].wr THEN Goto(s, "resume", scanned)
                                                ELSE AfterSlot(s, scanned)
              /\ backlog' = IF s.up THEN backlog ELSE <<>>

\* The second half: a blocked socket has become writable
ScanWrite ==
    /\ \/ pc = "scan" /\ ~slots[scanned].rd
       \/ pc = "resume"
    /\ \E o \in Outcomes :
          LET s == SendMessage(Srv, scanned, o)
          IN  /\ AfterSlot(s, scanned)
              /\ backlog' = IF s.up THEN backlog ELSE <<>>

-----------------------------------------------------------------------------
(* The process: it has no way to end but a failure or a signal *)

StopServer ==
    /\ pc # "down"
    /\ restarts < MaxRestarts
    /\ Goto(Exit(Srv), "down", 0)
    /\ backlog' = <<>>

\* Slip: the registrar file is opened as server_main reset opens it
StartServerEmpty ==
    /\ pc = "down"
    /\ restarts < MaxRestarts
    /\ restarts' = restarts + 1
    /\ pc' = "poll"
    /\ registrar' = <<>>
    /\ posted' = [u \in Users |-> <<>>]
    /\ UNCHANGED <<slots, nConns, profiles, scanned, net, backlog>>

\* A new process has the registrar file, an empty table and no profiles
StartServer ==
    /\ pc = "down"
    /\ restarts < MaxRestarts
    /\ restarts' = restarts + 1
    /\ pc' = "poll"
    /\ posted' = [u \in Users |-> <<>>]
    /\ UNCHANGED <<slots, nConns, registrar, profiles, scanned, net, backlog>>
=============================================================================
