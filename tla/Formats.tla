------------------------------ MODULE Formats ------------------------------
(***************************************************************************)
(* The bodies of frames: how socket_messenger.cpp lays out commands,       *)
(* responses, messages and files, and how it reads them.  A character is   *)
(* its byte; a string of the program is a sequence without the zero that   *)
(* ends it; a NULL string is None.                                         *)
(***************************************************************************)
EXTENDS Bytes, SequencesExt, Null

CONSTANTS
    MIN_USRNAME_SIZE,
    MAX_USRNAME_SIZE

\* A list is taken for an empty one when it is shorter than the "!!!" of an
\* empty list (BuildListOfUsers)
ASSUME UsernameSizes ==
    /\ MIN_USRNAME_SIZE \in Nat \ (0..2)
    /\ MAX_USRNAME_SIZE \in Nat
    /\ MIN_USRNAME_SIZE <= MAX_USRNAME_SIZE

Dash == 45
Exclamation == 33
EMPTY_USERNAME_STR == <<Exclamation, Exclamation, Exclamation>>

-----------------------------------------------------------------------------
(* The enumerations *)

Command ==
    [REGISTER |-> 0, LOGIN |-> 1, LOGOUT |-> 2, SEND |-> 3, SEND_TO |-> 4,
     SEND_ANON |-> 5, SEND_TO_ANON |-> 6, SEND_FILE |-> 7, SEND_FILE_TO |-> 8,
     LIST |-> 9, DELAY |-> 10, UI_CONN |-> 11, FILE_CONN |-> 12]

Status ==
    [OK |-> 30, FAILURE |-> 31, LOGGED_IN |-> 32, LOGGED_OUT |-> 33, LISTT |-> 34]

MsgType == [FILE_MSG |-> 50, UI_MSG |-> 51]

\* The name of a code, if it has one
NameIn(enum, code) ==
    LET names == {n \in DOMAIN enum : enum[n] = code}
    IN  IF names = {} THEN None ELSE CHOOSE n \in names : TRUE

-----------------------------------------------------------------------------
(* Writing *)

\* The username field; what does not fit is cut off
Padded(username) ==
    LET u == IF username = None THEN <<>> ELSE username
    IN  [j \in 1..MAX_USRNAME_SIZE |-> IF j <= Len(u) THEN u[j] ELSE Dash]

WithLength(arg) == IntToByte(Len(arg)) \o arg

Body(code, username, args) ==
    IntToByte(code) \o Padded(username)
        \o FlattenSeq([j \in DOMAIN args |-> WithLength(args[j])])

CommandDataToByte(c) == Body(Command[c.command], c.username, c.args)

ResponseDataToByteBody(r) == Body(Status[r.status], r.username, <<r.msg>>)

MsgDataToByteBody(m) == Body(MsgType.UI_MSG, m.username, <<m.msg>>)

MsgDataFileToByteBody(m) == Body(MsgType.FILE_MSG, m.username, <<m.fileName, m.msg>>)

-----------------------------------------------------------------------------
(* Reading *)

IntAt(body, offset) == ByteToInt(SubSeq(body, offset + 1, offset + INT_BYTES))

\* Everything up to the first separator of the field
ReadUsername(body) ==
    LET field == SubSeq(body, INT_BYTES + 1, INT_BYTES + MAX_USRNAME_SIZE)
        dash  == SelectInSeq(field, LAMBDA b : b = Dash)
    IN  CASE dash = 1 -> None
          [] dash > 1 -> SubSeq(field, 1, dash - 1)
          [] OTHER    -> field

\* Slip: the offset is not moved over the length of an argument
ReadArgsNoSkip(body, numArgs) ==
    FoldLeft(LAMBDA acc, j :
                 LET size == IntAt(body, acc.offset)
                     from == acc.offset + (IF j = 1 THEN INT_BYTES ELSE 0)
                 IN  [offset |-> from + size,
                      args |-> Append(acc.args, SubSeq(body, from + 1, from + size))],
             [offset |-> INT_BYTES + MAX_USRNAME_SIZE, args |-> <<>>],
             [j \in 1..numArgs |-> j]).args

ReadArgs(body, numArgs) ==
    FoldLeft(LAMBDA acc, j :
                 LET size == IntAt(body, acc.offset)
                     from == acc.offset + INT_BYTES
                 IN  [offset |-> from + size,
                      args |-> Append(acc.args, SubSeq(body, from + 1, from + size))],
             [offset |-> INT_BYTES + MAX_USRNAME_SIZE, args |-> <<>>],
             [j \in 1..numArgs |-> j]).args

ReadMsg(body) == ReadArgs(body, 1)[1]

NumArgs(command) ==
    CASE command = "SEND_FILE_TO"                                          -> 3
      [] command \in {"REGISTER", "LOGIN", "SEND_TO", "SEND_TO_ANON", "SEND_FILE"} -> 2
      [] command \in {"SEND", "SEND_ANON", "DELAY"}                        -> 1
      [] OTHER                                                             -> 0

\* None: the code is no command, and the program ends
ByteToCommandData(body) ==
    LET command == NameIn(Command, IntAt(body, 0))
    IN  IF command = None
        THEN None
        ELSE [command |-> command, username |-> ReadUsername(body),
              args |-> ReadArgs(body, NumArgs(command))]

ByteToResponseData(body) ==
    [status |-> NameIn(Status, IntAt(body, 0)), username |-> ReadUsername(body),
     msg |-> ReadMsg(body)]

ByteToMsgData(body) ==
    [msgType |-> NameIn(MsgType, IntAt(body, 0)), username |-> ReadUsername(body),
     msg |-> ReadMsg(body)]

ByteToMsgDataFile(body) ==
    LET args == ReadArgs(body, 2)
    IN  [msgType |-> NameIn(MsgType, IntAt(body, 0)), username |-> ReadUsername(body),
         fileName |-> args[1], msg |-> args[2]]

-----------------------------------------------------------------------------
(* Lists of users *)

ListOfUsersToChar(usernames) ==
    IF usernames = <<>>
    THEN EMPTY_USERNAME_STR
    ELSE FlattenSeq([j \in DOMAIN usernames |->
                        IF j < Len(usernames) THEN Append(usernames[j], Dash) ELSE usernames[j]])

BuildListOfUsers(msg) ==
    IF Len(msg) < 3 \/ Head(msg) = Exclamation
    THEN <<>>
    ELSE FoldLeft(LAMBDA names, c :
                      IF c = Dash
                      THEN Append(names, <<>>)
                      ELSE [names EXCEPT ![Len(names)] = Append(@, c)],
                  << <<>> >>, msg)
=============================================================================
