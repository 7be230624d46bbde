---------------------------- MODULE ScriptTravel ----------------------------
(***************************************************************************)
(* From a line of a script to the server and to other clients: the reader, *)
(* the formats and the files together.  What the reader lets through must  *)
(* be what the formats can carry.                                          *)
(***************************************************************************)
EXTENDS ScriptReader, FileTransporter

CONSTANTS
    Users,      \* names a client may be signed in under
    Dirs        \* directories of clients

ASSUME UsersAreValid == \A u \in Users : IsUsernameValid(u)

\* The reader's commands so far, as the reading goes on
Read(ops) == {i \in DOMAIN commands : commands[i].command \in ops}

\* The names under which a command may be issued
Senders == Users \cup {commands[i].args[1] : i \in Read({"REGISTER", "LOGIN"})}

FileCommands == {"SEND_FILE", "SEND_FILE_TO"}

\* What StartCommand adds to a command before it is written
Completed(c, u, dir) ==
    LET named == IF c.command \in {"REGISTER", "LOGIN"} THEN c ELSE [c EXCEPT !.username = u]
        last  == Len(c.args)
    IN  IF c.command \in FileCommands
        THEN [named EXCEPT !.args[last] = FileToChar(dir, c.args[last - 1])]
        ELSE named

-----------------------------------------------------------------------------
(* The language of scripts, by the positions of words in a line *)

Starts(s) == {j \in DOMAIN s : s[j] # Space /\ (j = 1 \/ s[j - 1] = Space)}

\* The position of the n-th word, and the words between spaces that begin there
StartOf(s, n) == {j \in Starts(s) : Cardinality({k \in Starts(s) : k <= j}) = n}

Words(s, n) ==
    {SubSeq(s, j, k) : <<j, k>> \in
        {<<j, k>> \in StartOf(s, n) \X DOMAIN s :
            /\ \A l \in j..k : s[l] # Space
            /\ k = Len(s) \/ s[k + 1] = Space}}

Texts(s, n) == {SubSeq(s, j, Len(s)) : j \in StartOf(s, n)}

Names(s) ==
    {u \in Words(s, 1) : Len(u) \in MIN_USRNAME_SIZE..MAX_USRNAME_SIZE
                            /\ \A j \in DOMAIN u : u[j] \in Alnum}

Passwords(s) ==
    {p \in Words(s, 2) : Len(p) \in MIN_PWD_SIZE..MAX_PWD_SIZE
                            /\ \A j \in DOMAIN p : p[j] \in Alnum}

\* The delays that a word begins with, in decimals after zeros and a sign
DelaysOf(w) ==
    {n \in MIN_N..MAX_N :
        \E z \in 0..Len(w), sign \in {<<>>, <<Plus>>} :
            LET ds == sign \o [j \in 1..z |-> 48] \o Decimal(n)
            IN  /\ IsPrefix(ds, w)
                /\ Len(w) > Len(ds) => w[Len(ds) + 1] \notin Digit}

Op(word) ==
    CASE word = "SEND" -> "SEND"       [] word = "SENDA" -> "SEND_ANON"
      [] word = "SEND2" -> "SEND_TO"   [] word = "SENDA2" -> "SEND_TO_ANON"
      [] word = "SENDF" -> "SEND_FILE" [] word = "SENDF2" -> "SEND_FILE_TO"
      [] OTHER -> word

\* The arguments a word may have with what follows it; none: no command
Arguments(word, s) ==
    CASE word \in {"REGISTER", "LOGIN"} -> {<<u, p>> : u \in Names(s), p \in Passwords(s)}
      [] word \in {"LOGOUT", "LIST"}    -> {<<>>}
      [] word \in {"SEND", "SENDA"}     -> {<<m>> : m \in Texts(s, 1)}
      [] word \in {"SEND2", "SENDA2"}   ->
             {<<u, m>> : u \in Names(s), m \in {t \in Texts(s, 2) : Len(t) <= MAX_MSG_SIZE}}
      [] word = "SENDF"                 -> {<<f, None>> : f \in Words(s, 1)}
      [] word = "SENDF2"                -> {<<u, f, None>> : u \in Names(s), f \in Words(s, 2)}
      [] word = "DELAY"                 ->
             {<<Decimal(n)>> : n \in UNION {DelaysOf(w) : w \in Words(s, 1)}}
      [] OTHER                          -> {}

-----------------------------------------------------------------------------
(* Properties *)

\* The reader returns the commands of the lines that are not blank, one for one
\* and in order, with the arguments the language gives them; and it ends the
\* program at the first line that is none, and only there
ReadsByGrammar ==
    file # None =>
        LET kept == SelectSeq(SubSeq(file, 1, nRead), LAMBDA line : line.word # None)
            said == SubSeq(kept, 1, Len(commands))
        IN  /\ Len(kept) = Len(commands) + (IF status = "exited" THEN 1 ELSE 0)
            /\ \A j \in DOMAIN said :
                  /\ commands[j].command = Op(said[j].word)
                  /\ commands[j].args \in Arguments(said[j].word, said[j].rest)
            /\ status = "exited" =>
                  LET bad == kept[Len(kept)] IN Arguments(bad.word, bad.rest) = {}

\* A command that is read from a script, completed with the name of the user or
\* the contents of a file, arrives at the server as it was: no separator, length
\* or zero in it leads the server astray
CommandsSurvive ==
    \A i \in DOMAIN commands, u \in Senders, d \in Dirs :
        LET c == Completed(commands[i], u, d)
        IN  (c.command # "DELAY" /\ None \notin Range(c.args)) =>
                ByteToCommandData(CommandDataToByte(c)) = c

\* Responses to the names of a script and messages with its texts are read as
\* they were written, and so is the list of any users that registered
AnswersSurvive ==
    LET registered == [j \in 1..Cardinality(Read({"REGISTER"})) |->
            LET i == CHOOSE k \in Read({"REGISTER"}) :
                         Cardinality({l \in Read({"REGISTER"}) : l <= k}) = j
            IN  commands[i].args[1]]
    IN  /\ \A u \in Senders :
              LET r == [status |-> "LISTT", username |-> u,
                        msg |-> ListOfUsersToChar(registered)]
              IN  /\ ByteToResponseData(ResponseDataToByteBody(r)) = r
                  /\ BuildListOfUsers(r.msg) = registered
        /\ \A u \in Senders, i \in Read({"SEND", "SEND_TO"}) :
              LET m == [msgType |-> "UI_MSG", username |-> u,
                        msg |-> commands[i].args[Len(commands[i].args)]]
              IN  ByteToMsgData(MsgDataToByteBody(m)) = m

\* A path that leads to a file of folder f itself
InFolder(path, f) ==
    LET start == IF f = <<>> THEN f ELSE Append(f, Slash)
    IN  IsPrefix(start, path) /\ Slash \notin Range(SubSeq(path, Len(start) + 1, Len(path)))

\* A file that is sent is stored by a receiver who has the folder its path names
\* and nothing of that path: under that path, as far as its first zero byte and
\* whole if it has none.  Any other receiver has the same files as before, and is
\* told of the failure when one of them has the path.
FilesSurvive ==
    \A i \in Read(FileCommands), u \in Senders, d \in Dirs, e \in Dirs :
        LET c     == Completed(commands[i], u, d)
            last  == Len(c.args)
            name  == c.args[last - 1]
            sent  == [msgType |-> "FILE_MSG", username |-> u,
                      fileName |-> name, msg |-> c.args[last]]
            m     == ByteToMsgDataFile(MsgDataFileToByteBody(sent))
            after == CharToFile(e, m.fileName, m.msg)
            files == after.dir.files
            takes == /\ name \notin DOMAIN e.files \cup e.folders
                     /\ \E f \in e.folders : InFolder(name, f)
        IN  c.args[last] # None =>
                /\ m = sent
                /\ Restrict(files, DOMAIN e.files) = e.files
                /\ DOMAIN files = DOMAIN e.files \cup (IF takes THEN {name} ELSE {})
                /\ takes =>
                      /\ IsPrefix(files[name], d.files[name])
                      /\ \/ files[name] = d.files[name]
                         \/ d.files[name][Len(files[name]) + 1] = 0
                /\ name \in DOMAIN e.files => ~after.result
=============================================================================
