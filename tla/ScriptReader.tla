--------------------------- MODULE ScriptReader ---------------------------
(***************************************************************************)
(* How a client reads its commands (userInput/script_reader.cpp), line by  *)
(* line, before it runs the first of them.  A line is its first word and   *)
(* the characters after it; the word of a blank line is None.              *)
(***************************************************************************)
EXTENDS Formats

CONSTANTS
    MIN_PWD_SIZE,
    MAX_PWD_SIZE,
    MAX_MSG_SIZE,
    MIN_N,
    MAX_N,
    Files       \* the script files: sequences of lines; None cannot be opened

VARIABLES
    file,       \* the lines of the script
    nRead,      \* how many of them have been read
    commands,   \* what getCommands is going to return
    status      \* of getCommands

vars == <<file, nRead, commands, status>>

Space == 32
Plus == 43
Digit == 48..57
Alnum == Digit \cup 65..90 \cup 97..122

CommandData(command, args) == [command |-> command, username |-> None, args |-> args]

-----------------------------------------------------------------------------
(* The input stream: iss >> word, and what is left of the line *)

SkipWs(s) ==
    LET k == SelectInSeq(s, LAMBDA c : c # Space)
    IN  IF k = 0 THEN <<>> ELSE SubSeq(s, k, Len(s))

Word(s) ==
    LET k == SelectInSeq(SkipWs(s), LAMBDA c : c = Space)
    IN  IF k = 0 THEN SkipWs(s) ELSE SubSeq(SkipWs(s), 1, k - 1)

AfterWord(s) == SubSeq(SkipWs(s), Len(Word(s)) + 1, Len(SkipWs(s)))

\* Slip: only the next word is read
ReadTrailingMsgWord(s) == Word(s)

ReadTrailingMsg(s) == SkipWs(s)

\* iss >> int: digits after an optional sign, up to anything else
Number(s) ==
    LET t    == SkipWs(s)
        neg  == t # <<>> /\ Head(t) = Dash
        u    == IF t # <<>> /\ Head(t) \in {Plus, Dash} THEN Tail(t) ELSE t
        k    == SelectInSeq(u, LAMBDA c : c \notin Digit)
        ds   == IF k = 0 THEN u ELSE SubSeq(u, 1, k - 1)
        n    == FoldLeft(LAMBDA acc, d : 10 * acc + (d - 48), 0, ds)
    IN  IF ds = <<>> THEN None ELSE IF neg THEN 0 - n ELSE n

\* std::to_string of a positive number
Decimal(n) ==
    LET len == CHOOSE d \in 1..10 : 10^(d - 1) <= n /\ n < 10^d
    IN  [j \in 1..len |-> 48 + ((n \div 10^(len - j)) % 10)]

-----------------------------------------------------------------------------
(* Checks of the parts of a command *)

\* Slip: a separator is taken for a letter
IsAlphaNumericDash(str) == Range(str) \subseteq Alnum \cup {Dash}

IsAlphaNumeric(str) == Range(str) \subseteq Alnum

IsUsernameValid(u) == Len(u) \in MIN_USRNAME_SIZE..MAX_USRNAME_SIZE /\ IsAlphaNumeric(u)

IsPwdValid(p) == Len(p) \in MIN_PWD_SIZE..MAX_PWD_SIZE /\ IsAlphaNumeric(p)

IsMessageValid(m) == Len(m) \in 1..MAX_MSG_SIZE

-----------------------------------------------------------------------------
(* The commands; None ends the program *)

\* readRegister and readLogin: whatever follows the password is ignored
ReadAccount(command, s) ==
    LET u == Word(s)
        p == Word(AfterWord(s))
    IN  IF p # <<>> /\ IsUsernameValid(u) /\ IsPwdValid(p)
        THEN CommandData(command, <<u, p>>) ELSE None

ReadSend(command, s) ==
    LET msg == ReadTrailingMsg(s)
    IN  IF msg # <<>> THEN CommandData(command, <<msg>>) ELSE None

ReadSendTo(command, s) ==
    LET u   == Word(s)
        msg == ReadTrailingMsg(AfterWord(s))
    IN  IF u # <<>> /\ IsMessageValid(msg) /\ IsUsernameValid(u)
        THEN CommandData(command, <<u, msg>>) ELSE None

\* The last argument is filled in when the command is started
ReadSendFile(s) ==
    IF Word(s) # <<>> THEN CommandData("SEND_FILE", <<Word(s), None>>) ELSE None

ReadSendFileTo(s) ==
    LET u == Word(s)
        f == Word(AfterWord(s))
    IN  IF f # <<>> /\ IsUsernameValid(u)
        THEN CommandData("SEND_FILE_TO", <<u, f, None>>) ELSE None

ReadDelay(s) ==
    LET n == Number(s)
    IN  IF n # None /\ n \in MIN_N..MAX_N
        THEN CommandData("DELAY", <<Decimal(n)>>) ELSE None

CommandOn(line) ==
    CASE line.word = "REGISTER" -> ReadAccount("REGISTER", line.rest)
      [] line.word = "LOGIN"    -> ReadAccount("LOGIN", line.rest)
      [] line.word = "LOGOUT"   -> CommandData("LOGOUT", <<>>)
      [] line.word = "SEND"     -> ReadSend("SEND", line.rest)
      [] line.word = "SEND2"    -> ReadSendTo("SEND_TO", line.rest)
      [] line.word = "SENDA"    -> ReadSend("SEND_ANON", line.rest)
      [] line.word = "SENDA2"   -> ReadSendTo("SEND_TO_ANON", line.rest)
      [] line.word = "SENDF"    -> ReadSendFile(line.rest)
      [] line.word = "SENDF2"   -> ReadSendFileTo(line.rest)
      [] line.word = "LIST"     -> CommandData("LIST", <<>>)
      [] line.word = "DELAY"    -> ReadDelay(line.rest)
      [] OTHER                  -> None

-----------------------------------------------------------------------------
(* getCommands *)

ReaderInit ==
    /\ file \in Files
    /\ nRead = 0
    /\ commands = <<>>
    /\ status = "reading"

FailToOpen ==
    /\ status = "reading"
    /\ file = None
    /\ status' = "exited"
    /\ UNCHANGED <<file, nRead, commands>>

ReadLine ==
    /\ status = "reading"
    /\ file # None
    /\ nRead < Len(file)
    /\ nRead' = nRead + 1
    /\ UNCHANGED file
    /\ LET line == file[nRead + 1]
           c    == CommandOn(line)
       IN  \/ line.word = None /\ UNCHANGED <<commands, status>>
           \/ line.word # None /\ c # None
                /\ commands' = Append(commands, c) /\ UNCHANGED status
           \/ line.word # None /\ c = None
                /\ status' = "exited" /\ UNCHANGED commands

Return ==
    /\ status = "reading"
    /\ file # None
    /\ nRead = Len(file)
    /\ status' = "returned"
    /\ UNCHANGED <<file, nRead, commands>>

ReaderNext == FailToOpen \/ ReadLine \/ Return

ReaderSpec == ReaderInit /\ [][ReaderNext]_vars
=============================================================================
