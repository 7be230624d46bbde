------------------------------ MODULE MCScript ------------------------------
EXTENDS ScriptTravel

\* a, 0, 1, -, +, space
Chars == {97, 48, 49, Dash, Plus, Space}
Letters == {97, Dash, Space}

\* The rest of a line begins with a space
Rests(chars, n) == {<<>>} \cup {<<Space>> \o s : s \in UNION {[1..k -> chars] : k \in 0..n}}

OneArg == {"SEND", "SENDA", "SENDF", "DELAY"}
TwoArgs == {"REGISTER", "LOGIN", "SEND2", "SENDA2", "SENDF2"}

\* Files in a folder, and names that a path has no place in
Paths ==
    {[word |-> "SENDF", rest |-> <<Space, 97, Slash, 97>>],
     [word |-> "SENDF2", rest |-> <<Space, 97, 97, 97, Space, 97, Slash, 97>>],
     [word |-> "SENDF2", rest |-> <<Space, 97, Slash, 97, Space, 97>>],
     [word |-> "LOGIN", rest |-> <<Space, 97, Slash, 97, Space, 97>>]}

Lines == {[word |-> w, rest |-> r] : w \in OneArg \cup {"LIST", "SAY", None}, r \in Rests(Chars, 4)}
    \cup {[word |-> w, rest |-> r] : w \in TwoArgs, r \in Rests(Letters, 6)}
    \cup {[word |-> w, rest |-> r] : w \in TwoArgs, r \in {<<Space>> \o s : s \in [1..7 -> {97, Space}]}}
    \cup Paths

FewLines ==
    {[word |-> "REGISTER", rest |-> <<Space, 97, 97, 97, Space, 97>>],
     [word |-> "REGISTER", rest |-> <<Space, 49, 97, 97, 49, Space, 97>>],
     [word |-> "SENDF", rest |-> <<Space, 97>>],
     [word |-> "LOGOUT", rest |-> <<>>],
     [word |-> "SAY", rest |-> <<>>],
     [word |-> None, rest |-> <<>>]}

MCFiles == {None} \cup [1..1 -> Lines] \cup [1..3 -> FewLines]

MCUsers == {<<97, 97, 97>>, <<49, 97, 97, 49>>}

Dir(path, bytes, folders) == [files |-> path :> bytes, folders |-> {<<>>} \cup folders]

\* An empty file, a text with a separator and a zero, and one that is too big; a
\* file in a folder, and directories with and without that folder
MCDirs ==
    {Dir(<<97>>, s, {}) : s \in {<<>>, <<Dash, 97>>, <<97, 0, 97>>, <<97, 97, 97, 97>>}}
    \cup {Dir(<<97, 49>>, <<49>>, {}), Dir(<<97, 49>>, <<49>>, {<<97>>}),
          Dir(<<97, Slash, 97>>, <<49, Dash>>, {<<97>>})}
=============================================================================
