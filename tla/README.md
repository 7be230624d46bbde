# GopherChat in TLA+

A chat server and its clients, modelled from `src/app` and checked with TLC.
Proved with TLAPS, for every value of the constants: the data store; of the chat
the types, the connection table, who is sent and who prints what, the accounts and
their refinement, and what can end the server; the frames of the messenger and the
integers on the wire.  File names below are relative to `src/app` unless they start
with `src/`.

## 1. The system

| Part | Source | State | Operations |
|---|---|---|---|
| Data store | `server/data_store.cpp`, `registrar.hpp`, `profile.hpp` | the registrar file (one `name password` line for each user); a vector of profiles of signed-in users, each with a deque of messages | `Register`, `Login`, `Logout`, `Enqueue`, `EnqueueAllExcept`, `Dequeue` |
| Server | `server/server.cpp`, `data/conn_data.hpp` | `nConns` and four parallel arrays: `peers`, `sStat`, `rStat`, `connData` | one thread: `CheckMessageDeques`, `poll(-1)`, at most one `accept`, a scan of the table; a handler for each command |
| Client | `client/client.cpp` | the script and the index in it, `loggedInUser`, two `unconfirmed` flags, a pause, its own parallel arrays | start a command on a connection of its own; handle responses, messages, files, the end of connections |
| Socket messenger | `utils/socket/socket_messenger.cpp` | `SendStat`, `RecvStat` of each connection | non-blocking sending and receiving of frames of a size and a body; conversions between data and bodies |
| Script reader | `utils/userInput/script_reader.cpp` | the commands read so far | `getCommands`: a reader for each command, checks of names, passwords, messages and delays |
| File transporter | `utils/file_transporter.hpp` | files and folders in a client's directory | a whole file into a string, a string into a new file |
| Shared types | `utils/utils.hpp`, `data/` | - | enumerations with their codes, limits, the structs of the messenger |
| Log | `utils/log.cpp` | - | output |

**Interaction.**  The server is one process without threads; each client is a
process of its own.  Every command travels on a new TCP connection (`REG`); the
server answers on it and closes it.  After a confirmed login a client opens one
`UI` connection, on which the server writes the messages waiting in the user's
deque, one at a time, and `FILE_CONNS` file connections (`FIL`), on which it
writes files directly.  When a UI or a file connection ends the server signs the
user out.

**What is hard.**
* The table moves: `RemoveConnection` moves all later entries down, from inside
  loops that count up and handlers that hold an index (server *and* client).
* Entries are reused: `username` and `isActive` survive.
* Clients and the server interleave, connections of one client overtake each
  other, requests are on their way while the session they need begins or ends.
* A send may block half way, fail because the client has gone, or be the first
  to notice that.
* Processes end: a client when its script does, or killed; the server by
  `exit()`, an abort or from outside.  It may start again under clients that are
  still running.  The registrar file survives, profiles do not.
* A stream has no frames: the kernel cuts it anywhere, a frame's size included,
  and its end comes with or after the last bytes.
* Names, lists and arguments share their bytes with separators, lengths and
  terminating zeros; only the reader's checks keep them apart.

**What makes each part correct.**
* Data store: one profile and one registrar line per name; signed in only if
  registered; first in, first out for each user.
* Server: the table agrees with the open sockets; a response goes to the
  connection that asked; messages reach only their recipients, once each and in
  order; a request is always answered.
* Client: what it believes of its session is true at the server; nothing is left
  open after a logout; its arrays hold its connections.
* Messenger: frames come out whole, once, in order and all of them; formats are
  read back as written.
* Script reader: the commands of the language and no others; nothing that the
  formats cannot carry.
* File transporter: what arrives is what was sent, nothing is overwritten, and a
  file without a place at its receiver changes nothing there.

`PROJECT.json` lists the hazards, at the lines where they bite, with the
properties that are about them.

## 2. The modules

| Module | What it is |
|---|---|
| `Null` | the value `None` for the code's null pointers |
| `DataStoreOps` | the methods of the data store as operators: `XStatus` is what method `X` returns, `AfterX` what it leaves. Used by both `DataStore` and `Server`. |
| `Accounts` | abstract: a password, an online flag and a mailbox for each user, and whether the service is up |
| `DataStore` | the data store under an arbitrary caller, with the end of the process, its restart and `server_main reset` |
| `DataStoreLemmas` | what searches and updates of the registrar and of the profiles return |
| `DataStoreProofs` | the inductive invariant of `DataStore`, the theorems from it, and that `DataStore` implements `Accounts`, action by action |
| `Sockets` | TCP, external: the ends of each connection, the command on it, the frames under way, the accept queue |
| `Server` | `server.cpp` on top of `Sockets` and `DataStoreOps` |
| `Client` | `client.cpp` on top of `Sockets` |
| `GopherChat` | server and clients together, the fairness, and the properties that hold |
| `ServerProofs` | the connection table and what is sent: the invariant, kept by each of the server's handlers and steps, and what ends the process |
| `DeliveryProofs` | the same invariant under the clients' steps, and the theorems about table and delivery |
| `AccountProofs` | accounts, types and the clients' connections under each operator of the server, and which step of `Accounts` it is |
| `SessionProofs` | the clients' tables and sessions, the invariant of the whole system, and the theorems that need it |
| `ChatClaims` | what comments, messages and the README claim and runs refute |
| `Bytes` | integers as four bytes: `IntToByte`, `ByteToInt` |
| `FrameChannel` | abstract: bodies go in and come out, whole and in order |
| `Framing` | `SendMsgNB` and `RecvMsgNB`, byte by byte, on one direction of a connection |
| `SequenceLemmas` | induction over a finite set; cutting, joining and flattening sequences |
| `FramingProofs` | integers come back from the wire; the inductive invariant of `Framing`, and that every step is one of `FrameChannel` |
| `Formats` | the enumerations' codes and every conversion between data and bodies |
| `FileTransporter` | `FileToChar` and `CharToFile` on a directory of files and folders |
| `ScriptReader` | `getCommands`, with every reader and check |
| `ScriptTravel` | `ScriptReader`, `Formats` and `FileTransporter` together: a line of a script on its way to the server and to other clients |
| `MCDataStore`, `MCChat`, `MCFraming`, `MCScript` | values of the constants for TLC |

There are three levels.  `GopherChat` sees frames as records, `Framing` sees one
connection as bytes, `ScriptTravel` sees what the bytes of one body mean.  Each
level takes for granted what the one below it is checked for: `Sockets` delivers
whole frames in order because `Framing` does, and a record of a command or message
arrives as it was because `Formats` carries it.  The exception, a frame that is
replaced half way, is in `Server` (`Torn`), since its cause is there.

An operator called *Slip* in a comment is a plausible mistake in the definition
after it; putting it in the definition's place must break a property.  They are
part of no specification.

### The server's state and actions

`slots[i]` is entry `i` of the four arrays, which the code always moves together:
`fd`; `wantWr` (`POLLWRNORM` in `events`), `rd`, `wr` (what `poll` reported);
`out` and `begun` (the frame in `sStat`, and whether a part of it is written);
`type`, `user`, `active` (`connData`).  Entries past `nConns` keep what the code
leaves there as far as it is read again (`username` and `isActive` after
`SetConn`, everything during the scan).  Entry 0, the listening socket, is left
out: it is `backlog`.

Handlers are operators from a record of the server's variables to the next one.
Within the process nothing runs between the statements of a handler, so an
action is one pass of a loop:

| Action | Code |
|---|---|
| `CheckMessageDeques` | one pass of the loop of `CheckMessageDeques`, for a UI connection with a message; the other passes do nothing |
| `Poll` | `poll` and the `accept` after it |
| `ScanRead` | the first `if` of a pass of the scan: `RecvMessage` and the handler it leads to |
| `ScanWrite` | the second `if`: `SendMessage` (with `SendMsgNB`, which is `SendFrame`), for whatever is at the index after the first |
| `StopServer` | the process is stopped from outside, between two steps: its sockets close, profiles are gone |
| `StartServer` | the next process, with an empty table and the registrar of before (`MaxRestarts` bounds how often) |

Passes without an event change nothing and are skipped (`NextAfter`, `NextMail`).
What the kernel answers to `send()` is chosen for each action (`Outcomes`): for
connections whose client has closed them it may fail or still succeed; for
kinds of frames in `MayBlock` the buffer of a UI or file connection may take only
the first part.  The answers to commands are not among them (`BlockAssumption`): an
answer is all that is written on its connection, so it finds the buffer empty, and
the longest, the list of who is signed in, is far smaller.  A frame built over one
that is partly written leaves `Torn` on the connection, if that is still open.
`send()` on a closed descriptor ends the server, as in the code.
`Lags` are connections whose bytes may be reported by a later `poll` than others'.

### The client's actions

`StartCommand` (with its checks and, for a command put on the wire, `BuildConn`
and the first `SendMessage`), `Finish`, `EndPause`, `SendRest` (`SendMessage` on a
writable connection), `Receive` (`RecvMessage` with the handler, or the end of the
connection), `Kill`.  Whether a file to be sent can be read is a choice
(`IsReadable`).  A connection that cannot be made ends the client.  When the server
is gone, `SendRest` on the last connection may end the client too: the loop
then looks at an array entry that was never written.

### The messenger's state and actions

`Framing` has one sender and one receiver.  `sender` is `SendStat` (`msg`, `nSent`)
with the `POLLWRNORM` of its connection; `receiver` the two `MsgStat`s of
`RecvStat`; `wire` what the kernel holds.  `end` says how an end has come to its
end: `"closed"`; `"eof"` for a `recv()` that returned 0; `"left"` for a receiver
that closed first; `"bad"` for a size that is zero or negative, with which the code
would go on wrongly.

| Action | Code |
|---|---|
| `Send` | `BuildSendMsg` and the `SendMsgNB` that follows; any number of bytes may be taken |
| `Resume` | `SendMsgNB` for a socket that `poll` reports writable |
| `CloseSender`, `CloseReceiver` | `close()`, or the end of a process, at any time |
| `Receive` | `RecvMsgNB` when any number of bytes has arrived, and the caller's `InitRecvStat` |
| `ReceiveEnd` | `recv()` returns 0 |

### The script reader's state and actions

`file` is the script, a sequence of lines, or `None` if it cannot be opened;
`nRead`, `commands` and `status` are how far `getCommands` has come.  `ReadLine` is
one pass of its loop: a blank line is passed over, a command is appended, anything
else ends the program.  `FailToOpen` and `Return` are its two other ends.  A line is
its first word, a name, and the characters after it, as the readers take them from
the stream.  `Formats` and `FileTransporter` are operators; `ScriptTravel` applies
them to the commands read, under each of a few users and in each of a few
directories, the way `StartCommand`, the server and a receiving client do.

A directory is a record of `files`, from paths to bytes, and `folders`, the paths
that can take a new file.  `CharToFile` returns the directory it leaves and the
`result` that `charToFile` returns.  A path that exists is left alone; the opening
of a new file fails if the path's folder is missing, which `charToFile` does not
look at, so nothing is stored and the result is true.

### What is abstracted

A frame is a record; its bytes matter only as "a part of it is written".  `Torn`
is what a client gets when a partly written frame gives way to another.  The frames
after it on that connection are taken as whole, while the code's receiver, which
takes a size from the middle of the bytes, loses step for good; `FramesResume`
fails at the first `Torn`, and no other property looks behind one.  `id`
(the command that caused a frame), `sender`, `to` and `note` are not on the wire;
they exist for the properties.  `posted`, `printed`, `built` and `received` are
histories.  Logging and output are left out, and the texts of answers but for the
list of users.  The chat modules leave out the contents of messages and files and
the characters of names; those are in `Formats`, `FileTransporter` and
`ScriptReader`.  What happens after a write past the end of an array is not followed
further.  `server_main reset` is only modelled while no server runs.  An external
error half way through a file is left out.  Paths are relative, with one spelling
each.  A line of the registrar without a password, with which `GetUser` exits, is
ruled out by `PersistedAssumption`.  A client makes the connections of a session
in one action, so the server accepts the first of them only when all are there.

## 3. The runs

| Run | Question | Bounds |
|---|---|---|
| `DataStore` | do the invariants hold, and is it an `Accounts`? | 3 users (symmetric), 2 passwords, 2 bodies, deques of at most 2 |
| `Messages` | do answers and messages reach the right client, once, in order, and does the server implement `Accounts`? | 2 clients: login, a private and a public message, by name or anonymously, a logout; up to 8 connections |
| `Files` | do files go to their recipients only, does the table agree with the sockets, how may the server end? | 2 clients, 1 file connection each; files may be unreadable or block; a login in two parts; `LIST` may abort the server |
| `Crowd` | does all this also hold when the table is full, messages block, a client is killed, connections overtake? | 2 clients (one not registered at first; both may register its name), 3 table entries |
| `Restarts` | and when the server stops at any point and comes back? Does every request end? | 2 clients, up to 5 connections, room for all, 1 restart |
| `Framing` | do frames come out whole, in order and all of them? | 3 frames of 2 bodies (5 and 7 bytes), a kernel buffer of 6 bytes, either end may close at any time |
| `Script` | does the reader take the commands of the language and no others, and do they survive the formats and files? | names of 3 to 4 characters, passwords of 1 to 2, messages of at most 2, delays to 20, files to 3 bytes; every line of up to 5 to 8 characters, every script of 3 out of 6 lines; directories of one file, with and without a folder |

Bounds and why they do.  Two clients and two users are the smallest instance with
a sender and a recipient, and every interleaving of their scripts with each pass
of the server's loops is explored, so sessions begin and end at any moment of the
other's requests.  `FILE_CONNS` is 10 in the code; 1 is enough for a file
connection to be found, to block, to be removed under a sender's index and to be
left behind, and runs about messages only use 0, since a file connection takes no
part in them but to multiply the states.  That means `Messages`, `Crowd` and
`Restarts` do not see what file connections of an ended session do; `LostSession`
and `LeftConnections` do.  The table holds 64 in the code; its limit is reached in
`Crowd`.  `Conns` bounds how many connections exist at a time: a client whose
command finds none free waits.

In `Framing` the buffer is smaller than the larger frame, so a send blocks within
a size and within a body, a read ends in either, and the end of one frame and the
beginning of the next are there together.  One body begins with a zero byte, the
other holds the greatest byte.  Sizes above 3 are left to the theorem
`IntRoundTrip`.

In `Script` the limits are scaled down so that all short lines can be tried: over a
letter, two digits, two signs (`-` is also the separator) and the space, each limit
is met, passed by one and undercut by one (the minimum of a password, 1, as a
missing one).  A name keeps at least 3 characters (4 in the code), since the reader
of lists takes a shorter list for an empty one; that is the assumption
`UsernameSizes`.  The slash is in four lines only: a file in a folder, sent to all
and to one, and names with a slash, which are refused.  Its receivers have the
folder, or not, or a file in place of the folder, or the file already.

The deadlock check is off for the chat (all clients end and the server sleeps),
for `Framing` (both ends are closed) and for `Script` (the reader returns).

**Properties.**

*Chat.*  `TypeOK`, types.  `EntriesAreConnections`, at all times, within the loops
too, the entries of the table are open connections, each at most once, and no more
than fit.  `NoneForgotten`, at all times too, every connection open at the server is
in the table.  `AccountsAreSound`, a name is registered once and has one profile
at most, and only registered users are signed in.  `RegistrationsLast`, who is
registered stays so, with the same password.  `PrintsOwnMessages`, a client prints only what is for a user it has
itself asked to sign in as (`Names`).  `OnceEachInOrder`, what was posted for a user since the login is, in order and
without gap or repetition, what is printed, on the wire, in the slot and in the
deque.  `DeliveredToRecipients`, a message or file is written only on a connection
declared for its kind and for a user it is meant for, and an answer only on the
connection of the command it answers, but for the answer to the sender of a file.
That one is left to `ResponseToSender`, which `StaleSender` refutes.
`ServerStaysUp`, nothing the clients do ends the server.  `KnownEnds`, where that is
too much to ask: but for a signal the server ends in three known ways only.
`SessionIsSignedIn`, a client in a session is signed in at the server.
`LogoutFindsUser`, a logout is never answered with the status that "should never
happen".  `ServerImplementsAccounts`, each step of the
whole system is a step or a stutter of `Accounts` (the first state is not asked to
be one of its initial states, since a server may find registrations).  `RequestsEnd`, every request ends.

*Framing.*  `FramingTypeOK`, types, and that a message, a mark to wake up and an
unfinished body are there together or not at all.  `StreamIntact`, what is read of the
current frame, on the wire and not yet sent is the frames not received.
`EndAfterFrames`, a receiver that sees the end has all finished frames.
`ImplementsChannel`, it is a `FrameChannel`, with its liveness.  `WrittenIsReceived`,
a finished frame is received even if its sender closes at once.

*Scripts.*  `ReadsByGrammar` compares the reader, which takes words off a stream, with
a definition of the language by positions in the line.  `CommandsSurvive` and
`AnswersSurvive`, what the reader lets through comes out of the formats as it went in.
`FilesSurvive`, a file arrives under its path, up to its first zero byte, at each
receiver who has the path's folder and nothing of that path; the files of any other
stay as they are, and one who has a file of the path is told so.

**Fairness.**  The server takes steps as long as it can, and each client serves the
connections that are ready: both are loops that the operating system runs, and
`poll` reports a ready connection each time until it is served.  `ServerReady` and
`ClientReady` spell out when that is, since TLC cannot evaluate `ENABLED` of the
steps in reasonable time.  Clients are not assumed to start their next command, to
end a pause or to finish, although they do, and nobody has to stop or to start the
server; what is shown holds without it.  `Framing` assumes that a blocked sender
whose socket becomes writable is resumed and that what has arrived is read: `Resume`
and `Receive` or `ReceiveEnd`, one loop each.

### What the refuting runs show

Each has one property, which quotes the source, and a counterexample.

| Run | Claim | What happens |
|---|---|---|
| `LeftConnections` | `DisconnectedAfterLogout` | `DisconnectFromServer` passes over every second connection |
| `TornFile` | `FramesResume` | a second file overwrites the rest of the first |
| `StaleSender` | `ResponseToSender` | the answer goes to an index that has moved |
| `LostSession` | `SessionIsSignedIn` | an old session's connection ends the new one |
| `RefusedLogin` | `ConfirmationUnderWay` | the answer to a wrong password does not end the waiting for a confirmation, so the client refuses every later login |

Some properties hold in some runs only, and the difference is what they say of the
code.

| Property | Checked in | Fails |
|---|---|---|
| `OnceEachInOrder` | `Messages`, `Crowd`, `Restarts` | for two clients of one user: a client that has set up its UI connection after the server has started again, or whose session has been ended by a late connection of an older one, keeps that connection under the user's name, and the messages of the user's next session, of another client, are written there |
| `SessionIsSignedIn` | `Files`, `Crowd` | once two sessions of one user follow each other (`LostSession`), or a client reads the answer to its login when the server has started again: `SetUiConn` does not ask whether the user is signed in |
| `ServerStaysUp` | `Messages` | where a blocked connection is removed during the scan (a write past the end), or a `LIST` is read when nobody is signed in any more (`delete[]` of a literal, in `Files`), or the clients of two recipients of a public file have gone; `KnownEnds` says that these are all |
| `LogoutFindsUser` | `Messages` | with two logouts in a row |

`PrintsOwnMessages` holds everywhere, and allows for this: once a client with file
connections has had two sessions, `DisconnectFromServer` takes the one left over
from the first for the UI connection and leaves that open, and a message that
arrives there after the logout is printed.

Met while modelling, without a sentence in the repository to hold the code to, or
outside the models (`PROJECT.json` has them as hazards):
* An entry of the server's table keeps its `isActive` when a send to a UI connection
  fails, and the next user of the entry gets no message.
* At a login a name of the greatest length is copied into an array without room for
  its zero (`server/profile.hpp` 17).
* A file whose path names a folder that its receiver lacks is not stored, and the
  receiver is told "sent you the file".
* A takeover of a user without a UI connection is answered "Succesfully logged
  in." with a status for which the client starts no session.
* A `LOGOUT` that is answered `OK`, because the server has lost the session, leaves
  the client waiting for a confirmation that does not come.
* `CheckMessageDeques` sends one message for each connection, then `poll` waits
  without a timeout: a second message stays until something else happens.
* The client ends with its script, without waiting for answers.
* The client's arrays may get one connection more than they hold.
* The reader checks the length of a message for `SEND2` and `SENDA2`, not for
  `SEND` and `SENDA`.
* A file is sent up to its first zero byte, and its sender is told of a success.
* The report of a message that is too long (`script_reader.cpp` 420) lacks an
  argument of its format, so the client may end by a fault there instead of by
  `exit`; the model has one end for both.

## 4. The proofs

`DataStoreProofs` proves, for all sets of users, passwords and bodies and every
bound `MaxQueue`, assuming only that `None` is neither a body nor a password and
that the bound is a natural number:

* `TypeCorrect`: `DSSpec => []DSTypeOK`
* `OneProfileEach`: `DSSpec => []UniqueProfiles`
* `OneEntryEach`: `DSSpec => []UniqueEntries`
* `OnlyRegisteredSignedIn`: `DSSpec => []SignedInAreRegistered`

The argument is one inductive invariant, `DSInv`, the conjunction of the four with
the fact that there are no profiles while no process runs.  The last part is what
`Reset` needs: the file may be emptied under `SignedInAreRegistered` only because
nobody is signed in then.  `UniqueProfiles` is needed by the searches: `AfterLogout`
removes the *first* profile of a name, and only with uniqueness is that the only
one.  The lemmas state what a search of a sequence finds (`EntryFound`,
`ProfileFound`), what removing one element leaves (`RemoveAtElements`,
`LogoutProfiles`), and that queueing changes no user (`SameUsers`).  Each action has
a lemma of its own; `Invariance` puts them together.

`DataStoreProofs` also proves, from the same invariant, `StoreImplementsAccounts`:
`DSSpec => ImplementsAccounts`, for all values of the constants.  The mapping takes
a user's password from the line of the registrar with that name, the online flag
from the presence of a profile, the mailbox from its deque.  Each action has a
lemma (`RegisterMaps` to `ProcessMaps`) that names the abstract action it is or
shows a stutter, and `DataStoreLemmas` has what an operation leaves under every
name, the ones it is not about included (`RegisterPasswords`, `LoginMessages`,
`LogoutMessages`, `SetDequeMessages`, `EnqueueAllMessages`).  `DSInv` is needed
throughout: were there two profiles with a name, a logout would uncover the second.

`FramingProofs` proves, without assumptions:

* `IntToByteType`: four bytes for every int that is not negative
* `IntRoundTrip`: `ByteToInt` gives back every int from 0 to 2^31 - 1

`Digits` is the argument: such a number is the sum of its four digits to the base
256 (one `DivStep` for each), and the highest is below 128, so `ByteToInt` does not
take it for a sign.  Every size, code and argument length in `Framing` and `Formats`
travels this way, and the runs reach small ones only.

It proves further, for all sets of bodies, every room in the kernel and every
number of frames, assuming `FramingAssumption` (a body is a sequence of bytes, not
empty and not longer than an int; the kernel has room for something):

* `FramingTypeCorrect`: `FramingSpec => []FramingTypeOK`
* `StreamStaysIntact`: `FramingSpec => []StreamIntact`
* `EndMeansAllFrames`: `FramingSpec => []EndAfterFrames`
* `BytesCarryBodies`: the initial states are those of `FrameChannel` and every step
  is one of its steps or a stutter

The inductive invariant of these four is `FramingInv`.  `StreamIntact` is its heart:
what is read of a frame, what is under way and what is not yet sent are, joined, the
frames from the first not received on.  It says nothing about *which* frames those are, so
`ReceivedFirst` adds that the received ones are the beginning of the sent ones;
nothing about the bytes before `nSent`, so `SendingLast` adds that the message in
`SendStat` is the frame of the last body; and nothing about closing, so there is
also that an end is seen only when the sender has closed.  `FramingTypeOK` gives the
cases of `RecvMsgNB`: within a size, within a body.  That the receiver finds the
frame again from its bytes is `SizeRead` (four bytes at the front are the size of
the first frame, by `IntRoundTrip`) and `MissingBytes` (the rest of a body is the
front of what is left).  The steps reassociate joined sequences; `SequenceLemmas`
does that once (`Cut`, `Regroup`, `Shift`).  A stream of frames is a `FlattenSeq`,
which the library defines by a recursive function chosen with `CHOOSE`: lemmas
`FlattenExists` and `FlattenUnfold` show that there is one, by induction over a
finite set (`SetInduction`, from the well-foundedness of the natural numbers and
with a set in place of the operator parameter of the library's induction theorems).

### The chat

The theorems about `GopherChat` are for all sets of clients, users and connections,
all scripts, any size of the table, any number of file connections and restarts and
every choice of the kernel:

| Theorem | Statement | Module |
|---|---|---|
| `OnlyRecipientsGetMessages` | `Spec => []DeliveredToRecipients` | `DeliveryProofs` |
| `EntriesStayConnections` | `Spec => []EntriesAreConnections` | `DeliveryProofs` |
| `NoConnectionForgotten` | `Spec => []NoneForgotten` | `DeliveryProofs` |
| `ChatTyped` | `Spec => []TypeOK` | `SessionProofs` |
| `ChatAccountsSound` | `Spec => []AccountsAreSound` | `SessionProofs` |
| `ChatRegistrationsLast` | `Spec => RegistrationsLast` | `SessionProofs` |
| `ClientsPrintTheirOwn` | `Spec => []PrintsOwnMessages` | `SessionProofs` |
| `ChatImplementsAccounts` | `Spec => ServerImplementsAccounts` | `SessionProofs` |
| `ServerEndsOnly` | `Spec => KnownEnds` | `SessionProofs` |

They assume what the modules' named assumptions say, which TLC evaluates in every
run of the chat:

* `ConnsAssumption`, `LimitAssumption`, `FileConnsAssumption`: descriptors are a
  finite set of positive numbers, the limits are natural numbers.
* `BlockAssumption`: answers fit in a socket's buffer (section 2).
* `PersistedAssumption`: the file the first server finds has one line for a name,
  with a password: an earlier server wrote it.
* `ScriptsAssumption`: what `ScriptReader` lets through.  Only commands of the
  language, and a `REGISTER` or `LOGIN` with both of its arguments.

The invariant of the whole system is `SessionInv`, the conjunction of three, each
for a part of the state: `DeliveryInv` for the server's table and what is sent,
`AccountInv` for the accounts and the types, `ClientsOwn` for the clients.  The
proofs of the first two are about the server alone, up to what a client may do to
the connections they share.

**Table and delivery** (`ServerProofs`, `DeliveryProofs`).  A signed-out
user's connections may stay in the table under the old name, entries are used again without being cleared, handlers go on with an index
after a removal: the invariant `DeliveryInv` says what is left to rely on.

`Good(s, b, q)` is about the server's variables `s`, of which the entries up to `b`
may still be looked at.  Its parts, and what needs them:

* `LiveOpen`, the entries of the table are open connections, and `BacklogOK`, those
  in the accept queue are not open yet and wait once each: what is accepted is new.
* `Apart`, no connection is in two entries.  `RemoveConnection` leaves a copy of the
  last entry behind the end, so the last entry is compared only up to `nConns`.
* `Declared`, an entry marked UI or file has the type and the name that the command
  of its connection declared.  It is said of entries of *open* connections, since a
  stale entry may be written to in the same pass: then the `send` is on a closed
  descriptor, and the server ends.
* `OutFits`, a frame in a `SendStat` fits the connection: the rest of it is written
  in a later pass, when its sender may have gone.
* `Known`, each open connection has an entry; this is `NoneForgotten`.  A removal
  of an entry in the table keeps it, since what is overwritten is what is closed.
  A removal through a stale index behind the end drops the last entry, whatever the
  index; it happens only while the connection at that index is still open, and by
  `Apart` the entry there can then only be the copy of the last one.
* `Waiting`, only a UI or file connection has something left to write.  Without it,
  the second half of a pass, at an index that the first half has put behind the
  end, could find nothing left to send there, take that for a completed answer and
  drop the last entry for a connection that is closed already.
* `MailOK`, a message in a deque is meant for the user of the profile, and `NetOK`,
  which is `DeliveredToRecipients`.  For answers it needs that a connection of type
  `REG` is answered through the entry its command was read from: that holds for
  every handler but those of files, which answer after a removal.

`LastUsed` is `b`: `nConns`, but in the second half of a pass of the scan the index
the pass is at, which a removal in the first half may have put behind the end.
`AtOK` says where the loops are.  Every operator of `Server` has a lemma that it
keeps `Good` (`RemoveGood`, `SendGood`, `ResponseGood`, `FileLoopGood`, ...), every
action one that it keeps `ChatInv` (`PollInv`, `ScanReadInv`, ...).  `SendFileGood`
goes through the loop over the recipients, in which each may be removed: a fold
over the sequence of users, taken apart by an induction over its prefixes.

A client can disturb this only through the connections they share.  `Leaves` is all
it may do to them: what is open at the server stays open and keeps its command,
what waits to be accepted waits, nothing new is under way to a client.  Each of a
client's operations has a lemma that it `Leaves` the connections (`IssueLeaves`,
`SetupLeaves`, `DisconnectLeaves`, `ResponseLeaves`, `FrameLeaves`); `SetupSession`
builds its connections one after the other, and needs that as many are free
(`Room`, by cardinalities).  `DeliveryInductive` puts both together.

**Accounts and types** (`AccountProofs`).  `DataStore` has the facts about the store
under an arbitrary caller; here the callers are the handlers, which also read the
store between two calls, log a user out and in again in one step when a session is
taken over, and log out whoever a removed entry names, a stale one included.  The
invariant needs nothing of the table, so no entry that a handler finds, right or
wrong, can harm the accounts.  `Sound(s)` says that accounts, entries and connections
are typed, with one line and one profile for a name; `Keeps(s, t)` that `t` is sound,
that every registration of `s` is in it and that no client has lost a connection
(`Spares`).  It can be chained (`KeepsOn`), and each operator of `Server` has a lemma
with it.  Where only connections are touched there is the stronger `Trims`: users may
have signed out, or the process may have ended, and nothing else has happened to the
accounts.

**Refinement.**  `Maps(s, t)` is a step of `Accounts` or none, from the accounts that
the server's record `s` stands for to those of `t`.  What `Trims` does maps to
sign-outs (`TrimsMap`): since a handler removes one entry at most, or ends the
process, one abstract step is enough, and for a public file, whose loop may remove
several, the abstract sign-out takes a set of users.  A handler that has called the
data store then sends an answer, and that could be a second step: `PlainAnswer`
shows that it is none.  The connection of a command is of type `REG` and open, so
the answer is written whole or fails; either way the entry is removed, and removing
one of that type signs nobody out.  This is where `BlockAssumption` and `Good` are
needed.  `CheckMessageDeques` takes a message and sends it in one step.  If the send fails,
the user is signed out with the rest of the mailbox, which is the abstract sign-out
alone (`CollectMaps`, with `Sends`: whoever signs out is the user whose message was
taken).  `TakeOverMaps` is a login over an earlier session, which drops the mail of
that session.  `ServerStepMaps` and `RestartMaps` put the steps together.

**Clients** (`SessionProofs`).  `PrintsOwnMessages` is about what a client believes
of its connections, so it needs that these are what it takes them for.  `EntryOK`:
an entry in a client's table is of a connection that began with a command of the
entry's type, a login or a UI connection under a name that the client's own script
has given in a login already sent.  `MineOK` adds that no connection is in the table
twice, that the client is signed in under such a name, and the property itself;
`ClientsOwn`, that no connection is in two tables.  A frame on a UI connection is
for the user the connection was declared for, by `DeliveredToRecipients`
(`FrameOnEntry`); that user is one of the client's names, even where
`DisconnectFromServer` has left the connection to a later session.  On the way
through a handler this is `Own(x, b)`, which every operator of `Client` keeps:
`SetupSession` takes new connections, which were nobody's, and the other clients
keep what they have.  `Spares` is all that a step of the server must do for it.

**What ends the server** (end of `ServerProofs`).  `SendMsgNB` ends the process if
its descriptor is closed, so the question is which handler can reach a closed one
by an index that it held across a removal.  `RemoveSpares` is the heart: after *one*
removal of another entry, the index still leads to an open connection, if not always
to its own: the next entry's, or, at the end of the table, that of the copy that is
left behind the end.  So a handler that removes one entry at most goes on, a file to
one user (`SEND_FILE_TO`) included, even if its answer then goes to somebody else
(`StaleSender`).  Only the loop of a public file may remove more; `FileLoopOn` shows
by induction over the recipients that it takes two clients that have gone.  `LIST`
is the case of a literal that is freed, and the second half of a pass of the scan,
with its index behind the end, the third.  All other commands are in
`HandleKeepsUp`, and none that a script can contain is unknown to the server, so the
`exit` for an unknown one is not reached.

### What stays with TLC

* `OnceEachInOrder`, `ResponseToSender`, `SessionIsSignedIn`, `ServerStaysUp`,
  `LogoutFindsUser`.  Each fails for some
  scripts or faults (section 3), so none is a theorem of `Spec` for all constants;
  the runs show where they hold.  What is true without exception in their place is
  `DeliveredToRecipients` for `ResponseToSender` and `KnownEnds` for `ServerStaysUp`.
* Liveness: `RequestsEnd`, `WrittenIsReceived` and the liveness half of
  `ImplementsChannel`.  The provers have no means for fairness and `ENABLED` here.
* `ReadsByGrammar`, `CommandsSurvive`, `AnswersSurvive`, `FilesSurvive`: the script
  reader and the formats recur over a line or a list, and what a recursive definition
  computes for every input takes induction over data, which the provers lack.

## 5. Plan

Done: data store, abstract accounts, sockets, server with restarts, client, the
composition, the claims; framing, formats, files, scripts; the proofs of section 4.
Left:

1. A run with three clients and a public file, where connections are removed
   between two recipients, as far as its states can be explored.  `ServerEndsOnly`
   covers the case for the end of the process.
2. That a fixed field of a format is read as it was written, for every size.

**Not modelled.**  The log: no other part reads what it writes.  The programs under
`src/testfiles`.  Memory management, apart from the two places where a freed or
literal string ends the server.  Errors of the file system half way through a file.
`server_main reset` under a server that is running.
