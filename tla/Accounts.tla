------------------------------ MODULE Accounts ------------------------------
(***************************************************************************)
(* What the data store promises, without the file, the vectors and the     *)
(* searches through them: each user has at most one password, is online or *)
(* not, and has one first-in first-out mailbox while online.               *)
(***************************************************************************)
EXTENDS Naturals, Sequences

CONSTANTS Users, Passwords, Bodies, None

VARIABLES
    password,   \* password[u], or None for a user who is not registered
    online,     \* the set of signed-in users
    mail,       \* mail[u], the bodies waiting for u
    running

vars == <<password, online, mail, running>>

Init ==
    /\ password = [u \in Users |-> None]
    /\ online = {}
    /\ mail = [u \in Users |-> <<>>]
    /\ running = TRUE

\* A free name is taken once, with the password given first
SignUp(u, p) ==
    /\ running
    /\ password[u] = None
    /\ password' = [password EXCEPT ![u] = p]
    /\ UNCHANGED <<online, mail, running>>

\* Only a registered user who is not online comes online, with no mail
SignIn(u) ==
    /\ running
    /\ password[u] # None
    /\ u \notin online
    /\ online' = online \cup {u}
    /\ UNCHANGED <<password, mail, running>>

\* Users go offline, each with all of their mail
SignOut(us) ==
    /\ running
    /\ us # {}
    /\ us \subseteq online
    /\ online' = online \ us
    /\ mail' = [u \in Users |-> IF u \in us THEN <<>> ELSE mail[u]]
    /\ UNCHANGED <<password, running>>

\* A registered user signs in over an earlier session, whose mail is dropped
TakeOver(u) ==
    /\ running
    /\ u \in online
    /\ mail' = [mail EXCEPT ![u] = <<>>]
    /\ UNCHANGED <<password, online, running>>

\* A body goes to the mailboxes of some of the online users, in each of them
\* after everything that was there
Post(to, b) ==
    /\ running
    /\ to \subseteq online
    /\ mail' = [u \in Users |-> IF u \in to THEN Append(mail[u], b) ELSE mail[u]]
    /\ UNCHANGED <<password, online, running>>

\* Either one user, or everybody but one who is online
Deliver(b) ==
    \/ \E u \in online : Post({u}, b)
    \/ \E u \in online : Post(online \ {u}, b)

\* The oldest body leaves
Collect(u) ==
    /\ running
    /\ mail[u] # <<>>
    /\ mail' = [mail EXCEPT ![u] = Tail(@)]
    /\ UNCHANGED <<password, online, running>>

\* Passwords survive the process, sessions and mail do not
Shutdown ==
    /\ running
    /\ running' = FALSE
    /\ online' = {}
    /\ mail' = [u \in Users |-> <<>>]
    /\ UNCHANGED password

Boot ==
    /\ ~running
    /\ running' = TRUE
    /\ UNCHANGED <<password, online, mail>>

\* Nobody forgets one user: the registrations go all together, and only
\* while there is no server
Forget ==
    /\ ~running
    /\ password' = [u \in Users |-> None]
    /\ UNCHANGED <<online, mail, running>>

Next ==
    \/ \E u \in Users, p \in Passwords : SignUp(u, p)
    \/ \E u \in Users : SignIn(u) \/ TakeOver(u) \/ Collect(u)
    \/ \E us \in SUBSET online : SignOut(us)
    \/ \E b \in Bodies : Deliver(b)
    \/ Shutdown
    \/ Boot
    \/ Forget

Spec == Init /\ [][Next]_vars
=============================================================================
