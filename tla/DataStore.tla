----------------------------- MODULE DataStore -----------------------------
(***************************************************************************)
(* The server's data store as a component of its own, called by an         *)
(* arbitrary client one method at a time: the registrar file, which        *)
(* outlives the process, and the vector of profiles, each with the deque   *)
(* of the messages waiting for its user's UI connection, which does not.   *)
(***************************************************************************)
EXTENDS DataStoreOps

CONSTANTS
    Users,      \* usernames
    Passwords,
    Bodies,     \* what a caller may ask to enqueue
    MaxQueue    \* bound on the length of a deque (the code has none)

ASSUME NoneAssumption == None \notin Bodies \cup Passwords
ASSUME MaxQueueAssumption == MaxQueue \in Nat

VARIABLES
    registrar,  \* the lines of the registrar file
    profiles,   \* std::vector<Profile>
    running,    \* is there a server process?
    result      \* what the last call returned

dsVars == <<registrar, profiles, running, result>>

-----------------------------------------------------------------------------
DSInit ==
    /\ registrar = <<>>
    /\ profiles = <<>>
    /\ running = TRUE
    /\ result = None

Register(u, p) ==
    /\ running
    /\ registrar' = AfterRegister(registrar, u, p)
    /\ result' = RegisterStatus(registrar, u)
    /\ UNCHANGED <<profiles, running>>

Login(u, p) ==
    /\ running
    /\ profiles' = AfterLogin(registrar, profiles, u, p)
    /\ result' = LoginStatus(registrar, profiles, u, p)
    /\ UNCHANGED <<registrar, running>>

Logout(u) ==
    /\ running
    /\ profiles' = AfterLogout(profiles, u)
    /\ result' = LogoutStatus(profiles, u)
    /\ UNCHANGED <<registrar, running>>

Enqueue(u, b) ==
    /\ running
    /\ Len(MessagesOf(profiles, u)) < MaxQueue
    /\ profiles' = AfterEnqueue(profiles, u, b)
    /\ result' = EnqueueStatus(registrar, profiles, u)
    /\ UNCHANGED <<registrar, running>>

\* Its callers have found the sender signed in (server.cpp 459 and 491)
EnqueueAllExcept(u, b) ==
    /\ running
    /\ IsLoggedIn(profiles, u)
    /\ \A i \in DOMAIN profiles : Len(profiles[i].messages) < MaxQueue
    /\ profiles' = AfterEnqueueAllExcept(profiles, u, b)
    /\ result' = EnqueueAllStatus(profiles)
    /\ UNCHANGED <<registrar, running>>

Dequeue(u) ==
    /\ running
    /\ profiles' = AfterDequeue(profiles, u)
    /\ result' = DequeueBody(profiles, u)
    /\ UNCHANGED <<registrar, running>>

\* The process ends: every line of the registrar was flushed by std::endl,
\* the profiles were only in memory
Stop ==
    /\ running
    /\ running' = FALSE
    /\ profiles' = <<>>
    /\ result' = None
    /\ UNCHANGED registrar

Start ==
    /\ ~running
    /\ running' = TRUE
    /\ UNCHANGED <<registrar, profiles, result>>

\* server_main.cpp run with the argument reset while no server is running
Reset ==
    /\ ~running
    /\ registrar' = <<>>
    /\ UNCHANGED <<profiles, running, result>>

DSNext ==
    \/ \E u \in Users, p \in Passwords : Register(u, p) \/ Login(u, p)
    \/ \E u \in Users : Logout(u) \/ Dequeue(u)
    \/ \E u \in Users, b \in Bodies : Enqueue(u, b) \/ EnqueueAllExcept(u, b)
    \/ Stop
    \/ Start
    \/ Reset

DSSpec == DSInit /\ [][DSNext]_dsVars

-----------------------------------------------------------------------------
(* Properties *)

Statuses == {"OK", "FAILURE", "LOGGED_IN", "LOGGED_OUT",
             "QUEUED", "NOT_IN", "UNREGISTERED", "ALONE"}

\* Every field holds what its C++ type and its writers allow
DSTypeOK ==
    /\ registrar \in Seq([user : Users, pwd : Passwords])
    /\ profiles \in Seq([user : Users, messages : Seq(Bodies)])
    /\ \A i \in DOMAIN profiles : Len(profiles[i].messages) <= MaxQueue
    /\ running \in BOOLEAN
    /\ result \in Statuses \cup Bodies \cup {None}

\* A user has one profile however logins and logouts follow one another:
\* FindIndexOf stops at the first, so a second one would keep a user signed
\* in after Logout and hold messages nobody dequeues
UniqueProfiles ==
    \A i, j \in DOMAIN profiles : profiles[i].user = profiles[j].user => i = j

\* The registrar has one line for each name: GetUser stops at the first, so
\* the password of a second one could never be used
UniqueEntries ==
    \A i, j \in DOMAIN registrar : registrar[i].user = registrar[j].user => i = j

\* Signed-in users are registered, across restarts and resets of the file:
\* Enqueue and SendFileToUser look in the profiles first and in the registrar
\* only to tell why they failed
SignedInAreRegistered ==
    \A i \in DOMAIN profiles : IsIn(registrar, profiles[i].user)

Abs == INSTANCE Accounts WITH
    password <- [u \in Users |-> PasswordOf(registrar, u)],
    online   <- {profiles[i].user : i \in DOMAIN profiles},
    mail     <- [u \in Users |-> MessagesOf(profiles, u)]

\* The file, the vector and the searches behave as one password, one online
\* flag and one first-in first-out mailbox for each user
ImplementsAccounts == Abs!Spec
=============================================================================
