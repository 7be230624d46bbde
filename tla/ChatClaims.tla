----------------------------- MODULE ChatClaims -----------------------------
(***************************************************************************)
(* What comments, messages and documents of the repository say of the      *)
(* program and the program does not do: each is refuted by a run of its    *)
(* own.  Two more runs refute ResponseToSender of GopherChat, which holds  *)
(* but for the answers to file commands, and SessionIsSignedIn, which      *)
(* holds in other runs.                                                    *)
(***************************************************************************)
EXTENDS GopherChat

\* client.cpp 430 logs "Disconnected from server" after a logout: a client
\* that is not signed in has no UI connection and no file connection
DisconnectedAfterLogout ==
    \A k \in Clients : client[k].loggedInUser = None =>
        \A j \in DOMAIN client[k].conns : client[k].conns[j].type = "REG"

\* socket_messenger.cpp 85 says the bytes sent so far are kept to "resume" when
\* the socket becomes writable: a frame that was begun is finished
FramesResume ==
    \A c \in Conns : \A j \in DOMAIN net[c].down : net[c].down[j] # Torn

\* client.cpp 345 tells the user who tries to sign in "Still waiting to get a
\* login confirmation.": a client that refuses a login for this reason has an
\* earlier one under way, which may still be confirmed
ConfirmationUnderWay ==
    \A k \in Clients :
        (client[k].unconfirmedLogin /\ client[k].loggedInUser = None) =>
            \E j \in DOMAIN client[k].conns : net[client[k].conns[j].id].cmd.op = "LOGIN"
=============================================================================
