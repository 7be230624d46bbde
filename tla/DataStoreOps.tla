---------------------------- MODULE DataStoreOps ----------------------------
(***************************************************************************)
(* The methods of the server's data store (src/app/server/data_store.cpp,  *)
(* registrar.hpp, profile.hpp) as operators on a registrar reg, the lines  *)
(* of the registrar file, and a vector ps of the profiles of the signed-in *)
(* users: XStatus is what method X returns and AfterX what it leaves.      *)
(***************************************************************************)
EXTENDS Null, Naturals, Sequences, SequencesExt

-----------------------------------------------------------------------------
(* Registrar *)

EntryOf(reg, u) == SelectInSeq(reg, LAMBDA e : e.user = u)

\* Registrar::IsIn
IsIn(reg, u) == EntryOf(reg, u) # 0

\* Registrar::GetUser, reduced to the only thing its caller looks at.  Each line has
\* a password; a line without one would end the process.
PasswordOf(reg, u) == IF IsIn(reg, u) THEN reg[EntryOf(reg, u)].pwd ELSE None

RegisterStatus(reg, u) == IF IsIn(reg, u) THEN "FAILURE" ELSE "OK"

\* Slip: only the very pair of name and password is looked up
AfterRegisterPair(reg, u, p) ==
    IF PasswordOf(reg, u) = p THEN reg ELSE Append(reg, [user |-> u, pwd |-> p])

AfterRegister(reg, u, p) ==
    IF IsIn(reg, u) THEN reg ELSE Append(reg, [user |-> u, pwd |-> p])

-----------------------------------------------------------------------------
(* Profiles *)

\* -1 of the code is 0 here
FindIndexOf(ps, u) == SelectInSeq(ps, LAMBDA p : p.user = u)

IsLoggedIn(ps, u) == FindIndexOf(ps, u) # 0

GetSignedInUsers(ps) == [i \in DOMAIN ps |-> ps[i].user]

\* Slip: the name is not looked up among the profiles
LoginStatusNoLookup(reg, ps, u, p) ==
    CASE ~IsIn(reg, u)                               -> "FAILURE"
      [] IsIn(reg, u) /\ PasswordOf(reg, u) # p      -> "LOGGED_OUT"
      [] IsIn(reg, u) /\ PasswordOf(reg, u) = p      -> "LOGGED_IN"

\* Slip: a name that is not in the registrar has nothing to compare with
LoginStatusNoEntry(reg, ps, u, p) ==
    CASE PasswordOf(reg, u) \notin {p, None}         -> "LOGGED_OUT"
      [] PasswordOf(reg, u) \in {p, None}
                      /\ IsLoggedIn(ps, u)           -> "OK"
      [] PasswordOf(reg, u) \in {p, None}
                      /\ ~IsLoggedIn(ps, u)          -> "LOGGED_IN"

LoginStatus(reg, ps, u, p) ==
    CASE ~IsIn(reg, u)                                    -> "FAILURE"
      [] IsIn(reg, u) /\ PasswordOf(reg, u) # p           -> "LOGGED_OUT"
      [] IsIn(reg, u) /\ PasswordOf(reg, u) = p
                      /\ IsLoggedIn(ps, u)                -> "OK"
      [] OTHER                                            -> "LOGGED_IN"

AfterLogin(reg, ps, u, p) ==
    IF LoginStatus(reg, ps, u, p) = "LOGGED_IN"
    THEN Append(ps, [user |-> u, messages |-> <<>>])
    ELSE ps

LogoutStatus(ps, u) == IF IsLoggedIn(ps, u) THEN "LOGGED_OUT" ELSE "OK"

AfterLogout(ps, u) ==
    IF IsLoggedIn(ps, u) THEN RemoveAt(ps, FindIndexOf(ps, u)) ELSE ps

\* 0, -1 and -2 of the code
EnqueueStatus(reg, ps, u) ==
    CASE IsLoggedIn(ps, u)                     -> "QUEUED"
      [] ~IsLoggedIn(ps, u) /\ IsIn(reg, u)    -> "NOT_IN"
      [] ~IsLoggedIn(ps, u) /\ ~IsIn(reg, u)   -> "UNREGISTERED"

\* Slip: the deque keeps the caller's body, which the caller deletes
\* (server.cpp 543), instead of a copy
AfterEnqueueNoCopy(ps, u, b) ==
    IF IsLoggedIn(ps, u)
    THEN [ps EXCEPT ![FindIndexOf(ps, u)].messages = Append(@, None)]
    ELSE ps

AfterEnqueue(ps, u, b) ==
    IF IsLoggedIn(ps, u)
    THEN [ps EXCEPT ![FindIndexOf(ps, u)].messages = Append(@, b)]
    ELSE ps

\* -1 and 0 of the code
EnqueueAllStatus(ps) == IF Len(ps) = 1 THEN "ALONE" ELSE "QUEUED"

\* Slip: nobody is left out
AfterEnqueueAll(ps, u, b) ==
    IF Len(ps) = 1
    THEN ps
    ELSE [i \in DOMAIN ps |-> [ps[i] EXCEPT !.messages = Append(@, b)]]

AfterEnqueueAllExcept(ps, u, b) ==
    IF Len(ps) = 1
    THEN ps
    ELSE [i \in DOMAIN ps |->
             IF ps[i].user = u
             THEN ps[i]
             ELSE [ps[i] EXCEPT !.messages = Append(@, b)]]

\* The deque of a user; empty for a user without a profile, for whom
\* Dequeue returns NULL just as it does for an empty deque
MessagesOf(ps, u) ==
    IF IsLoggedIn(ps, u) THEN ps[FindIndexOf(ps, u)].messages ELSE <<>>

DequeueBody(ps, u) ==
    IF MessagesOf(ps, u) = <<>> THEN None ELSE Head(MessagesOf(ps, u))

\* Slip: the youngest body is popped
AfterDequeueBack(ps, u) ==
    IF MessagesOf(ps, u) = <<>>
    THEN ps
    ELSE [ps EXCEPT ![FindIndexOf(ps, u)].messages = Front(@)]

AfterDequeue(ps, u) ==
    IF MessagesOf(ps, u) = <<>>
    THEN ps
    ELSE [ps EXCEPT ![FindIndexOf(ps, u)].messages = Tail(@)]

=============================================================================
