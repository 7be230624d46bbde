---------------------------- MODULE AccountProofs ----------------------------
(***************************************************************************)
(* What each operator of the server does to the accounts, the types of the *)
(* server's state and the connections of the clients: the accounts stay    *)
(* sound and the fields typed, a registration lasts, no operator takes     *)
(* from a client a connection that is open at it, and each step of the     *)
(* server is one of Accounts or leaves the accounts as they are.           *)
(***************************************************************************)
EXTENDS ServerProofs

-----------------------------------------------------------------------------
(* What is kept *)

RegistrarOK(reg) == reg \in Seq(Entries(Users, Pwds)) /\ NoTwoFor(reg)

ProfilesOK(ps) == ps \in Seq(Profiles(Users, Seq(UiMessages))) /\ NoTwoFor(ps)

AccountsOK(reg, ps) ==
    /\ RegistrarOK(reg)
    /\ ProfilesOK(ps)
    /\ \A u \in Online(ps) : IsIn(reg, u)

\* Who was registered still is, with the same password
Lasts(reg, new) ==
    \A u : IsIn(reg, u) => IsIn(new, u) /\ PasswordOf(new, u) = PasswordOf(reg, u)

SlotsOK(t) == TableShape(t) /\ \A i \in Slots : SlotOK(t[i])

NetTyped(n) == NetShape(n) /\ \A c \in Conns : ConnOK(n[c])

\* A connection stays a client's, and keeps the command the client has written
Spares(n, m) ==
    \A c \in Conns : n[c].cli => /\ m[c].cli /\ m[c].cmd = n[c].cmd
                                 /\ n[c].up # "none" => m[c].up # "none"

\* What the server may do to the connections
NetStep(n, m) == NetTyped(m) /\ Spares(n, m)

Sound(s) ==
    /\ DOMAIN s = Fields
    /\ AccountsOK(s.registrar, s.profiles)
    /\ SlotsOK(s.slots)
    /\ s.nConns \in Int /\ s.nConns <= MAX_CONCURRENCY_LIMIT
    /\ NetTyped(s.net)

\* What a handler may do from s to t
Keeps(s, t) == Sound(t) /\ Lasts(s.registrar, t.registrar) /\ Spares(s.net, t.net)

\* Users may have signed out, and the process may have ended: nothing else has
\* happened to the accounts
Trims(s, t) ==
    /\ Keeps(s, t)
    /\ t.registrar = s.registrar
    /\ Online(t.profiles) \subseteq Online(s.profiles)
    /\ \A u \in Online(t.profiles) : MessagesOf(t.profiles, u) = MessagesOf(s.profiles, u)
    /\ t.up = s.up \/ (~t.up /\ Online(t.profiles) = {})

\* A frame, or none
OutOK(f) == f = None \/ FrameOK(f)

-----------------------------------------------------------------------------
(* The data store *)

\* A sequence is one of elements of any set they are all in
LEMMA TypedSeq ==
    ASSUME NEW S, NEW q, IsSeq(q), \A i \in DOMAIN q : q[i] \in S
    PROVE  q \in Seq(S)
<1>1. Len(q) \in Nat /\ DOMAIN q = 1..Len(q) /\ q \in Seq(Range(q))
  BY SeqElements DEF IsSeq
<1>2. q \in [1..Len(q) -> Range(q)]
  BY <1>1, LenProperties
<1>3. q \in [1..Len(q) -> S]
  BY <1>1, <1>2
<1> QED
  BY <1>1, <1>3, SeqDef, Zenon

\* Registering adds a line for a new name only
LEMMA RegisterKeeps ==
    ASSUME NEW reg, NEW ps, AccountsOK(reg, ps), NEW u \in Users, NEW p \in Pwds
    PROVE  /\ AccountsOK(AfterRegister(reg, u, p), ps)
           /\ Lasts(reg, AfterRegister(reg, u, p))
           /\ \A v : PasswordOf(AfterRegister(reg, u, p), v) =
                         IF v = u /\ ~IsIn(reg, u) THEN p ELSE PasswordOf(reg, v)
<1> DEFINE new == AfterRegister(reg, u, p)
<1>1. CASE IsIn(reg, u)
  BY <1>1 DEF AfterRegister, Lasts
<1>2. CASE ~IsIn(reg, u)
  <2>1. reg \in Seq(Entries(Users, Pwds)) /\ NoTwoFor(reg)
    BY DEF AccountsOK, RegistrarOK
  <2>2. /\ new \in Seq(Entries(Users, Pwds)) /\ NoTwoFor(new)
        /\ \A v : PasswordOf(new, v) = IF v = u THEN p ELSE PasswordOf(reg, v)
    BY <1>2, <2>1, RegisterPasswords
  <2>3. new = Append(reg, [user |-> u, pwd |-> p])
    BY <1>2 DEF AfterRegister
  <2>4. IsSeq(reg) /\ Len(reg) \in Nat /\ DOMAIN reg = 1..Len(reg)
    BY <2>1, SeqIsSeq, SeqElements
  <2>5. Len(new) = Len(reg) + 1 /\ \A i \in 1..Len(reg) : new[i] = reg[i]
    BY <2>3, <2>4, SeqAppend
  <2> HIDE DEF new
  <2>6. Len(new) \in Nat /\ DOMAIN new = 1..Len(new)
    BY <2>2, LenProperties
  <2>7. ASSUME NEW v, IsIn(reg, v)
        PROVE  IsIn(new, v) /\ PasswordOf(new, v) = PasswordOf(reg, v)
    <3>1. PICK i \in DOMAIN reg : reg[i].user = v
      BY <2>1, <2>7, EntryExists
    <3>2. i \in DOMAIN new /\ new[i].user = v
      BY <2>4, <2>5, <2>6, <3>1
    <3>3. IsIn(new, v)
      BY <2>2, <3>2, EntryExists
    <3> QED
      BY <1>2, <2>2, <2>7, <3>3
  <2> QED
    BY <1>2, <2>2, <2>7 DEF AccountsOK, RegistrarOK, Lasts, new
<1> QED
  BY <1>1, <1>2

\* A user who signs in is registered and had no profile
LEMMA LoginKeeps ==
    ASSUME NEW reg, NEW ps, AccountsOK(reg, ps), NEW u, NEW p
    PROVE  /\ AccountsOK(reg, AfterLogin(reg, ps, u, p))
           /\ LoginStatus(reg, ps, u, p) # "LOGGED_IN" => AfterLogin(reg, ps, u, p) = ps
           /\ LoginStatus(reg, ps, u, p) = "LOGGED_IN" =>
                  /\ u \in Users /\ IsIn(reg, u) /\ u \notin Online(ps)
                  /\ Online(AfterLogin(reg, ps, u, p)) = Online(ps) \cup {u}
           /\ \A v : MessagesOf(AfterLogin(reg, ps, u, p), v) = MessagesOf(ps, v)
<1> DEFINE new == Append(ps, [user |-> u, messages |-> <<>>])
<1>1. CASE LoginStatus(reg, ps, u, p) # "LOGGED_IN"
  BY <1>1 DEF AfterLogin
<1>2. CASE LoginStatus(reg, ps, u, p) = "LOGGED_IN"
  <2>1. IsIn(reg, u) /\ ~IsLoggedIn(ps, u)
    BY <1>2 DEF LoginStatus
  <2>2. reg \in Seq(Entries(Users, Pwds)) /\ NoTwoFor(reg)
    BY DEF AccountsOK, RegistrarOK
  <2>3. PICK i \in DOMAIN reg : reg[i].user = u
    BY <2>1, <2>2, EntryExists
  <2>4. reg[i] \in Entries(Users, Pwds)
    BY <2>2
  <2>5. u \in Users
    BY <2>3, <2>4 DEF Entries
  <2>6. ps \in Seq(Profiles(Users, Seq(UiMessages))) /\ NoTwoFor(ps)
    BY DEF AccountsOK, ProfilesOK
  <2>7. /\ new \in Seq(Profiles(Users, Seq(UiMessages))) /\ NoTwoFor(new)
        /\ Online(new) = Online(ps) \cup {u}
        /\ \A v : MessagesOf(new, v) = MessagesOf(ps, v)
    BY <2>1, <2>5, <2>6, LoginMessages
  <2>8. u \notin Online(ps)
    BY <2>1, <2>6, MessagesAre
  <2>9. AfterLogin(reg, ps, u, p) = new
    BY <1>2 DEF AfterLogin
  <2> HIDE DEF new
  <2> QED
    BY <1>2, <2>1, <2>5, <2>7, <2>8, <2>9 DEF AccountsOK, ProfilesOK
<1> QED
  BY <1>1, <1>2

\* A user who signs out leaves the others their profiles
LEMMA LogoutKeeps ==
    ASSUME NEW reg, NEW ps, AccountsOK(reg, ps), NEW u
    PROVE  /\ AccountsOK(reg, AfterLogout(ps, u))
           /\ Online(AfterLogout(ps, u)) = Online(ps) \ {u}
           /\ \A v : MessagesOf(AfterLogout(ps, u), v) =
                         IF v = u THEN <<>> ELSE MessagesOf(ps, v)
<1>1. ps \in Seq(Profiles(Users, Seq(UiMessages))) /\ NoTwoFor(ps)
  BY DEF AccountsOK, ProfilesOK
<1>2. /\ AfterLogout(ps, u) \in Seq(Profiles(Users, Seq(UiMessages)))
      /\ NoTwoFor(AfterLogout(ps, u))
  BY <1>1, LogoutProfiles
<1>3. /\ Online(AfterLogout(ps, u)) = Online(ps) \ {u}
      /\ \A v : MessagesOf(AfterLogout(ps, u), v) =
                    IF v = u THEN <<>> ELSE MessagesOf(ps, v)
  BY <1>1, LogoutMessages
<1> QED
  BY <1>2, <1>3 DEF AccountsOK, ProfilesOK

\* A deque that is replaced
LEMMA SetKeeps ==
    ASSUME NEW ps, ProfilesOK(ps), NEW u \in Online(ps), NEW q \in Seq(UiMessages)
    PROVE  LET new == [ps EXCEPT ![FindIndexOf(ps, u)].messages = q]
           IN  /\ ProfilesOK(new)
               /\ Online(new) = Online(ps)
               /\ \A v : MessagesOf(new, v) = IF v = u THEN q ELSE MessagesOf(ps, v)
<1> DEFINE k == FindIndexOf(ps, u)
           new == WithDeque(ps, k, q)
<1>1. ps \in Seq(Profiles(Users, Seq(UiMessages))) /\ NoTwoFor(ps)
  BY DEF ProfilesOK
<1>2. k \in DOMAIN ps /\ ps[k].user = u
  BY <1>1, ProfileExists, MessagesAre
<1> HIDE DEF k
<1>3. /\ new \in Seq(Profiles(Users, Seq(UiMessages)))
      /\ DOMAIN new = DOMAIN ps
      /\ \A i \in DOMAIN ps : new[i].user = ps[i].user
  BY <1>1, <1>2, SetDeque
<1>4. /\ Online(new) = Online(ps)
      /\ \A v : MessagesOf(new, v) = IF v = ps[k].user THEN q ELSE MessagesOf(ps, v)
  BY <1>1, <1>2, SetDequeMessages
<1>5. NoTwoFor(new)
  BY <1>1, <1>3, SameUsers
<1>6. new = [ps EXCEPT ![k].messages = q]
  BY DEF WithDeque
<1> HIDE DEF new
<1>7. /\ ProfilesOK(new)
      /\ Online(new) = Online(ps)
      /\ \A v : MessagesOf(new, v) = IF v = u THEN q ELSE MessagesOf(ps, v)
  BY <1>2, <1>3, <1>4, <1>5 DEF ProfilesOK
<1> QED
  BY <1>6, <1>7 DEF k

\* A user's deque is a sequence of messages
LEMMA MailTyped ==
    ASSUME NEW ps, ProfilesOK(ps), NEW u
    PROVE  /\ MessagesOf(ps, u) \in Seq(UiMessages)
           /\ IsLoggedIn(ps, u) <=> u \in Online(ps)
           /\ u \notin Online(ps) => MessagesOf(ps, u) = <<>>
<1>1. ps \in Seq(Profiles(Users, Seq(UiMessages))) /\ NoTwoFor(ps)
  BY DEF ProfilesOK
<1>2. /\ \A i \in DOMAIN ps : MessagesOf(ps, ps[i].user) = ps[i].messages
      /\ u \notin Online(ps) => MessagesOf(ps, u) = <<>>
      /\ IsLoggedIn(ps, u) <=> u \in Online(ps)
  BY <1>1, MessagesAre
<1>3. CASE u \in Online(ps)
  <2>1. PICK i \in DOMAIN ps : ps[i].user = u
    BY <1>3 DEF Online
  <2>2. ps[i] \in Profiles(Users, Seq(UiMessages))
    BY <1>1
  <2>3. ps[i].messages \in Seq(UiMessages)
    BY <2>2 DEF Profiles
  <2> QED
    BY <1>2, <2>1, <2>3
<1>4. CASE u \notin Online(ps)
  BY <1>2, <1>4, EmptySeq
<1> QED
  BY <1>2, <1>3, <1>4

\* A message is queued behind what waits for the user
LEMMA EnqueueKeeps ==
    ASSUME NEW reg, NEW ps, AccountsOK(reg, ps), NEW u, NEW m \in UiMessages
    PROVE  /\ AccountsOK(reg, AfterEnqueue(ps, u, m))
           /\ Online(AfterEnqueue(ps, u, m)) = Online(ps)
           /\ \A v : MessagesOf(AfterEnqueue(ps, u, m), v) =
                         IF v = u /\ u \in Online(ps) THEN Append(MessagesOf(ps, v), m)
                                                      ELSE MessagesOf(ps, v)
<1> DEFINE q == Append(MessagesOf(ps, u), m)
           k == FindIndexOf(ps, u)
           new == [ps EXCEPT ![k].messages = q]
<1>1. ProfilesOK(ps)
  BY DEF AccountsOK
<1>2. IsLoggedIn(ps, u) <=> u \in Online(ps)
  BY <1>1, MailTyped
<1>3. CASE u \notin Online(ps)
  BY <1>2, <1>3 DEF AfterEnqueue
<1>4. CASE u \in Online(ps)
  <2>1. q \in Seq(UiMessages)
    BY <1>1, MailTyped, AppendProperties
  <2>2. AfterEnqueue(ps, u, m) = new
    BY <1>2, <1>4 DEF AfterEnqueue, MessagesOf
  <2> HIDE DEF q
  <2>3. /\ ProfilesOK(new) /\ Online(new) = Online(ps)
        /\ \A v : MessagesOf(new, v) = IF v = u THEN q ELSE MessagesOf(ps, v)
    BY <1>1, <1>4, <2>1, SetKeeps
  <2> HIDE DEF new
  <2> QED
    BY <1>4, <2>2, <2>3 DEF AccountsOK, q
<1> QED
  BY <1>3, <1>4

\* A message is queued for everybody else, unless there is one user only
LEMMA EnqueueAllKeeps ==
    ASSUME NEW reg, NEW ps, AccountsOK(reg, ps), NEW u, NEW m \in UiMessages
    PROVE  /\ AccountsOK(reg, AfterEnqueueAllExcept(ps, u, m))
           /\ Len(ps) = 1 => AfterEnqueueAllExcept(ps, u, m) = ps
           /\ Online(AfterEnqueueAllExcept(ps, u, m)) = Online(ps)
           /\ Len(ps) # 1 => \A v : MessagesOf(AfterEnqueueAllExcept(ps, u, m), v) =
                                        IF v \in Online(ps) \ {u}
                                        THEN Append(MessagesOf(ps, v), m)
                                        ELSE MessagesOf(ps, v)
<1>1. CASE Len(ps) = 1
  BY <1>1 DEF AfterEnqueueAllExcept
<1>2. CASE Len(ps) # 1
  <2>1. ps \in Seq(Profiles(Users, Seq(UiMessages))) /\ NoTwoFor(ps)
    BY DEF AccountsOK, ProfilesOK
  <2> DEFINE new == AfterEnqueueAllExcept(ps, u, m)
  <2>2. /\ new \in Seq(Profiles(Users, Seq(UiMessages))) /\ NoTwoFor(new)
        /\ Online(new) = Online(ps)
        /\ \A v : MessagesOf(new, v) = IF v \in Online(ps) \ {u}
                                       THEN Append(MessagesOf(ps, v), m)
                                       ELSE MessagesOf(ps, v)
    BY <1>2, <2>1, EnqueueAllMessages
  <2> QED
    BY <1>2, <2>2 DEF AccountsOK, ProfilesOK
<1> QED
  BY <1>1, <1>2

\* The oldest message is taken
LEMMA DequeueKeeps ==
    ASSUME NEW reg, NEW ps, AccountsOK(reg, ps), NEW u
    PROVE  /\ AccountsOK(reg, AfterDequeue(ps, u))
           /\ MessagesOf(ps, u) = <<>> => AfterDequeue(ps, u) = ps
           /\ Online(AfterDequeue(ps, u)) = Online(ps)
           /\ \A v : MessagesOf(AfterDequeue(ps, u), v) =
                         IF v = u /\ MessagesOf(ps, u) # <<>> THEN Tail(MessagesOf(ps, v))
                                                              ELSE MessagesOf(ps, v)
           /\ OutOK(DequeueBody(ps, u))
<1> DEFINE q == Tail(MessagesOf(ps, u))
           k == FindIndexOf(ps, u)
           new == [ps EXCEPT ![k].messages = q]
<1>1. ProfilesOK(ps)
  BY DEF AccountsOK
<1>2. CASE MessagesOf(ps, u) = <<>>
  BY <1>2 DEF AfterDequeue, DequeueBody, OutOK
<1>3. CASE MessagesOf(ps, u) # <<>>
  <2>1. u \in Online(ps) /\ IsLoggedIn(ps, u)
    BY <1>1, <1>3, MailTyped
  <2>2. q \in Seq(UiMessages) /\ Head(MessagesOf(ps, u)) \in UiMessages
    BY <1>1, <1>3, MailTyped, HeadTailProperties
  <2>3. AfterDequeue(ps, u) = new
    BY <1>3, <2>1 DEF AfterDequeue, MessagesOf
  <2>4. OutOK(DequeueBody(ps, u))
    BY <1>3, <2>2 DEF DequeueBody, OutOK, FrameOK
  <2> HIDE DEF q
  <2>5. /\ ProfilesOK(new) /\ Online(new) = Online(ps)
        /\ \A v : MessagesOf(new, v) = IF v = u THEN q ELSE MessagesOf(ps, v)
    BY <1>1, <2>1, <2>2, SetKeeps
  <2> HIDE DEF new
  <2> QED
    BY <1>3, <2>3, <2>4, <2>5 DEF AccountsOK, q
<1> QED
  BY <1>2, <1>3

\* A new process has no profiles
LEMMA Nobody == ProfilesOK(<<>>) /\ Online(<<>>) = {}
<1>1. DOMAIN <<>> = {}
  OBVIOUS
<1> QED
  BY <1>1, EmptySeq DEF ProfilesOK, NoTwoFor, Online

-----------------------------------------------------------------------------
(* The connections *)

LEMMA SpareSame == \A n : NetTyped(n) => NetStep(n, n)
BY DEF NetStep, Spares

LEMMA SpareTwice == \A n, m, r : NetStep(n, m) /\ NetStep(m, r) => NetStep(n, r)
BY DEF NetStep, Spares

\* Nothing is on the way on a connection that nobody has
LEMMA ClosedOK == ConnOK(Closed) /\ DOMAIN Closed = {"cli", "srv", "cmd", "up", "down"}
<1>1. DOMAIN <<>> = {}
  OBVIOUS
<1> QED
  BY <1>1 DEF ConnOK, Closed

\* One connection changes
LEMMA NetSet ==
    ASSUME NEW n, NetTyped(n), NEW c \in Conns, NEW x,
           DOMAIN x = DOMAIN Closed, IsSeq(x.down), ConnOK(x)
    PROVE  /\ NetTyped([n EXCEPT ![c] = x])
           /\ [n EXCEPT ![c] = x][c] = x
           /\ \A d \in Conns : d # c => [n EXCEPT ![c] = x][d] = n[d]
<1> DEFINE m == [n EXCEPT ![c] = x]
<1>1. DOMAIN n = Conns
  BY DEF NetTyped, NetShape
<1>2. DOMAIN m = Conns /\ m[c] = x /\ \A d \in Conns : d # c => m[d] = n[d]
  BY <1>1
<1> HIDE DEF m
<1>3. \A d \in Conns : DOMAIN m[d] = DOMAIN Closed /\ IsSeq(m[d].down) /\ ConnOK(m[d])
  BY <1>2 DEF NetTyped, NetShape
<1>4. NetTyped(m)
  BY <1>2, <1>3 DEF NetTyped, NetShape
<1> QED
  BY <1>2, <1>4 DEF m

\* The server changes a connection, and leaves what is the client's
LEMMA NetUpdate ==
    ASSUME NEW n, NetTyped(n), NEW c \in Conns, NEW x,
           DOMAIN x = DOMAIN Closed, IsSeq(x.down), ConnOK(x),
           n[c].cli => x.cli /\ x.cmd = n[c].cmd /\ (n[c].up # "none" => x.up # "none")
    PROVE  NetStep(n, [n EXCEPT ![c] = x])
<1> DEFINE m == [n EXCEPT ![c] = x]
<1>1. NetTyped(m) /\ m[c] = x /\ \A d \in Conns : d # c => m[d] = n[d]
  BY NetSet
<1> HIDE DEF m
<1>2. Spares(n, m)
  BY <1>1 DEF Spares
<1> QED
  BY <1>1, <1>2 DEF NetStep, m

\* The fields of a connection
LEMMA ConnIs ==
    ASSUME NEW n, NetTyped(n), NEW c \in Conns
    PROVE  DOMAIN n[c] = DOMAIN Closed /\ IsSeq(n[c].down) /\ ConnOK(n[c])
BY DEF NetTyped, NetShape

\* The server's end changes
LEMMA SrvChanged ==
    ASSUME NEW n, NetTyped(n), NEW c \in Conns, NEW v \in {"closed", "backlog", "open"}
    PROVE  NetStep(n, [n EXCEPT ![c].srv = v])
<1> DEFINE x == [n[c] EXCEPT !.srv = v]
<1>1. DOMAIN n[c] = {"cli", "srv", "cmd", "up", "down"} /\ IsSeq(n[c].down) /\ ConnOK(n[c])
  BY ConnIs, ClosedOK
<1>2. /\ DOMAIN x = {"cli", "srv", "cmd", "up", "down"}
      /\ x.cli = n[c].cli /\ x.srv = v /\ x.cmd = n[c].cmd /\ x.up = n[c].up
      /\ x.down = n[c].down
  BY <1>1
<1>3. [n EXCEPT ![c].srv = v] = [n EXCEPT ![c] = x]
  OBVIOUS
<1> HIDE DEF x
<1>4. ConnOK(x)
  BY <1>1, <1>2 DEF ConnOK
<1>5. NetStep(n, [n EXCEPT ![c] = x])
  BY <1>1, <1>2, <1>4, NetUpdate, ClosedOK
<1> QED
  BY <1>3, <1>5

\* The server closes its end
LEMMA SrvCloses ==
    ASSUME NEW n, NetTyped(n), NEW c \in Conns
    PROVE  NetStep(n, CloseServer(n, c))
<1>1. CASE n[c].cli
  BY <1>1, SrvChanged DEF CloseServer
<1>2. CASE ~n[c].cli
  <2>1. IsSeq(Closed.down)
    BY EmptyIsSeq DEF Closed
  <2>2. NetStep(n, [n EXCEPT ![c] = Closed])
    BY <1>2, <2>1, ClosedOK, NetUpdate
  <2> QED
    BY <1>2, <2>2 DEF CloseServer
<1> QED
  BY <1>1, <1>2

\* The server has read the command
LEMMA SrvReads ==
    ASSUME NEW n, NetTyped(n), NEW c \in Conns, n[c].up # "none"
    PROVE  NetStep(n, [n EXCEPT ![c].up = "read"])
<1> DEFINE x == [n[c] EXCEPT !.up = "read"]
<1>1. DOMAIN n[c] = {"cli", "srv", "cmd", "up", "down"} /\ IsSeq(n[c].down) /\ ConnOK(n[c])
  BY ConnIs, ClosedOK
<1>2. /\ DOMAIN x = {"cli", "srv", "cmd", "up", "down"}
      /\ x.cli = n[c].cli /\ x.srv = n[c].srv /\ x.cmd = n[c].cmd /\ x.up = "read"
      /\ x.down = n[c].down
  BY <1>1
<1>3. [n EXCEPT ![c].up = "read"] = [n EXCEPT ![c] = x]
  OBVIOUS
<1> HIDE DEF x
<1>4. ConnOK(x)
  BY <1>1, <1>2 DEF ConnOK
<1>5. NetStep(n, [n EXCEPT ![c] = x])
  BY <1>1, <1>2, <1>4, NetUpdate, ClosedOK
<1> QED
  BY <1>3, <1>5

\* The server writes a frame
LEMMA SrvWrites ==
    ASSUME NEW n, NetTyped(n), NEW c \in Conns, NEW f, FrameOK(f)
    PROVE  NetStep(n, WriteDown(n, c, f))
<1> DEFINE q == Append(n[c].down, f)
           x == [n[c] EXCEPT !.down = q]
<1>1. DOMAIN n[c] = {"cli", "srv", "cmd", "up", "down"} /\ IsSeq(n[c].down) /\ ConnOK(n[c])
  BY ConnIs, ClosedOK
<1>2. /\ IsSeq(q) /\ Len(q) = Len(n[c].down) + 1
      /\ \A i \in 1..Len(n[c].down) : q[i] = n[c].down[i]
      /\ q[Len(n[c].down) + 1] = f
  BY <1>1, SeqAppend
<1> HIDE DEF q
<1>3. DOMAIN q = 1..Len(q) /\ DOMAIN n[c].down = 1..Len(n[c].down) /\ Len(n[c].down) \in Nat
  BY <1>1, <1>2, SeqElements
<1>4. \A i \in DOMAIN q : FrameOK(q[i])
  BY <1>1, <1>2, <1>3 DEF ConnOK
<1>5. /\ DOMAIN x = {"cli", "srv", "cmd", "up", "down"}
      /\ x.cli = n[c].cli /\ x.srv = n[c].srv /\ x.cmd = n[c].cmd /\ x.up = n[c].up
      /\ x.down = q
  BY <1>1
<1>6. WriteDown(n, c, f) = n \/ WriteDown(n, c, f) = [n EXCEPT ![c] = x]
  BY DEF WriteDown, q
<1> HIDE DEF x
<1>7. ConnOK(x)
  BY <1>1, <1>4, <1>5 DEF ConnOK
<1>8. NetStep(n, [n EXCEPT ![c] = x])
  BY <1>1, <1>2, <1>5, <1>7, NetUpdate, ClosedOK
<1> QED
  BY <1>6, <1>8, SpareSame

\* The process ends
LEMMA SrvEnds ==
    ASSUME NEW n, NetTyped(n)
    PROVE  NetStep(n, [c \in Conns |-> IF n[c].cli THEN [n[c] EXCEPT !.srv = "closed"]
                                                   ELSE Closed])
<1> DEFINE x(c) == [n[c] EXCEPT !.srv = "closed"]
           m == [c \in Conns |-> IF n[c].cli THEN x(c) ELSE Closed]
<1>1. ASSUME NEW c \in Conns
      PROVE  /\ DOMAIN x(c) = DOMAIN Closed /\ IsSeq(x(c).down) /\ ConnOK(x(c))
             /\ x(c).cli = n[c].cli /\ x(c).cmd = n[c].cmd /\ x(c).up = n[c].up
  <2>1. DOMAIN n[c] = {"cli", "srv", "cmd", "up", "down"} /\ IsSeq(n[c].down) /\ ConnOK(n[c])
    BY ConnIs, ClosedOK
  <2>2. /\ DOMAIN x(c) = {"cli", "srv", "cmd", "up", "down"}
        /\ x(c).cli = n[c].cli /\ x(c).srv = "closed" /\ x(c).cmd = n[c].cmd
        /\ x(c).up = n[c].up /\ x(c).down = n[c].down
    BY <2>1
  <2> HIDE DEF x
  <2>3. ConnOK(x(c))
    BY <2>1, <2>2 DEF ConnOK
  <2> QED
    BY <2>1, <2>2, <2>3, ClosedOK
<1>2. DOMAIN m = Conns /\ \A c \in Conns : m[c] = IF n[c].cli THEN x(c) ELSE Closed
  OBVIOUS
<1>3. IsSeq(Closed.down)
  BY EmptyIsSeq DEF Closed
<1>4. m = [c \in Conns |-> IF n[c].cli THEN [n[c] EXCEPT !.srv = "closed"] ELSE Closed]
  OBVIOUS
<1> HIDE DEF m, x
<1>5. NetTyped(m)
  <2>1. \A c \in Conns : DOMAIN m[c] = DOMAIN Closed /\ IsSeq(m[c].down) /\ ConnOK(m[c])
    BY <1>1, <1>2, <1>3, ClosedOK
  <2> QED
    BY <1>2, <2>1 DEF NetTyped, NetShape
<1>6. Spares(n, m)
  BY <1>1, <1>2 DEF Spares
<1>7. NetStep(n, m)
  BY <1>5, <1>6 DEF NetStep
<1> QED
  BY <1>4, <1>7

-----------------------------------------------------------------------------
(* The table *)

\* An entry is replaced
LEMMA SlotUpdate ==
    ASSUME NEW t, SlotsOK(t), NEW i \in Slots, NEW x, DOMAIN x = DOMAIN FreshSlot, SlotOK(x)
    PROVE  SlotsOK([t EXCEPT ![i] = x])
<1> DEFINE r == [t EXCEPT ![i] = x]
<1>1. DOMAIN r = Slots /\ r[i] = x /\ \A j \in Slots : j # i => r[j] = t[j]
  BY DEF SlotsOK, TableShape
<1> HIDE DEF r
<1>2. \A j \in Slots : DOMAIN r[j] = DOMAIN FreshSlot /\ SlotOK(r[j])
  BY <1>1 DEF SlotsOK, TableShape
<1>3. SlotsOK(r)
  BY <1>1, <1>2 DEF SlotsOK, TableShape
<1> QED
  BY <1>3 DEF r

\* A table of entries
LEMMA SlotsAre ==
    ASSUME NEW t, DOMAIN t = Slots,
           \A i \in Slots : DOMAIN t[i] = DOMAIN FreshSlot /\ SlotOK(t[i])
    PROVE  SlotsOK(t)
BY DEF SlotsOK, TableShape

LEMMA FreshIsOK == SlotOK(FreshSlot)
BY DEF SlotOK, FreshSlot

-----------------------------------------------------------------------------
(* The server's operators *)

\* One thing after another
LEMMA KeepsOn == \A s, t, x : Keeps(s, t) /\ Keeps(t, x) => Keeps(s, x)
BY DEF Keeps, Lasts, Spares

LEMMA TrimsOn == \A s, t, x : Trims(s, t) /\ Trims(t, x) => Trims(s, x)
<1> SUFFICES ASSUME NEW s, NEW t, NEW x, Trims(s, t), Trims(t, x)
             PROVE  Trims(s, x)
  OBVIOUS
<1>1. Keeps(s, x)
  BY KeepsOn DEF Trims
<1> QED
  BY <1>1 DEF Trims

\* Nothing has happened
LEMMA TrimsSame == \A s : Sound(s) => Trims(s, s) /\ Keeps(s, s)
BY SpareSame DEF Trims, Keeps, Lasts, Sound, NetStep

\* The registrar is as it was, and a profile may have gone
LEMMA TrimStep ==
    ASSUME NEW s, Sound(s), NEW t, DOMAIN t = Fields, t.registrar = s.registrar,
           SlotsOK(t.slots), t.nConns \in Int, t.nConns <= MAX_CONCURRENCY_LIMIT,
           NetStep(s.net, t.net),
           \/ t.up = s.up /\ t.profiles = s.profiles
           \/ t.up = s.up /\ \E u : t.profiles = AfterLogout(s.profiles, u)
           \/ ~t.up /\ t.profiles = <<>>
    PROVE  Trims(s, t)
<1> DEFINE reg == s.registrar
           ps == s.profiles
           new == t.profiles
<1>1. AccountsOK(reg, ps)
  BY DEF Sound
<1> HIDE DEF reg, ps, new
<1>2. /\ AccountsOK(reg, new)
      /\ Online(new) \subseteq Online(ps)
      /\ \A u \in Online(new) : MessagesOf(new, u) = MessagesOf(ps, u)
      /\ t.up = s.up \/ (~t.up /\ Online(new) = {})
  <2>1. CASE t.up = s.up /\ new = ps
    BY <1>1, <2>1
  <2>2. CASE t.up = s.up /\ \E u : new = AfterLogout(ps, u)
    <3>1. PICK u : new = AfterLogout(ps, u)
      BY <2>2
    <3>2. /\ AccountsOK(reg, new) /\ Online(new) = Online(ps) \ {u}
          /\ \A v : MessagesOf(new, v) = IF v = u THEN <<>> ELSE MessagesOf(ps, v)
      BY <1>1, <3>1, LogoutKeeps
    <3> QED
      BY <2>2, <3>2
  <2>3. CASE ~t.up /\ new = <<>>
    BY <1>1, <2>3, Nobody DEF AccountsOK
  <2> QED
    BY <2>1, <2>2, <2>3 DEF ps, new
<1>3. Keeps(s, t)
  BY <1>2 DEF Keeps, Sound, Lasts, NetStep, reg, new
<1> QED
  BY <1>2, <1>3 DEF Trims, ps, new

\* Only the accounts have changed
LEMMA StoreStep ==
    ASSUME NEW s, Sound(s), NEW t, DOMAIN t = Fields, t.slots = s.slots,
           t.nConns = s.nConns, t.net = s.net,
           AccountsOK(t.registrar, t.profiles), Lasts(s.registrar, t.registrar)
    PROVE  Keeps(s, t)
BY SpareSame DEF Keeps, Sound, NetStep

\* exit()
LEMMA ExitTrims ==
    ASSUME NEW s, Sound(s)
    PROVE  Trims(s, Exit(s)) /\ ~Exit(s).up
<1> DEFINE r == Exit(s)
           t == [i \in Slots |-> FreshSlot]
<1>1. DOMAIN s = Fields
  BY DEF Sound
<1>2. /\ DOMAIN r = Fields /\ r.registrar = s.registrar /\ r.profiles = <<>>
      /\ r.up = FALSE /\ r.nConns = 0 /\ r.slots = t
      /\ r.net = [c \in Conns |-> IF s.net[c].cli THEN [s.net[c] EXCEPT !.srv = "closed"]
                                                  ELSE Closed]
  BY <1>1 DEF Exit, Fields
<1>3. SlotsOK(t)
  BY FreshIsOK, SlotsAre
<1> HIDE DEF r, t
<1>4. NetStep(s.net, r.net)
  BY <1>2, SrvEnds DEF Sound
<1>5. 0 \in Int /\ 0 <= MAX_CONCURRENCY_LIMIT
  BY LimitAssumption
<1>6. Trims(s, r)
  BY <1>2, <1>3, <1>4, <1>5, TrimStep
<1> QED
  BY <1>2, <1>6 DEF r

\* A removal moves the entries behind it, and signs a user out at most
LEMMA RemoveTrims ==
    ASSUME NEW s, Sound(s), NEW i \in Slots
    PROVE  Trims(s, RemoveConnection(s, i))
<1> DEFINE r == RemoveConnection(s, i)
           c == s.slots[i].fd
           t == [j \in Slots |-> IF j \in i..(s.nConns - 1) THEN s.slots[j + 1] ELSE s.slots[j]]
<1>1. /\ DOMAIN s = Fields /\ SlotsOK(s.slots) /\ NetTyped(s.net)
      /\ s.nConns \in Int /\ s.nConns <= MAX_CONCURRENCY_LIMIT
  BY DEF Sound
<1>2. /\ DOMAIN r = Fields /\ r.registrar = s.registrar /\ r.up = s.up
      /\ r.profiles = s.profiles \/ r.profiles = AfterLogout(s.profiles, s.slots[i].user)
      /\ r.nConns = s.nConns - 1 /\ r.slots = t
      /\ r.net = IF Open(s.net, c) THEN CloseServer(s.net, c) ELSE s.net
  BY <1>1 DEF RemoveConnection, Fields
<1>3. SlotsOK(t)
  <2>1. \A j \in Slots : j \in i..(s.nConns - 1) => j + 1 \in Slots
    BY <1>1, LimitAssumption DEF Slots
  <2>2. \A j \in Slots : \E k \in Slots : t[j] = s.slots[k]
    BY <2>1
  <2>3. DOMAIN t = Slots
    OBVIOUS
  <2> HIDE DEF t
  <2> QED
    BY <1>1, <2>2, <2>3, SlotsAre DEF SlotsOK, TableShape
<1> HIDE DEF r, t, c
<1>4. NetStep(s.net, r.net)
  BY <1>1, <1>2, SrvCloses, SpareSame DEF Open
<1>5. r.nConns \in Int /\ r.nConns <= MAX_CONCURRENCY_LIMIT
  BY <1>1, <1>2, LimitAssumption
<1>6. r.profiles = s.profiles \/ \E u : r.profiles = AfterLogout(s.profiles, u)
  BY <1>2
<1>7. DOMAIN r = Fields /\ r.registrar = s.registrar /\ r.up = s.up /\ SlotsOK(r.slots)
  BY <1>2, <1>3
<1>8. Trims(s, r)
  BY <1>4, <1>5, <1>6, <1>7, TrimStep
<1> QED
  BY <1>8 DEF r

\* A frame is made ready
LEMMA BuildTrims ==
    ASSUME NEW s, Sound(s), NEW i \in Slots, NEW f, OutOK(f)
    PROVE  /\ Trims(s, BuildSendMsg(s, i, f))
           /\ BuildSendMsg(s, i, f).slots[i].out = f
           /\ BuildSendMsg(s, i, f).profiles = s.profiles
           /\ BuildSendMsg(s, i, f).up = s.up
<1> DEFINE r == BuildSendMsg(s, i, f)
           old == s.slots[i]
           x == [old EXCEPT !.out = f, !.begun = FALSE]
<1>1. DOMAIN s = Fields /\ SlotsOK(s.slots) /\ NetTyped(s.net)
  BY DEF Sound
<1>2. DOMAIN old = DOMAIN FreshSlot /\ SlotOK(old) /\ DOMAIN s.slots = Slots
  BY <1>1 DEF SlotsOK, TableShape
<1>3. DOMAIN x = DOMAIN FreshSlot /\ SlotOK(x) /\ x.out = f
  BY <1>2, Shapes DEF SlotOK, OutOK
<1>4. /\ DOMAIN r = Fields /\ r.registrar = s.registrar /\ r.up = s.up
      /\ r.profiles = s.profiles /\ r.nConns = s.nConns
      /\ r.slots = [s.slots EXCEPT ![i] = x]
      /\ r.net = IF old.begun /\ Open(s.net, old.fd) THEN WriteDown(s.net, old.fd, Torn)
                                                     ELSE s.net
  BY <1>1 DEF BuildSendMsg, Fields
<1> HIDE DEF r, x, old
<1>5. SlotsOK(r.slots) /\ r.slots[i].out = f
  BY <1>1, <1>2, <1>3, <1>4, SlotUpdate
<1>6. NetStep(s.net, r.net)
  BY <1>1, <1>4, SrvWrites, SpareSame DEF Open, FrameOK
<1>7. Trims(s, r)
  BY <1>4, <1>5, <1>6, TrimStep DEF Sound
<1> QED
  BY <1>4, <1>5, <1>7 DEF r

\* An entry of the table and nothing else changes
LEMMA EntryTrims ==
    ASSUME NEW s, Sound(s), NEW i \in Slots, NEW x, DOMAIN x = DOMAIN FreshSlot, SlotOK(x)
    PROVE  Trims(s, [s EXCEPT !.slots = [s.slots EXCEPT ![i] = x]])
<1> DEFINE r == [s EXCEPT !.slots = [s.slots EXCEPT ![i] = x]]
<1>1. DOMAIN s = Fields /\ SlotsOK(s.slots) /\ NetTyped(s.net)
  BY DEF Sound
<1>2. /\ DOMAIN r = Fields /\ r.registrar = s.registrar /\ r.up = s.up /\ r.net = s.net
      /\ r.profiles = s.profiles /\ r.nConns = s.nConns
      /\ r.slots = [s.slots EXCEPT ![i] = x]
  BY <1>1 DEF Fields
<1> HIDE DEF r
<1>3. SlotsOK(r.slots) /\ NetStep(s.net, r.net)
  BY <1>1, <1>2, SlotUpdate, SpareSame
<1>4. Trims(s, r)
  BY <1>2, <1>3, TrimStep DEF Sound
<1> QED
  BY <1>4 DEF r

\* All of a frame has been sent
LEMMA CompletedTrims ==
    ASSUME NEW s, Sound(s), NEW i \in Slots
    PROVE  Trims(s, SendCompleted(s, i))
<1> DEFINE idle == [s EXCEPT !.slots[i].out = None, !.slots[i].begun = FALSE,
                             !.slots[i].wantWr = FALSE]
           quiet == [idle EXCEPT !.slots[i].active = FALSE]
           x == [s.slots[i] EXCEPT !.out = None, !.begun = FALSE, !.wantWr = FALSE]
           y == [x EXCEPT !.active = FALSE]
<1>1. DOMAIN s = Fields /\ SlotsOK(s.slots)
  BY DEF Sound
<1>2. DOMAIN s.slots[i] = DOMAIN FreshSlot /\ SlotOK(s.slots[i]) /\ DOMAIN s.slots = Slots
  BY <1>1 DEF SlotsOK, TableShape
<1>3. DOMAIN x = DOMAIN FreshSlot /\ SlotOK(x)
  BY <1>2, Shapes DEF SlotOK
<1>4. idle = [s EXCEPT !.slots = [s.slots EXCEPT ![i] = x]]
  BY <1>1, <1>2 DEF Fields
<1>5. quiet = [idle EXCEPT !.slots = [idle.slots EXCEPT ![i] = y]]
  BY <1>1, <1>2 DEF Fields
<1> HIDE DEF x
<1>6. DOMAIN y = DOMAIN FreshSlot /\ SlotOK(y)
  BY <1>3, Shapes DEF SlotOK
<1> HIDE DEF idle, quiet, y
<1>7. Trims(s, idle)
  BY <1>3, <1>4, EntryTrims
<1>8. Sound(idle)
  BY <1>7 DEF Trims, Keeps
<1>9. Trims(idle, quiet) /\ Trims(idle, RemoveConnection(idle, i))
  BY <1>5, <1>6, <1>8, EntryTrims, RemoveTrims
<1>10. Trims(s, quiet) /\ Trims(s, RemoveConnection(idle, i))
  BY <1>7, <1>9, TrimsOn
<1> QED
  BY <1>10 DEF SendCompleted, idle, quiet

\* A frame that is sent, partly sent or not sent at all
LEMMA FrameTrims ==
    ASSUME NEW s, Sound(s), NEW i \in Slots, FrameOK(s.slots[i].out), NEW o
    PROVE  Trims(s, SendFrame(s, i, o))
<1> DEFINE x == s.slots[i]
           y == [x EXCEPT !.wantWr = TRUE, !.begun = TRUE]
           later == [s EXCEPT !.slots[i].wantWr = TRUE, !.slots[i].begun = TRUE]
           sent == [s EXCEPT !.net = WriteDown(@, x.fd, x.out)]
<1>1. DOMAIN s = Fields /\ SlotsOK(s.slots) /\ NetTyped(s.net)
  BY DEF Sound
<1>2. DOMAIN x = DOMAIN FreshSlot /\ SlotOK(x) /\ DOMAIN s.slots = Slots
  BY <1>1 DEF SlotsOK, TableShape
<1>3. DOMAIN y = DOMAIN FreshSlot /\ SlotOK(y)
  BY <1>2, Shapes DEF SlotOK
<1>4. later = [s EXCEPT !.slots = [s.slots EXCEPT ![i] = y]]
  BY <1>1, <1>2 DEF Fields
<1>5. FrameOK(x.out)
  OBVIOUS
<1>6. /\ DOMAIN sent = Fields /\ sent.registrar = s.registrar /\ sent.up = s.up
      /\ sent.profiles = s.profiles /\ sent.nConns = s.nConns /\ sent.slots = s.slots
      /\ sent.net = WriteDown(s.net, x.fd, x.out)
  BY <1>1 DEF Fields
<1> DEFINE done == SendCompleted(sent, i)
<1>7. \/ SendFrame(s, i, o) = Exit(s)
      \/ SendFrame(s, i, o) = RemoveConnection(s, i)
      \/ SendFrame(s, i, o) = later
      \/ Open(s.net, x.fd) /\ SendFrame(s, i, o) = done
  BY DEF SendFrame
<1> HIDE DEF y, later, sent, x
<1>8. Trims(s, later)
  BY <1>3, <1>4, EntryTrims
<1>9. ASSUME Open(s.net, x.fd)
      PROVE  Trims(s, done)
  <2>1. NetStep(s.net, sent.net)
    BY <1>1, <1>5, <1>6, <1>9, SrvWrites DEF Open
  <2>2. Trims(s, sent)
    BY <1>1, <1>6, <2>1, TrimStep DEF Sound
  <2>3. Trims(sent, done)
    BY <2>2, CompletedTrims DEF Trims, Keeps
  <2> QED
    BY <2>2, <2>3, TrimsOn
<1>10. Trims(s, Exit(s)) /\ Trims(s, RemoveConnection(s, i))
  BY ExitTrims, RemoveTrims
<1> HIDE DEF done
<1> QED
  BY <1>7, <1>8, <1>9, <1>10

LEMMA SendTrims ==
    ASSUME NEW s, Sound(s), NEW i \in Slots, NEW o
    PROVE  Trims(s, SendMessage(s, i, o))
<1>1. s.slots[i].out = None \/ FrameOK(s.slots[i].out)
  BY DEF Sound, SlotsOK, SlotOK
<1> QED
  BY <1>1, CompletedTrims, FrameTrims DEF SendMessage

\* An answer
LEMMA ResponseTrims ==
    ASSUME NEW s, Sound(s), NEW i \in Slots, NEW f, FrameOK(f), NEW o
    PROVE  Trims(s, SendResponse(s, i, f, o))
<1> DEFINE r == BuildSendMsg(s, i, f)
<1>1. Trims(s, r) /\ Sound(r) /\ FrameOK(r.slots[i].out)
  BY BuildTrims DEF OutOK, Trims, Keeps
<1>2. SendResponse(s, i, f, o) = SendFrame(r, i, o)
  BY DEF SendResponse
<1> QED
  BY <1>1, <1>2, FrameTrims, TrimsOn

-----------------------------------------------------------------------------
(* Handlers *)

\* The calls of the data store
LEMMA CallsKeep ==
    ASSUME NEW s, Sound(s)
    PROVE  /\ \A u, p : Keeps(s, Start(s, u, p))
           /\ \A u, m : m \in UiMessages => Keeps(s, Post(s, u, m))
           /\ \A u, m : m \in UiMessages => Keeps(s, PostAllExcept(s, u, m))
           /\ \A u : Keeps(s, [s EXCEPT !.profiles = AfterLogout(@, u)])
           /\ \A u \in Users, p \in Pwds :
                  Keeps(s, [s EXCEPT !.registrar = AfterRegister(@, u, p)])
<1> DEFINE reg == s.registrar
           ps == s.profiles
<1>1. DOMAIN s = Fields /\ AccountsOK(reg, ps)
  BY DEF Sound
<1>2. \A t : (/\ DOMAIN t = Fields /\ t.slots = s.slots /\ t.nConns = s.nConns
              /\ t.net = s.net /\ t.registrar = reg /\ AccountsOK(reg, t.profiles))
             => Keeps(s, t)
  BY StoreStep DEF Lasts
<1>3. ASSUME NEW u, NEW p
      PROVE  Keeps(s, Start(s, u, p))
  <2> DEFINE r == Start(s, u, p)
  <2>1. /\ DOMAIN r = Fields /\ r.registrar = reg /\ r.slots = s.slots
        /\ r.nConns = s.nConns /\ r.net = s.net
        /\ r.profiles = AfterLogin(reg, ps, u, p)
    BY <1>1 DEF Start, Fields
  <2> HIDE DEF r, reg, ps
  <2>2. AccountsOK(reg, r.profiles)
    BY <1>1, <2>1, LoginKeeps
  <2>3. Keeps(s, r)
    BY <1>2, <2>1, <2>2
  <2> QED
    BY <2>3 DEF r
<1>4. ASSUME NEW u, NEW m \in UiMessages
      PROVE  Keeps(s, Post(s, u, m))
  <2> DEFINE r == Post(s, u, m)
  <2>1. /\ DOMAIN r = Fields /\ r.registrar = reg /\ r.slots = s.slots
        /\ r.nConns = s.nConns /\ r.net = s.net
        /\ r.profiles = AfterEnqueue(ps, u, m)
    BY <1>1 DEF Post, Fields
  <2> HIDE DEF r, reg, ps
  <2>2. AccountsOK(reg, r.profiles)
    BY <1>1, <2>1, EnqueueKeeps
  <2>3. Keeps(s, r)
    BY <1>2, <2>1, <2>2
  <2> QED
    BY <2>3 DEF r
<1>5. ASSUME NEW u, NEW m \in UiMessages
      PROVE  Keeps(s, PostAllExcept(s, u, m))
  <2> DEFINE r == PostAllExcept(s, u, m)
  <2>1. /\ DOMAIN r = Fields /\ r.registrar = reg /\ r.slots = s.slots
        /\ r.nConns = s.nConns /\ r.net = s.net
        /\ r.profiles = AfterEnqueueAllExcept(ps, u, m)
    BY <1>1 DEF PostAllExcept, Fields
  <2> HIDE DEF r, reg, ps
  <2>2. AccountsOK(reg, r.profiles)
    BY <1>1, <2>1, EnqueueAllKeeps
  <2>3. Keeps(s, r)
    BY <1>2, <2>1, <2>2
  <2> QED
    BY <2>3 DEF r
<1>6. ASSUME NEW u
      PROVE  Keeps(s, [s EXCEPT !.profiles = AfterLogout(@, u)])
  <2> DEFINE r == [s EXCEPT !.profiles = AfterLogout(@, u)]
  <2>1. /\ DOMAIN r = Fields /\ r.registrar = reg /\ r.slots = s.slots
        /\ r.nConns = s.nConns /\ r.net = s.net
        /\ r.profiles = AfterLogout(ps, u)
    BY <1>1 DEF Fields
  <2> HIDE DEF r, reg, ps
  <2>2. AccountsOK(reg, r.profiles)
    BY <1>1, <2>1, LogoutKeeps
  <2>3. Keeps(s, r)
    BY <1>2, <2>1, <2>2
  <2> QED
    BY <2>3 DEF r
<1>7. ASSUME NEW u \in Users, NEW p \in Pwds
      PROVE  Keeps(s, [s EXCEPT !.registrar = AfterRegister(@, u, p)])
  <2> DEFINE r == [s EXCEPT !.registrar = AfterRegister(@, u, p)]
  <2>1. /\ DOMAIN r = Fields /\ r.registrar = AfterRegister(reg, u, p)
        /\ r.profiles = ps /\ r.slots = s.slots /\ r.nConns = s.nConns /\ r.net = s.net
    BY <1>1 DEF Fields
  <2> HIDE DEF r
  <2>2. AccountsOK(r.registrar, r.profiles) /\ Lasts(s.registrar, r.registrar)
    BY <1>1, <2>1, RegisterKeeps
  <2>3. Keeps(s, r)
    BY <2>1, <2>2, StoreStep
  <2> QED
    BY <2>3 DEF r
<1> QED
  BY <1>3, <1>4, <1>5, <1>6, <1>7

\* The frames that a command makes
LEMMA FramesTyped ==
    ASSUME NEW cmd, CmdOK(cmd)
    PROVE  /\ \A status, note : FrameOK(Response(status, note, cmd))
           /\ cmd.op \notin {"LOGIN", "REGISTER"} =>
                  /\ cmd.user \in Users
                  /\ \A u \in Users \cup {None} :
                         /\ Message("UI_MSG", VisibleName(cmd), cmd.user, u, cmd.id) \in UiMessages
                         /\ FrameOK(Message("FILE_MSG", cmd.user, cmd.user, u, cmd.id))
                  /\ Onboarding(cmd.user) \in UiMessages
<1>1. <<>> \in Ids
  BY DEF Ids
<1> QED
  BY <1>1 DEF CmdOK, FrameOK, Response, Message, VisibleName, UiMessages, FileMessages,
              Onboarding

\* What a handler has done, and an answer
LEMMA AnswerKeeps ==
    ASSUME NEW s, NEW t, Keeps(s, t), NEW i \in Slots, NEW o
    PROVE  \A f : FrameOK(f) => Keeps(s, SendResponse(t, i, f, o))
<1>1. Sound(t)
  BY DEF Keeps
<1>2. \A f : FrameOK(f) => Keeps(t, SendResponse(t, i, f, o))
  BY <1>1, ResponseTrims DEF Trims
<1> QED
  BY <1>2, KeepsOn

\* Registration, login with its takeover of a lost session, and logout
LEMMA AccountKeeps ==
    ASSUME NEW s, Sound(s), NEW i \in Slots, NEW cmd, CmdOK(cmd), NEW o
    PROVE  /\ cmd.op = "REGISTER" => Keeps(s, HandleRegister(s, i, cmd, o))
           /\ Keeps(s, HandleLogin(s, i, cmd, o))
           /\ Keeps(s, HandleLogout(s, i, cmd, o))
<1> DEFINE new == [s EXCEPT !.registrar = AfterRegister(@, cmd.name, cmd.pwd)]
           fresh == [s EXCEPT !.profiles = AfterLogout(@, cmd.name)]
           left == [s EXCEPT !.profiles = AfterLogout(@, cmd.user)]
<1>1. Keeps(s, fresh) /\ Keeps(s, left) /\ Keeps(s, s)
  BY CallsKeep, TrimsSame
<1>2. cmd.op = "REGISTER" => Keeps(s, new)
  BY CallsKeep DEF CmdOK
<1> HIDE DEF new, fresh, left
<1>3. /\ Keeps(s, Start(s, cmd.name, cmd.pwd))
      /\ Keeps(s, Start(fresh, cmd.name, cmd.pwd))
  <2>1. Keeps(fresh, Start(fresh, cmd.name, cmd.pwd))
    BY <1>1, CallsKeep DEF Keeps
  <2> QED
    BY <1>1, <2>1, CallsKeep, KeepsOn
<1>4. \A a, b : LET f == Response(a, b, cmd)
                IN  /\ cmd.op = "REGISTER" => Keeps(s, SendResponse(new, i, f, o))
                    /\ Keeps(s, SendResponse(left, i, f, o))
                    /\ Keeps(s, SendResponse(s, i, f, o))
                    /\ Keeps(s, SendResponse(Start(s, cmd.name, cmd.pwd), i, f, o))
                    /\ Keeps(s, SendResponse(Start(fresh, cmd.name, cmd.pwd), i, f, o))
  BY <1>1, <1>2, <1>3, AnswerKeeps, FramesTyped
<1>5. cmd.op = "REGISTER" => Keeps(s, HandleRegister(s, i, cmd, o))
  BY <1>4 DEF HandleRegister, new
<1>6. Keeps(s, HandleLogout(s, i, cmd, o))
  BY <1>4 DEF HandleLogout, left
<1>7. Keeps(s, HandleLogin(s, i, cmd, o))
  <2> DEFINE status == LoginStatus(s.registrar, s.profiles, cmd.name, cmd.pwd)
             taken == GetUiConn(s, cmd.name) # 0
  <2>1. CASE status = "OK" /\ taken
    BY <1>4, <2>1 DEF HandleLogin
  <2>2. CASE status = "OK" /\ ~taken
    BY <1>4, <2>2 DEF HandleLogin, fresh
  <2>3. CASE status # "OK"
    BY <1>4, <2>3 DEF HandleLogin
  <2> QED
    BY <2>1, <2>2, <2>3
<1> QED
  BY <1>5, <1>6, <1>7

\* Messages to all and to one
LEMMA PostsKeep ==
    ASSUME NEW s, Sound(s), NEW i \in Slots, NEW cmd, CmdOK(cmd), NEW o,
           cmd.op \notin {"LOGIN", "REGISTER"}
    PROVE  /\ Keeps(s, HandleSend(s, i, cmd, o))
           /\ Keeps(s, HandleSendTo(s, i, cmd, o))
<1> DEFINE M(u) == Message("UI_MSG", VisibleName(cmd), cmd.user, u, cmd.id)
           A(a, b) == Response(a, b, cmd)
<1>1. M(None) \in UiMessages /\ M(cmd.name) \in UiMessages
  BY FramesTyped DEF CmdOK
<1>2. \A a, b : FrameOK(A(a, b))
  BY FramesTyped
<1> HIDE DEF M, A
<1>3. /\ \A u : Keeps(s, Post(s, u, M(cmd.name)))
      /\ \A u : Keeps(s, PostAllExcept(s, u, M(None)))
      /\ Keeps(s, s)
  BY <1>1, CallsKeep, TrimsSame
<1>4. \A a, b, u :
          /\ Keeps(s, SendResponse(s, i, A(a, b), o))
          /\ Keeps(s, SendResponse(Post(s, u, M(cmd.name)), i, A(a, b), o))
          /\ Keeps(s, SendResponse(PostAllExcept(s, u, M(None)), i, A(a, b), o))
  BY <1>2, <1>3, AnswerKeeps
<1>5. Keeps(s, HandleSend(s, i, cmd, o))
  BY <1>4 DEF HandleSend, M, A
<1>6. Keeps(s, HandleSendTo(s, i, cmd, o))
  <2>1. CASE IsLoggedIn(s.profiles, cmd.user)
    <3> DEFINE result == EnqueueStatus(s.registrar, s.profiles, cmd.name)
    <3>1. HandleSendTo(s, i, cmd, o) =
              SendResponse(Post(s, cmd.name, M(cmd.name)), i,
                           A(IF result = "QUEUED" THEN "OK" ELSE "FAILURE", result), o)
      BY <2>1 DEF HandleSendTo, M, A
    <3> HIDE DEF result
    <3> QED
      BY <1>4, <3>1
  <2>2. CASE ~IsLoggedIn(s.profiles, cmd.user)
    BY <1>4, <2>2 DEF HandleSendTo, A
  <2> QED
    BY <2>1, <2>2
<1> QED
  BY <1>5, <1>6

\* A file goes to a connection of the table
LEMMA FileConnIsSlot ==
    ASSUME NEW s, Sound(s), NEW u, GetFileConn(s, u) # 0
    PROVE  GetFileConn(s, u) \in Slots
<1> DEFINE n == s.nConns
           t == Live(s)
           I == {i \in 1..Len(t) : t[i].user = u /\ t[i].type = "FIL" /\ ~t[i].active}
<1>1. n \in Int /\ n <= MAX_CONCURRENCY_LIMIT
  BY DEF Sound
<1>2. \A i \in 1..n : s.slots[i] \in {s.slots[j] : j \in 1..n}
  OBVIOUS
<1>3. Len(t) = IF 1 <= n THEN n - 1 + 1 ELSE 0
  BY <1>1, <1>2, SubSeqProperties DEF Live
<1> HIDE DEF n, t
<1>4. GetFileConn(s, u) = IF I # {} THEN Min(I) ELSE 0
  BY DEF GetFileConn, SelectInSeq, t
<1>5. I # {} /\ I \subseteq Nat
  BY <1>1, <1>3, <1>4
<1>6. Min(I) \in I
  BY <1>5, MinIsIn
<1>7. \A k \in 1..Len(t) : k \in Slots
  BY <1>1, <1>3, LimitAssumption DEF Slots
<1> QED
  BY <1>4, <1>5, <1>6, <1>7

\* A file to one recipient
LEMMA FileTrims ==
    ASSUME NEW s, Sound(s), NEW u, NEW f, FrameOK(f), NEW o
    PROVE  Trims(s, FileTo(s, u, f, o))
<1> DEFINE k == GetFileConn(s, u)
           r == BuildSendMsg(s, k, f)
<1>1. CASE k = 0
  BY <1>1, TrimsSame DEF FileTo
<1>2. CASE k # 0
  <2>1. k \in Slots
    BY <1>2, FileConnIsSlot
  <2> HIDE DEF k
  <2>2. Trims(s, r) /\ Sound(r)
    BY <2>1, BuildTrims DEF OutOK, Trims, Keeps
  <2>3. Trims(r, SendMessage(r, k, o))
    BY <2>1, <2>2, SendTrims
  <2>4. Trims(s, SendMessage(r, k, o))
    BY <2>2, <2>3, TrimsOn
  <2> QED
    BY <1>2, <2>4 DEF FileTo, k
<1> QED
  BY <1>1, <1>2

\* After each recipient of a public file
LEMMA FileLoopTrims ==
    ASSUME NEW s, Sound(s), NEW us, NEW cmd, FrameOK(PublicFile(cmd)), NEW o,
           NEW n \in Nat, NEW f, IsFileLoop(f, n, s, us, cmd, o)
    PROVE  Trims(s, f[1..n])
<1> DEFINE T == {k \in Nat : k <= n => Trims(s, f[1..k])}
<1>1. 0 \in T
  <2>1. 1..0 = {} /\ {} \in SUBSET (1..n)
    OBVIOUS
  <2>2. f[{}] = s
    BY <2>1 DEF IsFileLoop
  <2> QED
    BY <2>1, <2>2, TrimsSame
<1>2. ASSUME NEW k \in Nat, k \in T
      PROVE  k + 1 \in T
  <2> SUFFICES ASSUME k + 1 <= n
               PROVE  Trims(s, f[1..(k + 1)])
    OBVIOUS
  <2> DEFINE t == 1..(k + 1)
             x == f[1..k]
             v == us[k + 1]
  <2>1. Max(t) = k + 1
    BY MaxIs
  <2>2. t \in SUBSET (1..n) /\ t # {} /\ t \ {k + 1} = 1..k
    OBVIOUS
  <2>3. f[t] = NextRecipient(x, v, cmd, o)
    BY <2>1, <2>2 DEF IsFileLoop
  <2>4. Trims(s, x) /\ Sound(x)
    BY <1>2 DEF Trims, Keeps
  <2> HIDE DEF x, v, t
  <2>5. Trims(s, FileTo(x, v, PublicFile(cmd), o))
    BY <2>4, FileTrims, TrimsOn
  <2> QED
    BY <2>3, <2>4, <2>5 DEF NextRecipient, t
<1> HIDE DEF T
<1>3. Nat \subseteq T
  BY <1>1, <1>2, SetInduction
<1> QED
  BY <1>3 DEF T

\* Files to all and to one
LEMMA FilesTrim ==
    ASSUME NEW s, Sound(s), NEW i \in Slots, NEW cmd, CmdOK(cmd), NEW o,
           cmd.op \notin {"LOGIN", "REGISTER"}
    PROVE  /\ Trims(s, HandleSendFile(s, i, cmd, o))
           /\ Trims(s, HandleSendFileTo(s, i, cmd, o))
<1> DEFINE A(a, b) == Response(a, b, cmd)
<1>1. \A a, b : FrameOK(A(a, b))
  BY FramesTyped
<1> HIDE DEF A
<1>2. ASSUME NEW t, Trims(s, t)
      PROVE  \A a, b : Trims(s, SendResponse(t, i, A(a, b), o))
  <2>1. Sound(t)
    BY <1>2 DEF Trims, Keeps
  <2>2. \A a, b : Trims(t, SendResponse(t, i, A(a, b), o))
    BY <1>1, <2>1, ResponseTrims
  <2> QED
    BY <1>2, <2>2, TrimsOn
<1>3. Trims(s, s)
  BY TrimsSame
<1>4. Trims(s, HandleSendFile(s, i, cmd, o))
  <2> DEFINE us == GetSignedInUsers(s.profiles)
             n == Len(s.profiles)
             file == Message("FILE_MSG", cmd.user, cmd.user, None, cmd.id)
             sent == FoldLeft(LAMBDA x, u : IF x.up /\ u # cmd.user
                                            THEN FileTo(x, u, file, o) ELSE x, s, us)
             f == CHOOSE g : IsFileLoop(g, n, s, us, cmd, o)
  <2>1. n \in Nat /\ DOMAIN us = 1..n
    BY LenProperties DEF Sound, AccountsOK, ProfilesOK, GetSignedInUsers
  <2>2. IsFileLoop(f, n, s, us, cmd, o)
    BY <2>1, FileLoopExists
  <2>3. sent = f[1..n]
    BY <2>1 DEF FoldLeft, MapThenFoldSet, IsFileLoop, NextRecipient, PublicFile
  <2>4. FrameOK(PublicFile(cmd))
    BY FramesTyped DEF PublicFile
  <2> HIDE DEF f
  <2>5. Trims(s, sent)
    BY <2>1, <2>2, <2>3, <2>4, FileLoopTrims
  <2> HIDE DEF sent
  <2>6. \A a, b : /\ Trims(s, SendResponse(s, i, A(a, b), o))
                  /\ Trims(s, SendResponse(sent, i, A(a, b), o))
    BY <1>2, <1>3, <2>5
  <2> QED
    BY <2>5, <2>6 DEF HandleSendFile, StartFileToAllUsers, sent, A
<1>5. Trims(s, HandleSendFileTo(s, i, cmd, o))
  <2> DEFINE file == Message("FILE_MSG", cmd.user, cmd.user, cmd.name, cmd.id)
             sent == SendFileToUser(s, cmd, o)
  <2>1. FrameOK(file)
    BY FramesTyped DEF CmdOK
  <2>2. Trims(s, sent)
    BY <1>3, <2>1, FileTrims DEF SendFileToUser
  <2> HIDE DEF sent
  <2>3. \A a, b : /\ Trims(s, SendResponse(s, i, A(a, b), o))
                  /\ Trims(s, SendResponse(sent, i, A(a, b), o))
    BY <1>2, <1>3, <2>2
  <2>4. \E a, b : \/ HandleSendFileTo(s, i, cmd, o) = SendResponse(s, i, A(a, b), o)
                  \/ HandleSendFileTo(s, i, cmd, o) = SendResponse(sent, i, A(a, b), o)
                  \/ HandleSendFileTo(s, i, cmd, o) = sent
    BY DEF HandleSendFileTo, sent, A
  <2> QED
    BY <2>2, <2>3, <2>4
<1> QED
  BY <1>4, <1>5

\* The commands that set up a session
LEMMA DeclareKeeps ==
    ASSUME NEW s, Sound(s), NEW i \in Slots, NEW cmd, CmdOK(cmd),
           cmd.op \notin {"LOGIN", "REGISTER"}
    PROVE  Keeps(s, SetUiConn(s, i, cmd)) /\ Trims(s, SetFileConn(s, i, cmd))
<1> DEFINE ui == [s EXCEPT !.slots[i].user = cmd.user, !.slots[i].type = "UI"]
           file == [s EXCEPT !.slots[i].user = cmd.user, !.slots[i].type = "FIL"]
           x == [s.slots[i] EXCEPT !.user = cmd.user, !.type = "UI"]
           y == [s.slots[i] EXCEPT !.user = cmd.user, !.type = "FIL"]
<1>1. DOMAIN s = Fields /\ SlotsOK(s.slots)
  BY DEF Sound
<1>2. DOMAIN s.slots[i] = DOMAIN FreshSlot /\ SlotOK(s.slots[i]) /\ DOMAIN s.slots = Slots
  BY <1>1 DEF SlotsOK, TableShape
<1>3. cmd.user \in Users
  BY FramesTyped
<1>4. /\ DOMAIN x = DOMAIN FreshSlot /\ SlotOK(x)
      /\ DOMAIN y = DOMAIN FreshSlot /\ SlotOK(y)
  BY <1>2, <1>3, Shapes DEF SlotOK
<1>5. /\ ui = [s EXCEPT !.slots = [s.slots EXCEPT ![i] = x]]
      /\ file = [s EXCEPT !.slots = [s.slots EXCEPT ![i] = y]]
  BY <1>1, <1>2 DEF Fields
<1> HIDE DEF ui, file, x, y
<1>6. Trims(s, ui) /\ Trims(s, file) /\ Keeps(s, ui) /\ Sound(ui)
  BY <1>4, <1>5, EntryTrims DEF Trims, Keeps
<1>7. Keeps(s, Post(ui, cmd.user, Onboarding(cmd.user)))
  BY <1>6, FramesTyped, CallsKeep, KeepsOn
<1> QED
  BY <1>6, <1>7 DEF SetUiConn, SetFileConn, ui, file

\* The list of who is signed in
LEMMA ListTrims ==
    ASSUME NEW s, Sound(s), NEW i \in Slots, NEW cmd, CmdOK(cmd), NEW o
    PROVE  Trims(s, HandleList(s, i, cmd, o))
<1> DEFINE answered == SendResponse(s, i, Response("LISTT", "list", cmd), o)
<1>1. Trims(s, answered) /\ Sound(answered)
  BY FramesTyped, ResponseTrims DEF Trims, Keeps
<1> HIDE DEF answered
<1>2. Trims(s, Exit(answered))
  BY <1>1, ExitTrims, TrimsOn
<1> QED
  BY <1>1, <1>2 DEF HandleList, answered

\* Every command
LEMMA HandleKeeps ==
    ASSUME NEW s, Sound(s), NEW i \in Slots, NEW cmd, CmdOK(cmd), NEW o
    PROVE  Keeps(s, HandleReceivedCommand(s, i, cmd, o))
<1>1. /\ Keeps(s, HandleList(s, i, cmd, o)) /\ Keeps(s, s) /\ Keeps(s, Exit(s))
  BY ListTrims, ExitTrims, TrimsSame DEF Trims
<1>2. /\ cmd.op = "REGISTER" => Keeps(s, HandleRegister(s, i, cmd, o))
      /\ Keeps(s, HandleLogin(s, i, cmd, o)) /\ Keeps(s, HandleLogout(s, i, cmd, o))
  BY AccountKeeps
<1>3. cmd.op \notin {"LOGIN", "REGISTER"} =>
          /\ Keeps(s, HandleSend(s, i, cmd, o)) /\ Keeps(s, HandleSendTo(s, i, cmd, o))
          /\ Keeps(s, HandleSendFile(s, i, cmd, o))
          /\ Keeps(s, HandleSendFileTo(s, i, cmd, o))
          /\ Keeps(s, SetUiConn(s, i, cmd)) /\ Keeps(s, SetFileConn(s, i, cmd))
  BY PostsKeep, FilesTrim, DeclareKeeps DEF Trims
<1> QED
  BY <1>1, <1>2, <1>3 DEF HandleReceivedCommand

\* A command that is read
LEMMA ReadTrims ==
    ASSUME NEW s, Sound(s), NEW c, HasCommand(s.net, c)
    PROVE  /\ Trims(s, [s EXCEPT !.net[c].up = "read"])
           /\ CmdOK(s.net[c].cmd) /\ c \in Conns
<1> DEFINE r == [s EXCEPT !.net[c].up = "read"]
<1>1. DOMAIN s = Fields /\ NetTyped(s.net)
  BY DEF Sound
<1>2. c \in Conns /\ s.net[c].up = "sent" /\ s.net[c].up # "none"
  BY DEF HasCommand, Open
<1>3. CmdOK(s.net[c].cmd)
  BY <1>1, <1>2 DEF NetTyped, ConnOK
<1>4. /\ DOMAIN r = Fields /\ r.registrar = s.registrar /\ r.profiles = s.profiles
      /\ r.up = s.up /\ r.slots = s.slots /\ r.nConns = s.nConns
      /\ r.net = [s.net EXCEPT ![c].up = "read"]
  BY <1>1 DEF Fields
<1> HIDE DEF r
<1>5. NetStep(s.net, r.net)
  BY <1>1, <1>2, <1>4, SrvReads
<1>6. Trims(s, r)
  BY <1>4, <1>5, TrimStep DEF Sound
<1> QED
  BY <1>2, <1>3, <1>6 DEF r

\* A command that is read, the end of a stream, and a message taken from a deque
LEMMA PassKeeps ==
    ASSUME NEW s, Sound(s), NEW i \in Slots, NEW o
    PROVE  Keeps(s, RecvMessage(s, i, o)) /\ Keeps(s, DequeueFor(s, i, o))
<1>1. Keeps(s, RecvMessage(s, i, o))
  <2> DEFINE c == s.slots[i].fd
             r == [s EXCEPT !.net[c].up = "read"]
  <2>1. CASE HasCommand(s.net, c)
    <3>1. Keeps(s, r) /\ Sound(r) /\ CmdOK(s.net[c].cmd)
      BY <2>1, ReadTrims DEF Trims, Keeps
    <3>2. RecvMessage(s, i, o) = HandleReceivedCommand(r, i, s.net[c].cmd, o)
      BY <2>1 DEF RecvMessage
    <3> HIDE DEF r, c
    <3> QED
      BY <3>1, <3>2, HandleKeeps, KeepsOn
  <2>2. CASE ~HasCommand(s.net, c)
    BY <2>2, RemoveTrims DEF RecvMessage, Trims
  <2> QED
    BY <2>1, <2>2
<1>2. Keeps(s, DequeueFor(s, i, o))
  <2> DEFINE u == s.slots[i].user
             m == DequeueBody(s.profiles, u)
             g == BuildSendMsg(s, i, m)
             x == [g.slots[i] EXCEPT !.active = TRUE]
             a == [g EXCEPT !.slots = [g.slots EXCEPT ![i] = x]]
             r == [g EXCEPT !.slots[i].active = TRUE, !.profiles = AfterDequeue(@, u)]
  <2>1. OutOK(m)
    BY DequeueKeeps DEF Sound
  <2> HIDE DEF m, u
  <2>2. Keeps(s, g) /\ Sound(g) /\ DOMAIN g = Fields /\ SlotsOK(g.slots)
    BY <2>1, BuildTrims DEF Trims, Keeps, Sound
  <2> HIDE DEF g
  <2>3. DOMAIN g.slots[i] = DOMAIN FreshSlot /\ SlotOK(g.slots[i]) /\ DOMAIN g.slots = Slots
    BY <2>2 DEF SlotsOK, TableShape
  <2>4. DOMAIN x = DOMAIN FreshSlot /\ SlotOK(x)
    BY <2>3, Shapes DEF SlotOK
  <2>5. /\ DOMAIN a = Fields /\ a.registrar = g.registrar /\ a.profiles = g.profiles
        /\ a.net = g.net /\ a.nConns = g.nConns
        /\ a.slots = [g.slots EXCEPT ![i] = x]
    BY <2>2 DEF Fields
  <2>6. /\ DOMAIN r = Fields /\ r.registrar = g.registrar
        /\ r.profiles = AfterDequeue(g.profiles, u) /\ r.net = g.net
        /\ r.nConns = g.nConns /\ r.slots = [g.slots EXCEPT ![i] = x]
    BY <2>2, <2>3 DEF Fields
  <2> HIDE DEF x
  <2>7. Keeps(g, a) /\ Sound(a)
    BY <2>2, <2>4, EntryTrims DEF Trims, Keeps
  <2> HIDE DEF a, r
  <2>8. AccountsOK(r.registrar, r.profiles)
    BY <2>2, <2>6, DequeueKeeps DEF Sound
  <2>9. Keeps(a, r)
    BY <2>5, <2>6, <2>7, <2>8, StoreStep DEF Lasts
  <2>10. Keeps(s, r) /\ Sound(r)
    BY <2>2, <2>7, <2>9, KeepsOn DEF Keeps
  <2>11. Keeps(s, SendMessage(r, i, o))
    BY <2>10, SendTrims, KeepsOn DEF Trims
  <2> QED
    BY <2>11 DEF DequeueFor, r, g, m, u
<1> QED
  BY <1>1, <1>2

-----------------------------------------------------------------------------
(* The actions *)

\* The state of the server and its connections between two steps
AccountInv == Sound(Srv)

\* What a step of the server leaves: the accounts sound and typed, the
\* registrations as they are, the clients their connections
AccountStep == AccountInv' /\ Lasts(registrar, registrar') /\ Spares(net, net')

LEMMA SrvIs ==
    /\ DOMAIN Srv = Fields
    /\ Srv.slots = slots /\ Srv.nConns = nConns /\ Srv.registrar = registrar
    /\ Srv.profiles = profiles /\ Srv.net = net /\ Srv.up = TRUE
BY DEF Srv, Fields

\* The invariant speaks of these variables
LEMMA AccountVars ==
    AccountInv <=> /\ AccountsOK(registrar, profiles)
                   /\ SlotsOK(slots)
                   /\ nConns \in Int /\ nConns <= MAX_CONCURRENCY_LIMIT
                   /\ NetTyped(net)
BY SrvIs DEF AccountInv, Sound

\* Where the loops go next changes nothing
LEMMA LoopsKeep ==
    ASSUME NEW s, Keeps(Srv, s), NEW p, NEW i,
           Goto(s, p, i) \/ AfterDeque(s, i) \/ AfterSlot(s, i)
    PROVE  AccountStep
<1> DEFINE r == Settled(s)
           t == [j \in Slots |->
                    IF j <= s.nConns
                    THEN [s.slots[j] EXCEPT !.rd = FALSE, !.wr = FALSE]
                    ELSE [FreshSlot EXCEPT !.user = s.slots[j].user,
                                           !.active = s.slots[j].active]]
<1>1. Sound(s) /\ DOMAIN s = Fields /\ SlotsOK(s.slots)
  BY DEF Keeps, Sound
<1>2. /\ DOMAIN r = Fields /\ r.registrar = s.registrar /\ r.profiles = s.profiles
      /\ r.net = s.net /\ r.nConns = s.nConns /\ r.slots = t
  BY <1>1 DEF Settled, Fields
<1>3. SlotsOK(t)
  <2>1. ASSUME NEW j \in Slots
        PROVE  DOMAIN t[j] = DOMAIN FreshSlot /\ SlotOK(t[j])
    <3>1. DOMAIN s.slots[j] = DOMAIN FreshSlot /\ SlotOK(s.slots[j])
      BY <1>1 DEF SlotsOK, TableShape
    <3> DEFINE x == [s.slots[j] EXCEPT !.rd = FALSE, !.wr = FALSE]
               y == [FreshSlot EXCEPT !.user = s.slots[j].user,
                                      !.active = s.slots[j].active]
    <3>2. DOMAIN x = DOMAIN FreshSlot /\ SlotOK(x)
      BY <3>1, Shapes DEF SlotOK
    <3>3. DOMAIN y = DOMAIN FreshSlot /\ SlotOK(y)
      BY <3>1, Shapes DEF SlotOK, FreshSlot
    <3>4. t[j] = x \/ t[j] = y
      OBVIOUS
    <3> HIDE DEF x, y, t
    <3> QED
      BY <3>2, <3>3, <3>4
  <2>2. DOMAIN t = Slots
    OBVIOUS
  <2> HIDE DEF t
  <2> QED
    BY <2>1, <2>2, SlotsAre
<1> HIDE DEF r, t
<1>4. Sound(r)
  BY <1>1, <1>2, <1>3 DEF Sound
<1> DEFINE Becomes(x) == /\ registrar' = x.registrar /\ profiles' = x.profiles
                         /\ slots' = x.slots /\ nConns' = x.nConns /\ net' = x.net
<1>5. Becomes(s) \/ Becomes(r)
  <2>1. \A x, w, j : Goto(x, w, j) => Becomes(x)
    BY DEF Goto, Assign
  <2> HIDE DEF Becomes
  <2>2. \A x, j : AfterDeque(x, j) => Becomes(x)
    BY <2>1 DEF AfterDeque
  <2> QED
    BY <2>1, <2>2 DEF AfterSlot, r
<1>6. Lasts(registrar, s.registrar) /\ Spares(net, s.net)
  BY SrvIs DEF Keeps
<1>7. \E x : Becomes(x) /\ Sound(x) /\ Lasts(registrar, x.registrar) /\ Spares(net, x.net)
  BY <1>1, <1>2, <1>4, <1>5, <1>6
<1>8. AccountInv' <=> /\ AccountsOK(registrar', profiles')
                      /\ SlotsOK(slots')
                      /\ nConns' \in Int /\ nConns' <= MAX_CONCURRENCY_LIMIT
                      /\ NetTyped(net')
  BY DEF AccountInv, Sound, Srv, Fields
<1> QED
  BY <1>7, <1>8 DEF AccountStep, Sound

\* Where the scan and the deques are is in the table
LEMMA ScannedIsSlot ==
    ASSUME ChatInv
    PROVE  pc \in {"deques", "scan", "resume"} => scanned \in Slots
BY SrvIs, LimitAssumption DEF ChatInv, AtOK, Good, LastUsed, Slots

\* A connection is accepted
LEMMA AcceptKeeps ==
    ASSUME NEW s, Sound(s), NEW c \in Conns, s.nConns \in Nat,
           s.nConns < MAX_CONCURRENCY_LIMIT
    PROVE  Keeps(s, SetConn(s, c))
<1> DEFINE r == SetConn(s, c)
           i == s.nConns + 1
           old == s.slots[i]
           x == [FreshSlot EXCEPT !.fd = c, !.user = old.user, !.active = old.active]
<1>1. DOMAIN s = Fields /\ SlotsOK(s.slots) /\ NetTyped(s.net)
  BY DEF Sound
<1>2. i \in Slots /\ i \in Int /\ i <= MAX_CONCURRENCY_LIMIT
  BY LimitAssumption DEF Slots
<1>3. DOMAIN old = DOMAIN FreshSlot /\ SlotOK(old) /\ DOMAIN s.slots = Slots
  BY <1>1, <1>2 DEF SlotsOK, TableShape
<1>4. DOMAIN x = DOMAIN FreshSlot /\ SlotOK(x)
  BY <1>3, Shapes DEF SlotOK, FreshSlot
<1>5. /\ DOMAIN r = Fields /\ r.registrar = s.registrar /\ r.up = s.up
      /\ r.profiles = s.profiles /\ r.nConns = i
      /\ r.slots = [s.slots EXCEPT ![i] = x]
      /\ r.net = [s.net EXCEPT ![c].srv = "open"]
  BY <1>1 DEF SetConn, Fields
<1> HIDE DEF r, x, i
<1>6. SlotsOK(r.slots) /\ NetStep(s.net, r.net)
  <2>1. SlotsOK(r.slots)
    BY <1>1, <1>2, <1>4, <1>5, SlotUpdate
  <2>2. "open" \in {"closed", "backlog", "open"}
    OBVIOUS
  <2>3. NetStep(s.net, [s.net EXCEPT ![c].srv = "open"])
    BY <1>1, <2>2, SrvChanged
  <2> QED
    BY <1>5, <2>1, <2>3
<1>7. Trims(s, r)
  BY <1>2, <1>5, <1>6, TrimStep
<1> QED
  BY <1>7 DEF r, Trims

\* poll() marks entries
LEMMA MarksKeep ==
    ASSUME NEW s, Sound(s), NEW A, NEW B
    PROVE  Trims(s, [s EXCEPT !.slots = [i \in Slots |->
                        [@[i] EXCEPT !.rd = i \in A, !.wr = i \in B]]])
<1> DEFINE r == [s EXCEPT !.slots = [i \in Slots |->
                        [@[i] EXCEPT !.rd = i \in A, !.wr = i \in B]]]
           t == [i \in Slots |-> [s.slots[i] EXCEPT !.rd = i \in A, !.wr = i \in B]]
<1>1. DOMAIN s = Fields /\ SlotsOK(s.slots) /\ NetTyped(s.net)
  BY DEF Sound
<1>2. /\ DOMAIN r = Fields /\ r.registrar = s.registrar /\ r.up = s.up
      /\ r.profiles = s.profiles /\ r.nConns = s.nConns /\ r.net = s.net /\ r.slots = t
  BY <1>1 DEF Fields
<1>3. SlotsOK(t)
  <2>1. ASSUME NEW j \in Slots
        PROVE  DOMAIN t[j] = DOMAIN FreshSlot /\ SlotOK(t[j])
    <3>1. DOMAIN s.slots[j] = DOMAIN FreshSlot /\ SlotOK(s.slots[j])
      BY <1>1 DEF SlotsOK, TableShape
    <3>2. ASSUME NEW p \in BOOLEAN, NEW q \in BOOLEAN
          PROVE  LET x == [s.slots[j] EXCEPT !.rd = p, !.wr = q]
                 IN  DOMAIN x = DOMAIN FreshSlot /\ SlotOK(x)
      BY <3>1, Shapes DEF SlotOK
    <3>3. (j \in A) \in BOOLEAN /\ (j \in B) \in BOOLEAN
      OBVIOUS
    <3>4. t[j] = [s.slots[j] EXCEPT !.rd = j \in A, !.wr = j \in B]
      OBVIOUS
    <3> HIDE DEF t
    <3> QED
      BY <3>2, <3>3, <3>4, Zenon
  <2>2. DOMAIN t = Slots
    OBVIOUS
  <2> HIDE DEF t
  <2> QED
    BY <2>1, <2>2, SlotsAre
<1> HIDE DEF r, t
<1>4. Trims(s, r)
  BY <1>1, <1>2, <1>3, SpareSame, TrimStep DEF Sound
<1> QED
  BY <1>4 DEF r

\* The steps of the loops
LEMMA ServerStepKeeps ==
    ASSUME ChatInv, AccountInv, ServerStep
    PROVE  AccountStep
<1>1. Sound(Srv)
  BY DEF AccountInv
<1>2. CASE CheckMessageDeques
  <2>1. PICK o \in Outcomes : AfterDeque(DequeueFor(Srv, scanned, o), scanned)
    BY <1>2 DEF CheckMessageDeques
  <2>2. scanned \in Slots
    BY <1>2, ScannedIsSlot DEF CheckMessageDeques
  <2>3. Keeps(Srv, DequeueFor(Srv, scanned, o))
    BY <1>1, <2>2, PassKeeps
  <2> QED
    BY <2>1, <2>3, LoopsKeep
<1>3. CASE Poll
  <2>1. PICK late \in SUBSET Lags, drained \in SUBSET {i \in 1..nConns : slots[i].wantWr} :
            LET ready == {i \in 1..nConns : Readable(net, slots[i].fd)
                                               /\ slots[i].fd \notin late}
                marked == [Srv EXCEPT !.slots = [i \in Slots |->
                              [@[i] EXCEPT !.rd = i \in ready, !.wr = i \in drained]]]
                accepts == backlog # <<>> /\ HasRoom(nConns)
            IN  AfterSlot(IF accepts THEN SetConn(marked, Head(backlog)) ELSE marked, 0)
    BY <1>3 DEF Poll
  <2> DEFINE ready == {i \in 1..nConns : Readable(net, slots[i].fd)
                                            /\ slots[i].fd \notin late}
             marked == [Srv EXCEPT !.slots = [i \in Slots |->
                           [@[i] EXCEPT !.rd = i \in ready, !.wr = i \in drained]]]
             joined == SetConn(marked, Head(backlog))
  <2>2. \/ AfterSlot(marked, 0)
        \/ backlog # <<>> /\ HasRoom(nConns) /\ AfterSlot(joined, 0)
    BY <2>1
  <2>3. marked.nConns = nConns
    BY DEF Srv
  <2>4. Keeps(Srv, marked) /\ Sound(marked)
    <3> HIDE DEF ready
    <3>1. Trims(Srv, marked)
      BY <1>1, MarksKeep
    <3> HIDE DEF marked
    <3> QED
      BY <3>1 DEF Trims, Keeps
  <2> HIDE DEF marked
  <2>5. ASSUME backlog # <<>>, HasRoom(nConns)
        PROVE  Keeps(Srv, joined)
    <3>1. /\ BacklogOK(net, backlog) /\ nConns \in Nat
      BY SrvIs DEF ChatInv, Good
    <3>2. Head(backlog) \in Conns
      BY <2>5, <3>1, SeqTail DEF BacklogOK
    <3>3. Keeps(marked, joined)
      BY <2>3, <2>4, <2>5, <3>1, <3>2, AcceptKeeps DEF HasRoom
    <3> QED
      BY <2>4, <3>3, KeepsOn
  <2> HIDE DEF joined
  <2> QED
    BY <2>2, <2>4, <2>5, LoopsKeep
<1>4. CASE ScanRead
  <2>1. PICK o \in Outcomes :
            \/ Goto(RecvMessage(Srv, scanned, o), "resume", scanned)
            \/ AfterSlot(RecvMessage(Srv, scanned, o), scanned)
    BY <1>4 DEF ScanRead
  <2>2. scanned \in Slots
    BY <1>4, ScannedIsSlot DEF ScanRead
  <2>3. Keeps(Srv, RecvMessage(Srv, scanned, o))
    BY <1>1, <2>2, PassKeeps
  <2> QED
    BY <2>1, <2>3, LoopsKeep
<1>5. CASE ScanWrite
  <2>1. PICK o \in Outcomes : AfterSlot(SendMessage(Srv, scanned, o), scanned)
    BY <1>5 DEF ScanWrite
  <2>2. scanned \in Slots
    BY <1>5, ScannedIsSlot DEF ScanWrite
  <2>3. Keeps(Srv, SendMessage(Srv, scanned, o))
    BY <1>1, <2>2, SendTrims DEF Trims
  <2> QED
    BY <2>1, <2>3, LoopsKeep
<1> QED
  BY <1>2, <1>3, <1>4, <1>5 DEF ServerStep

\* The end of the process and the beginning of the next
LEMMA RestartKeeps ==
    ASSUME AccountInv, StopServer \/ StartServer
    PROVE  AccountStep
<1>1. CASE StopServer
  <2>1. Goto(Exit(Srv), "down", 0)
    BY <1>1 DEF StopServer
  <2>2. Keeps(Srv, Exit(Srv))
    BY ExitTrims DEF AccountInv, Trims
  <2> QED
    BY <2>1, <2>2, LoopsKeep
<1>2. CASE StartServer
  <2>1. UNCHANGED <<slots, nConns, registrar, profiles, net>>
    BY <1>2 DEF StartServer
  <2>2. AccountInv' <=> AccountInv
    BY <2>1 DEF AccountInv, Sound, Srv, Fields
  <2>3. NetStep(net, net)
    BY SpareSame, AccountVars
  <2> QED
    BY <2>1, <2>2, <2>3 DEF AccountStep, Lasts, NetStep
<1> QED
  BY <1>1, <1>2

\* The first server finds the file as it was left, and nobody is signed in
LEMMA AccountInit == Init => AccountInv
<1> SUFFICES ASSUME Init
             PROVE  AccountInv
  OBVIOUS
<1> DEFINE P == {Persisted[i].pwd : i \in DOMAIN Persisted}
<1>1. /\ registrar = Persisted /\ profiles = <<>> /\ nConns = 0
      /\ slots = [i \in Slots |-> FreshSlot]
      /\ net = [c \in Conns |-> Closed]
  BY DEF Init, SrvInit, NetInit
<1>2. Persisted \in Seq([user : Users, pwd : P]) /\ NoTwoFor(Persisted)
  BY PersistedAssumption DEF NoTwoFor
<1>3. RegistrarOK(Persisted)
  <2>1. \A i \in DOMAIN Persisted : Persisted[i].pwd \in Pwds
    BY PersistedAssumption DEF Pwds
  <2>5. IsSeq(Persisted) /\ DOMAIN Persisted = 1..Len(Persisted)
    BY <1>2, SeqIsSeq, SeqElements
  <2> HIDE DEF P
  <2>2. \A i \in DOMAIN Persisted : Persisted[i] \in [user : Users, pwd : P]
    BY <1>2, <2>5, ElementOfSeq
  <2>3. \A i \in DOMAIN Persisted : Persisted[i] \in Entries(Users, Pwds)
    BY <2>1, <2>2 DEF Entries
  <2>4. Persisted \in Seq(Entries(Users, Pwds))
    BY <1>2, <2>3, SeqIsSeq, TypedSeq
  <2> QED
    BY <1>2, <2>4 DEF RegistrarOK
<1>4. AccountsOK(registrar, profiles)
  BY <1>1, <1>3, Nobody DEF AccountsOK
<1>5. SlotsOK(slots)
  BY <1>1, FreshIsOK, SlotsAre
<1>6. NetTyped(net)
  <2>1. IsSeq(Closed.down)
    BY EmptyIsSeq DEF Closed
  <2> QED
    BY <1>1, <2>1, ClosedOK DEF NetTyped, NetShape
<1> QED
  BY <1>1, <1>4, <1>5, <1>6, AccountVars, LimitAssumption

-----------------------------------------------------------------------------
(* What the steps are to Accounts *)

\* The mapping of Abs, for a state of the server
Pw(s) == [u \in Users |-> PasswordOf(s.registrar, u)]
On(s) == Online(s.profiles)
Ml(s) == [u \in Users |-> MessageIds(MessagesOf(s.profiles, u))]

KeepsPasswords(s, t) == t.up /\ Pw(t) = Pw(s)
KeepsOnline(s, t) == KeepsPasswords(s, t) /\ On(t) = On(s)

\* Accounts.tla, from the server's state s to its state t
Maps(s, t) ==
    \/ KeepsOnline(s, t) /\ Ml(t) = Ml(s)
    \/ /\ t.up /\ On(t) = On(s) /\ Ml(t) = Ml(s)
       /\ \E u \in Users, p \in Pwds : Pw(s)[u] = None /\ Pw(t) = [Pw(s) EXCEPT ![u] = p]
    \/ /\ KeepsPasswords(s, t) /\ Ml(t) = Ml(s)
       /\ \E u \in Users : Pw(s)[u] # None /\ u \notin On(s) /\ On(t) = On(s) \cup {u}
    \/ /\ KeepsPasswords(s, t)
       /\ \E us \in SUBSET On(s) :
             /\ us # {} /\ On(t) = On(s) \ us
             /\ Ml(t) = [u \in Users |-> IF u \in us THEN <<>> ELSE Ml(s)[u]]
    \/ /\ KeepsOnline(s, t)
       /\ \E u \in Users \cap On(s) : Ml(t) = [Ml(s) EXCEPT ![u] = <<>>]
    \/ /\ KeepsOnline(s, t)
       /\ \E b \in Ids : \E u \in On(s) : \E to \in {{u}, On(s) \ {u}} :
             Ml(t) = [v \in Users |-> IF v \in to THEN Append(Ml(s)[v], b) ELSE Ml(s)[v]]
    \/ /\ KeepsOnline(s, t)
       /\ \E u \in Users : Ml(s)[u] # <<>> /\ Ml(t) = [Ml(s) EXCEPT ![u] = Tail(@)]
    \/ ~t.up /\ Pw(t) = Pw(s) /\ On(t) = {} /\ Ml(t) = [u \in Users |-> <<>>]

\* The bodies of a deque, in order
LEMMA IdsSeq ==
    ASSUME NEW ms \in Seq(UiMessages)
    PROVE  /\ MessageIds(ms) \in Seq(Ids) /\ Len(MessageIds(ms)) = Len(ms)
           /\ \A j \in 1..Len(ms) : MessageIds(ms)[j] = ms[j].id
           /\ Len(ms) \in Nat
<1> DEFINE n == Len(ms)
           q == [j \in 1..n |-> ms[j].id]
<1>1. n \in Nat /\ DOMAIN ms = 1..n
  BY LenProperties
<1>2. \A j \in 1..n : ms[j] \in UiMessages
  BY ElementOfSeq
<1>3. \A j \in 1..n : ms[j].id \in Ids
  BY <1>2 DEF UiMessages
<1>4. MessageIds(ms) = q
  BY <1>1 DEF MessageIds
<1> HIDE DEF n
<1>5. q \in [1..n -> Ids]
  BY <1>3
<1>6. q \in Seq(Ids)
  BY <1>1, <1>5, SeqDef
<1>7. DOMAIN q = 1..n /\ \A j \in 1..n : q[j] = ms[j].id
  OBVIOUS
<1> HIDE DEF q
<1>8. Len(q) = n
  BY <1>1, <1>6, <1>7, LenProperties
<1> QED
  BY <1>1, <1>4, <1>6, <1>7, <1>8 DEF n

LEMMA IdsAppend ==
    ASSUME NEW ms \in Seq(UiMessages), NEW m \in UiMessages
    PROVE  MessageIds(Append(ms, m)) = Append(MessageIds(ms), m.id) /\ m.id \in Ids
<1> DEFINE new == Append(ms, m)
           n == Len(ms)
           a == MessageIds(new)
           b == Append(MessageIds(ms), m.id)
<1>1. m.id \in Ids
  BY DEF UiMessages
<1>2. /\ new \in Seq(UiMessages) /\ Len(new) = n + 1
      /\ (\A j \in 1..n : new[j] = ms[j]) /\ new[n + 1] = m
  BY AppendProperties
<1>3. n \in Nat /\ MessageIds(ms) \in Seq(Ids) /\ Len(MessageIds(ms)) = n
      /\ \A j \in 1..n : MessageIds(ms)[j] = ms[j].id
  BY IdsSeq
<1> HIDE DEF new, n
<1>4. /\ a \in Seq(Ids) /\ Len(a) = n + 1
      /\ \A j \in 1..(n + 1) : a[j] = new[j].id
  BY <1>2, IdsSeq
<1>5. /\ b \in Seq(Ids) /\ Len(b) = n + 1
      /\ (\A j \in 1..n : b[j] = MessageIds(ms)[j]) /\ b[n + 1] = m.id
  BY <1>1, <1>3, AppendProperties
<1> HIDE DEF a, b
<1>6. \A j \in 1..(n + 1) : j = n + 1 \/ j \in 1..n
  BY <1>3
<1>7. \A j \in 1..(n + 1) : a[j] = b[j]
  BY <1>2, <1>3, <1>4, <1>5, <1>6
<1>8. a = b
  BY <1>4, <1>5, <1>7, SeqEqual
<1> QED
  BY <1>1, <1>8 DEF a, b, new

LEMMA IdsTail ==
    ASSUME NEW ms \in Seq(UiMessages), ms # <<>>
    PROVE  MessageIds(Tail(ms)) = Tail(MessageIds(ms)) /\ MessageIds(ms) # <<>>
<1> DEFINE new == Tail(ms)
           n == Len(ms)
           ids == MessageIds(ms)
           a == MessageIds(new)
           b == Tail(ids)
<1>1. /\ new \in Seq(UiMessages) /\ Len(new) = n - 1
      /\ \A j \in 1..Len(new) : new[j] = ms[j + 1]
  BY HeadTailProperties
<1>2. n \in Nat /\ n # 0
  BY EmptySeq, LenProperties
<1>3. ids \in Seq(Ids) /\ Len(ids) = n /\ \A j \in 1..n : ids[j] = ms[j].id
  BY IdsSeq
<1> HIDE DEF new, n, ids
<1>4. ids # <<>>
  BY <1>2, <1>3, EmptySeq
<1>5. /\ b \in Seq(Ids) /\ Len(b) = n - 1
      /\ \A j \in 1..Len(b) : b[j] = ids[j + 1]
  BY <1>3, <1>4, HeadTailProperties
<1>6. /\ a \in Seq(Ids) /\ Len(a) = n - 1
      /\ \A j \in 1..(n - 1) : a[j] = new[j].id
  BY <1>1, IdsSeq
<1> HIDE DEF a, b
<1>7. \A j \in 1..(n - 1) : j + 1 \in 1..n
  BY <1>2
<1>8. \A j \in 1..(n - 1) : a[j] = b[j]
  BY <1>1, <1>3, <1>5, <1>6, <1>7
<1>9. a = b
  BY <1>5, <1>6, <1>8, SeqEqual
<1> QED
  BY <1>4, <1>9 DEF a, b, new, ids

LEMMA IdsNone == MessageIds(<<>>) = <<>>
BY DEF MessageIds

\* What the mailboxes are made of
LEMMA Mailboxes ==
    ASSUME NEW s, Sound(s), NEW u
    PROVE  /\ MessagesOf(s.profiles, u) \in Seq(UiMessages)
           /\ IsLoggedIn(s.profiles, u) <=> u \in On(s)
           /\ u \notin On(s) => MessagesOf(s.profiles, u) = <<>>
BY MailTyped DEF Sound, AccountsOK, On

\* Users have signed out, or the process has ended
LEMMA TrimsMap ==
    ASSUME NEW s, NEW t, Sound(s), Trims(s, t), s.up
    PROVE  Maps(s, t)
<1> DEFINE us == On(s) \ On(t)
<1>1. Sound(t) /\ Pw(t) = Pw(s) /\ On(t) \subseteq On(s)
  BY DEF Trims, Keeps, Pw, On
<1>2. \A u : /\ u \in On(t) => MessagesOf(t.profiles, u) = MessagesOf(s.profiles, u)
             /\ u \notin On(t) => MessagesOf(t.profiles, u) = <<>>
             /\ u \notin On(s) => MessagesOf(s.profiles, u) = <<>>
  BY <1>1, Mailboxes DEF Trims, On
<1>3. t.up \/ (~t.up /\ On(t) = {})
  BY DEF Trims, On
<1>4. CASE ~t.up
  <2>1. On(t) = {} /\ Ml(t) = [u \in Users |-> <<>>]
    BY <1>2, <1>3, <1>4, IdsNone DEF Ml
  <2> QED
    BY <1>1, <1>4, <2>1 DEF Maps
<1>5. CASE t.up /\ us = {}
  <2>1. On(t) = On(s)
    BY <1>1, <1>5
  <2>2. Ml(t) = Ml(s)
    BY <1>2, <2>1 DEF Ml
  <2> QED
    BY <1>1, <1>5, <2>1, <2>2 DEF Maps, KeepsOnline, KeepsPasswords
<1>6. CASE t.up /\ us # {}
  <2>1. us \in SUBSET On(s) /\ On(t) = On(s) \ us
    BY <1>1
  <2>2. \A u : MessagesOf(t.profiles, u) = IF u \in us THEN <<>> ELSE MessagesOf(s.profiles, u)
    BY <1>2
  <2> HIDE DEF us
  <2>3. Ml(t) = [u \in Users |-> IF u \in us THEN <<>> ELSE Ml(s)[u]]
    BY <2>2, IdsNone DEF Ml
  <2> QED
    BY <1>1, <1>6, <2>1, <2>3 DEF Maps, KeepsPasswords
<1> QED
  BY <1>4, <1>5, <1>6

\* What sending does to the accounts: the user of a connection that fails signs
\* out, and a process that ends has no profiles
Sends(s, t, u) ==
    /\ t.registrar = s.registrar
    /\ \/ t.up = s.up /\ t.profiles = s.profiles
       \/ t.up = s.up /\ t.profiles = AfterLogout(s.profiles, u)
       \/ ~t.up /\ t.profiles = <<>>

LEMMA RemoveSends ==
    ASSUME NEW s, DOMAIN s = Fields, NEW i
    PROVE  /\ Sends(s, RemoveConnection(s, i), s.slots[i].user)
           /\ s.slots[i].type = "REG" => RemoveConnection(s, i).profiles = s.profiles
           /\ RemoveConnection(s, i).up = s.up
<1> DEFINE r == RemoveConnection(s, i)
           u == s.slots[i].user
<1>1. /\ r.registrar = s.registrar /\ r.up = s.up
      /\ r.profiles = IF IsUiConn(s, i) \/ IsFileConn(s, i) THEN AfterLogout(s.profiles, u)
                                                            ELSE s.profiles
  BY DEF RemoveConnection, Fields
<1> HIDE DEF r, u
<1>2. s.slots[i].type = "REG" => ~(IsUiConn(s, i) \/ IsFileConn(s, i))
  BY DEF IsUiConn, IsFileConn
<1>3. Sends(s, r, u) /\ (s.slots[i].type = "REG" => r.profiles = s.profiles)
  BY <1>1, <1>2 DEF Sends
<1> QED
  BY <1>1, <1>3 DEF r, u

LEMMA CompletedSends ==
    ASSUME NEW s, Sound(s), NEW i \in Slots
    PROVE  /\ Sends(s, SendCompleted(s, i), s.slots[i].user)
           /\ s.slots[i].type = "REG" => SendCompleted(s, i).profiles = s.profiles
           /\ SendCompleted(s, i).up = s.up
<1> DEFINE idle == [s EXCEPT !.slots[i].out = None, !.slots[i].begun = FALSE,
                             !.slots[i].wantWr = FALSE]
           quiet == [idle EXCEPT !.slots[i].active = FALSE]
           gone == RemoveConnection(idle, i)
           u == s.slots[i].user
<1>1. DOMAIN s = Fields /\ SlotsOK(s.slots)
  BY DEF Sound
<1>2. DOMAIN s.slots[i] = DOMAIN FreshSlot /\ DOMAIN s.slots = Slots
  BY <1>1 DEF SlotsOK, TableShape
<1>3. /\ DOMAIN idle = Fields /\ idle.registrar = s.registrar /\ idle.up = s.up
      /\ idle.profiles = s.profiles
  BY <1>1 DEF Fields
<1>4. quiet.registrar = s.registrar /\ quiet.up = s.up /\ quiet.profiles = s.profiles
  BY <1>1 DEF Fields
<1>5. idle.slots[i].user = u /\ idle.slots[i].type = s.slots[i].type
  BY <1>1, <1>2, Shapes DEF Fields
<1>6. SendCompleted(s, i) = IF IsFileConn(s, i) \/ IsUiConn(s, i) THEN quiet ELSE gone
  BY DEF SendCompleted
<1> HIDE DEF idle, quiet, u
<1>7. /\ Sends(idle, gone, u) /\ gone.up = idle.up
      /\ s.slots[i].type = "REG" => gone.profiles = idle.profiles
  BY <1>3, <1>5, RemoveSends
<1> HIDE DEF gone
<1>8. /\ Sends(s, quiet, u) /\ Sends(s, gone, u)
      /\ s.slots[i].type = "REG" => gone.profiles = s.profiles
      /\ quiet.up = s.up /\ gone.up = s.up
  BY <1>3, <1>4, <1>7 DEF Sends
<1> QED
  BY <1>4, <1>6, <1>8 DEF u

LEMMA FrameSends ==
    ASSUME NEW s, Sound(s), NEW i \in Slots, FrameOK(s.slots[i].out), NEW o
    PROVE  /\ Sends(s, SendFrame(s, i, o), s.slots[i].user)
           /\ (/\ s.slots[i].type = "REG" /\ Open(s.net, s.slots[i].fd)
               /\ s.slots[i].out.kind = "RESP")
              => SendFrame(s, i, o).profiles = s.profiles /\ SendFrame(s, i, o).up = s.up
<1> DEFINE x == s.slots[i]
           u == x.user
           later == [s EXCEPT !.slots[i].wantWr = TRUE, !.slots[i].begun = TRUE]
           sent == [s EXCEPT !.net = WriteDown(@, x.fd, x.out)]
           done == SendCompleted(sent, i)
           gone == RemoveConnection(s, i)
           r == SendFrame(s, i, o)
<1>1. DOMAIN s = Fields /\ SlotsOK(s.slots) /\ NetTyped(s.net)
  BY DEF Sound
<1>2. FrameOK(x.out)
  OBVIOUS
<1>3. r = Exit(s) \/ r = gone \/ r = later \/ (Open(s.net, x.fd) /\ r = done)
  BY DEF SendFrame
<1>4. Open(s.net, x.fd) /\ x.out.kind = "RESP" => r = gone \/ r = done
  BY BlockAssumption DEF SendFrame
<1>5. ~Exit(s).up /\ Exit(s).profiles = <<>> /\ Exit(s).registrar = s.registrar
  BY <1>1 DEF Exit, Fields
<1>6. later.registrar = s.registrar /\ later.profiles = s.profiles /\ later.up = s.up
  BY <1>1 DEF Fields
<1>7. /\ DOMAIN sent = Fields /\ sent.registrar = s.registrar /\ sent.up = s.up
      /\ sent.profiles = s.profiles /\ sent.nConns = s.nConns /\ sent.slots = s.slots
      /\ sent.net = WriteDown(s.net, x.fd, x.out)
  BY <1>1 DEF Fields
<1>8. /\ Sends(s, gone, u) /\ gone.up = s.up
      /\ x.type = "REG" => gone.profiles = s.profiles
  BY <1>1, RemoveSends
<1> HIDE DEF x, u, later, sent, done, gone, r
<1>9. ASSUME Open(s.net, x.fd)
      PROVE  /\ Sends(s, done, u) /\ done.up = s.up
             /\ x.type = "REG" => done.profiles = s.profiles
  <2>1. NetStep(s.net, sent.net)
    BY <1>1, <1>2, <1>7, <1>9, SrvWrites DEF Open
  <2>2. Sound(sent)
    BY <1>7, <2>1 DEF Sound, NetStep
  <2>3. /\ Sends(sent, done, u) /\ done.up = sent.up
        /\ x.type = "REG" => done.profiles = sent.profiles
    BY <1>7, <2>2, CompletedSends DEF done, x, u
  <2> QED
    BY <1>7, <2>3 DEF Sends
<1>10. Sends(s, Exit(s), u) /\ Sends(s, later, u)
  BY <1>5, <1>6 DEF Sends
<1> QED
  BY <1>3, <1>4, <1>8, <1>9, <1>10 DEF x, u, r

\* An answer on the connection of a command, which is closed, changes nothing
LEMMA PlainAnswer ==
    ASSUME NEW s, Sound(s), NEW i \in Slots, s.slots[i].type = "REG",
           Open(s.net, s.slots[i].fd), NEW f, FrameOK(f), f.kind = "RESP", NEW o
    PROVE  /\ SendResponse(s, i, f, o).registrar = s.registrar
           /\ SendResponse(s, i, f, o).profiles = s.profiles
           /\ SendResponse(s, i, f, o).up = s.up
<1> DEFINE c == s.slots[i].fd
           g == BuildSendMsg(s, i, f)
           r == SendFrame(g, i, o)
<1>1. DOMAIN s = Fields /\ SlotsOK(s.slots) /\ NetTyped(s.net)
  BY DEF Sound
<1>2. DOMAIN s.slots[i] = DOMAIN FreshSlot /\ DOMAIN s.slots = Slots
  BY <1>1 DEF SlotsOK, TableShape
<1>3. c \in Conns /\ s.net[c].srv = "open"
  BY DEF Open
<1>4. DOMAIN s.net = Conns /\ DOMAIN s.net[c] = {"cli", "srv", "cmd", "up", "down"}
  BY <1>1, <1>3, ConnIs, ClosedOK DEF NetTyped, NetShape
<1>5. /\ Sound(g) /\ g.registrar = s.registrar
      /\ g.slots[i].out = f /\ g.profiles = s.profiles /\ g.up = s.up
  BY BuildTrims DEF OutOK, Trims, Keeps
<1>6. g.slots[i].type = "REG" /\ g.slots[i].fd = c
  BY <1>1, <1>2, Shapes DEF BuildSendMsg, Fields
<1>7. g.net = s.net \/ g.net = WriteDown(s.net, c, Torn)
  BY <1>1 DEF BuildSendMsg, Fields
<1>8. WriteDown(s.net, c, Torn)[c].srv = "open"
  BY <1>3, <1>4 DEF WriteDown
<1> HIDE DEF c, g
<1>9. Open(g.net, c)
  BY <1>3, <1>7, <1>8 DEF Open
<1>10. Sends(g, r, g.slots[i].user) /\ r.profiles = g.profiles /\ r.up = g.up
  BY <1>5, <1>6, <1>9, FrameSends
<1>11. SendResponse(s, i, f, o) = r
  BY DEF SendResponse, g
<1> HIDE DEF r
<1> QED
  BY <1>5, <1>10, <1>11 DEF Sends

\* A new name is signed up
LEMMA SignUpMaps ==
    ASSUME NEW s, Sound(s), s.up, NEW t, t.up, t.profiles = s.profiles,
           NEW u \in Users, NEW p \in Pwds,
           t.registrar = AfterRegister(s.registrar, u, p)
    PROVE  Maps(s, t)
<1>1. On(t) = On(s) /\ Ml(t) = Ml(s)
  BY DEF On, Ml
<1>2. \A v : PasswordOf(t.registrar, v) =
                 IF v = u /\ ~IsIn(s.registrar, u) THEN p ELSE PasswordOf(s.registrar, v)
  BY RegisterKeeps DEF Sound
<1>3. CASE IsIn(s.registrar, u)
  <2>1. Pw(t) = Pw(s)
    BY <1>2, <1>3 DEF Pw
  <2> QED
    BY <1>1, <2>1 DEF Maps, KeepsOnline, KeepsPasswords
<1>4. CASE ~IsIn(s.registrar, u)
  <2>1. Pw(s)[u] = None
    BY <1>4 DEF Pw, PasswordOf
  <2>2. Pw(t) = [Pw(s) EXCEPT ![u] = p]
    BY <1>2, <1>4 DEF Pw
  <2> QED
    BY <1>1, <2>1, <2>2 DEF Maps
<1> QED
  BY <1>3, <1>4

\* A registered user comes online
LEMMA SignInMaps ==
    ASSUME NEW s, Sound(s), s.up, NEW t, t.up, t.registrar = s.registrar,
           NEW u \in Users, NEW p,
           t.profiles = AfterLogin(s.registrar, s.profiles, u, p)
    PROVE  Maps(s, t)
<1>1. Pw(t) = Pw(s)
  BY DEF Pw
<1>2. AccountsOK(s.registrar, s.profiles)
  BY DEF Sound
<1>3. CASE LoginStatus(s.registrar, s.profiles, u, p) # "LOGGED_IN"
  <2>1. t.profiles = s.profiles
    BY <1>2, <1>3, LoginKeeps
  <2> QED
    BY <1>1, <2>1 DEF Maps, KeepsOnline, KeepsPasswords, On, Ml
<1>4. CASE LoginStatus(s.registrar, s.profiles, u, p) = "LOGGED_IN"
  <2>1. /\ IsIn(s.registrar, u) /\ u \notin On(s) /\ On(t) = On(s) \cup {u}
        /\ \A v : MessagesOf(t.profiles, v) = MessagesOf(s.profiles, v)
    BY <1>2, <1>4, LoginKeeps DEF On
  <2>2. PasswordOf(s.registrar, u) \in Pwds
    BY <1>2, <2>1, PasswordIs DEF AccountsOK, RegistrarOK
  <2>3. Pw(s)[u] # None
    BY <2>2 DEF Pw, Pwds
  <2>4. Ml(t) = Ml(s)
    BY <2>1 DEF Ml
  <2> QED
    BY <1>1, <2>1, <2>3, <2>4 DEF Maps, KeepsPasswords
<1> QED
  BY <1>3, <1>4

\* A user signs in over an earlier session
LEMMA TakeOverMaps ==
    ASSUME NEW s, Sound(s), s.up, NEW t, t.up, t.registrar = s.registrar,
           NEW u \in Users, NEW p,
           LoginStatus(s.registrar, s.profiles, u, p) = "OK",
           t.profiles = AfterLogin(s.registrar, AfterLogout(s.profiles, u), u, p)
    PROVE  Maps(s, t)
<1> DEFINE reg == s.registrar
           ps == AfterLogout(s.profiles, u)
<1>1. Pw(t) = Pw(s)
  BY DEF Pw
<1>2. IsIn(reg, u) /\ PasswordOf(reg, u) = p /\ IsLoggedIn(s.profiles, u)
  BY DEF LoginStatus
<1>3. u \in On(s)
  BY <1>2, Mailboxes
<1>4. /\ AccountsOK(reg, ps) /\ Online(ps) = On(s) \ {u}
      /\ \A v : MessagesOf(ps, v) = IF v = u THEN <<>> ELSE MessagesOf(s.profiles, v)
  BY LogoutKeeps DEF Sound, On
<1> HIDE DEF ps
<1>5. ~IsLoggedIn(ps, u)
  BY <1>4, MailTyped DEF AccountsOK
<1>6. LoginStatus(reg, ps, u, p) = "LOGGED_IN"
  BY <1>2, <1>5 DEF LoginStatus
<1>7. /\ On(t) = Online(ps) \cup {u}
      /\ \A v : MessagesOf(t.profiles, v) = MessagesOf(ps, v)
  BY <1>4, <1>6, LoginKeeps DEF On, ps
<1>8. On(t) = On(s)
  BY <1>3, <1>4, <1>7
<1>9. Ml(t) = [Ml(s) EXCEPT ![u] = <<>>]
  BY <1>4, <1>7, IdsNone DEF Ml
<1> QED
  BY <1>1, <1>3, <1>8, <1>9 DEF Maps, KeepsOnline, KeepsPasswords

\* A message to one user
LEMMA PostMaps ==
    ASSUME NEW s, Sound(s), s.up, NEW t, t.up, t.registrar = s.registrar,
           NEW u, NEW m \in UiMessages, t.profiles = AfterEnqueue(s.profiles, u, m)
    PROVE  Maps(s, t)
<1>1. Pw(t) = Pw(s)
  BY DEF Pw
<1>2. /\ On(t) = On(s)
      /\ \A v : MessagesOf(t.profiles, v) =
                    IF v = u /\ u \in On(s) THEN Append(MessagesOf(s.profiles, v), m)
                                            ELSE MessagesOf(s.profiles, v)
  <2> DEFINE reg == s.registrar
             ps == s.profiles
             new == AfterEnqueue(ps, u, m)
  <2>1. /\ Online(new) = Online(ps)
        /\ \A v : MessagesOf(new, v) =
                      IF v = u /\ u \in Online(ps) THEN Append(MessagesOf(ps, v), m)
                                                    ELSE MessagesOf(ps, v)
    <3>1. AccountsOK(reg, ps)
      BY DEF Sound
    <3> HIDE DEF reg, ps
    <3> QED
      BY <3>1, EnqueueKeeps
  <2> HIDE DEF new
  <2> QED
    BY <2>1 DEF On, new
<1>3. CASE u \notin On(s)
  <2>1. Ml(t) = Ml(s)
    BY <1>2, <1>3 DEF Ml
  <2> QED
    BY <1>1, <1>2, <2>1 DEF Maps, KeepsOnline, KeepsPasswords
<1>4. CASE u \in On(s)
  <2>1. ASSUME NEW v \in Users
        PROVE  Ml(t)[v] = IF v \in {u} THEN Append(Ml(s)[v], m.id) ELSE Ml(s)[v]
    <3>1. Ml(t)[v] = MessageIds(MessagesOf(t.profiles, v))
      BY DEF Ml
    <3>2. Ml(s)[v] = MessageIds(MessagesOf(s.profiles, v))
      BY DEF Ml
    <3>3. MessagesOf(s.profiles, v) \in Seq(UiMessages)
      BY Mailboxes
    <3>4. MessageIds(Append(MessagesOf(s.profiles, v), m)) =
              Append(MessageIds(MessagesOf(s.profiles, v)), m.id)
      BY <3>3, IdsAppend
    <3>5. CASE v = u
      <4>1. MessagesOf(t.profiles, v) = Append(MessagesOf(s.profiles, v), m)
        BY <1>2, <1>4, <3>5
      <4> QED
        BY <3>1, <3>2, <3>4, <3>5, <4>1
    <3>6. CASE v # u
      <4>1. MessagesOf(t.profiles, v) = MessagesOf(s.profiles, v)
        BY <1>2, <3>6
      <4> QED
        BY <3>1, <3>2, <3>6, <4>1
    <3> QED
      BY <3>5, <3>6
  <2>2. Ml(t) = [v \in Users |-> IF v \in {u} THEN Append(Ml(s)[v], m.id) ELSE Ml(s)[v]]
    BY <2>1 DEF Ml
  <2>3. m.id \in Ids /\ {u} \in {{u}, On(s) \ {u}}
    BY DEF UiMessages
  <2>4. \E b \in Ids : \E w \in On(s) : \E to \in {{w}, On(s) \ {w}} :
            Ml(t) = [v \in Users |-> IF v \in to THEN Append(Ml(s)[v], b) ELSE Ml(s)[v]]
    BY <1>4, <2>2, <2>3
  <2> QED
    BY <1>1, <1>2, <2>4 DEF Maps, KeepsOnline, KeepsPasswords
<1> QED
  BY <1>3, <1>4

\* A message of one user to the others
LEMMA PostAllMaps ==
    ASSUME NEW s, Sound(s), s.up, NEW t, t.up, t.registrar = s.registrar,
           NEW u, u \in On(s), NEW m \in UiMessages,
           t.profiles = AfterEnqueueAllExcept(s.profiles, u, m)
    PROVE  Maps(s, t)
<1> DEFINE to == On(s) \ {u}
<1>1. Pw(t) = Pw(s)
  BY DEF Pw
<1>2. AccountsOK(s.registrar, s.profiles)
  BY DEF Sound
<1>3. CASE Len(s.profiles) = 1
  <2>1. t.profiles = s.profiles
    BY <1>2, <1>3, EnqueueAllKeeps
  <2> QED
    BY <1>1, <2>1 DEF Maps, KeepsOnline, KeepsPasswords, On, Ml
<1>4. CASE Len(s.profiles) # 1
  <2>1. /\ On(t) = On(s)
        /\ \A v : MessagesOf(t.profiles, v) =
                      IF v \in to THEN Append(MessagesOf(s.profiles, v), m)
                                  ELSE MessagesOf(s.profiles, v)
    <3> DEFINE reg == s.registrar
               ps == s.profiles
               new == AfterEnqueueAllExcept(ps, u, m)
    <3>1. /\ Online(new) = Online(ps)
          /\ \A v : MessagesOf(new, v) = IF v \in Online(ps) \ {u}
                                         THEN Append(MessagesOf(ps, v), m)
                                         ELSE MessagesOf(ps, v)
      <4>1. AccountsOK(reg, ps) /\ Len(ps) # 1
        BY <1>2, <1>4
      <4> HIDE DEF reg, ps
      <4> QED
        BY <4>1, EnqueueAllKeeps
    <3> HIDE DEF new
    <3> QED
      BY <3>1 DEF On, new
  <2> HIDE DEF to
  <2>2. ASSUME NEW v \in Users
        PROVE  Ml(t)[v] = IF v \in to THEN Append(Ml(s)[v], m.id) ELSE Ml(s)[v]
    <3>1. Ml(t)[v] = MessageIds(MessagesOf(t.profiles, v))
      BY DEF Ml
    <3>2. Ml(s)[v] = MessageIds(MessagesOf(s.profiles, v))
      BY DEF Ml
    <3>3. MessagesOf(s.profiles, v) \in Seq(UiMessages)
      BY Mailboxes
    <3>4. MessageIds(Append(MessagesOf(s.profiles, v), m)) =
              Append(MessageIds(MessagesOf(s.profiles, v)), m.id)
      BY <3>3, IdsAppend
    <3>5. CASE v \in to
      <4>1. MessagesOf(t.profiles, v) = Append(MessagesOf(s.profiles, v), m)
        BY <2>1, <3>5
      <4> QED
        BY <3>1, <3>2, <3>4, <3>5, <4>1
    <3>6. CASE v \notin to
      <4>1. MessagesOf(t.profiles, v) = MessagesOf(s.profiles, v)
        BY <2>1, <3>6
      <4> QED
        BY <3>1, <3>2, <3>6, <4>1
    <3> QED
      BY <3>5, <3>6
  <2>3. Ml(t) = [v \in Users |-> IF v \in to THEN Append(Ml(s)[v], m.id) ELSE Ml(s)[v]]
    BY <2>2 DEF Ml
  <2>4. m.id \in Ids /\ to \in {{u}, On(s) \ {u}}
    BY DEF UiMessages, to
  <2>5. \E b \in Ids : \E w \in On(s) : \E x \in {{w}, On(s) \ {w}} :
            Ml(t) = [v \in Users |-> IF v \in x THEN Append(Ml(s)[v], b) ELSE Ml(s)[v]]
    BY <2>3, <2>4
  <2> QED
    BY <1>1, <2>1, <2>5 DEF Maps, KeepsOnline, KeepsPasswords
<1> QED
  BY <1>3, <1>4

\* The oldest message of u leaves its deque, and what sends it may fail: then u
\* signs out, or the process has ended
LEMMA CollectMaps ==
    ASSUME NEW s, Sound(s), s.up, NEW u, MessagesOf(s.profiles, u) # <<>>,
           NEW r, r.registrar = s.registrar, r.up = s.up,
           r.profiles = AfterDequeue(s.profiles, u),
           NEW t, Sends(r, t, u)
    PROVE  Maps(s, t)
<1>1. Pw(t) = Pw(s)
  BY DEF Sends, Pw
<1>2. AccountsOK(s.registrar, s.profiles)
  BY DEF Sound
<1>3. /\ AccountsOK(s.registrar, r.profiles) /\ Online(r.profiles) = On(s)
      /\ \A v : MessagesOf(r.profiles, v) =
                    IF v = u THEN Tail(MessagesOf(s.profiles, v))
                             ELSE MessagesOf(s.profiles, v)
  <2> DEFINE reg == s.registrar
             ps == s.profiles
             new == AfterDequeue(ps, u)
  <2>1. /\ AccountsOK(reg, new) /\ Online(new) = Online(ps)
        /\ \A v : MessagesOf(new, v) = IF v = u /\ MessagesOf(ps, u) # <<>>
                                       THEN Tail(MessagesOf(ps, v)) ELSE MessagesOf(ps, v)
    <3>1. AccountsOK(reg, ps)
      BY <1>2
    <3> HIDE DEF reg, ps
    <3> QED
      BY <3>1, DequeueKeeps
  <2> HIDE DEF new
  <2> QED
    BY <2>1 DEF On, new
<1>4. u \in On(s) /\ MessagesOf(s.profiles, u) \in Seq(UiMessages)
  BY Mailboxes
<1>5. u \in Users
  <2>1. s.profiles \in Seq(Profiles(Users, Seq(UiMessages)))
    BY <1>2 DEF AccountsOK, ProfilesOK
  <2>2. \A i \in DOMAIN s.profiles : s.profiles[i] \in Profiles(Users, Seq(UiMessages))
    BY <2>1
  <2> QED
    BY <1>4, <2>2 DEF On, Online, Profiles
<1>6. CASE t.up = s.up /\ t.profiles = r.profiles
  <2>1. On(t) = On(s)
    BY <1>3, <1>6 DEF On
  <2>2. Ml(t) = [Ml(s) EXCEPT ![u] = MessageIds(Tail(MessagesOf(s.profiles, u)))]
    <3>1. \A v : MessagesOf(t.profiles, v) =
                     IF v = u THEN Tail(MessagesOf(s.profiles, v))
                              ELSE MessagesOf(s.profiles, v)
      BY <1>3, <1>6
    <3> QED
      BY <3>1 DEF Ml
  <2>3. Ml(s)[u] = MessageIds(MessagesOf(s.profiles, u))
    BY <1>5 DEF Ml
  <2>4. Ml(s)[u] # <<>> /\ Ml(t) = [Ml(s) EXCEPT ![u] = Tail(@)]
    BY <1>4, <2>2, <2>3, IdsTail
  <2> QED
    BY <1>1, <1>5, <1>6, <2>1, <2>4 DEF Maps, KeepsOnline, KeepsPasswords
<1>7. CASE t.up = s.up /\ t.profiles = AfterLogout(r.profiles, u)
  <2>1. /\ On(t) = On(s) \ {u}
        /\ \A v : MessagesOf(t.profiles, v) = IF v = u THEN <<>> ELSE MessagesOf(r.profiles, v)
    BY <1>3, <1>7, LogoutKeeps DEF On
  <2>2. Ml(t) = [v \in Users |-> IF v \in {u} THEN <<>> ELSE Ml(s)[v]]
    BY <1>3, <2>1, IdsNone DEF Ml
  <2>3. {u} \in SUBSET On(s) /\ {u} # {}
    BY <1>4
  <2> QED
    BY <1>1, <1>7, <2>1, <2>2, <2>3 DEF Maps, KeepsPasswords
<1>8. CASE ~t.up /\ t.profiles = <<>>
  <2>1. On(t) = {} /\ \A v : MessagesOf(t.profiles, v) = <<>>
    BY <1>8, Nobody, MailTyped DEF On
  <2>2. Ml(t) = [v \in Users |-> <<>>]
    BY <2>1, IdsNone DEF Ml
  <2> QED
    BY <1>1, <1>8, <2>1, <2>2 DEF Maps
<1> QED
  BY <1>6, <1>7, <1>8 DEF Sends

\* What a call of the data store has left, with an answer sent after it
Called(s, x) ==
    /\ Sound(x) /\ x.up = s.up /\ x.slots = s.slots /\ x.net = s.net

LEMMA AnsweredMaps ==
    ASSUME NEW s, Sound(s), s.up, NEW i \in Slots, s.slots[i].type = "REG",
           Open(s.net, s.slots[i].fd), NEW cmd, CmdOK(cmd), NEW o
    PROVE  \A x : Called(s, x) => \A a, b :
               /\ SendResponse(x, i, Response(a, b, cmd), o).registrar = x.registrar
               /\ SendResponse(x, i, Response(a, b, cmd), o).profiles = x.profiles
               /\ SendResponse(x, i, Response(a, b, cmd), o).up
<1> SUFFICES ASSUME NEW x, Called(s, x), NEW a, NEW b
             PROVE  /\ SendResponse(x, i, Response(a, b, cmd), o).registrar = x.registrar
                    /\ SendResponse(x, i, Response(a, b, cmd), o).profiles = x.profiles
                    /\ SendResponse(x, i, Response(a, b, cmd), o).up
  OBVIOUS
<1> DEFINE f == Response(a, b, cmd)
<1>1. f.kind = "RESP"
  BY DEF Response
<1>2. FrameOK(f)
  BY FramesTyped
<1>3. Sound(x) /\ x.up /\ x.slots[i].type = "REG" /\ Open(x.net, x.slots[i].fd)
  BY DEF Called
<1> HIDE DEF f
<1>4. /\ SendResponse(x, i, f, o).registrar = x.registrar
      /\ SendResponse(x, i, f, o).profiles = x.profiles
      /\ SendResponse(x, i, f, o).up = x.up
  BY <1>1, <1>2, <1>3, PlainAnswer
<1> QED
  BY <1>3, <1>4 DEF f

\* Registration, login and takeover
LEMMA AccountMaps ==
    ASSUME NEW s, Sound(s), s.up, NEW i \in Slots, s.slots[i].type = "REG",
           Open(s.net, s.slots[i].fd), NEW cmd, CmdOK(cmd), NEW o
    PROVE  /\ cmd.op = "REGISTER" => Maps(s, HandleRegister(s, i, cmd, o))
           /\ cmd.op = "LOGIN" => Maps(s, HandleLogin(s, i, cmd, o))
<1> DEFINE u == cmd.name
           p == cmd.pwd
           A(a, b) == Response(a, b, cmd)
           reg == s.registrar
           new == [s EXCEPT !.registrar = AfterRegister(@, u, p)]
           fresh == [s EXCEPT !.profiles = AfterLogout(@, u)]
           in == Start(s, u, p)
           over == Start(fresh, u, p)
<1>1. DOMAIN s = Fields
  BY DEF Sound
<1>2. cmd.op \in {"LOGIN", "REGISTER"} => u \in Users /\ p \in Pwds
  BY DEF CmdOK
<1>3. /\ new.registrar = AfterRegister(reg, u, p) /\ new.profiles = s.profiles
      /\ new.up = s.up /\ new.slots = s.slots /\ new.net = s.net
  BY <1>1 DEF Fields
<1>4. /\ DOMAIN fresh = Fields /\ fresh.registrar = reg
      /\ fresh.profiles = AfterLogout(s.profiles, u)
      /\ fresh.up = s.up /\ fresh.slots = s.slots /\ fresh.net = s.net
  BY <1>1 DEF Fields
<1>5. /\ in.registrar = reg /\ in.profiles = AfterLogin(reg, s.profiles, u, p)
      /\ in.up = s.up /\ in.slots = s.slots /\ in.net = s.net
  BY <1>1 DEF Start, Fields
<1>6. Sound(fresh)
  BY CallsKeep DEF Keeps
<1> HIDE DEF fresh
<1>7. /\ over.registrar = reg
      /\ over.profiles = AfterLogin(reg, AfterLogout(s.profiles, u), u, p)
      /\ over.up = s.up /\ over.slots = s.slots /\ over.net = s.net
  BY <1>4 DEF Start, Fields
<1>8. cmd.op \in {"LOGIN", "REGISTER"} => Sound(new)
  BY <1>2, CallsKeep DEF Keeps
<1>9. Sound(in) /\ Sound(over)
  BY <1>6, CallsKeep DEF Keeps
<1>10. /\ Called(s, s) /\ Called(s, in) /\ Called(s, over)
       /\ cmd.op \in {"LOGIN", "REGISTER"} => Called(s, new)
  BY <1>3, <1>5, <1>7, <1>8, <1>9 DEF Called
<1> HIDE DEF new, in, over, A, u, p, reg
<1> DEFINE Sent(x, a, b) == SendResponse(x, i, A(a, b), o)
<1>11. \A x : Called(s, x) => \A a, b : /\ Sent(x, a, b).registrar = x.registrar
                                        /\ Sent(x, a, b).profiles = x.profiles
                                        /\ Sent(x, a, b).up
  BY AnsweredMaps DEF A
<1>12. \A a, b : Maps(s, Sent(s, a, b))
  <2>1. \A a, b : FrameOK(A(a, b))
    BY FramesTyped DEF A
  <2>2. \A a, b : Trims(s, Sent(s, a, b))
    BY <2>1, ResponseTrims
  <2> HIDE DEF Sent
  <2> QED
    BY <2>2, TrimsMap
<1> HIDE DEF Sent
<1>13. ASSUME cmd.op = "REGISTER"
       PROVE  Maps(s, HandleRegister(s, i, cmd, o))
  <2>1. \A a, b : Maps(s, Sent(new, a, b))
    <3>1. \A a, b : /\ Sent(new, a, b).registrar = AfterRegister(s.registrar, u, p)
                    /\ Sent(new, a, b).profiles = s.profiles
                    /\ Sent(new, a, b).up
      BY <1>3, <1>10, <1>11, <1>13 DEF reg
    <3>2. u \in Users /\ p \in Pwds
      BY <1>2, <1>13
    <3> QED
      BY <3>1, <3>2, SignUpMaps
  <2>2. HandleRegister(s, i, cmd, o) =
            Sent(new, RegisterStatus(s.registrar, cmd.name), "registration")
    BY DEF HandleRegister, Sent, A, new, u, p
  <2> QED
    BY <2>1, <2>2
<1>14. ASSUME cmd.op = "LOGIN"
       PROVE  Maps(s, HandleLogin(s, i, cmd, o))
  <2> DEFINE status == LoginStatus(reg, s.profiles, u, p)
             taken == GetUiConn(s, u) # 0
  <2>1. u \in Users
    BY <1>2, <1>14
  <2>2. CASE status = "OK" /\ taken
    <3>1. HandleLogin(s, i, cmd, o) = Sent(s, "OK", "already logged in")
      BY <2>2 DEF HandleLogin, Sent, A, u, p, reg
    <3> QED
      BY <1>12, <3>1
  <2>3. CASE status = "OK" /\ ~taken
    <3>1. HandleLogin(s, i, cmd, o) = Sent(over, "OK", "logged in")
      BY <2>3 DEF HandleLogin, Sent, A, u, p, reg, over, fresh
    <3> DEFINE t == Sent(over, "OK", "logged in")
    <3>2. /\ t.up /\ t.registrar = s.registrar
          /\ t.profiles = AfterLogin(s.registrar, AfterLogout(s.profiles, u), u, p)
      BY <1>7, <1>10, <1>11 DEF reg
    <3>3. LoginStatus(s.registrar, s.profiles, u, p) = "OK"
      BY <2>3 DEF reg
    <3> HIDE DEF t
    <3>4. Maps(s, t)
      BY <2>1, <3>2, <3>3, TakeOverMaps
    <3> QED
      BY <3>1, <3>4 DEF t
  <2>4. CASE status # "OK"
    <3>1. HandleLogin(s, i, cmd, o) = Sent(in, status, "login")
      BY <2>4 DEF HandleLogin, Sent, A, u, p, reg, in
    <3> DEFINE t == Sent(in, status, "login")
    <3> HIDE DEF status
    <3>2. /\ t.up /\ t.registrar = s.registrar
          /\ t.profiles = AfterLogin(s.registrar, s.profiles, u, p)
      BY <1>5, <1>10, <1>11 DEF reg
    <3> HIDE DEF t
    <3>3. Maps(s, t)
      BY <2>1, <3>2, SignInMaps
    <3> QED
      BY <3>1, <3>3 DEF t
  <2> QED
    BY <2>2, <2>3, <2>4
<1> QED
  BY <1>13, <1>14

\* Messages to all and to one
LEMMA PostsMap ==
    ASSUME NEW s, Sound(s), s.up, NEW i \in Slots, s.slots[i].type = "REG",
           Open(s.net, s.slots[i].fd), NEW cmd, CmdOK(cmd), NEW o,
           cmd.op \notin {"LOGIN", "REGISTER"}
    PROVE  /\ Maps(s, HandleSend(s, i, cmd, o))
           /\ Maps(s, HandleSendTo(s, i, cmd, o))
           /\ Maps(s, SetUiConn(s, i, cmd))
<1> DEFINE M(v) == Message("UI_MSG", VisibleName(cmd), cmd.user, v, cmd.id)
           A(a, b) == Response(a, b, cmd)
           Sent(x, a, b) == SendResponse(x, i, A(a, b), o)
           one == Post(s, cmd.name, M(cmd.name))
           all == PostAllExcept(s, cmd.user, M(None))
           ui == SetUiConn(s, i, cmd)
           hi == Onboarding(cmd.user)
<1>1. DOMAIN s = Fields
  BY DEF Sound
<1>2. M(None) \in UiMessages /\ M(cmd.name) \in UiMessages /\ hi \in UiMessages
  BY FramesTyped DEF CmdOK
<1> HIDE DEF M
<1>3. /\ one.registrar = s.registrar
      /\ one.profiles = AfterEnqueue(s.profiles, cmd.name, M(cmd.name))
      /\ one.up = s.up /\ one.slots = s.slots /\ one.net = s.net
  BY <1>1 DEF Post, Fields
<1>4. /\ all.registrar = s.registrar
      /\ all.profiles = AfterEnqueueAllExcept(s.profiles, cmd.user, M(None))
      /\ all.up = s.up /\ all.slots = s.slots /\ all.net = s.net
  BY <1>1 DEF PostAllExcept, Fields
<1>5. Sound(one) /\ Sound(all)
  BY <1>2, CallsKeep DEF Keeps
<1>6. Called(s, one) /\ Called(s, all)
  BY <1>3, <1>4, <1>5 DEF Called
<1> HIDE DEF A, one, all
<1>7. \A x : Called(s, x) => \A a, b : /\ Sent(x, a, b).registrar = x.registrar
                                       /\ Sent(x, a, b).profiles = x.profiles
                                       /\ Sent(x, a, b).up
  BY AnsweredMaps DEF A
<1>8. \A a, b : Maps(s, Sent(s, a, b))
  <2>1. \A a, b : FrameOK(A(a, b))
    BY FramesTyped DEF A
  <2>2. \A a, b : Trims(s, Sent(s, a, b))
    BY <2>1, ResponseTrims
  <2> HIDE DEF Sent
  <2> QED
    BY <2>2, TrimsMap
<1> HIDE DEF Sent
<1>9. Maps(s, HandleSend(s, i, cmd, o))
  <2>1. CASE IsLoggedIn(s.profiles, cmd.user)
    <3> DEFINE m == M(None)
               u == cmd.user
               t == Sent(all, "OK", EnqueueAllStatus(s.profiles))
    <3>1. HandleSend(s, i, cmd, o) = t
      BY <2>1 DEF HandleSend, M, A, Sent, all
    <3>2. /\ t.up /\ t.registrar = s.registrar
          /\ t.profiles = AfterEnqueueAllExcept(s.profiles, u, m)
      BY <1>4, <1>6, <1>7
    <3>3. u \in On(s) /\ m \in UiMessages
      BY <1>2, <2>1, Mailboxes
    <3> HIDE DEF t, m, u
    <3>4. Maps(s, t)
      BY <3>2, <3>3, PostAllMaps
    <3> QED
      BY <3>1, <3>4
  <2>2. CASE ~IsLoggedIn(s.profiles, cmd.user)
    <3>1. HandleSend(s, i, cmd, o) = Sent(s, "FAILURE", "not logged in")
      BY <2>2 DEF HandleSend, A, Sent
    <3> QED
      BY <1>8, <3>1
  <2> QED
    BY <2>1, <2>2
<1>10. Maps(s, HandleSendTo(s, i, cmd, o))
  <2>1. CASE IsLoggedIn(s.profiles, cmd.user)
    <3> DEFINE result == EnqueueStatus(s.registrar, s.profiles, cmd.name)
               status == IF result = "QUEUED" THEN "OK" ELSE "FAILURE"
               m == M(cmd.name)
               u == cmd.name
               t == Sent(one, status, result)
    <3>1. HandleSendTo(s, i, cmd, o) = t
      BY <2>1 DEF HandleSendTo, M, A, Sent, one
    <3> HIDE DEF result, status
    <3>2. /\ t.up /\ t.registrar = s.registrar
          /\ t.profiles = AfterEnqueue(s.profiles, u, m)
      BY <1>3, <1>6, <1>7
    <3>3. m \in UiMessages
      BY <1>2
    <3> HIDE DEF t, m, u
    <3>4. Maps(s, t)
      BY <3>2, <3>3, PostMaps
    <3> QED
      BY <3>1, <3>4
  <2>2. CASE ~IsLoggedIn(s.profiles, cmd.user)
    <3>1. HandleSendTo(s, i, cmd, o) = Sent(s, "FAILURE", "not logged in")
      BY <2>2 DEF HandleSendTo, A, Sent
    <3> QED
      BY <1>8, <3>1
  <2> QED
    BY <2>1, <2>2
<1>11. Maps(s, SetUiConn(s, i, cmd))
  <2> DEFINE u == cmd.user
  <2>1. /\ ui.up /\ ui.registrar = s.registrar
        /\ ui.profiles = AfterEnqueue(s.profiles, u, hi)
    BY <1>1 DEF SetUiConn, Post, Fields
  <2> HIDE DEF ui, hi, u
  <2>2. Maps(s, ui)
    BY <1>2, <2>1, PostMaps
  <2> QED
    BY <2>2 DEF ui
<1> QED
  BY <1>9, <1>10, <1>11

\* The end of a session
LEMMA LogoutTrims ==
    ASSUME NEW s, Sound(s), NEW i \in Slots, NEW cmd, CmdOK(cmd), NEW o
    PROVE  Trims(s, HandleLogout(s, i, cmd, o))
<1> DEFINE left == [s EXCEPT !.profiles = AfterLogout(@, cmd.user)]
           f == Response(LogoutStatus(s.profiles, cmd.user), "logout", cmd)
<1>1. DOMAIN s = Fields /\ NetTyped(s.net)
  BY DEF Sound
<1>2. /\ DOMAIN left = Fields /\ left.registrar = s.registrar /\ left.up = s.up
      /\ left.profiles = AfterLogout(s.profiles, cmd.user)
      /\ left.slots = s.slots /\ left.nConns = s.nConns /\ left.net = s.net
  BY <1>1 DEF Fields
<1>3. FrameOK(f)
  BY FramesTyped
<1>4. HandleLogout(s, i, cmd, o) = SendResponse(left, i, f, o)
  BY DEF HandleLogout
<1> HIDE DEF left, f
<1>5. Trims(s, left) /\ Sound(left)
  <2>1. SlotsOK(left.slots) /\ left.nConns \in Int /\ left.nConns <= MAX_CONCURRENCY_LIMIT
    BY <1>2 DEF Sound
  <2>2. NetStep(s.net, left.net)
    BY <1>1, <1>2, SpareSame
  <2>3. Trims(s, left)
    BY <1>2, <2>1, <2>2, TrimStep
  <2> QED
    BY <2>3 DEF Trims, Keeps
<1>6. Trims(left, SendResponse(left, i, f, o))
  BY <1>3, <1>5, ResponseTrims
<1> QED
  BY <1>4, <1>5, <1>6, TrimsOn

\* Every command
LEMMA HandleMaps ==
    ASSUME NEW s, Sound(s), s.up, NEW i \in Slots, s.slots[i].type = "REG",
           Open(s.net, s.slots[i].fd), NEW cmd, CmdOK(cmd), NEW o
    PROVE  Maps(s, HandleReceivedCommand(s, i, cmd, o))
<1>1. /\ Maps(s, HandleList(s, i, cmd, o)) /\ Maps(s, s) /\ Maps(s, Exit(s))
      /\ Maps(s, HandleLogout(s, i, cmd, o))
  <2>1. /\ Trims(s, HandleList(s, i, cmd, o)) /\ Trims(s, s) /\ Trims(s, Exit(s))
        /\ Trims(s, HandleLogout(s, i, cmd, o))
    BY ListTrims, ExitTrims, TrimsSame, LogoutTrims
  <2> QED
    BY <2>1, TrimsMap
<1>2. /\ cmd.op = "REGISTER" => Maps(s, HandleRegister(s, i, cmd, o))
      /\ cmd.op = "LOGIN" => Maps(s, HandleLogin(s, i, cmd, o))
  BY AccountMaps
<1>3. cmd.op \notin {"LOGIN", "REGISTER"} =>
          /\ Maps(s, HandleSend(s, i, cmd, o)) /\ Maps(s, HandleSendTo(s, i, cmd, o))
          /\ Maps(s, SetUiConn(s, i, cmd))
  BY PostsMap
<1>4. cmd.op \notin {"LOGIN", "REGISTER"} =>
          /\ Maps(s, HandleSendFile(s, i, cmd, o))
          /\ Maps(s, HandleSendFileTo(s, i, cmd, o))
          /\ Maps(s, SetFileConn(s, i, cmd))
  <2>1. cmd.op \notin {"LOGIN", "REGISTER"} =>
            /\ Trims(s, HandleSendFile(s, i, cmd, o))
            /\ Trims(s, HandleSendFileTo(s, i, cmd, o))
            /\ Trims(s, SetFileConn(s, i, cmd))
    BY FilesTrim, DeclareKeeps
  <2> QED
    BY <2>1, TrimsMap
<1> QED
  BY <1>1, <1>2, <1>3, <1>4 DEF HandleReceivedCommand

\* Maps sees only the accounts
LEMMA MapsFrom ==
    ASSUME NEW s, NEW r, r.registrar = s.registrar, r.profiles = s.profiles
    PROVE  \A t : Maps(r, t) => Maps(s, t)
<1>1. Pw(r) = Pw(s) /\ On(r) = On(s) /\ Ml(r) = Ml(s)
  BY DEF Pw, On, Ml
<1> QED
  BY <1>1 DEF Maps, KeepsOnline, KeepsPasswords

LEMMA MapsTo ==
    ASSUME NEW s, NEW r, r.registrar = s.registrar, r.profiles = s.profiles, r.up = s.up
    PROVE  \A t : Maps(t, s) => Maps(t, r)
<1>1. Pw(r) = Pw(s) /\ On(r) = On(s) /\ Ml(r) = Ml(s)
  BY DEF Pw, On, Ml
<1> QED
  BY <1>1 DEF Maps, KeepsOnline, KeepsPasswords

LEMMA MessageSends ==
    ASSUME NEW s, Sound(s), NEW i \in Slots, NEW o
    PROVE  Sends(s, SendMessage(s, i, o), s.slots[i].user)
<1>1. s.slots[i].out = None \/ FrameOK(s.slots[i].out)
  BY DEF Sound, SlotsOK, SlotOK
<1> QED
  BY <1>1, CompletedSends, FrameSends DEF SendMessage

\* A pass of CheckMessageDeques
LEMMA DequeueMaps ==
    ASSUME NEW s, Sound(s), s.up, NEW i \in Slots, NEW o
    PROVE  Maps(s, DequeueFor(s, i, o))
<1> DEFINE u == s.slots[i].user
           ps == s.profiles
           m == DequeueBody(ps, u)
           g == BuildSendMsg(s, i, m)
           x == [g.slots[i] EXCEPT !.active = TRUE]
           a == [g EXCEPT !.slots = [g.slots EXCEPT ![i] = x]]
           r == [g EXCEPT !.slots[i].active = TRUE, !.profiles = AfterDequeue(@, u)]
           t == SendMessage(r, i, o)
<1>1. DOMAIN s = Fields /\ SlotsOK(s.slots) /\ AccountsOK(s.registrar, ps)
  BY DEF Sound
<1>2. DOMAIN s.slots[i] = DOMAIN FreshSlot /\ DOMAIN s.slots = Slots
  BY <1>1 DEF SlotsOK, TableShape
<1>3. OutOK(m)
  BY <1>1, DequeueKeeps
<1>4. g.slots[i].user = u
  BY <1>1, <1>2, Shapes DEF BuildSendMsg, Fields
<1>5. DequeueFor(s, i, o) = t
  BY DEF DequeueFor
<1> HIDE DEF m, u, ps
<1>6. /\ Sound(g) /\ DOMAIN g = Fields /\ SlotsOK(g.slots)
      /\ g.registrar = s.registrar /\ g.profiles = s.profiles /\ g.up = s.up
  BY <1>3, BuildTrims DEF Trims, Keeps, Sound
<1> HIDE DEF g
<1>7. DOMAIN g.slots[i] = DOMAIN FreshSlot /\ SlotOK(g.slots[i]) /\ DOMAIN g.slots = Slots
  BY <1>6 DEF SlotsOK, TableShape
<1>8. DOMAIN x = DOMAIN FreshSlot /\ SlotOK(x) /\ x.user = u
  BY <1>4, <1>7, Shapes DEF SlotOK
<1>9. /\ DOMAIN a = Fields /\ a.registrar = g.registrar /\ a.profiles = g.profiles
      /\ a.net = g.net /\ a.nConns = g.nConns /\ a.up = g.up
      /\ a.slots = [g.slots EXCEPT ![i] = x]
  BY <1>6 DEF Fields
<1>10. /\ DOMAIN r = Fields /\ r.registrar = g.registrar
       /\ r.profiles = AfterDequeue(g.profiles, u) /\ r.net = g.net
       /\ r.nConns = g.nConns /\ r.up = g.up /\ r.slots = [g.slots EXCEPT ![i] = x]
  BY <1>6, <1>7 DEF Fields
<1> HIDE DEF x
<1>11. Keeps(g, a) /\ Sound(a)
  BY <1>6, <1>8, EntryTrims DEF Trims, Keeps
<1>12. r.slots[i].user = u
  BY <1>7, <1>8, <1>10
<1> HIDE DEF a, r
<1>13. AccountsOK(r.registrar, r.profiles)
  BY <1>6, <1>10, DequeueKeeps DEF Sound
<1>14. Sound(r)
  BY <1>9, <1>10, <1>11, <1>13, StoreStep DEF Lasts, Keeps
<1>15. Sends(r, t, u)
  BY <1>12, <1>14, MessageSends
<1>16. CASE MessagesOf(ps, u) = <<>>
  <2>1. r.profiles = s.profiles
    BY <1>1, <1>6, <1>10, <1>16, DequeueKeeps DEF ps
  <2>2. Trims(r, t)
    BY <1>14, SendTrims
  <2>3. Maps(r, t)
    BY <1>6, <1>10, <1>14, <2>2, TrimsMap
  <2>4. r.registrar = s.registrar
    BY <1>6, <1>10
  <2> QED
    BY <1>5, <2>1, <2>3, <2>4, MapsFrom
<1>17. CASE MessagesOf(ps, u) # <<>>
  <2>1. /\ r.registrar = s.registrar /\ r.up = s.up
        /\ r.profiles = AfterDequeue(s.profiles, u) /\ MessagesOf(s.profiles, u) # <<>>
    BY <1>6, <1>10, <1>17 DEF ps
  <2> HIDE DEF t
  <2> QED
    BY <1>5, <1>15, <2>1, CollectMaps
<1> QED
  BY <1>16, <1>17

\* A pass of the scan that reads
LEMMA RecvMaps ==
    ASSUME NEW s, Sound(s), s.up, NEW i \in Slots, NEW o,
           HasCommand(s.net, s.slots[i].fd) => s.slots[i].type = "REG"
    PROVE  Maps(s, RecvMessage(s, i, o))
<1> DEFINE c == s.slots[i].fd
           cmd == s.net[c].cmd
           r == [s EXCEPT !.net[c].up = "read"]
<1>1. CASE HasCommand(s.net, c)
  <2>1. DOMAIN s = Fields /\ NetTyped(s.net)
    BY DEF Sound
  <2>2. Sound(r) /\ CmdOK(cmd) /\ c \in Conns
    BY <1>1, ReadTrims DEF Trims, Keeps
  <2>3. DOMAIN s.net = Conns /\ DOMAIN s.net[c] = {"cli", "srv", "cmd", "up", "down"}
    BY <2>1, <2>2, ConnIs, ClosedOK DEF NetTyped, NetShape
  <2>4. s.net[c].srv = "open" /\ s.slots[i].type = "REG"
    BY <1>1 DEF HasCommand, Open
  <2>5. /\ r.registrar = s.registrar /\ r.profiles = s.profiles
        /\ r.up = s.up /\ r.slots = s.slots
        /\ r.net = [s.net EXCEPT ![c].up = "read"]
    BY <2>1 DEF Fields
  <2>6. RecvMessage(s, i, o) = HandleReceivedCommand(r, i, cmd, o)
    BY <1>1 DEF RecvMessage
  <2>7. [s.net EXCEPT ![c].up = "read"][c].srv = "open"
    BY <2>2, <2>3, <2>4
  <2>8. r.slots[i].fd = c
    BY <2>5
  <2> HIDE DEF r, cmd, c
  <2>9. Open(r.net, c)
    BY <2>2, <2>5, <2>7 DEF Open
  <2>10. Maps(r, HandleReceivedCommand(r, i, cmd, o))
    BY <2>2, <2>4, <2>5, <2>8, <2>9, HandleMaps
  <2> QED
    BY <2>5, <2>6, <2>10, MapsFrom
<1>2. CASE ~HasCommand(s.net, c)
  <2>1. Trims(s, RemoveConnection(s, i))
    BY RemoveTrims
  <2>2. RecvMessage(s, i, o) = RemoveConnection(s, i)
    BY <1>2 DEF RecvMessage
  <2> QED
    BY <2>1, <2>2, TrimsMap
<1> QED
  BY <1>1, <1>2

\* The accounts of the server now
LEMMA MappedNow ==
    /\ Pw(Srv) = [u \in Users |-> PasswordOf(registrar, u)]
    /\ On(Srv) = {profiles[i].user : i \in DOMAIN profiles}
    /\ Ml(Srv) = [u \in Users |-> MessageIds(MessagesOf(profiles, u))]
BY SrvIs DEF Pw, On, Ml, Online

\* A state of the server becomes the next one
LEMMA MapsStep ==
    ASSUME NEW s, Maps(Srv, s), pc # "down", pc' # "down" <=> s.up,
           registrar' = s.registrar, profiles' = s.profiles
    PROVE  Abs!Next \/ UNCHANGED Abs!vars
<1>1. /\ Pw(s) = [u \in Users |-> PasswordOf(registrar', u)]
      /\ On(s) = {profiles'[i].user : i \in DOMAIN profiles'}
      /\ Ml(s) = [u \in Users |-> MessageIds(MessagesOf(profiles', u))]
  BY DEF Pw, On, Ml, Online
<1>2. CASE KeepsOnline(Srv, s) /\ Ml(s) = Ml(Srv)
  <2>1. s.up /\ Pw(s) = Pw(Srv) /\ On(s) = On(Srv) /\ Ml(s) = Ml(Srv)
    BY <1>2 DEF KeepsOnline, KeepsPasswords
  <2> QED
    BY <1>1, <2>1, MappedNow DEF Abs!vars
<1>3. CASE /\ s.up /\ On(s) = On(Srv) /\ Ml(s) = Ml(Srv)
           /\ \E u \in Users, p \in Pwds :
                 Pw(Srv)[u] = None /\ Pw(s) = [Pw(Srv) EXCEPT ![u] = p]
  <2>1. PICK u \in Users, p \in Pwds :
            Pw(Srv)[u] = None /\ Pw(s) = [Pw(Srv) EXCEPT ![u] = p]
    BY <1>3
  <2>2. Abs!SignUp(u, p)
    BY <1>1, <1>3, <2>1, MappedNow DEF Abs!SignUp
  <2> QED
    BY <2>2 DEF Abs!Next
<1>4. CASE /\ KeepsPasswords(Srv, s) /\ Ml(s) = Ml(Srv)
           /\ \E u \in Users :
                 Pw(Srv)[u] # None /\ u \notin On(Srv) /\ On(s) = On(Srv) \cup {u}
  <2>1. PICK u \in Users : Pw(Srv)[u] # None /\ u \notin On(Srv) /\ On(s) = On(Srv) \cup {u}
    BY <1>4
  <2>2. s.up /\ Pw(s) = Pw(Srv)
    BY <1>4 DEF KeepsPasswords
  <2>3. Abs!SignIn(u)
    BY <1>1, <1>4, <2>1, <2>2, MappedNow DEF Abs!SignIn
  <2> QED
    BY <2>3 DEF Abs!Next
<1>5. CASE /\ KeepsPasswords(Srv, s)
           /\ \E us \in SUBSET On(Srv) :
                 /\ us # {} /\ On(s) = On(Srv) \ us
                 /\ Ml(s) = [u \in Users |-> IF u \in us THEN <<>> ELSE Ml(Srv)[u]]
  <2>1. PICK us \in SUBSET On(Srv) :
                 /\ us # {} /\ On(s) = On(Srv) \ us
                 /\ Ml(s) = [u \in Users |-> IF u \in us THEN <<>> ELSE Ml(Srv)[u]]
    BY <1>5
  <2>2. s.up /\ Pw(s) = Pw(Srv)
    BY <1>5 DEF KeepsPasswords
  <2>3. Abs!SignOut(us)
    BY <1>1, <2>1, <2>2, MappedNow DEF Abs!SignOut
  <2>4. us \in SUBSET {profiles[i].user : i \in DOMAIN profiles}
    BY <2>1, MappedNow
  <2> QED
    BY <2>3, <2>4 DEF Abs!Next
<1>6. CASE /\ KeepsOnline(Srv, s)
           /\ \E u \in Users \cap On(Srv) : Ml(s) = [Ml(Srv) EXCEPT ![u] = <<>>]
  <2>1. PICK u \in Users \cap On(Srv) : Ml(s) = [Ml(Srv) EXCEPT ![u] = <<>>]
    BY <1>6
  <2>2. s.up /\ Pw(s) = Pw(Srv) /\ On(s) = On(Srv)
    BY <1>6 DEF KeepsOnline, KeepsPasswords
  <2>3. Abs!TakeOver(u)
    BY <1>1, <2>1, <2>2, MappedNow DEF Abs!TakeOver
  <2> QED
    BY <2>1, <2>3 DEF Abs!Next
<1>7. CASE /\ KeepsOnline(Srv, s)
           /\ \E b \in Ids : \E u \in On(Srv) : \E to \in {{u}, On(Srv) \ {u}} :
                 Ml(s) = [v \in Users |-> IF v \in to THEN Append(Ml(Srv)[v], b)
                                                      ELSE Ml(Srv)[v]]
  <2>1. PICK b \in Ids : \E u \in On(Srv) : \E to \in {{u}, On(Srv) \ {u}} :
                 Ml(s) = [v \in Users |-> IF v \in to THEN Append(Ml(Srv)[v], b)
                                                      ELSE Ml(Srv)[v]]
    BY <1>7
  <2>2. PICK u \in On(Srv) : \E to \in {{u}, On(Srv) \ {u}} :
                 Ml(s) = [v \in Users |-> IF v \in to THEN Append(Ml(Srv)[v], b)
                                                      ELSE Ml(Srv)[v]]
    BY <2>1
  <2>3. PICK to \in {{u}, On(Srv) \ {u}} :
                 Ml(s) = [v \in Users |-> IF v \in to THEN Append(Ml(Srv)[v], b)
                                                      ELSE Ml(Srv)[v]]
    BY <2>2
  <2>4. s.up /\ Pw(s) = Pw(Srv) /\ On(s) = On(Srv)
    BY <1>7 DEF KeepsOnline, KeepsPasswords
  <2>5. to \subseteq On(Srv)
    OBVIOUS
  <2>6. Abs!Post(to, b)
    BY <1>1, <2>3, <2>4, <2>5, MappedNow DEF Abs!Post
  <2>7. Abs!Deliver(b)
    <3>1. u \in {profiles[i].user : i \in DOMAIN profiles}
      BY <2>2, MappedNow
    <3>2. CASE to = {u}
      BY <2>6, <3>1, <3>2 DEF Abs!Deliver
    <3>3. CASE to = On(Srv) \ {u}
      <4>1. to = {profiles[i].user : i \in DOMAIN profiles} \ {u}
        BY <3>3, MappedNow
      <4> QED
        BY <2>6, <3>1, <4>1 DEF Abs!Deliver
    <3> QED
      BY <2>3, <3>2, <3>3
  <2> QED
    BY <2>7 DEF Abs!Next
<1>8. CASE /\ KeepsOnline(Srv, s)
           /\ \E u \in Users : Ml(Srv)[u] # <<>> /\ Ml(s) = [Ml(Srv) EXCEPT ![u] = Tail(@)]
  <2>1. PICK u \in Users : Ml(Srv)[u] # <<>> /\ Ml(s) = [Ml(Srv) EXCEPT ![u] = Tail(@)]
    BY <1>8
  <2>2. s.up /\ Pw(s) = Pw(Srv) /\ On(s) = On(Srv)
    BY <1>8 DEF KeepsOnline, KeepsPasswords
  <2>3. Abs!Collect(u)
    BY <1>1, <2>1, <2>2, MappedNow DEF Abs!Collect
  <2> QED
    BY <2>3 DEF Abs!Next
<1>9. CASE ~s.up /\ Pw(s) = Pw(Srv) /\ On(s) = {} /\ Ml(s) = [u \in Users |-> <<>>]
  <2>1. Abs!Shutdown
    BY <1>1, <1>9, MappedNow DEF Abs!Shutdown
  <2> QED
    BY <2>1 DEF Abs!Next
<1> QED
  BY <1>2, <1>3, <1>4, <1>5, <1>6, <1>7, <1>8, <1>9 DEF Maps

\* Where the loops go next is not seen by the accounts
LEMMA LoopsMap ==
    ASSUME NEW s, Maps(Srv, s), DOMAIN s = Fields, pc # "down", NEW p, p # "down", NEW i,
           Goto(s, p, i) \/ AfterDeque(s, i) \/ AfterSlot(s, i)
    PROVE  Abs!Next \/ UNCHANGED Abs!vars
<1> DEFINE r == Settled(s)
           Becomes(x) == /\ registrar' = x.registrar /\ profiles' = x.profiles
                         /\ pc' # "down" <=> x.up
<1>1. r.registrar = s.registrar /\ r.profiles = s.profiles /\ r.up = s.up
  BY DEF Settled, Fields
<1> HIDE DEF r
<1>2. \A x, q, j : q # "down" /\ Goto(x, q, j) => Becomes(x)
  BY DEF Goto, Assign
<1>3. \A x, j : AfterDeque(x, j) => Becomes(x)
  <2> HIDE DEF Becomes
  <2> QED
    BY <1>2 DEF AfterDeque
<1>4. Becomes(s) \/ Becomes(r)
  <2> HIDE DEF Becomes
  <2> QED
    BY <1>2, <1>3 DEF AfterSlot, r
<1>5. Becomes(s)
  BY <1>1, <1>4
<1> QED
  BY <1>5, MapsStep

\* The steps of the loops
LEMMA ServerStepMaps ==
    ASSUME ChatInv, AccountInv, ServerStep
    PROVE  Abs!Next \/ UNCHANGED Abs!vars
<1>1. Sound(Srv) /\ Srv.up
  BY SrvIs DEF AccountInv
<1>2. CASE CheckMessageDeques
  <2>1. PICK o \in Outcomes : AfterDeque(DequeueFor(Srv, scanned, o), scanned)
    BY <1>2 DEF CheckMessageDeques
  <2>2. scanned \in Slots /\ pc # "down"
    BY <1>2, ScannedIsSlot DEF CheckMessageDeques
  <2> DEFINE s == DequeueFor(Srv, scanned, o)
  <2>3. Maps(Srv, s) /\ DOMAIN s = Fields
    BY <1>1, <2>2, DequeueMaps, PassKeeps DEF Keeps, Sound
  <2> HIDE DEF s
  <2>4. AfterDeque(s, scanned) /\ "poll" # "down"
    BY <2>1 DEF s
  <2> QED
    BY <2>2, <2>3, <2>4, LoopsMap
<1>3. CASE Poll
  <2>1. PICK late \in SUBSET Lags, drained \in SUBSET {i \in 1..nConns : slots[i].wantWr} :
            LET ready == {i \in 1..nConns : Readable(net, slots[i].fd)
                                               /\ slots[i].fd \notin late}
                marked == [Srv EXCEPT !.slots = [i \in Slots |->
                              [@[i] EXCEPT !.rd = i \in ready, !.wr = i \in drained]]]
                accepts == backlog # <<>> /\ HasRoom(nConns)
            IN  AfterSlot(IF accepts THEN SetConn(marked, Head(backlog)) ELSE marked, 0)
    BY <1>3 DEF Poll
  <2> DEFINE ready == {i \in 1..nConns : Readable(net, slots[i].fd)
                                            /\ slots[i].fd \notin late}
             marked == [Srv EXCEPT !.slots = [i \in Slots |->
                           [@[i] EXCEPT !.rd = i \in ready, !.wr = i \in drained]]]
             joined == SetConn(marked, Head(backlog))
  <2>2. AfterSlot(marked, 0) \/ AfterSlot(joined, 0)
    BY <2>1
  <2>3. Trims(Srv, marked)
    <3> HIDE DEF ready
    <3> QED
      BY <1>1, MarksKeep
  <2> HIDE DEF marked
  <2>4. DOMAIN marked = Fields
    BY <2>3 DEF Trims, Keeps, Sound
  <2>5. /\ DOMAIN joined = Fields /\ joined.registrar = marked.registrar
        /\ joined.profiles = marked.profiles /\ joined.up = marked.up
    BY <2>4 DEF SetConn, Fields
  <2> HIDE DEF joined
  <2>6. Maps(Srv, marked)
    BY <1>1, <2>3, TrimsMap
  <2>7. Maps(Srv, joined)
    BY <2>5, <2>6, MapsTo
  <2>8. pc # "down" /\ "poll" # "down"
    BY <1>3 DEF Poll
  <2> QED
    BY <2>2, <2>4, <2>5, <2>6, <2>7, <2>8, LoopsMap
<1>4. CASE ScanRead
  <2>1. PICK o \in Outcomes :
            \/ Goto(RecvMessage(Srv, scanned, o), "resume", scanned)
            \/ AfterSlot(RecvMessage(Srv, scanned, o), scanned)
    BY <1>4 DEF ScanRead
  <2>2. scanned \in Slots /\ pc # "down" /\ "resume" # "down"
    BY <1>4, ScannedIsSlot DEF ScanRead
  <2>3. HasCommand(Srv.net, Srv.slots[scanned].fd) => Srv.slots[scanned].type = "REG"
    <3> DEFINE c == slots[scanned].fd
    <3> SUFFICES ASSUME HasCommand(net, c)
                 PROVE  slots[scanned].type = "REG"
      BY SrvIs
    <3>1. pc = "scan" /\ scanned \in 1..nConns
      BY <1>4 DEF ScanRead, ChatInv, AtOK
    <3>2. LastUsed = nConns
      BY <3>1 DEF LastUsed
    <3>3. Open(net, c) /\ net[c].up = "sent"
      BY DEF HasCommand
    <3>4. DeclaredAs(slots[scanned], net[c])
      BY <3>1, <3>2, <3>3, SrvIs DEF ChatInv, Good, Declared
    <3>5. slots[scanned].type \in {"REG", "UI", "FIL"}
      BY <2>2, AccountVars DEF SlotsOK, SlotOK
    <3> QED
      BY <3>3, <3>4, <3>5 DEF DeclaredAs
  <2> DEFINE s == RecvMessage(Srv, scanned, o)
  <2>4. Maps(Srv, s) /\ DOMAIN s = Fields
    BY <1>1, <2>2, <2>3, RecvMaps, PassKeeps DEF Keeps, Sound
  <2>5. Goto(s, "resume", scanned) \/ AfterSlot(s, scanned)
    BY <2>1
  <2> HIDE DEF s
  <2> QED
    BY <2>2, <2>4, <2>5, LoopsMap
<1>5. CASE ScanWrite
  <2>1. PICK o \in Outcomes : AfterSlot(SendMessage(Srv, scanned, o), scanned)
    BY <1>5 DEF ScanWrite
  <2>2. scanned \in Slots /\ pc # "down" /\ "poll" # "down"
    BY <1>5, ScannedIsSlot DEF ScanWrite
  <2> DEFINE s == SendMessage(Srv, scanned, o)
  <2>3. Trims(Srv, s) /\ AfterSlot(s, scanned)
    BY <1>1, <2>1, <2>2, SendTrims
  <2> HIDE DEF s
  <2>4. Maps(Srv, s) /\ DOMAIN s = Fields
    BY <1>1, <2>3, TrimsMap DEF Trims, Keeps, Sound
  <2> QED
    BY <2>2, <2>3, <2>4, LoopsMap
<1> QED
  BY <1>2, <1>3, <1>4, <1>5 DEF ServerStep

\* The end of the process and the beginning of the next
LEMMA RestartMaps ==
    ASSUME AccountInv, StopServer \/ StartServer
    PROVE  Abs!Next \/ UNCHANGED Abs!vars
<1>1. CASE StopServer
  <2> DEFINE s == Exit(Srv)
  <2>1. pc # "down" /\ Goto(s, "down", 0)
    BY <1>1 DEF StopServer
  <2>2. Trims(Srv, s) /\ ~s.up /\ Sound(Srv) /\ Srv.up
    BY ExitTrims, SrvIs DEF AccountInv
  <2> HIDE DEF s
  <2>3. Maps(Srv, s)
    BY <2>2, TrimsMap
  <2>4. registrar' = s.registrar /\ profiles' = s.profiles /\ (pc' # "down" <=> s.up)
    BY <2>1, <2>2 DEF Goto, Assign
  <2> QED
    BY <2>1, <2>3, <2>4, MapsStep
<1>2. CASE StartServer
  <2>1. pc = "down" /\ pc' = "poll" /\ registrar' = registrar /\ profiles' = profiles
    BY <1>2 DEF StartServer
  <2>2. Abs!Boot
    BY <2>1 DEF Abs!Boot
  <2> QED
    BY <2>2 DEF Abs!Next
<1> QED
  BY <1>1, <1>2
=============================================================================
