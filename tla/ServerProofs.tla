---------------------------- MODULE ServerProofs ----------------------------
(***************************************************************************)
(* What the server's handlers keep, for any table, connections, clients    *)
(* and answers of the kernel: what is written on a connection fits it.     *)
(***************************************************************************)
EXTENDS GopherChat, DataStoreLemmas, SequenceLemmas

-----------------------------------------------------------------------------
(* The invariant *)

NetShape(n) ==
    /\ DOMAIN n = Conns
    /\ \A c \in Conns : DOMAIN n[c] = DOMAIN Closed /\ IsSeq(n[c].down)

TableShape(t) ==
    /\ DOMAIN t = Slots
    /\ \A i \in Slots : DOMAIN t[i] = DOMAIN FreshSlot

\* What waits in a deque is a message for the user whose deque it is
MailOK(ps) ==
    /\ IsSeq(ps)
    /\ \A i \in DOMAIN ps :
          /\ DOMAIN ps[i] = {"user", "messages"}
          /\ IsSeq(ps[i].messages)
          /\ \A m \in Range(ps[i].messages) : m.kind = "UI_MSG" /\ MeantFor(m, ps[i].user)

\* What travels on a connection fits it
NetOK(n) == \A c \in Conns : \A f \in Range(n[c].down) : Fits(f, n[c].cmd)

\* The entries of the table are of open connections
LiveOpen(s) == \A i \in 1..s.nConns : Open(s.net, s.slots[i].fd)

\* No connection is in two entries; the last entry of the table may have a
\* copy behind the end
Apart(s, b) ==
    \A i \in 1..(s.nConns - 1), j \in 1..b : i # j => s.slots[i].fd # s.slots[j].fd

\* A UI or file connection was declared as one, for the user of its entry, by the
\* one command that came on it
DeclaredAs(x, e) ==
    /\ x.type = "UI"  => e.cmd.op = "UI_CONN" /\ e.cmd.user = x.user /\ e.up = "read"
    /\ x.type = "FIL" => e.cmd.op = "FILE_CONN" /\ e.cmd.user = x.user /\ e.up = "read"

Declared(s, b) ==
    \A i \in 1..b : Open(s.net, s.slots[i].fd) =>
        DeclaredAs(s.slots[i], s.net[s.slots[i].fd])

\* What is being written fits the connection it is written on
OutFits(s, b) ==
    \A i \in 1..b : (Open(s.net, s.slots[i].fd) /\ s.slots[i].out # None) =>
        Fits(s.slots[i].out, s.net[s.slots[i].fd].cmd)

\* Each open connection has an entry
Known(s) == \A c : Open(s.net, c) => \E i \in 1..s.nConns : s.slots[i].fd = c

\* Only a UI or file connection waits to go on with a frame
Waits(x) ==
    (x.wantWr \/ x.wr \/ x.begun \/ (x.out # None /\ x.out.kind \in MayBlock)) => x.type \in {"UI", "FIL"}

Waiting(s, b) == \A i \in 1..b : Waits(s.slots[i])

\* The connections in the accept queue wait there, once each
BacklogOK(n, q) ==
    /\ IsSeq(q)
    /\ \A i \in DOMAIN q : q[i] \in Conns /\ n[q[i]].srv = "backlog"
    /\ \A i, j \in DOMAIN q : q[i] = q[j] => i = j

Fields == {"slots", "nConns", "registrar", "profiles", "net", "up", "posted"}

\* A state of the server, with accept queue q, in which the entries up to b may
\* still be looked at
Good(s, b, q) ==
    /\ DOMAIN s = Fields
    /\ NetShape(s.net)
    /\ TableShape(s.slots)
    /\ s.nConns \in Nat /\ b \in Int /\ s.nConns <= b /\ b <= MAX_CONCURRENCY_LIMIT
    /\ LiveOpen(s)
    /\ Apart(s, b)
    /\ Declared(s, b)
    /\ OutFits(s, b)
    /\ Known(s)
    /\ Waiting(s, b)
    /\ NetOK(s.net)
    /\ MailOK(s.profiles)
    /\ s.up => BacklogOK(s.net, q)

\* The last entry that may still be looked at: after a removal the second half of
\* a pass of the scan looks at an index that may be behind the end
LastUsed == IF pc = "resume" /\ scanned > nConns THEN scanned ELSE nConns

\* Where the loops are
AtOK ==
    /\ pc \in {"poll", "deques", "scan", "resume", "down"}
    /\ pc \in {"poll", "down"} => scanned = 0
    /\ pc \in {"deques", "scan"} => scanned \in 1..nConns
    /\ pc = "deques" => slots[scanned].type = "UI"
    /\ pc = "resume" => scanned \in Slots /\ slots[scanned].wr
    /\ pc = "scan" => slots[scanned].rd \/ slots[scanned].wr

ChatInv == Good(Srv, LastUsed, backlog) /\ AtOK

-----------------------------------------------------------------------------
(* The deques *)

\* The profile found for a user bears the user's name
LEMMA ProfileIs ==
    ASSUME NEW ps, MailOK(ps), NEW u, IsLoggedIn(ps, u)
    PROVE  FindIndexOf(ps, u) \in DOMAIN ps /\ ps[FindIndexOf(ps, u)].user = u
<1> DEFINE I == {i \in 1..Len(ps) : ps[i].user = u}
<1>1. IsSeq(ps)
  BY DEF MailOK
<1>2. Len(ps) \in Nat /\ DOMAIN ps = 1..Len(ps)
  BY <1>1, SeqElements
<1>3. FindIndexOf(ps, u) = IF I # {} THEN Min(I) ELSE 0
  BY DEF FindIndexOf, SelectInSeq
<1>4. I # {}
  BY <1>3 DEF IsLoggedIn
<1>5. I \subseteq Nat
  BY <1>2
<1>6. Min(I) \in I
  BY <1>4, <1>5, MinIsIn
<1> QED
  BY <1>2, <1>3, <1>4, <1>6

\* Nobody is signed in when a server starts
LEMMA NoMail == MailOK(<<>>)
<1>1. DOMAIN <<>> = {}
  OBVIOUS
<1> QED
  BY <1>1, EmptyIsSeq DEF MailOK

\* A new deque is empty
LEMMA LoginMail ==
    ASSUME NEW reg, NEW ps, MailOK(ps), NEW u, NEW p
    PROVE  MailOK(AfterLogin(reg, ps, u, p))
<1> DEFINE e == [user |-> u, messages |-> <<>>]
           r == Append(ps, e)
<1>1. IsSeq(ps)
  BY DEF MailOK
<1>2. /\ IsSeq(r)
      /\ \A f \in Range(r) : f = e \/ f \in Range(ps)
      /\ \A i \in DOMAIN r : r[i] \in Range(r)
  BY <1>1, SeqAppend, SeqElements
<1>3. \A f \in Range(ps) : \E i \in DOMAIN ps : ps[i] = f
  BY <1>1, SeqElements
<1> HIDE DEF r
<1>4. MailOK(r)
  <2> SUFFICES ASSUME NEW i \in DOMAIN r
               PROVE  /\ DOMAIN r[i] = {"user", "messages"}
                      /\ IsSeq(r[i].messages)
                      /\ \A m \in Range(r[i].messages) :
                             m.kind = "UI_MSG" /\ MeantFor(m, r[i].user)
    BY <1>2 DEF MailOK
  <2>1. CASE r[i] = e
    <3>1. DOMAIN e = {"user", "messages"} /\ e.messages = <<>>
      OBVIOUS
    <3> QED
      BY <2>1, <3>1, EmptyIsSeq
  <2>2. CASE r[i] \in Range(ps)
    BY <1>3, <2>2 DEF MailOK
  <2> QED
    BY <1>2, <2>1, <2>2
<1> QED
  BY <1>4 DEF AfterLogin, r

\* The other deques stay
LEMMA LogoutMail ==
    ASSUME NEW ps, MailOK(ps), NEW u
    PROVE  MailOK(AfterLogout(ps, u))
<1>1. CASE ~IsLoggedIn(ps, u)
  BY <1>1 DEF AfterLogout
<1>2. CASE IsLoggedIn(ps, u)
  <2> DEFINE k == FindIndexOf(ps, u)
             r == RemoveAt(ps, k)
  <2>1. ps \in Seq(Range(ps)) /\ Len(ps) \in Nat /\ DOMAIN ps = 1..Len(ps)
    BY SeqElements DEF MailOK, IsSeq
  <2>2. k \in 1..Len(ps)
    BY <1>2, <2>1, ProfileIs
  <2> HIDE DEF k
  <2>3. /\ r \in Seq(Range(ps)) /\ Len(r) = Len(ps) - 1
        /\ \A j \in 1..(Len(ps) - 1) : r[j] = IF j < k THEN ps[j] ELSE ps[j + 1]
    BY <2>1, <2>2, RemoveAtElements
  <2> HIDE DEF r
  <2>4. DOMAIN r = 1..(Len(ps) - 1) /\ IsSeq(r)
    BY <2>3, LenProperties, SeqIsSeq
  <2>5. \A j \in DOMAIN r : \E i \in DOMAIN ps : r[j] = ps[i]
    BY <2>1, <2>3, <2>4
  <2>6. MailOK(r)
    BY <2>4, <2>5 DEF MailOK
  <2> QED
    BY <1>2, <2>6 DEF AfterLogout, r, k
<1> QED
  BY <1>1, <1>2

\* A deque that is replaced, by one with messages for its user
LEMMA SetMail ==
    ASSUME NEW ps, MailOK(ps), NEW k \in DOMAIN ps, NEW q, IsSeq(q),
           \A m \in Range(q) : m.kind = "UI_MSG" /\ MeantFor(m, ps[k].user)
    PROVE  MailOK([ps EXCEPT ![k].messages = q])
<1> DEFINE r == [ps EXCEPT ![k].messages = q]
<1>1. IsSeq(ps)
  BY DEF MailOK
<1>2. r = [ps EXCEPT ![k] = [ps[k] EXCEPT !.messages = q]]
  OBVIOUS
<1>3. IsSeq(r)
  BY <1>1, <1>2, SeqUpdate
<1>4. DOMAIN r = DOMAIN ps
  OBVIOUS
<1>5. DOMAIN ps[k] = {"user", "messages"}
  BY DEF MailOK
<1>6. r[k].user = ps[k].user /\ r[k].messages = q /\ DOMAIN r[k] = {"user", "messages"}
  BY <1>2, <1>5
<1>7. \A i \in DOMAIN ps : i # k => r[i] = ps[i]
  BY <1>2
<1> HIDE DEF r
<1>8. MailOK(r)
  BY <1>3, <1>4, <1>6, <1>7 DEF MailOK
<1> QED
  BY <1>8 DEF r

\* A message is queued for the user it is for
LEMMA EnqueueMail ==
    ASSUME NEW ps, MailOK(ps), NEW u, NEW m, m.kind = "UI_MSG", MeantFor(m, u)
    PROVE  MailOK(AfterEnqueue(ps, u, m))
<1>1. CASE ~IsLoggedIn(ps, u)
  BY <1>1 DEF AfterEnqueue
<1>2. CASE IsLoggedIn(ps, u)
  <2> DEFINE k == FindIndexOf(ps, u)
             q == Append(ps[k].messages, m)
  <2>1. k \in DOMAIN ps /\ ps[k].user = u
    BY <1>2, ProfileIs
  <2> HIDE DEF k
  <2>2. IsSeq(ps[k].messages)
    BY <2>1 DEF MailOK
  <2>3. IsSeq(q) /\ \A f \in Range(q) : f = m \/ f \in Range(ps[k].messages)
    BY <2>2, SeqAppend
  <2> HIDE DEF q
  <2>4. \A f \in Range(q) : f.kind = "UI_MSG" /\ MeantFor(f, ps[k].user)
    BY <2>1, <2>3 DEF MailOK
  <2>5. MailOK([ps EXCEPT ![k].messages = q])
    BY <2>1, <2>3, <2>4, SetMail
  <2>6. AfterEnqueue(ps, u, m) = [ps EXCEPT ![k].messages = q]
    BY <1>2 DEF AfterEnqueue, k, q
  <2> QED
    BY <2>5, <2>6
<1> QED
  BY <1>1, <1>2

\* A message is queued for everybody but its sender
LEMMA EnqueueAllMail ==
    ASSUME NEW ps, MailOK(ps), NEW u, NEW m, m.kind = "UI_MSG", m.to = None, m.sender = u
    PROVE  MailOK(AfterEnqueueAllExcept(ps, u, m))
<1> DEFINE r == [i \in DOMAIN ps |-> IF ps[i].user = u
                                     THEN ps[i]
                                     ELSE [ps[i] EXCEPT !.messages = Append(@, m)]]
<1>1. CASE Len(ps) = 1
  BY <1>1 DEF AfterEnqueueAllExcept
<1>2. MailOK(r)
  <2>1. IsSeq(ps) /\ Len(ps) \in Nat /\ DOMAIN ps = 1..Len(ps)
    BY SeqElements DEF MailOK
  <2>2. DOMAIN r = DOMAIN ps
    OBVIOUS
  <2>3. IsSeq(r)
    <3>1. r \in [1..Len(ps) -> {r[i] : i \in DOMAIN ps}]
      BY <2>1
    <3>2. Len(ps) \in Nat
      BY <2>1
    <3> HIDE DEF r
    <3>3. r \in Seq({r[i] : i \in DOMAIN ps})
      BY <3>1, <3>2, SeqDef, Zenon
    <3> QED
      BY <3>3, SeqIsSeq
  <2>4. ASSUME NEW i \in DOMAIN ps
        PROVE  /\ DOMAIN r[i] = {"user", "messages"}
               /\ IsSeq(r[i].messages)
               /\ \A f \in Range(r[i].messages) :
                      f.kind = "UI_MSG" /\ MeantFor(f, r[i].user)
    <3>1. /\ DOMAIN ps[i] = {"user", "messages"}
          /\ IsSeq(ps[i].messages)
          /\ \A f \in Range(ps[i].messages) : f.kind = "UI_MSG" /\ MeantFor(f, ps[i].user)
      BY DEF MailOK
    <3>2. CASE ps[i].user = u
      BY <3>1, <3>2
    <3>3. CASE ps[i].user # u
      <4> DEFINE q == Append(ps[i].messages, m)
      <4>1. IsSeq(q) /\ \A f \in Range(q) : f = m \/ f \in Range(ps[i].messages)
        BY <3>1, SeqAppend
      <4> HIDE DEF q
      <4>2. r[i] = [ps[i] EXCEPT !.messages = q]
        BY <3>3 DEF q
      <4>3. /\ DOMAIN r[i] = {"user", "messages"}
            /\ r[i].messages = q
            /\ r[i].user = ps[i].user
        BY <3>1, <4>2
      <4>4. MeantFor(m, ps[i].user)
        BY <3>3 DEF MeantFor
      <4> QED
        BY <3>1, <4>1, <4>3, <4>4
    <3> QED
      BY <3>2, <3>3
  <2> HIDE DEF r
  <2> QED
    BY <2>2, <2>3, <2>4 DEF MailOK
<1> QED
  BY <1>1, <1>2 DEF AfterEnqueueAllExcept

\* What is taken from a user's deque, if anything, is for that user
LEMMA DequeueMail ==
    ASSUME NEW ps, MailOK(ps), NEW u
    PROVE  /\ MailOK(AfterDequeue(ps, u))
           /\ LET m == DequeueBody(ps, u)
              IN  m = None \/ (m.kind = "UI_MSG" /\ MeantFor(m, u))
<1>1. CASE MessagesOf(ps, u) = <<>>
  BY <1>1 DEF AfterDequeue, DequeueBody
<1>2. CASE MessagesOf(ps, u) # <<>>
  <2> DEFINE k == FindIndexOf(ps, u)
             q == ps[k].messages
  <2>1. IsLoggedIn(ps, u) /\ MessagesOf(ps, u) = q
    BY <1>2 DEF MessagesOf
  <2>2. k \in DOMAIN ps /\ ps[k].user = u
    BY <2>1, ProfileIs
  <2>3. /\ IsSeq(q) /\ q # <<>>
        /\ \A f \in Range(q) : f.kind = "UI_MSG" /\ MeantFor(f, u)
    BY <1>2, <2>1, <2>2 DEF MailOK
  <2>4. /\ Head(q) \in Range(q)
        /\ IsSeq(Tail(q)) /\ Range(Tail(q)) \subseteq Range(q)
    BY <2>3, SeqTail, SeqElements
  <2>5. MailOK([ps EXCEPT ![k].messages = Tail(q)])
    BY <2>2, <2>3, <2>4, SetMail
  <2>6. AfterDequeue(ps, u) = [ps EXCEPT ![k].messages = Tail(q)]
    BY <1>2 DEF AfterDequeue
  <2>7. DequeueBody(ps, u) = Head(q)
    BY <1>2, <2>1 DEF DequeueBody
  <2> QED
    BY <2>3, <2>4, <2>5, <2>6, <2>7
<1> QED
  BY <1>1, <1>2

-----------------------------------------------------------------------------
(* The table *)

\* The fields of a connection and of an entry
LEMMA Shapes ==
    /\ DOMAIN Closed = {"cli", "srv", "cmd", "up", "down"}
    /\ DOMAIN FreshSlot = {"fd", "wantWr", "rd", "wr", "out", "begun", "type", "user", "active"}
BY DEF Closed, FreshSlot

\* Closing a connection at the server leaves the others, opens none and writes
\* nothing
LEMMA ClosedAtServer ==
    ASSUME NEW n, NetShape(n), NetOK(n), NEW c,
           NEW r, r = IF Open(n, c) THEN CloseServer(n, c) ELSE n
    PROVE  /\ NetShape(r) /\ NetOK(r) /\ ~Open(r, c)
           /\ \A d \in Conns : /\ d # c => r[d] = n[d]
                               /\ r[d].srv = "open" => r[d] = n[d]
                               /\ n[d].srv # "open" => r[d] = n[d]
<1>1. DOMAIN n = Conns /\ \A d \in Conns : DOMAIN n[d] = DOMAIN Closed /\ IsSeq(n[d].down)
  BY DEF NetShape
<1>2. DOMAIN r = Conns /\ \A d \in Conns : d # c => r[d] = n[d]
  BY <1>1 DEF CloseServer, Open
<1>3. /\ Closed.srv = "closed" /\ Closed.down = <<>>
      /\ IsSeq(Closed.down) /\ Range(Closed.down) = {}
  BY EmptyIsSeq DEF Closed
<1>4. ASSUME c \in Conns
      PROVE  \/ r[c] = n[c] /\ ~Open(n, c)
             \/ r[c] = Closed
             \/ /\ DOMAIN r[c] = DOMAIN Closed
                /\ r[c].srv = "closed" /\ r[c].down = n[c].down /\ r[c].cmd = n[c].cmd
  <2>1. CASE n[c].srv # "open"
    BY <2>1 DEF Open
  <2>2. CASE n[c].srv = "open" /\ ~n[c].cli
    BY <1>1, <1>4, <2>2 DEF CloseServer, Open
  <2>3. CASE n[c].srv = "open" /\ n[c].cli
    <3>1. r[c] = [n[c] EXCEPT !.srv = "closed"]
      BY <1>1, <1>4, <2>3 DEF CloseServer, Open
    <3>2. DOMAIN n[c] = {"cli", "srv", "cmd", "up", "down"}
      BY <1>1, <1>4, Shapes
    <3> QED
      BY <3>1, <3>2, Shapes
  <2> QED
    BY <2>1, <2>2, <2>3
<1>5. NetShape(r)
  BY <1>1, <1>2, <1>3, <1>4 DEF NetShape
<1>6. NetOK(r)
  BY <1>2, <1>3, <1>4 DEF NetOK
<1>7. \A d \in Conns : /\ r[d].srv = "open" => r[d] = n[d]
                       /\ n[d].srv # "open" => r[d] = n[d]
  BY <1>2, <1>3, <1>4 DEF Open
<1>8. ~Open(r, c)
  BY <1>3, <1>4 DEF Open
<1> QED
  BY <1>2, <1>5, <1>6, <1>7, <1>8

\* The variables after a removal
LEMMA RemovedFields ==
    ASSUME NEW s, DOMAIN s = Fields, NEW i, NEW r, r = RemoveConnection(s, i)
    PROVE  /\ DOMAIN r = Fields
           /\ r.net = IF Open(s.net, s.slots[i].fd)
                      THEN CloseServer(s.net, s.slots[i].fd) ELSE s.net
           /\ r.profiles = s.profiles \/ r.profiles = AfterLogout(s.profiles, s.slots[i].user)
           /\ r.slots = [j \in Slots |-> IF j \in i..(s.nConns - 1) THEN s.slots[j + 1]
                                                                    ELSE s.slots[j]]
           /\ r.nConns = s.nConns - 1
           /\ r.up = s.up
<1>1. DOMAIN s = Fields
  BY Shapes
<1> QED
  BY <1>1, Shapes DEF RemoveConnection, Fields

\* A removal keeps the state good, of an entry in the table or of one behind its
\* end that is still looked at, as long as its connection is open: then the last
\* entry, which is dropped, is of the same connection
LEMMA RemoveGood ==
    ASSUME NEW s, NEW b, NEW q, Good(s, b, q), NEW i \in 1..b, Open(s.net, s.slots[i].fd)
    PROVE  Good(RemoveConnection(s, i), b, q) /\ RemoveConnection(s, i).up = s.up
<1> DEFINE r == RemoveConnection(s, i)
           n == s.nConns
           c == s.slots[i].fd
           Old(j) == IF j \in i..(n - 1) THEN j + 1 ELSE j
<1>1. /\ n \in Nat /\ b \in Int /\ n <= b /\ b <= MAX_CONCURRENCY_LIMIT
      /\ i \in Slots
  BY LimitAssumption DEF Good, Slots
<1>2. /\ DOMAIN r = Fields
      /\ r.net = IF Open(s.net, c) THEN CloseServer(s.net, c) ELSE s.net
      /\ r.profiles = s.profiles \/ r.profiles = AfterLogout(s.profiles, s.slots[i].user)
      /\ r.slots = [j \in Slots |-> IF j \in i..(n - 1) THEN s.slots[j + 1] ELSE s.slots[j]]
      /\ r.nConns = n - 1
      /\ r.up = s.up
  BY RemovedFields DEF Good
<1> HIDE DEF r
<1>3. /\ NetShape(r.net) /\ NetOK(r.net) /\ ~Open(r.net, c)
      /\ \A d \in Conns : /\ d # c => r.net[d] = s.net[d]
                          /\ r.net[d].srv = "open" => r.net[d] = s.net[d]
                          /\ s.net[d].srv # "open" => r.net[d] = s.net[d]
  BY <1>2, ClosedAtServer DEF Good
<1>4. /\ TableShape(r.slots)
      /\ \A j \in Slots : r.slots[j] = IF j \in i..(n - 1) THEN s.slots[j + 1] ELSE s.slots[j]
  <2>1. TableShape(s.slots)
    BY DEF Good
  <2>2. \A j \in Slots : j \in i..(n - 1) => j + 1 \in Slots
    BY <1>1, LimitAssumption DEF Slots
  <2> HIDE DEF n
  <2>3. /\ DOMAIN r.slots = Slots
        /\ \A j \in Slots : r.slots[j] = IF j \in i..(n - 1) THEN s.slots[j + 1] ELSE s.slots[j]
    BY <1>2
  <2> QED
    BY <2>1, <2>2, <2>3 DEF TableShape
<1>5. ASSUME NEW j \in 1..b
      PROVE  /\ r.slots[j] = s.slots[Old(j)] /\ Old(j) \in 1..b
             /\ j <= n - 1 => Old(j) <= n /\ Old(j) # i
  <2>1. j \in Slots
    BY <1>1, LimitAssumption DEF Slots
  <2> QED
    BY <1>1, <1>4, <2>1
<1>6. ASSUME NEW j \in 1..b, NEW m \in 1..b, m <= n - 2, j # m
      PROVE  Old(m) \in 1..(n - 1) /\ Old(j) # Old(m)
  BY <1>1, <1>6
<1>7. MailOK(r.profiles)
  BY <1>2, LogoutMail DEF Good
<1>8. LiveOpen(r)
  <2> SUFFICES ASSUME NEW j \in 1..(n - 1)
               PROVE  Open(r.net, r.slots[j].fd)
    BY <1>2 DEF LiveOpen
  <2>1. j \in 1..b /\ Old(j) \in 1..n /\ Old(j) # i
    BY <1>1, <1>5
  <2>2. Open(s.net, s.slots[Old(j)].fd)
    BY <2>1 DEF Good, LiveOpen
  <2>3. s.slots[Old(j)].fd # c
    <3>1. CASE i \in 1..(n - 1)
      BY <1>5, <2>1, <3>1 DEF Good, Apart
    <3>2. CASE i \notin 1..(n - 1)
      <4>1. Old(j) \in 1..(n - 1)
        BY <1>1, <3>2
      <4> QED
        BY <2>1, <4>1 DEF Good, Apart
    <3> QED
      BY <3>1, <3>2
  <2> QED
    BY <1>3, <1>5, <2>1, <2>2, <2>3 DEF Open
<1>9. Apart(r, b)
  <2> SUFFICES ASSUME NEW m \in 1..(n - 2), NEW j \in 1..b, m # j
               PROVE  r.slots[m].fd # r.slots[j].fd
    <3>1. r.nConns - 1 = n - 2
      BY <1>1, <1>2
    <3> QED
      BY <3>1 DEF Apart
  <2>1. m \in 1..b
    BY <1>1
  <2>2. Old(m) \in 1..(n - 1) /\ Old(j) # Old(m) /\ Old(j) \in 1..b
    BY <1>1, <1>5, <1>6, <2>1
  <2>3. s.slots[Old(m)].fd # s.slots[Old(j)].fd
    BY <2>2 DEF Good, Apart
  <2> QED
    BY <1>5, <2>1, <2>3
<1>10. \A j \in 1..b : Open(r.net, r.slots[j].fd) =>
           /\ Open(s.net, s.slots[Old(j)].fd)
           /\ r.net[r.slots[j].fd] = s.net[s.slots[Old(j)].fd]
  BY <1>3, <1>5 DEF Open
<1>11. Declared(r, b)
  <2> SUFFICES ASSUME NEW j \in 1..b, Open(r.net, r.slots[j].fd)
               PROVE  DeclaredAs(r.slots[j], r.net[r.slots[j].fd])
    BY DEF Declared
  <2>1. Old(j) \in 1..b /\ r.slots[j] = s.slots[Old(j)]
    BY <1>5
  <2> HIDE DEF Old
  <2> QED
    BY <1>10, <2>1 DEF Good, Declared
<1>12. OutFits(r, b)
  <2> SUFFICES ASSUME NEW j \in 1..b, Open(r.net, r.slots[j].fd), r.slots[j].out # None
               PROVE  Fits(r.slots[j].out, r.net[r.slots[j].fd].cmd)
    BY DEF OutFits
  <2>1. Old(j) \in 1..b /\ r.slots[j] = s.slots[Old(j)]
    BY <1>5
  <2> HIDE DEF Old
  <2> QED
    BY <1>10, <2>1 DEF Good, OutFits
<1>13. r.nConns \in Nat /\ b \in Int /\ r.nConns <= b /\ b <= MAX_CONCURRENCY_LIMIT
  <2>1. 1..n # {}
    BY DEF Good, Known
  <2> HIDE DEF n
  <2>2. n >= 1
    BY <1>1, <2>1
  <2> QED
    BY <1>1, <1>2, <2>2
<1>14. r.up => BacklogOK(r.net, q)
  BY <1>2, <1>3 DEF Good, BacklogOK
<1>15. Known(r)
  <2> SUFFICES ASSUME NEW d, Open(r.net, d)
               PROVE  \E j \in 1..(n - 1) : r.slots[j].fd = d
    BY <1>2 DEF Known
  <2>2. d # c /\ Open(s.net, d)
    BY <1>3 DEF Open
  <2>3. PICK l \in 1..n : s.slots[l].fd = d
    BY <2>2 DEF Good, Known
  <2>4. PICK k \in 1..n : s.slots[k].fd = c
    BY DEF Good, Known
  <2>5. l # k /\ l # i
    BY <2>2, <2>3, <2>4
  <2>6. i \in 1..(n - 1) \/ k \in 1..(n - 1) => k = i
    BY <1>1, <2>4 DEF Good, Apart
  <2> HIDE DEF n
  <2>7. l \in Int /\ 1 <= l /\ l <= n /\ k \in Int /\ 1 <= k /\ k <= n
        /\ i \in Int /\ 1 <= i
    BY <1>1
  <2>8. CASE l > i
    <3>1. l - 1 \in 1..(n - 1) /\ l - 1 \in 1..b /\ l - 1 \in i..(n - 1)
      BY <1>1, <2>7, <2>8
    <3>2. r.slots[l - 1] = s.slots[Old(l - 1)] /\ Old(l - 1) = l
      BY <1>5, <2>7, <3>1
    <3> HIDE DEF Old
    <3> QED
      BY <2>3, <3>1, <3>2
  <2>9. CASE l < i
    <3>1. l <= n - 1
      BY <1>1, <2>5, <2>6, <2>7, <2>9
    <3>2. l \in 1..(n - 1) /\ l \in 1..b /\ l \notin i..(n - 1)
      BY <1>1, <2>7, <2>9, <3>1
    <3>3. r.slots[l] = s.slots[Old(l)] /\ Old(l) = l
      BY <1>5, <2>7, <3>2
    <3> HIDE DEF Old
    <3> QED
      BY <2>3, <3>2, <3>3
  <2> QED
    BY <2>5, <2>7, <2>8, <2>9
<1>16. Waiting(r, b)
  <2> SUFFICES ASSUME NEW j \in 1..b
               PROVE  Waits(r.slots[j])
    BY DEF Waiting
  <2>1. Old(j) \in 1..b /\ r.slots[j] = s.slots[Old(j)]
    BY <1>5
  <2> HIDE DEF Old
  <2> QED
    BY <2>1 DEF Good, Waiting
<1>17. Good(r, b, q)
  BY <1>2, <1>14, <1>3, <1>4, <1>7, <1>8, <1>9, <1>11, <1>12, <1>13, <1>15, <1>16 DEF Good
<1> QED
  BY <1>2, <1>17 DEF r

-----------------------------------------------------------------------------
(* Sending *)

\* The net after something was read or written: what is open, and with which
\* command it began, is as before, and a command that was read stays read
Alike(n, r) ==
    /\ NetShape(r) /\ NetOK(r)
    /\ \A c \in Conns : /\ r[c].srv = n[c].srv /\ r[c].cmd = n[c].cmd
                        /\ n[c].up = "read" => r[c].up = "read"

\* A state stays good if each entry keeps its connection, what its type says is
\* true of that, and a new frame fits it
LEMMA KeepGood ==
    ASSUME NEW s, NEW b, NEW q, Good(s, b, q), NEW r, DOMAIN r = Fields,
           r.nConns = s.nConns, r.up => s.up, MailOK(r.profiles), Alike(s.net, r.net), TableShape(r.slots),
           \A j \in 1..b :
               LET x == s.slots[j]
                   y == r.slots[j]
                   cmd == s.net[x.fd].cmd
               IN  /\ y.fd = x.fd
                   /\ Waits(y)
                   /\ \/ y.type = x.type /\ y.user = x.user
                      \/ Open(s.net, x.fd) => DeclaredAs(y, s.net[x.fd])
                   /\ \/ y.out = x.out
                      \/ y.out = None
                      \/ Open(s.net, x.fd) => Fits(y.out, cmd)
    PROVE  Good(r, b, q)
<1>1. \A c : Open(r.net, c) <=> Open(s.net, c)
  BY DEF Open, Alike
<1>2. \A c : Open(s.net, c) => r.net[c].cmd = s.net[c].cmd
  BY DEF Open, Alike
<1>3. \A c : Open(s.net, c) /\ s.net[c].up = "read" => r.net[c].up = "read"
  BY DEF Open, Alike
<1>4. \A j \in 1..b : r.slots[j].fd = s.slots[j].fd
  OBVIOUS
<1>5. LiveOpen(r)
  <2>1. \A j \in 1..r.nConns : j \in 1..b
    BY DEF Good
  <2> QED
    BY <1>1, <1>4, <2>1 DEF Good, LiveOpen
<1>6. Apart(r, b)
  <2>1. \A j \in 1..(r.nConns - 1) : j \in 1..b /\ j \in 1..(s.nConns - 1)
    BY DEF Good
  <2> QED
    BY <1>4, <2>1 DEF Good, Apart
<1>7. Declared(r, b)
  <2> SUFFICES ASSUME NEW j \in 1..b, Open(r.net, r.slots[j].fd)
               PROVE  DeclaredAs(r.slots[j], r.net[r.slots[j].fd])
    BY DEF Declared
  <2>1. Open(s.net, s.slots[j].fd) /\ r.net[r.slots[j].fd].cmd = s.net[s.slots[j].fd].cmd
    BY <1>1, <1>2, <1>4
  <2>2. s.net[s.slots[j].fd].up = "read" => r.net[r.slots[j].fd].up = "read"
    BY <1>3, <1>4, <2>1
  <2>3. DeclaredAs(s.slots[j], s.net[s.slots[j].fd])
    BY <2>1 DEF Good, Declared
  <2> QED
    BY <2>1, <2>2, <2>3 DEF DeclaredAs
<1>8. OutFits(r, b)
  <2> SUFFICES ASSUME NEW j \in 1..b, Open(r.net, r.slots[j].fd), r.slots[j].out # None
               PROVE  Fits(r.slots[j].out, r.net[r.slots[j].fd].cmd)
    BY DEF OutFits
  <2>1. Open(s.net, s.slots[j].fd) /\ r.net[r.slots[j].fd].cmd = s.net[s.slots[j].fd].cmd
    BY <1>1, <1>2, <1>4
  <2>2. s.slots[j].out # None => Fits(s.slots[j].out, s.net[s.slots[j].fd].cmd)
    BY <2>1 DEF Good, OutFits
  <2> QED
    BY <2>1, <2>2
<1>9. r.up => BacklogOK(r.net, q)
  BY DEF Good, BacklogOK, Alike
<1>10. Known(r)
  <2>1. \A j \in 1..r.nConns : j \in 1..b
    BY DEF Good
  <2> QED
    BY <1>1, <1>4, <2>1 DEF Good, Known
<1>11. Waiting(r, b)
  BY DEF Waiting
<1> QED
  BY <1>5, <1>6, <1>7, <1>8, <1>9, <1>10, <1>11 DEF Good, Alike

\* A frame that fits is written
LEMMA Written ==
    ASSUME NEW n, NetShape(n), NetOK(n), NEW c, NEW f,
           c \in Conns => Fits(f, n[c].cmd)
    PROVE  Alike(n, WriteDown(n, c, f))
<1> DEFINE r == WriteDown(n, c, f)
           q == Append(n[c].down, f)
<1>1. DOMAIN n = Conns /\ \A d \in Conns : DOMAIN n[d] = DOMAIN Closed /\ IsSeq(n[d].down)
  BY DEF NetShape
<1>2. CASE c \notin Conns \/ ~n[c].cli
  <2>1. DOMAIN r = Conns /\ \A d \in Conns : r[d] = n[d]
    BY <1>1, <1>2 DEF WriteDown
  <2> HIDE DEF r
  <2> QED
    BY <2>1 DEF Alike, NetShape, NetOK, r
<1>3. CASE c \in Conns /\ n[c].cli
  <2>1. IsSeq(q) /\ \A g \in Range(q) : g = f \/ g \in Range(n[c].down)
    BY <1>1, <1>3, SeqAppend
  <2> HIDE DEF q
  <2>2. r = [n EXCEPT ![c] = [n[c] EXCEPT !.down = q]]
    BY <1>3 DEF WriteDown, q
  <2>3. DOMAIN n[c] = {"cli", "srv", "cmd", "up", "down"}
    BY <1>1, <1>3, Shapes
  <2>4. /\ DOMAIN r = Conns
        /\ \A d \in Conns : d # c => r[d] = n[d]
        /\ DOMAIN r[c] = DOMAIN Closed
        /\ r[c].down = q /\ r[c].srv = n[c].srv /\ r[c].cmd = n[c].cmd /\ r[c].up = n[c].up
    BY <1>1, <1>3, <2>2, <2>3, Shapes
  <2> HIDE DEF r
  <2>5. NetShape(r)
    BY <1>1, <2>1, <2>4 DEF NetShape
  <2>6. NetOK(r)
    BY <1>3, <2>1, <2>4 DEF NetOK
  <2>7. \A d \in Conns : r[d].srv = n[d].srv /\ r[d].cmd = n[d].cmd /\ r[d].up = n[d].up
    BY <2>4
  <2> QED
    BY <2>5, <2>6, <2>7 DEF Alike, r
<1> QED
  BY <1>2, <1>3

\* Nothing written
LEMMA SameNet == \A n : NetShape(n) /\ NetOK(n) => Alike(n, n)
BY DEF Alike

\* One more thing written
LEMMA AlikeAlike == \A n, m, r : Alike(n, m) /\ Alike(m, r) => Alike(n, r)
BY DEF Alike

\* Only the frames of UI and file connections are torn
LEMMA TornFits == \A cmd : cmd.op \in {"UI_CONN", "FILE_CONN"} => Fits(Torn, cmd)
BY DEF Fits, Torn

\* The end of the process closes everything
LEMMA ExitGood ==
    ASSUME NEW s, NEW b, NEW q, Good(s, b, q), NEW d \in Int, 0 <= d, d <= b
    PROVE  Good(Exit(s), d, q) /\ Exit(s).up = FALSE
<1> DEFINE r == Exit(s)
           n == s.net
<1>1. DOMAIN s = Fields
  BY Shapes DEF Good
<1>2. /\ DOMAIN r = Fields
      /\ r.up = FALSE /\ r.nConns = 0 /\ r.profiles = <<>>
      /\ r.slots = [i \in Slots |-> FreshSlot]
      /\ r.net = [c \in Conns |-> IF n[c].cli THEN [n[c] EXCEPT !.srv = "closed"] ELSE Closed]
  BY <1>1 DEF Exit, Fields
<1> HIDE DEF r
<1>3. \A c \in Conns : DOMAIN n[c] = DOMAIN Closed /\ IsSeq(n[c].down)
  BY DEF Good, NetShape
<1>4. /\ Closed.srv = "closed" /\ Closed.down = <<>>
      /\ IsSeq(Closed.down) /\ Range(Closed.down) = {}
  BY EmptyIsSeq DEF Closed
<1>5. ASSUME NEW c \in Conns
      PROVE  \/ r.net[c] = Closed
             \/ /\ DOMAIN r.net[c] = DOMAIN Closed
                /\ r.net[c].srv = "closed"
                /\ r.net[c].down = n[c].down /\ r.net[c].cmd = n[c].cmd
  <2>1. CASE n[c].cli
    <3>1. r.net[c] = [n[c] EXCEPT !.srv = "closed"]
      BY <1>2, <2>1
    <3>2. DOMAIN n[c] = {"cli", "srv", "cmd", "up", "down"}
      BY <1>3, Shapes
    <3> QED
      BY <3>1, <3>2, Shapes
  <2>2. CASE ~n[c].cli
    BY <1>2, <2>2
  <2> QED
    BY <2>1, <2>2
<1>6. NetShape(r.net)
  BY <1>2, <1>3, <1>4, <1>5 DEF NetShape
<1>7. NetOK(r.net)
  BY <1>4, <1>5 DEF NetOK, Good
<1>8. \A c : ~Open(r.net, c)
  BY <1>4, <1>5 DEF Open
<1>9. TableShape(r.slots)
  BY <1>2 DEF TableShape
<1>10. Declared(r, d) /\ OutFits(r, d)
  BY <1>8 DEF Declared, OutFits
<1>11. LiveOpen(r) /\ Apart(r, d)
  BY <1>2 DEF LiveOpen, Apart
<1>12. d <= MAX_CONCURRENCY_LIMIT
  BY LimitAssumption DEF Good
<1>13. Known(r) /\ Waiting(r, d)
  <2>1. \A i \in 1..d : i \in Slots
    BY <1>12, LimitAssumption DEF Slots
  <2>2. /\ FreshSlot.wantWr = FALSE /\ FreshSlot.wr = FALSE /\ FreshSlot.out = None
        /\ FreshSlot.begun = FALSE
    BY DEF FreshSlot
  <2>3. Waits(FreshSlot)
    BY <2>2 DEF Waits
  <2> QED
    BY <1>2, <1>8, <2>1, <2>3 DEF Known, Waiting
<1>14. Good(r, d, q)
  BY <1>1, <1>2, <1>6, <1>7, <1>9, <1>10, <1>11, <1>12, <1>13, NoMail DEF Good
<1> QED
  BY <1>2, <1>14 DEF r

\* One entry of a table gets new values
LEMMA SlotSet ==
    ASSUME NEW t, TableShape(t), NEW i \in Slots, NEW x, DOMAIN x = DOMAIN FreshSlot
    PROVE  /\ TableShape([t EXCEPT ![i] = x])
           /\ [t EXCEPT ![i] = x][i] = x
           /\ \A j : j # i /\ j \in Slots => [t EXCEPT ![i] = x][j] = t[j]
BY DEF TableShape

\* Entry i may be given this frame: the frame fits the entry's connection, and
\* one that may block goes to a UI or file connection
MayGet(s, i, frame) ==
    frame # None =>
        /\ Open(s.net, s.slots[i].fd) => Fits(frame, s.net[s.slots[i].fd].cmd)
        /\ frame.kind \in MayBlock => s.slots[i].type \in {"UI", "FIL"}

\* A new frame for entry i, if it is one, fits its connection
LEMMA BuildGood ==
    ASSUME NEW s, NEW b, NEW q, Good(s, b, q), NEW i \in 1..b, NEW frame,
           MayGet(s, i, frame)
    PROVE  LET r == BuildSendMsg(s, i, frame)
           IN  /\ Good(r, b, q) /\ r.up = s.up /\ r.profiles = s.profiles
               /\ r.slots[i].user = s.slots[i].user
               /\ r.slots[i].type = s.slots[i].type
               /\ r.slots[i].fd = s.slots[i].fd
               /\ r.slots[i].out = frame
               /\ Alike(s.net, r.net)
<1> USE DEF MayGet
<1> DEFINE r == BuildSendMsg(s, i, frame)
           old == s.slots[i]
           x == [old EXCEPT !.out = frame, !.begun = FALSE]
<1>1. /\ DOMAIN s = Fields
      /\ DOMAIN FreshSlot = {"fd", "wantWr", "rd", "wr", "out", "begun", "type", "user", "active"}
  BY Shapes DEF Good
<1>2. i \in Slots /\ \A j \in 1..b : j \in Slots
  BY LimitAssumption DEF Good, Slots
<1>3. TableShape(s.slots) /\ DOMAIN s.slots = Slots /\ DOMAIN old = DOMAIN FreshSlot
  BY <1>2 DEF Good, TableShape
<1>4. /\ DOMAIN x = DOMAIN FreshSlot
      /\ x.fd = old.fd /\ x.type = old.type /\ x.user = old.user /\ x.out = frame
      /\ x.wantWr = old.wantWr /\ x.wr = old.wr /\ x.begun = FALSE
  BY <1>1, <1>3
<1>5. /\ DOMAIN r = Fields
      /\ r.slots = [s.slots EXCEPT ![i] = x]
      /\ r.net = IF old.begun /\ Open(s.net, old.fd) THEN WriteDown(s.net, old.fd, Torn) ELSE s.net
      /\ r.nConns = s.nConns /\ r.up = s.up /\ r.profiles = s.profiles
  BY <1>1, <1>2, <1>3 DEF BuildSendMsg, Fields
<1> HIDE DEF r, x
<1>6. /\ TableShape(r.slots) /\ r.slots[i] = x
      /\ \A j \in 1..b : j # i => r.slots[j] = s.slots[j]
  BY <1>2, <1>3, <1>4, <1>5, SlotSet
<1>7. Alike(s.net, r.net)
  <2>1. NetShape(s.net) /\ NetOK(s.net)
    BY DEF Good
  <2>2. ASSUME old.begun, Open(s.net, old.fd)
        PROVE  Alike(s.net, WriteDown(s.net, old.fd, Torn))
    <3>1. Waits(old) /\ DeclaredAs(old, s.net[old.fd])
      BY <2>2 DEF Good, Waiting, Declared
    <3>2. Fits(Torn, s.net[old.fd].cmd)
      BY <2>2, <3>1, TornFits DEF Waits, DeclaredAs
    <3> QED
      BY <2>1, <3>2, Written
  <2> QED
    BY <1>5, <2>1, <2>2, SameNet
<1>8. MailOK(r.profiles)
  BY <1>5 DEF Good
<1>9. \A j \in 1..b : Waits(r.slots[j])
  <2>1. \A j \in 1..b : Waits(s.slots[j])
    BY DEF Good, Waiting
  <2>2. Waits(x)
    <3>1. Waits(old)
      BY <2>1
    <3> QED
      BY <1>4, <3>1 DEF Waits
  <2> QED
    BY <1>6, <2>1, <2>2
<1>10. ASSUME NEW j \in 1..b
       PROVE  LET z == s.slots[j]
                  y == r.slots[j]
                  cmd == s.net[z.fd].cmd
              IN  /\ y.fd = z.fd
                  /\ \/ y.type = z.type /\ y.user = z.user
                     \/ Open(s.net, z.fd) => DeclaredAs(y, s.net[z.fd])
                  /\ \/ y.out = z.out
                     \/ y.out = None
                     \/ Open(s.net, z.fd) => Fits(y.out, cmd)
  BY <1>4, <1>6
<1>11. Good(r, b, q)
  BY <1>1, <1>5, <1>6, <1>7, <1>8, <1>9, <1>10, KeepGood
<1> QED
  BY <1>4, <1>5, <1>6, <1>7, <1>11 DEF r

\* Marks of entry i change, its frame is over, or its type becomes what its
\* connection was declared as
LEMMA MarkGood ==
    ASSUME NEW s, NEW b, NEW q, Good(s, b, q), NEW i \in 1..b, NEW x,
           DOMAIN x = DOMAIN FreshSlot,
           x.fd = s.slots[i].fd,
           \/ x.type = s.slots[i].type /\ x.user = s.slots[i].user
           \/ Open(s.net, x.fd) => DeclaredAs(x, s.net[x.fd]),
           x.out = s.slots[i].out \/ x.out = None,
           Waits(x)
    PROVE  Good([s EXCEPT !.slots[i] = x], b, q)
<1> DEFINE r == [s EXCEPT !.slots[i] = x]
<1>1. DOMAIN s = Fields
  BY Shapes DEF Good
<1>2. i \in Slots /\ \A j \in 1..b : j \in Slots
  BY LimitAssumption DEF Good, Slots
<1>3. TableShape(s.slots)
  BY DEF Good
<1>4. /\ DOMAIN r = Fields
      /\ r.slots = [s.slots EXCEPT ![i] = x]
      /\ r.net = s.net /\ r.nConns = s.nConns /\ r.up = s.up /\ r.profiles = s.profiles
  BY <1>1 DEF Fields
<1> HIDE DEF r
<1>5. /\ TableShape(r.slots) /\ r.slots[i] = x
      /\ \A j \in 1..b : j # i => r.slots[j] = s.slots[j]
  BY <1>2, <1>3, <1>4, SlotSet
<1>6. Alike(s.net, r.net) /\ MailOK(r.profiles)
  BY <1>4, SameNet DEF Good
<1>7. ASSUME NEW j \in 1..b
      PROVE  LET z == s.slots[j]
                 y == r.slots[j]
                 cmd == s.net[z.fd].cmd
             IN  /\ y.fd = z.fd
                 /\ Waits(y)
                 /\ \/ y.type = z.type /\ y.user = z.user
                    \/ Open(s.net, z.fd) => DeclaredAs(y, s.net[z.fd])
                 /\ \/ y.out = z.out
                    \/ y.out = None
                    \/ Open(s.net, z.fd) => Fits(y.out, cmd)
  BY <1>5 DEF Good, Waiting
<1>8. Good(r, b, q)
  BY <1>1, <1>4, <1>5, <1>6, <1>7, KeepGood
<1> QED
  BY <1>8 DEF r

\* The end of a frame, on an open connection or one that is not removed then
LEMMA CompletedGood ==
    ASSUME NEW s, NEW b, NEW q, Good(s, b, q), NEW i \in 1..b,
           Open(s.net, s.slots[i].fd) \/ IsUiConn(s, i) \/ IsFileConn(s, i)
    PROVE  Good(SendCompleted(s, i), b, q)
<1> DEFINE old == s.slots[i]
           x == [old EXCEPT !.out = None, !.begun = FALSE, !.wantWr = FALSE]
           y == [x EXCEPT !.active = FALSE]
           idle == [s EXCEPT !.slots[i] = x]
           rest == [s EXCEPT !.slots[i] = y]
<1>1. DOMAIN FreshSlot = {"fd", "wantWr", "rd", "wr", "out", "begun", "type", "user", "active"}
  BY Shapes
<1>2. DOMAIN s = Fields /\ i \in Slots /\ DOMAIN s.slots = Slots /\ DOMAIN old = DOMAIN FreshSlot
  BY LimitAssumption, Shapes DEF Good, Slots, TableShape
<1>3. /\ DOMAIN x = DOMAIN FreshSlot /\ DOMAIN y = DOMAIN FreshSlot
      /\ x.fd = old.fd /\ x.type = old.type /\ x.user = old.user /\ x.out = None
      /\ y.fd = old.fd /\ y.type = old.type /\ y.user = old.user /\ y.out = None
      /\ x.wantWr = FALSE /\ y.wantWr = FALSE /\ x.wr = old.wr /\ y.wr = old.wr
      /\ x.begun = FALSE /\ y.begun = FALSE
  BY <1>1, <1>2
<1>4. [s EXCEPT !.slots[i].out = None, !.slots[i].begun = FALSE, !.slots[i].wantWr = FALSE]
          = idle
  BY <1>2 DEF Fields
<1>5. [idle EXCEPT !.slots[i].active = FALSE] = rest
  BY <1>2 DEF Fields
<1> HIDE DEF x, y
<1>6. Good(idle, b, q) /\ Good(rest, b, q)
  <2>1. Waits(old)
    BY DEF Good, Waiting
  <2>2. Waits(x) /\ Waits(y)
    BY <1>3, <2>1 DEF Waits
  <2> QED
    BY <1>3, <2>2, MarkGood
<1>7. idle.net = s.net /\ idle.slots[i].fd = old.fd
  BY <1>2, <1>3 DEF Fields
<1> HIDE DEF idle, rest
<1>8. Open(s.net, old.fd) => Good(RemoveConnection(idle, i), b, q)
  BY <1>6, <1>7, RemoveGood
<1> QED
  BY <1>4, <1>5, <1>6, <1>8 DEF SendCompleted

\* Something was read or written, and the deques may have changed
LEMMA NetGood ==
    ASSUME NEW s, NEW b, NEW q, Good(s, b, q), NEW r, DOMAIN r = Fields,
           r.slots = s.slots, r.nConns = s.nConns, r.up = s.up,
           Alike(s.net, r.net), MailOK(r.profiles)
    PROVE  Good(r, b, q)
<1>1. TableShape(r.slots)
  BY DEF Good
<1>2. ASSUME NEW j \in 1..b
      PROVE  LET z == s.slots[j]
                 y == r.slots[j]
                 cmd == s.net[z.fd].cmd
             IN  /\ y.fd = z.fd
                 /\ Waits(y)
                 /\ \/ y.type = z.type /\ y.user = z.user
                    \/ Open(s.net, z.fd) => DeclaredAs(y, s.net[z.fd])
                 /\ \/ y.out = z.out
                    \/ y.out = None
                    \/ Open(s.net, z.fd) => Fits(y.out, cmd)
  BY DEF Good, Waiting
<1> QED
  BY <1>1, <1>2, KeepGood

\* A frame, or a part of it, is sent, on whatever connection the entry has
LEMMA SendFrameGood ==
    ASSUME NEW s, NEW b, NEW q, Good(s, b, q), NEW i \in 1..b, NEW o,
           Open(s.net, s.slots[i].fd) => Fits(s.slots[i].out, s.net[s.slots[i].fd].cmd),
           s.slots[i].out.kind \in MayBlock => s.slots[i].type \in {"UI", "FIL"}
    PROVE  Good(SendFrame(s, i, o), b, q)
<1> DEFINE x == s.slots[i]
           blocked == [x EXCEPT !.wantWr = TRUE, !.begun = TRUE]
           wrote == [s EXCEPT !.net = WriteDown(s.net, x.fd, x.out)]
<1>1. /\ DOMAIN s = Fields
      /\ DOMAIN FreshSlot = {"fd", "wantWr", "rd", "wr", "out", "begun", "type", "user", "active"}
  BY Shapes DEF Good
<1>2. i \in Slots /\ DOMAIN s.slots = Slots /\ DOMAIN x = DOMAIN FreshSlot
  BY LimitAssumption DEF Good, Slots, TableShape
<1>4. Good(Exit(s), b, q)
  <2>1. b \in Int /\ 0 <= b /\ b <= b
    BY DEF Good
  <2> QED
    BY <2>1, ExitGood
<1>5. Open(s.net, x.fd) => Good(RemoveConnection(s, i), b, q)
  BY RemoveGood
<1>6. ASSUME x.out.kind \in MayBlock
      PROVE  Good([s EXCEPT !.slots[i].wantWr = TRUE, !.slots[i].begun = TRUE], b, q)
  <2>1. /\ DOMAIN blocked = DOMAIN FreshSlot
        /\ blocked.fd = x.fd /\ blocked.type = x.type /\ blocked.user = x.user
        /\ blocked.out = x.out
    BY <1>1, <1>2
  <2>2. [s EXCEPT !.slots[i].wantWr = TRUE, !.slots[i].begun = TRUE]
            = [s EXCEPT !.slots[i] = blocked]
    BY <1>1, <1>2 DEF Fields
  <2> HIDE DEF blocked
  <2>3. Waits(blocked)
    BY <1>6, <2>1 DEF Waits
  <2> QED
    BY <2>1, <2>2, <2>3, MarkGood
<1>7. ASSUME Open(s.net, x.fd)
      PROVE  Good(SendCompleted(wrote, i), b, q)
  <2>1. Fits(x.out, s.net[x.fd].cmd)
    BY <1>7
  <2>2. NetShape(s.net) /\ NetOK(s.net) /\ MailOK(s.profiles)
    BY DEF Good
  <2>3. Alike(s.net, WriteDown(s.net, x.fd, x.out))
    BY <2>1, <2>2, Written
  <2>4. /\ DOMAIN wrote = Fields
        /\ wrote.slots = s.slots /\ wrote.nConns = s.nConns /\ wrote.up = s.up
        /\ wrote.net = WriteDown(s.net, x.fd, x.out) /\ wrote.profiles = s.profiles
    BY <1>1 DEF Fields
  <2> HIDE DEF wrote
  <2>5. Good(wrote, b, q)
    BY <2>2, <2>3, <2>4, NetGood
  <2>6. Open(wrote.net, wrote.slots[i].fd)
    BY <1>7, <2>3, <2>4 DEF Open, Alike
  <2> QED
    BY <2>5, <2>6, CompletedGood
<1>8. [s EXCEPT !.net = WriteDown(@, x.fd, x.out)] = wrote
  BY <1>1 DEF Fields
<1> HIDE DEF wrote
<1>10. CASE ~Open(s.net, x.fd)
  BY <1>4, <1>10 DEF SendFrame
<1>11. CASE Open(s.net, x.fd) /\ x.fd \in o.gone
  BY <1>5, <1>11 DEF SendFrame
<1>12. CASE Open(s.net, x.fd) /\ x.fd \in o.full \ o.gone /\ x.out.kind \in MayBlock
  BY <1>6, <1>12 DEF SendFrame
<1>13. CASE /\ Open(s.net, x.fd) /\ x.fd \notin o.gone
            /\ ~(x.fd \in o.full \ o.gone /\ x.out.kind \in MayBlock)
  BY <1>7, <1>8, <1>13 DEF SendFrame
<1> QED
  BY <1>10, <1>11, <1>12, <1>13

\* Whether or not there is something to send, on the connections messages and
\* files go to
LEMMA SendGood ==
    ASSUME NEW s, NEW b, NEW q, Good(s, b, q), NEW i \in 1..b, NEW o,
           IsUiConn(s, i) \/ IsFileConn(s, i)
    PROVE  Good(SendMessage(s, i, o), b, q)
<1>1. CASE s.slots[i].out = None
  BY <1>1, CompletedGood DEF SendMessage
<1>2. CASE s.slots[i].out # None
  <2>1. Open(s.net, s.slots[i].fd) => Fits(s.slots[i].out, s.net[s.slots[i].fd].cmd)
    BY <1>2 DEF Good, OutFits
  <2>2. s.slots[i].type \in {"UI", "FIL"}
    BY DEF IsUiConn, IsFileConn
  <2>3. Good(SendFrame(s, i, o), b, q)
    BY <2>1, <2>2, SendFrameGood
  <2> QED
    BY <1>2, <2>3 DEF SendMessage
<1> QED
  BY <1>1, <1>2

\* The connection of entry i is the one that command cmd was read from
Asked(s, i, cmd) ==
    Open(s.net, s.slots[i].fd) =>
        s.net[s.slots[i].fd].cmd = cmd /\ s.net[s.slots[i].fd].up = "read"

\* A status that answers the command: only a login begins a session, and only a
\* login or a logout ends one
IsStatusOf(status, cmd) ==
    /\ status = "LOGGED_IN" => cmd.op = "LOGIN"
    /\ status = "LOGGED_OUT" => cmd.op \in {"LOGIN", "LOGOUT"}

\* The answer to a command fits its connection, that to a file command any
LEMMA ResponseFits ==
    ASSUME NEW status, NEW note, NEW cmd
    PROVE  LET f == Response(status, note, cmd)
           IN  /\ f.kind = "RESP"
               /\ IsStatusOf(status, cmd) => Fits(f, cmd)
               /\ cmd.op \in {"SEND_FILE", "SEND_FILE_TO"} /\ status \in {"OK", "FAILURE"}
                      => \A e : Fits(f, e)
<1> DEFINE f == Response(status, note, cmd)
<1>1. /\ f.kind = "RESP" /\ f.status = status /\ f.id = cmd.id /\ f.op = cmd.op
      /\ cmd.op = "LOGIN" => f.user = cmd.name
  BY DEF Response
<1> HIDE DEF f
<1>2. IsStatusOf(status, cmd) => Fits(f, cmd)
  BY <1>1 DEF IsStatusOf, Fits, Answers
<1>3. cmd.op \in {"SEND_FILE", "SEND_FILE_TO"} /\ status \in {"OK", "FAILURE"}
          => \A e : Fits(f, e)
  BY <1>1 DEF Fits, AboutFile
<1> QED
  BY <1>1, <1>2, <1>3 DEF f

\* An answer that fits its connection is sent
LEMMA ResponseGood ==
    ASSUME NEW s, NEW b, NEW q, Good(s, b, q), NEW i \in 1..b, NEW f, NEW o,
           f.kind = "RESP", Open(s.net, s.slots[i].fd) => Fits(f, s.net[s.slots[i].fd].cmd)
    PROVE  Good(SendResponse(s, i, f, o), b, q)
<1> DEFINE r == BuildSendMsg(s, i, f)
<1>1. f.kind \notin MayBlock
  BY BlockAssumption
<1>2. /\ Good(r, b, q) /\ r.slots[i].out = f
      /\ Alike(s.net, r.net) /\ r.slots[i].fd = s.slots[i].fd
  BY <1>1, BuildGood DEF MayGet
<1>3. Open(r.net, r.slots[i].fd) => Fits(f, r.net[r.slots[i].fd].cmd)
  BY <1>2 DEF Open, Alike
<1> HIDE DEF r
<1>4. Good(SendFrame(r, i, o), b, q)
  BY <1>1, <1>2, <1>3, SendFrameGood
<1> QED
  BY <1>4 DEF SendResponse, r

\* The answer to a command, on its connection
LEMMA AnswerGood ==
    ASSUME NEW s, NEW b, NEW q, Good(s, b, q), NEW i \in 1..b, NEW cmd, NEW o,
           Asked(s, i, cmd), NEW status, NEW note, IsStatusOf(status, cmd)
    PROVE  Good(SendResponse(s, i, Response(status, note, cmd), o), b, q)
BY ResponseFits, ResponseGood DEF Asked

\* Calls of the data store change nothing of the table
LEMMA StoreGood ==
    ASSUME NEW s, NEW b, NEW q, Good(s, b, q), NEW r, DOMAIN r = Fields,
           r.slots = s.slots, r.nConns = s.nConns, r.up = s.up, r.net = s.net,
           MailOK(r.profiles)
    PROVE  Good(r, b, q)
<1>1. Alike(s.net, r.net)
  BY SameNet DEF Good
<1> QED
  BY <1>1, NetGood

\* A login, a logout, a message to a user and one to all the others
LEMMA CallsGood ==
    ASSUME NEW s, NEW b, NEW q, Good(s, b, q), NEW u
    PROVE  /\ \A p : Good(Start(s, u, p), b, q)
           /\ Good([s EXCEPT !.profiles = AfterLogout(@, u)], b, q)
           /\ \A m : m.kind = "UI_MSG" /\ MeantFor(m, u) => Good(Post(s, u, m), b, q)
           /\ \A m : m.kind = "UI_MSG" /\ m.to = None /\ m.sender = u =>
                  Good(PostAllExcept(s, u, m), b, q)
<1>1. DOMAIN s = Fields
  BY Shapes DEF Good
<1>2. MailOK(s.profiles)
  BY DEF Good
<1>3. ASSUME NEW p
      PROVE  Good(Start(s, u, p), b, q)
  <2> DEFINE r == Start(s, u, p)
  <2>1. /\ DOMAIN r = Fields
        /\ r.slots = s.slots /\ r.nConns = s.nConns /\ r.up = s.up /\ r.net = s.net
        /\ r.profiles = AfterLogin(s.registrar, s.profiles, u, p)
    BY <1>1 DEF Start, Fields
  <2> HIDE DEF r
  <2>2. MailOK(r.profiles)
    BY <1>2, <2>1, LoginMail
  <2>3. Good(r, b, q)
    BY <1>1, <2>1, <2>2, StoreGood
  <2> QED
    BY <2>3 DEF r
<1>4. Good([s EXCEPT !.profiles = AfterLogout(@, u)], b, q)
  <2> DEFINE r == [s EXCEPT !.profiles = AfterLogout(@, u)]
  <2>1. /\ DOMAIN r = Fields
        /\ r.slots = s.slots /\ r.nConns = s.nConns /\ r.up = s.up /\ r.net = s.net
        /\ r.profiles = AfterLogout(s.profiles, u)
    BY <1>1 DEF Fields
  <2> HIDE DEF r
  <2>2. MailOK(r.profiles)
    BY <1>2, <2>1, LogoutMail
  <2>3. Good(r, b, q)
    BY <1>1, <2>1, <2>2, StoreGood
  <2> QED
    BY <2>3 DEF r
<1>5. ASSUME NEW m, m.kind = "UI_MSG", MeantFor(m, u)
      PROVE  Good(Post(s, u, m), b, q)
  <2> DEFINE r == Post(s, u, m)
  <2>1. /\ DOMAIN r = Fields
        /\ r.slots = s.slots /\ r.nConns = s.nConns /\ r.up = s.up /\ r.net = s.net
        /\ r.profiles = AfterEnqueue(s.profiles, u, m)
    BY <1>1 DEF Post, Fields
  <2> HIDE DEF r
  <2>2. MailOK(r.profiles)
    BY <1>2, <1>5, <2>1, EnqueueMail
  <2>3. Good(r, b, q)
    BY <1>1, <2>1, <2>2, StoreGood
  <2> QED
    BY <2>3 DEF r
<1>6. ASSUME NEW m, m.kind = "UI_MSG", m.to = None, m.sender = u
      PROVE  Good(PostAllExcept(s, u, m), b, q)
  <2> DEFINE r == PostAllExcept(s, u, m)
  <2>1. /\ DOMAIN r = Fields
        /\ r.slots = s.slots /\ r.nConns = s.nConns /\ r.up = s.up /\ r.net = s.net
        /\ r.profiles = AfterEnqueueAllExcept(s.profiles, u, m)
    BY <1>1 DEF PostAllExcept, Fields
  <2> HIDE DEF r
  <2>2. MailOK(r.profiles)
    BY <1>2, <1>6, <2>1, EnqueueAllMail
  <2>3. Good(r, b, q)
    BY <1>1, <2>1, <2>2, StoreGood
  <2> QED
    BY <2>3 DEF r
<1> QED
  BY <1>3, <1>4, <1>5, <1>6

-----------------------------------------------------------------------------
(* Handlers *)

\* The file connection found for a user is in the table, and the user's
LEMMA FileConnFound ==
    ASSUME NEW s, NEW b, NEW q, Good(s, b, q), NEW u, GetFileConn(s, u) # 0
    PROVE  LET k == GetFileConn(s, u)
           IN  /\ k \in 1..s.nConns /\ k \in 1..b
               /\ s.slots[k].user = u /\ s.slots[k].type = "FIL"
<1> DEFINE n == s.nConns
           t == Live(s)
           I == {i \in 1..Len(t) : t[i].user = u /\ t[i].type = "FIL" /\ ~t[i].active}
<1>1. n \in Int /\ b \in Int /\ n <= b /\ b <= MAX_CONCURRENCY_LIMIT
  BY DEF Good
<1>2. \A i \in 1..n : s.slots[i] \in {s.slots[j] : j \in 1..n}
  OBVIOUS
<1>3. /\ Len(t) = IF 1 <= n THEN n - 1 + 1 ELSE 0
      /\ \A i \in 1..(n - 1 + 1) : t[i] = s.slots[1 + i - 1]
  BY <1>1, <1>2, SubSeqProperties DEF Live
<1> HIDE DEF n, t
<1>4. /\ Len(t) \in Nat
      /\ \A i \in 1..Len(t) : i \in 1..n /\ t[i] = s.slots[i]
  BY <1>1, <1>3
<1>5. GetFileConn(s, u) = IF I # {} THEN Min(I) ELSE 0
  BY DEF GetFileConn, SelectInSeq, t
<1>6. I # {} /\ I \subseteq Nat
  BY <1>4, <1>5
<1>7. Min(I) \in I
  BY <1>6, MinIsIn
<1> DEFINE k == Min(I)
<1>8. /\ k \in 1..Len(t)
      /\ t[k].user = u /\ t[k].type = "FIL"
  BY <1>7
<1> HIDE DEF k, I
<1>9. /\ k \in 1..n /\ k \in 1..b
      /\ s.slots[k].user = u /\ s.slots[k].type = "FIL"
  BY <1>1, <1>4, <1>8
<1>10. GetFileConn(s, u) = k
  BY <1>5, <1>6 DEF k
<1> QED
  BY <1>9, <1>10 DEF n

\* A file goes to a connection of a user it is meant for
LEMMA FileGood ==
    ASSUME NEW s, NEW b, NEW q, Good(s, b, q), NEW u, NEW f,
           f.kind = "FILE_MSG", MeantFor(f, u), NEW o
    PROVE  Good(FileTo(s, u, f, o), b, q)
<1> DEFINE k == GetFileConn(s, u)
<1>1. CASE k = 0
  BY <1>1 DEF FileTo
<1>2. CASE k # 0
  <2>1. k \in 1..b /\ s.slots[k].user = u /\ s.slots[k].type = "FIL"
    BY <1>2, FileConnFound
  <2> HIDE DEF k
  <2>2. Open(s.net, s.slots[k].fd) => Fits(f, s.net[s.slots[k].fd].cmd)
    <3> SUFFICES ASSUME Open(s.net, s.slots[k].fd)
                 PROVE  Fits(f, s.net[s.slots[k].fd].cmd)
      OBVIOUS
    <3>1. DeclaredAs(s.slots[k], s.net[s.slots[k].fd])
      BY <2>1 DEF Good, Declared
    <3> QED
      BY <2>1, <3>1 DEF DeclaredAs, Fits
  <2>3. Good(BuildSendMsg(s, k, f), b, q) /\ BuildSendMsg(s, k, f).slots[k].type = "FIL"
    <3>1. MayGet(s, k, f)
      BY <2>1, <2>2 DEF MayGet
    <3> QED
      BY <2>1, <3>1, BuildGood
  <2>4. Good(SendMessage(BuildSendMsg(s, k, f), k, o), b, q)
    BY <2>1, <2>3, SendGood DEF IsFileConn
  <2> QED
    BY <1>2, <2>4 DEF FileTo, k
<1> QED
  BY <1>1, <1>2

\* The recursive function behind the loop of StartFileToAllUsers
PublicFile(cmd) == Message("FILE_MSG", cmd.user, cmd.user, None, cmd.id)

NextRecipient(x, u, cmd, o) ==
    IF x.up /\ u # cmd.user THEN FileTo(x, u, PublicFile(cmd), o) ELSE x

IsFileLoop(f, n, s, us, cmd, o) ==
    f = [t \in SUBSET (1..n) |->
            IF t = {} THEN s
            ELSE NextRecipient(f[t \ {Max(t)}], us[Max(t)], cmd, o)]

\* There is one
LEMMA FileLoopExists ==
    ASSUME NEW s, NEW us, NEW cmd, NEW o
    PROVE  \A n \in Nat : \E f : IsFileLoop(f, n, s, us, cmd, o)
<1> DEFINE S == {n \in Nat : \E f : IsFileLoop(f, n, s, us, cmd, o)}
           Op(x, m) == NextRecipient(x, us[m], cmd, o)
<1>1. 0 \in S
  <2> DEFINE f == [t \in SUBSET (1..0) |-> s]
  <2>1. 1..0 = {}
    OBVIOUS
  <2>2. IsFileLoop(f, 0, s, us, cmd, o)
    BY <2>1 DEF IsFileLoop
  <2> QED
    BY <2>2
<1>2. ASSUME NEW n \in Nat, n \in S
      PROVE  n + 1 \in S
  <2>1. PICK f : IsFileLoop(f, n, s, us, cmd, o)
    BY <1>2
  <2> DEFINE g == [t \in SUBSET (1..(n + 1)) |->
                      IF n + 1 \in t THEN Op(f[t \ {n + 1}], n + 1) ELSE f[t]]
  <2> HIDE DEF Op
  <2>2. ASSUME NEW t \in SUBSET (1..n)
        PROVE  f[t] = IF t = {} THEN s ELSE Op(f[t \ {Max(t)}], Max(t))
    BY <2>1 DEF IsFileLoop, Op
  <2>3. ASSUME NEW t \in SUBSET (1..(n + 1))
        PROVE  g[t] = IF t = {} THEN s ELSE Op(g[t \ {Max(t)}], Max(t))
    <3>1. CASE n + 1 \in t
      <4>1. Max(t) = n + 1
        <5>1. n + 1 \in Nat /\ t \subseteq 1..(n + 1)
          OBVIOUS
        <5> QED
          BY <3>1, <5>1, MaxIs
      <4>2. t \ {n + 1} \in SUBSET (1..n) /\ t \ {n + 1} \in SUBSET (1..(n + 1))
        OBVIOUS
      <4>3. g[t \ {n + 1}] = f[t \ {n + 1}]
        BY <4>2
      <4>4. g[t] = Op(f[t \ {n + 1}], n + 1)
        BY <3>1
      <4> HIDE DEF g
      <4> QED
        BY <3>1, <4>1, <4>3, <4>4
    <3>2. CASE n + 1 \notin t
      <4>1. t \in SUBSET (1..n)
        BY <3>2
      <4>2. g[t] = f[t]
        BY <3>2
      <4>3. t \ {Max(t)} \in SUBSET (1..(n + 1)) /\ n + 1 \notin t \ {Max(t)}
        BY <3>2
      <4>4. g[t \ {Max(t)}] = f[t \ {Max(t)}]
        BY <4>3
      <4> HIDE DEF g
      <4> QED
        BY <2>2, <4>1, <4>2, <4>4
    <3> QED
      BY <3>1, <3>2
  <2>4. g = [t \in SUBSET (1..(n + 1)) |-> g[t]]
    OBVIOUS
  <2> HIDE DEF g
  <2>5. IsFileLoop(g, n + 1, s, us, cmd, o)
    BY <2>3, <2>4 DEF IsFileLoop, Op
  <2>6. \E h : IsFileLoop(h, n + 1, s, us, cmd, o)
    BY <2>5
  <2> QED
    BY <2>6
<1> HIDE DEF S
<1>3. Nat \subseteq S
  BY <1>1, <1>2, SetInduction
<1> QED
  BY <1>3 DEF S

\* After each recipient the state is good
LEMMA FileLoopGood ==
    ASSUME NEW s, NEW b, NEW q, Good(s, b, q), NEW us, NEW cmd, NEW o,
           NEW n \in Nat, NEW f, IsFileLoop(f, n, s, us, cmd, o)
    PROVE  Good(f[1..n], b, q)
<1> DEFINE T == {k \in Nat : k <= n => Good(f[1..k], b, q)}
<1>1. 0 \in T
  <2>1. 1..0 = {} /\ {} \in SUBSET (1..n)
    OBVIOUS
  <2>2. f[{}] = s
    BY <2>1 DEF IsFileLoop
  <2> QED
    BY <2>1, <2>2
<1>2. ASSUME NEW k \in Nat, k \in T
      PROVE  k + 1 \in T
  <2> SUFFICES ASSUME k + 1 <= n
               PROVE  Good(f[1..(k + 1)], b, q)
    OBVIOUS
  <2> DEFINE t == 1..(k + 1)
             x == f[1..k]
             v == us[k + 1]
  <2>1. Max(t) = k + 1
    BY MaxIs
  <2>2. t \in SUBSET (1..n) /\ t # {} /\ t \ {k + 1} = 1..k
    OBVIOUS
  <2>3. f[t] = NextRecipient(x, v, cmd, o)
    BY <2>1, <2>2 DEF IsFileLoop
  <2>4. Good(x, b, q)
    BY <1>2
  <2> HIDE DEF x, v, t
  <2>5. CASE ~(x.up /\ v # cmd.user)
    BY <2>3, <2>4, <2>5 DEF NextRecipient, t
  <2>6. CASE x.up /\ v # cmd.user
    <3> DEFINE file == PublicFile(cmd)
    <3>1. file.kind = "FILE_MSG" /\ MeantFor(file, v)
      BY <2>6 DEF PublicFile, Message, MeantFor
    <3> HIDE DEF file
    <3>2. Good(FileTo(x, v, file, o), b, q)
      BY <2>4, <3>1, FileGood
    <3> QED
      BY <2>3, <2>6, <3>2 DEF NextRecipient, file, t
  <2> QED
    BY <2>5, <2>6
<1> HIDE DEF T
<1>3. Nat \subseteq T
  BY <1>1, <1>2, SetInduction
<1> QED
  BY <1>3 DEF T

\* A file to all others
LEMMA SendFileGood ==
    ASSUME NEW s, NEW b, NEW q, Good(s, b, q), NEW i \in 1..b, NEW cmd, NEW o,
           cmd.op = "SEND_FILE"
    PROVE  Good(HandleSendFile(s, i, cmd, o), b, q)
<1> DEFINE us == GetSignedInUsers(s.profiles)
           n == Len(s.profiles)
           file == Message("FILE_MSG", cmd.user, cmd.user, None, cmd.id)
           sent == FoldLeft(LAMBDA x, u : IF x.up /\ u # cmd.user THEN FileTo(x, u, file, o)
                                                                  ELSE x, s, us)
           f == CHOOSE g : IsFileLoop(g, n, s, us, cmd, o)
<1>1. n \in Nat /\ DOMAIN us = 1..n
  BY SeqElements DEF Good, MailOK, GetSignedInUsers
<1>2. IsFileLoop(f, n, s, us, cmd, o)
  BY <1>1, FileLoopExists
<1>3. sent = f[1..n]
  BY <1>1 DEF FoldLeft, MapThenFoldSet, IsFileLoop, NextRecipient, PublicFile
<1> HIDE DEF f
<1>4. Good(sent, b, q)
  BY <1>1, <1>2, <1>3, FileLoopGood
<1> HIDE DEF sent
<1>5. ASSUME NEW st \in {"OK", "FAILURE"}, NEW note
      PROVE  /\ Good(SendResponse(s, i, Response(st, note, cmd), o), b, q)
             /\ Good(SendResponse(sent, i, Response(st, note, cmd), o), b, q)
  BY <1>4, ResponseFits, ResponseGood
<1> QED
  BY <1>4, <1>5 DEF HandleSendFile, StartFileToAllUsers, sent

\* A file to one user
LEMMA SendFileToGood ==
    ASSUME NEW s, NEW b, NEW q, Good(s, b, q), NEW i \in 1..b, NEW cmd, NEW o,
           cmd.op = "SEND_FILE_TO"
    PROVE  Good(HandleSendFileTo(s, i, cmd, o), b, q)
<1> DEFINE file == Message("FILE_MSG", cmd.user, cmd.user, cmd.name, cmd.id)
           sent == FileTo(s, cmd.name, file, o)
<1>1. file.kind = "FILE_MSG" /\ MeantFor(file, cmd.name)
  BY DEF Message, MeantFor
<1> HIDE DEF file
<1>2. Good(sent, b, q)
  BY <1>1, FileGood
<1> HIDE DEF sent
<1>3. ASSUME NEW st \in {"OK", "FAILURE"}, NEW note
      PROVE  /\ Good(SendResponse(s, i, Response(st, note, cmd), o), b, q)
             /\ Good(SendResponse(sent, i, Response(st, note, cmd), o), b, q)
  BY <1>2, ResponseFits, ResponseGood
<1>4. CASE ~IsLoggedIn(s.profiles, cmd.user)
  BY <1>3, <1>4 DEF HandleSendFileTo
<1>5. CASE IsLoggedIn(s.profiles, cmd.user) /\ ~IsLoggedIn(s.profiles, cmd.name)
  BY <1>3, <1>5 DEF HandleSendFileTo
<1>6. CASE /\ IsLoggedIn(s.profiles, cmd.user) /\ IsLoggedIn(s.profiles, cmd.name)
           /\ GetFileConn(s, cmd.name) = 0
  BY <1>3, <1>6 DEF HandleSendFileTo
<1>7. CASE /\ IsLoggedIn(s.profiles, cmd.user) /\ IsLoggedIn(s.profiles, cmd.name)
           /\ GetFileConn(s, cmd.name) # 0
  <2>1. HandleSendFileTo(s, i, cmd, o)
            = IF sent.up THEN SendResponse(sent, i, Response("OK", "sent", cmd), o) ELSE sent
    BY <1>7 DEF HandleSendFileTo, SendFileToUser, sent, file
  <2> QED
    BY <1>2, <1>3, <2>1
<1> QED
  BY <1>4, <1>5, <1>6, <1>7

\* Accounts: registration, login, logout and the list of users
LEMMA AccountGood ==
    ASSUME NEW s, NEW b, NEW q, Good(s, b, q), NEW i \in 1..b, NEW cmd, NEW o,
           Asked(s, i, cmd)
    PROVE  /\ cmd.op = "REGISTER" => Good(HandleRegister(s, i, cmd, o), b, q)
           /\ cmd.op = "LOGIN"    => Good(HandleLogin(s, i, cmd, o), b, q)
           /\ cmd.op = "LOGOUT"   => Good(HandleLogout(s, i, cmd, o), b, q)
           /\ cmd.op = "LIST"     => Good(HandleList(s, i, cmd, o), b, q)
<1>1. ASSUME NEW r, Good(r, b, q), r.slots = s.slots, r.net = s.net,
             NEW st, IsStatusOf(st, cmd), NEW note
      PROVE  Good(SendResponse(r, i, Response(st, note, cmd), o), b, q)
  <2>1. Asked(r, i, cmd)
    BY <1>1 DEF Asked
  <2> QED
    BY <1>1, <2>1, AnswerGood
<1>2. DOMAIN s = Fields
  BY Shapes DEF Good
<1>3. ASSUME cmd.op = "REGISTER"
      PROVE  Good(HandleRegister(s, i, cmd, o), b, q)
  <2> DEFINE r == [s EXCEPT !.registrar = AfterRegister(@, cmd.name, cmd.pwd)]
             st == RegisterStatus(s.registrar, cmd.name)
  <2>1. /\ DOMAIN r = Fields
        /\ r.slots = s.slots /\ r.nConns = s.nConns /\ r.up = s.up /\ r.net = s.net
        /\ r.profiles = s.profiles
    BY <1>2 DEF Fields
  <2> HIDE DEF r
  <2>2. MailOK(r.profiles)
    BY <2>1 DEF Good
  <2>3. Good(r, b, q)
    BY <2>1, <2>2, StoreGood
  <2>4. IsStatusOf(st, cmd)
    BY DEF IsStatusOf, RegisterStatus
  <2> HIDE DEF st
  <2>5. Good(SendResponse(r, i, Response(st, "registration", cmd), o), b, q)
    BY <1>1, <2>1, <2>3, <2>4
  <2> QED
    BY <2>5 DEF HandleRegister, r, st
<1>4. ASSUME cmd.op = "LOGIN"
      PROVE  Good(HandleLogin(s, i, cmd, o), b, q)
  <2> DEFINE status == LoginStatus(s.registrar, s.profiles, cmd.name, cmd.pwd)
             taken == GetUiConn(s, cmd.name) # 0
             fresh == [s EXCEPT !.profiles = AfterLogout(@, cmd.name)]
             new == Start(fresh, cmd.name, cmd.pwd)
             first == Start(s, cmd.name, cmd.pwd)
  <2>1. Good(fresh, b, q) /\ Good(first, b, q)
    BY CallsGood
  <2>2. /\ fresh.slots = s.slots /\ fresh.net = s.net
        /\ first.slots = s.slots /\ first.net = s.net
        /\ new.slots = s.slots /\ new.net = s.net
    BY <1>2 DEF Start, Fields
  <2>3. \A st : IsStatusOf(st, cmd)
    BY <1>4 DEF IsStatusOf
  <2>4. HandleLogin(s, i, cmd, o) =
            CASE status = "OK" /\ taken ->
                     SendResponse(s, i, Response("OK", "already logged in", cmd), o)
              [] status = "OK" /\ ~taken ->
                     SendResponse(new, i, Response("OK", "logged in", cmd), o)
              [] status # "OK" -> SendResponse(first, i, Response(status, "login", cmd), o)
    BY DEF HandleLogin
  <2> HIDE DEF fresh, first, status, taken
  <2>5. Good(new, b, q)
    BY <2>1, CallsGood
  <2> HIDE DEF new
  <2>6. CASE status = "OK" /\ taken
    BY <1>1, <2>3, <2>4, <2>6
  <2>7. CASE status = "OK" /\ ~taken
    BY <1>1, <2>2, <2>3, <2>4, <2>5, <2>7
  <2>8. CASE status # "OK"
    BY <1>1, <2>1, <2>2, <2>3, <2>4, <2>8
  <2> QED
    BY <2>6, <2>7, <2>8
<1>5. ASSUME cmd.op = "LOGOUT"
      PROVE  Good(HandleLogout(s, i, cmd, o), b, q)
  <2> DEFINE r == [s EXCEPT !.profiles = AfterLogout(@, cmd.user)]
             st == LogoutStatus(s.profiles, cmd.user)
  <2>1. Good(r, b, q)
    BY CallsGood
  <2>2. r.slots = s.slots /\ r.net = s.net
    BY <1>2 DEF Fields
  <2>3. IsStatusOf(st, cmd)
    BY <1>5 DEF IsStatusOf, LogoutStatus
  <2> HIDE DEF r, st
  <2>4. Good(SendResponse(r, i, Response(st, "logout", cmd), o), b, q)
    BY <1>1, <2>1, <2>2, <2>3
  <2> QED
    BY <2>4 DEF HandleLogout, r, st
<1>6. ASSUME cmd.op = "LIST"
      PROVE  Good(HandleList(s, i, cmd, o), b, q)
  <2> DEFINE answered == SendResponse(s, i, Response("LISTT", "list", cmd), o)
  <2>1. IsStatusOf("LISTT", cmd)
    BY DEF IsStatusOf
  <2>2. Good(answered, b, q)
    BY <1>1, <2>1
  <2> HIDE DEF answered
  <2>3. b \in Int /\ 0 <= b /\ b <= b
    BY DEF Good
  <2>4. Good(Exit(answered), b, q)
    BY <2>2, <2>3, ExitGood
  <2> QED
    BY <2>2, <2>4 DEF HandleList, answered
<1> QED
  BY <1>3, <1>4, <1>5, <1>6

\* Messages to all others and to one user
LEMMA MessagesGood ==
    ASSUME NEW s, NEW b, NEW q, Good(s, b, q), NEW i \in 1..b, NEW cmd, NEW o,
           Asked(s, i, cmd)
    PROVE  /\ Good(HandleSend(s, i, cmd, o), b, q)
           /\ Good(HandleSendTo(s, i, cmd, o), b, q)
<1>1. ASSUME NEW r, Good(r, b, q), r.slots = s.slots, r.net = s.net,
             NEW st \in {"OK", "FAILURE"}, NEW note
      PROVE  Good(SendResponse(r, i, Response(st, note, cmd), o), b, q)
  <2>1. Asked(r, i, cmd) /\ IsStatusOf(st, cmd)
    BY <1>1 DEF Asked, IsStatusOf
  <2> QED
    BY <1>1, <2>1, AnswerGood
<1>2. DOMAIN s = Fields
  BY Shapes DEF Good
<1>3. Good(HandleSend(s, i, cmd, o), b, q)
  <2> DEFINE m == Message("UI_MSG", VisibleName(cmd), cmd.user, None, cmd.id)
             r == PostAllExcept(s, cmd.user, m)
  <2>1. m.kind = "UI_MSG" /\ m.to = None /\ m.sender = cmd.user
    BY DEF Message
  <2>2. r.slots = s.slots /\ r.net = s.net
    BY <1>2 DEF PostAllExcept, Fields
  <2> HIDE DEF m
  <2>3. Good(r, b, q)
    BY <2>1, CallsGood
  <2> HIDE DEF r
  <2> QED
    BY <1>1, <2>2, <2>3 DEF HandleSend, r, m
<1>4. Good(HandleSendTo(s, i, cmd, o), b, q)
  <2> DEFINE m == Message("UI_MSG", VisibleName(cmd), cmd.user, cmd.name, cmd.id)
             r == Post(s, cmd.name, m)
             result == EnqueueStatus(s.registrar, s.profiles, cmd.name)
             st == IF result = "QUEUED" THEN "OK" ELSE "FAILURE"
  <2>1. m.kind = "UI_MSG" /\ MeantFor(m, cmd.name)
    BY DEF Message, MeantFor
  <2>2. r.slots = s.slots /\ r.net = s.net
    BY <1>2 DEF Post, Fields
  <2> HIDE DEF m
  <2>3. Good(r, b, q)
    BY <2>1, CallsGood
  <2>4. st \in {"OK", "FAILURE"}
    OBVIOUS
  <2> HIDE DEF r, st
  <2>5. Good(SendResponse(r, i, Response(st, result, cmd), o), b, q)
    BY <1>1, <2>2, <2>3, <2>4
  <2>6. Good(SendResponse(s, i, Response("FAILURE", "not logged in", cmd), o), b, q)
    BY <1>1
  <2> QED
    BY <2>5, <2>6 DEF HandleSendTo, r, m, st
<1> QED
  BY <1>3, <1>4

\* A connection is declared for messages or for files, by the command it began
\* with
LEMMA DeclareGood ==
    ASSUME NEW s, NEW b, NEW q, Good(s, b, q), NEW i \in 1..b, NEW cmd, Asked(s, i, cmd)
    PROVE  /\ cmd.op = "UI_CONN" => Good(SetUiConn(s, i, cmd), b, q)
           /\ cmd.op = "FILE_CONN" => Good(SetFileConn(s, i, cmd), b, q)
<1> DEFINE x == s.slots[i]
           Marked(ty) == [x EXCEPT !.user = cmd.user, !.type = ty]
<1>1. /\ DOMAIN s = Fields
      /\ DOMAIN FreshSlot = {"fd", "wantWr", "rd", "wr", "out", "begun", "type", "user", "active"}
      /\ i \in Slots /\ DOMAIN s.slots = Slots /\ DOMAIN x = DOMAIN FreshSlot
  BY LimitAssumption, Shapes DEF Good, Slots, TableShape
<1>2. \A ty : [s EXCEPT !.slots[i].user = cmd.user, !.slots[i].type = ty]
                  = [s EXCEPT !.slots[i] = Marked(ty)]
  BY <1>1 DEF Fields
<1>3. \A ty : /\ DOMAIN Marked(ty) = DOMAIN FreshSlot
              /\ Marked(ty).fd = x.fd /\ Marked(ty).out = x.out
              /\ Marked(ty).type = ty /\ Marked(ty).user = cmd.user
  BY <1>1
<1> HIDE DEF Marked
<1>4. Open(s.net, x.fd) =>
          /\ cmd.op = "UI_CONN" => DeclaredAs(Marked("UI"), s.net[x.fd])
          /\ cmd.op = "FILE_CONN" => DeclaredAs(Marked("FIL"), s.net[x.fd])
  BY <1>3 DEF DeclaredAs, Asked
<1>5. ASSUME cmd.op = "UI_CONN"
      PROVE  Good(SetUiConn(s, i, cmd), b, q)
  <2> DEFINE r == [s EXCEPT !.slots[i] = Marked("UI")]
             m == Onboarding(cmd.user)
  <2>1. Good(r, b, q)
    <3>1. Waits(Marked("UI"))
      BY <1>3 DEF Waits
    <3> QED
      BY <1>3, <1>4, <1>5, <3>1, MarkGood
  <2> HIDE DEF r
  <2>2. m.kind = "UI_MSG" /\ MeantFor(m, cmd.user)
    BY DEF Onboarding, Message, MeantFor
  <2> HIDE DEF m
  <2>3. Good(Post(r, cmd.user, m), b, q)
    BY <2>1, <2>2, CallsGood
  <2> QED
    BY <1>2, <2>3 DEF SetUiConn, r, m
<1>6. ASSUME cmd.op = "FILE_CONN"
      PROVE  Good(SetFileConn(s, i, cmd), b, q)
  <2> DEFINE r == [s EXCEPT !.slots[i] = Marked("FIL")]
  <2>1. Good(r, b, q)
    <3>1. Waits(Marked("FIL"))
      BY <1>3 DEF Waits
    <3> QED
      BY <1>3, <1>4, <1>6, <3>1, MarkGood
  <2> HIDE DEF r
  <2> QED
    BY <1>2, <2>1 DEF SetFileConn, r
<1> QED
  BY <1>5, <1>6

\* Every command, on the connection that began with it
LEMMA HandleGood ==
    ASSUME NEW s, NEW b, NEW q, Good(s, b, q), NEW i \in 1..b, NEW cmd, NEW o,
           Asked(s, i, cmd)
    PROVE  Good(HandleReceivedCommand(s, i, cmd, o), b, q)
<1> DEFINE r == HandleReceivedCommand(s, i, cmd, o)
<1>1. CASE cmd.op = "REGISTER"
  BY <1>1, AccountGood DEF HandleReceivedCommand
<1>2. CASE cmd.op = "LOGIN"
  BY <1>2, AccountGood DEF HandleReceivedCommand
<1>3. CASE cmd.op = "LOGOUT"
  BY <1>3, AccountGood DEF HandleReceivedCommand
<1>4. CASE cmd.op \in {"SEND", "SEND_ANON"}
  BY <1>4, MessagesGood DEF HandleReceivedCommand
<1>5. CASE cmd.op \in {"SEND_TO", "SEND_TO_ANON"}
  BY <1>5, MessagesGood DEF HandleReceivedCommand
<1>6. CASE cmd.op = "SEND_FILE"
  BY <1>6, SendFileGood DEF HandleReceivedCommand
<1>7. CASE cmd.op = "SEND_FILE_TO"
  BY <1>7, SendFileToGood DEF HandleReceivedCommand
<1>8. CASE cmd.op = "LIST"
  BY <1>8, AccountGood DEF HandleReceivedCommand
<1>9. CASE cmd.op = "UI_CONN"
  BY <1>9, DeclareGood DEF HandleReceivedCommand
<1>10. CASE cmd.op = "FILE_CONN"
  BY <1>10, DeclareGood DEF HandleReceivedCommand
<1>11. CASE cmd.op = "DELAY"
  BY <1>11 DEF HandleReceivedCommand
<1>12. CASE cmd.op \notin {"REGISTER", "LOGIN", "LOGOUT", "SEND", "SEND_ANON", "SEND_TO",
                           "SEND_TO_ANON", "SEND_FILE", "SEND_FILE_TO", "LIST", "UI_CONN",
                           "FILE_CONN", "DELAY"}
  <2>1. HandleReceivedCommand(s, i, cmd, o) = Exit(s)
    BY <1>12 DEF HandleReceivedCommand
  <2>2. b \in Int /\ 0 <= b /\ b <= b
    BY DEF Good
  <2> QED
    BY <2>1, <2>2, ExitGood
<1> QED
  BY <1>1, <1>2, <1>3, <1>4, <1>5, <1>6, <1>7, <1>8, <1>9, <1>10, <1>11, <1>12

\* A command is read, or the end of the stream
LEMMA ReadGood ==
    ASSUME NEW s, NEW b, NEW q, Good(s, b, q), NEW i \in 1..b, NEW o,
           Open(s.net, s.slots[i].fd)
    PROVE  Good(RecvMessage(s, i, o), b, q)
<1> DEFINE c == s.slots[i].fd
           r == [s EXCEPT !.net[c].up = "read"]
           m == [s.net EXCEPT ![c].up = "read"]
<1>1. DOMAIN s = Fields
  BY Shapes DEF Good
<1>2. /\ DOMAIN r = Fields
      /\ r.slots = s.slots /\ r.nConns = s.nConns /\ r.up = s.up
      /\ r.net = m /\ r.profiles = s.profiles
  BY <1>1 DEF Fields
<1>3. NetShape(s.net) /\ NetOK(s.net)
  BY DEF Good
<1>4. /\ DOMAIN m = Conns
      /\ \A d \in Conns : /\ DOMAIN m[d] = DOMAIN Closed
                          /\ m[d].srv = s.net[d].srv /\ m[d].cmd = s.net[d].cmd
                          /\ m[d].down = s.net[d].down
                          /\ m[d].up = IF d = c THEN "read" ELSE s.net[d].up
  <2>1. \A d \in Conns : DOMAIN s.net[d] = {"cli", "srv", "cmd", "up", "down"}
    BY <1>3, Shapes DEF NetShape
  <2>2. DOMAIN s.net = Conns
    BY <1>3 DEF NetShape
  <2> QED
    BY <2>1, <2>2, Shapes
<1> HIDE DEF r, m
<1>5. Alike(s.net, r.net) /\ MailOK(r.profiles)
  BY <1>2, <1>3, <1>4 DEF Good, Alike, NetShape, NetOK
<1>6. Good(r, b, q)
  BY <1>2, <1>5, NetGood
<1>7. Asked(r, i, s.net[c].cmd)
  BY <1>2, <1>4 DEF Open, Asked
<1>8. Good(HandleReceivedCommand(r, i, s.net[c].cmd, o), b, q)
  BY <1>6, <1>7, HandleGood
<1>9. Good(RemoveConnection(s, i), b, q)
  BY RemoveGood
<1> QED
  BY <1>8, <1>9 DEF RecvMessage, r

\* A UI connection is given the oldest message of its user
LEMMA DequeueGood ==
    ASSUME NEW s, NEW b, NEW q, Good(s, b, q), NEW i \in 1..b, s.slots[i].type = "UI", NEW o
    PROVE  Good(DequeueFor(s, i, o), b, q)
<1> DEFINE u == s.slots[i].user
           m == DequeueBody(s.profiles, u)
           g == BuildSendMsg(s, i, m)
           x == [g.slots[i] EXCEPT !.active = TRUE]
           h == [g EXCEPT !.slots[i] = x]
           r == [h EXCEPT !.profiles = AfterDequeue(@, u)]
<1>1. MailOK(AfterDequeue(s.profiles, u)) /\ (m = None \/ (m.kind = "UI_MSG" /\ MeantFor(m, u)))
  <2>1. MailOK(s.profiles)
    BY DEF Good
  <2> QED
    BY <2>1, DequeueMail
<1> HIDE DEF m
<1>2. Good(g, b, q) /\ g.profiles = s.profiles /\ g.slots[i].type = "UI"
  <2>1. CASE m = None
    BY <2>1, BuildGood DEF MayGet
  <2>2. CASE m.kind = "UI_MSG" /\ MeantFor(m, u)
    <3>1. Open(s.net, s.slots[i].fd) => DeclaredAs(s.slots[i], s.net[s.slots[i].fd])
      BY DEF Good, Declared
    <3>2. Open(s.net, s.slots[i].fd) => Fits(m, s.net[s.slots[i].fd].cmd)
      BY <2>2, <3>1 DEF DeclaredAs, Fits
    <3>3. MayGet(s, i, m)
      BY <3>2 DEF MayGet
    <3> QED
      BY <3>3, BuildGood
  <2> QED
    BY <1>1, <2>1, <2>2
<1> HIDE DEF g
<1>3. /\ DOMAIN g = Fields
      /\ DOMAIN FreshSlot = {"fd", "wantWr", "rd", "wr", "out", "begun", "type", "user", "active"}
      /\ i \in Slots /\ DOMAIN g.slots = Slots /\ DOMAIN g.slots[i] = DOMAIN FreshSlot
  BY <1>2, LimitAssumption, Shapes DEF Good, Slots, TableShape
<1>4. /\ DOMAIN x = DOMAIN FreshSlot
      /\ x.fd = g.slots[i].fd /\ x.type = g.slots[i].type /\ x.user = g.slots[i].user
      /\ x.out = g.slots[i].out /\ Waits(x)
  BY <1>2, <1>3 DEF Waits
<1>5. [g EXCEPT !.slots[i].active = TRUE, !.profiles = AfterDequeue(@, u)] = r
  BY <1>3 DEF Fields
<1> HIDE DEF x
<1>6. Good(h, b, q)
  BY <1>2, <1>4, MarkGood
<1>7. DOMAIN h = Fields /\ h.profiles = s.profiles /\ h.slots[i].type = "UI"
  BY <1>2, <1>3, <1>4 DEF Fields
<1> HIDE DEF h
<1>8. /\ DOMAIN r = Fields
      /\ r.slots = h.slots /\ r.nConns = h.nConns /\ r.up = h.up /\ r.net = h.net
      /\ r.profiles = AfterDequeue(s.profiles, u)
  BY <1>3, <1>7 DEF Fields
<1> HIDE DEF r
<1>9. Good(r, b, q)
  BY <1>1, <1>6, <1>8, StoreGood
<1>10. Good(SendMessage(r, i, o), b, q)
  BY <1>7, <1>8, <1>9, SendGood DEF IsUiConn
<1> QED
  BY <1>5, <1>10 DEF DequeueFor, g, m

-----------------------------------------------------------------------------
(* The loops *)

\* Fewer entries to be looked at
LEMMA ShrinkGood ==
    ASSUME NEW s, NEW b, NEW q, Good(s, b, q), NEW d \in Int, s.nConns <= d, d <= b
    PROVE  Good(s, d, q)
<1>1. \A j \in 1..d : j \in 1..b
  BY DEF Good
<1>2. Apart(s, d) /\ Declared(s, d) /\ OutFits(s, d) /\ Waiting(s, d)
  BY <1>1 DEF Good, Apart, Declared, OutFits, Waiting
<1>3. d <= MAX_CONCURRENCY_LIMIT
  BY LimitAssumption DEF Good
<1> QED
  BY <1>2, <1>3 DEF Good

\* The marks of all entries are set anew
LEMMA MarksGood ==
    ASSUME NEW s, NEW b, NEW q, Good(s, b, q), NEW t, TableShape(t),
           \A j \in 1..b : /\ t[j].fd = s.slots[j].fd /\ t[j].out = s.slots[j].out
                           /\ t[j].type = s.slots[j].type /\ t[j].user = s.slots[j].user
                           /\ Waits(t[j])
    PROVE  Good([s EXCEPT !.slots = t], b, q)
<1> DEFINE r == [s EXCEPT !.slots = t]
<1>1. DOMAIN s = Fields
  BY DEF Good
<1>2. /\ DOMAIN r = Fields
      /\ r.slots = t /\ r.net = s.net /\ r.nConns = s.nConns /\ r.up = s.up
      /\ r.profiles = s.profiles
  BY <1>1 DEF Fields
<1> HIDE DEF r
<1>3. Alike(s.net, r.net) /\ MailOK(r.profiles)
  BY <1>2, SameNet DEF Good
<1>4. ASSUME NEW j \in 1..b
      PROVE  LET z == s.slots[j]
                 y == r.slots[j]
                 cmd == s.net[z.fd].cmd
             IN  /\ y.fd = z.fd
                 /\ Waits(y)
                 /\ \/ y.type = z.type /\ y.user = z.user
                    \/ Open(s.net, z.fd) => DeclaredAs(y, s.net[z.fd])
                 /\ \/ y.out = z.out
                    \/ y.out = None
                    \/ Open(s.net, z.fd) => Fits(y.out, cmd)
  BY <1>2
<1>5. Good(r, b, q)
  BY <1>2, <1>3, <1>4, KeepGood
<1> QED
  BY <1>5 DEF r

\* At the end of a scan what is behind the end of the table is forgotten
LEMMA SettledGood ==
    ASSUME NEW s, NEW b, NEW q, Good(s, b, q)
    PROVE  Good(Settled(s), s.nConns, q) /\ Settled(s).nConns = s.nConns
<1> DEFINE n == s.nConns
           t == [i \in Slots |->
                    IF i <= s.nConns
                    THEN [s.slots[i] EXCEPT !.rd = FALSE, !.wr = FALSE]
                    ELSE [FreshSlot EXCEPT !.user = s.slots[i].user,
                                           !.active = s.slots[i].active]]
<1>1. n \in Int /\ b \in Int /\ n <= b /\ b <= MAX_CONCURRENCY_LIMIT
  BY DEF Good
<1>2. Good(s, n, q)
  BY <1>1, ShrinkGood
<1>3. DOMAIN FreshSlot = {"fd", "wantWr", "rd", "wr", "out", "begun", "type", "user", "active"}
  BY Shapes
<1>4. \A i \in Slots : DOMAIN s.slots[i] = DOMAIN FreshSlot
  BY DEF Good, TableShape
<1>5. TableShape(t)
  BY <1>3, <1>4 DEF TableShape
<1>6. \A j \in 1..n : /\ t[j].fd = s.slots[j].fd /\ t[j].out = s.slots[j].out
                      /\ t[j].type = s.slots[j].type /\ t[j].user = s.slots[j].user
                      /\ Waits(t[j])
  <2> SUFFICES ASSUME NEW j \in 1..n
               PROVE  /\ t[j].fd = s.slots[j].fd /\ t[j].out = s.slots[j].out
                      /\ t[j].type = s.slots[j].type /\ t[j].user = s.slots[j].user
                      /\ Waits(t[j])
    OBVIOUS
  <2>1. j \in Slots /\ j <= n
    BY <1>1, LimitAssumption DEF Slots
  <2>2. t[j] = [s.slots[j] EXCEPT !.rd = FALSE, !.wr = FALSE]
    BY <2>1
  <2> HIDE DEF t
  <2>3. /\ t[j].fd = s.slots[j].fd /\ t[j].out = s.slots[j].out
        /\ t[j].type = s.slots[j].type /\ t[j].user = s.slots[j].user
        /\ t[j].wantWr = s.slots[j].wantWr /\ t[j].wr = FALSE
        /\ t[j].begun = s.slots[j].begun
    BY <1>3, <1>4, <2>1, <2>2
  <2>4. Waits(s.slots[j])
    BY <1>2 DEF Good, Waiting
  <2> QED
    BY <2>3, <2>4 DEF Waits
<1>7. DOMAIN s = Fields
  BY DEF Good
<1>8. Settled(s) = [s EXCEPT !.slots = t]
  BY DEF Settled
<1> HIDE DEF t
<1>9. Good([s EXCEPT !.slots = t], n, q)
  BY <1>2, <1>5, <1>6, MarksGood
<1> QED
  BY <1>7, <1>8, <1>9 DEF Fields

\* A connection is accepted: it waits at the head of the queue, so it is none of
\* those in the table
LEMMA AcceptGood ==
    ASSUME NEW s, NEW q, Good(s, s.nConns, q), s.up, q # <<>>,
           s.nConns < MAX_CONCURRENCY_LIMIT
    PROVE  LET r == SetConn(s, Head(q))
           IN  Good(r, r.nConns, Tail(q)) /\ r.nConns = s.nConns + 1 /\ r.up = s.up
<1> DEFINE n == s.nConns
           c == Head(q)
           old == s.slots[n + 1]
           x == [FreshSlot EXCEPT !.fd = c, !.user = old.user, !.active = old.active]
           m == [s.net EXCEPT ![c].srv = "open"]
           r == SetConn(s, c)
<1>1. /\ n \in Nat /\ n + 1 <= MAX_CONCURRENCY_LIMIT
      /\ \A j \in 1..(n + 1) : j \in Slots /\ n + 1 \in Slots
  BY LimitAssumption DEF Good, Slots
<1>2. DOMAIN s = Fields /\ TableShape(s.slots) /\ NetShape(s.net) /\ BacklogOK(s.net, q)
  BY DEF Good
<1>3. /\ DOMAIN FreshSlot = {"fd", "wantWr", "rd", "wr", "out", "begun", "type", "user", "active"}
      /\ FreshSlot.out = None /\ FreshSlot.type = "REG"
      /\ FreshSlot.wantWr = FALSE /\ FreshSlot.wr = FALSE /\ FreshSlot.begun = FALSE
  BY Shapes DEF FreshSlot
<1>4. /\ DOMAIN x = DOMAIN FreshSlot /\ x.fd = c /\ x.out = None /\ x.type = "REG"
      /\ x.wantWr = FALSE /\ x.wr = FALSE /\ x.begun = FALSE
  BY <1>3
<1>5. /\ DOMAIN r = Fields
      /\ r.slots = [s.slots EXCEPT ![n + 1] = x]
      /\ r.nConns = n + 1 /\ r.net = m /\ r.up = s.up /\ r.profiles = s.profiles
  BY <1>1, <1>2 DEF SetConn, Fields
<1>6. /\ c = q[1] /\ 1 \in DOMAIN q
      /\ c \in Conns /\ s.net[c].srv = "backlog"
      /\ IsSeq(Tail(q))
      /\ \A j \in DOMAIN Tail(q) : j + 1 \in DOMAIN q /\ Tail(q)[j] = q[j + 1]
  BY <1>2, SeqTail DEF BacklogOK
<1>7. DOMAIN q = 1..Len(q) /\ Len(q) \in Nat
  BY <1>2, SeqElements DEF BacklogOK
<1> HIDE DEF n, c, x
<1>8. /\ DOMAIN m = Conns
      /\ \A d \in Conns : d # c => m[d] = s.net[d]
      /\ DOMAIN m[c] = DOMAIN Closed /\ m[c].srv = "open"
      /\ m[c].down = s.net[c].down /\ m[c].cmd = s.net[c].cmd
  <2>1. DOMAIN s.net = Conns /\ DOMAIN s.net[c] = {"cli", "srv", "cmd", "up", "down"}
    BY <1>2, <1>6, Shapes DEF NetShape
  <2> QED
    BY <1>6, <2>1, Shapes
<1> HIDE DEF m, r
<1>9. NetShape(r.net) /\ NetOK(r.net)
  BY <1>5, <1>6, <1>8 DEF Good, NetShape, NetOK
<1>10. /\ TableShape(r.slots)
       /\ n + 1 \in Slots => r.slots[n + 1] = x
       /\ \A j \in 1..n : r.slots[j] = s.slots[j]
  <2>1. \A j \in 1..n : j \in Slots /\ j # n + 1
    BY <1>1
  <2>2. CASE n + 1 \in Slots
    BY <1>2, <1>4, <1>5, <2>1, <2>2, SlotSet
  <2>3. CASE n + 1 \notin Slots
    BY <1>2, <1>5, <2>1, <2>3 DEF TableShape
  <2> QED
    BY <2>2, <2>3
<1>11. ASSUME NEW j \in 1..n
       PROVE  /\ Open(s.net, s.slots[j].fd) /\ s.slots[j].fd # c
              /\ r.net[r.slots[j].fd] = s.net[s.slots[j].fd]
              /\ Open(r.net, r.slots[j].fd)
  <2>1. Open(s.net, s.slots[j].fd)
    BY DEF Good, LiveOpen, n
  <2>2. s.slots[j].fd # c
    BY <1>6, <2>1 DEF Open
  <2> QED
    BY <1>5, <1>8, <1>10, <2>1, <2>2 DEF Open
<1>12. \A j \in 1..(n + 1) : n + 1 \in Slots /\ (j \in 1..n \/ j = n + 1)
  BY <1>1
<1>13. LiveOpen(r)
  <2>1. n + 1 \in Slots => Open(r.net, r.slots[n + 1].fd)
    BY <1>4, <1>5, <1>6, <1>8, <1>10 DEF Open
  <2> QED
    BY <1>5, <1>11, <1>12, <2>1 DEF LiveOpen
<1>14. Apart(r, n + 1)
  <2> SUFFICES ASSUME NEW i \in 1..n, NEW j \in 1..(n + 1), i # j
               PROVE  r.slots[i].fd # r.slots[j].fd
    <3>1. r.nConns - 1 = n
      BY <1>1, <1>5
    <3> QED
      BY <3>1 DEF Apart
  <2>1. CASE j = n + 1
    BY <1>4, <1>10, <1>11, <1>12, <2>1
  <2>2. CASE j \in 1..n
    <3>1. i \in 1..(n - 1) \/ j \in 1..(n - 1)
      BY <1>1, <2>2
    <3>2. s.slots[i].fd # s.slots[j].fd
      BY <2>2, <3>1 DEF Good, Apart, n
    <3> QED
      BY <1>10, <2>2, <3>2
  <2> QED
    BY <1>12, <2>1, <2>2
<1>15. Declared(r, n + 1)
  <2> SUFFICES ASSUME NEW j \in 1..(n + 1), Open(r.net, r.slots[j].fd)
               PROVE  DeclaredAs(r.slots[j], r.net[r.slots[j].fd])
    BY DEF Declared
  <2>1. CASE j = n + 1
    BY <1>4, <1>10, <1>12, <2>1 DEF DeclaredAs
  <2>2. CASE j \in 1..n
    <3>1. DeclaredAs(s.slots[j], s.net[s.slots[j].fd])
      BY <1>11, <2>2 DEF Good, Declared, n
    <3> QED
      BY <1>10, <1>11, <2>2, <3>1
  <2> QED
    BY <1>12, <2>1, <2>2
<1>16. OutFits(r, n + 1)
  <2> SUFFICES ASSUME NEW j \in 1..(n + 1), Open(r.net, r.slots[j].fd),
                      r.slots[j].out # None
               PROVE  Fits(r.slots[j].out, r.net[r.slots[j].fd].cmd)
    BY DEF OutFits
  <2>1. j \in 1..n
    BY <1>4, <1>10, <1>12
  <2>2. Fits(s.slots[j].out, s.net[s.slots[j].fd].cmd)
    BY <1>10, <1>11, <2>1 DEF Good, OutFits, n
  <2> QED
    BY <1>10, <1>11, <2>1, <2>2
<1>17. BacklogOK(r.net, Tail(q))
  <2>1. \A j \in DOMAIN Tail(q) : Tail(q)[j] \in Conns /\ Tail(q)[j] # c
    <3> SUFFICES ASSUME NEW j \in DOMAIN Tail(q)
                 PROVE  Tail(q)[j] \in Conns /\ Tail(q)[j] # c
      OBVIOUS
    <3>1. j + 1 \in DOMAIN q /\ Tail(q)[j] = q[j + 1]
      BY <1>6
    <3>2. j + 1 # 1
      <4>1. DOMAIN Tail(q) = 1..Len(Tail(q)) /\ Len(Tail(q)) \in Nat
        BY <1>6, SeqElements
      <4> QED
        BY <4>1
    <3> QED
      BY <1>2, <1>6, <3>1, <3>2 DEF BacklogOK
  <2>2. \A j \in DOMAIN Tail(q) : r.net[Tail(q)[j]].srv = "backlog"
    BY <1>2, <1>5, <1>6, <1>8, <2>1 DEF BacklogOK
  <2>3. ASSUME NEW i \in DOMAIN Tail(q), NEW j \in DOMAIN Tail(q), Tail(q)[i] = Tail(q)[j]
        PROVE  i = j
    <3>1. i + 1 = j + 1
      BY <1>2, <1>6, <2>3 DEF BacklogOK
    <3>2. i \in Int /\ j \in Int
      BY <1>6, SeqElements
    <3> QED
      BY <3>1, <3>2
  <2> QED
    BY <1>6, <2>1, <2>2, <2>3 DEF BacklogOK
<1>18. r.nConns = n + 1 /\ n + 1 \in Nat /\ n + 1 <= n + 1 /\ n + 1 <= MAX_CONCURRENCY_LIMIT
  BY <1>1, <1>5
<1>19. Known(r)
  <2> SUFFICES ASSUME NEW d, Open(r.net, d)
               PROVE  \E j \in 1..(n + 1) : r.slots[j].fd = d
    BY <1>5 DEF Known
  <2>1. CASE d = c
    <3>1. n + 1 \in 1..(n + 1)
      BY <1>1
    <3> QED
      BY <1>4, <1>10, <1>12, <2>1, <3>1
  <2>2. CASE d # c
    <3>1. Open(s.net, d)
      BY <1>5, <1>8, <2>2 DEF Open
    <3>2. PICK j \in 1..n : s.slots[j].fd = d
      BY <3>1 DEF Good, Known, n
    <3> QED
      BY <1>1, <1>10, <3>2
  <2> QED
    BY <2>1, <2>2
<1>20. Waiting(r, n + 1)
  <2>1. \A j \in 1..n : Waits(r.slots[j])
    BY <1>10 DEF Good, Waiting, n
  <2>2. Waits(x)
    BY <1>4 DEF Waits
  <2> QED
    BY <1>10, <1>12, <2>1, <2>2 DEF Waiting
<1>21. Good(r, n + 1, Tail(q))
  BY <1>5, <1>9, <1>10, <1>13, <1>14, <1>15, <1>16, <1>17, <1>18, <1>19, <1>20 DEF Good
<1> QED
  BY <1>5, <1>21 DEF r, n, c

\* On an open connection a send does not end the process
LEMMA SendKeepsUp ==
    ASSUME NEW s, DOMAIN s = Fields, NEW i, Open(s.net, s.slots[i].fd), NEW o
    PROVE  SendMessage(s, i, o).up = s.up /\ SendFrame(s, i, o).up = s.up
<1> DEFINE x == s.slots[i]
           Idle(t) == [t EXCEPT !.slots[i].out = None, !.slots[i].begun = FALSE,
                                !.slots[i].wantWr = FALSE]
<1>1. ASSUME NEW t, DOMAIN t = Fields
      PROVE  SendCompleted(t, i).up = t.up /\ RemoveConnection(t, i).up = t.up
  <2>1. DOMAIN Idle(t) = Fields /\ Idle(t).up = t.up
    BY <1>1 DEF Fields
  <2>2. [Idle(t) EXCEPT !.slots[i].active = FALSE].up = Idle(t).up
    BY <2>1 DEF Fields
  <2>3. SendCompleted(t, i) = IF IsFileConn(t, i) \/ IsUiConn(t, i)
                              THEN [Idle(t) EXCEPT !.slots[i].active = FALSE]
                              ELSE RemoveConnection(Idle(t), i)
    BY DEF SendCompleted
  <2> HIDE DEF Idle
  <2>4. RemoveConnection(Idle(t), i).up = Idle(t).up /\ RemoveConnection(t, i).up = t.up
    BY <1>1, <2>1, RemovedFields
  <2> QED
    BY <2>1, <2>2, <2>3, <2>4
<1> DEFINE wrote == [s EXCEPT !.net = WriteDown(@, x.fd, x.out)]
<1>2. DOMAIN wrote = Fields /\ wrote.up = s.up
  BY DEF Fields
<1> HIDE DEF wrote
<1>3. SendCompleted(wrote, i).up = s.up /\ SendCompleted(s, i).up = s.up
      /\ RemoveConnection(s, i).up = s.up
  BY <1>1, <1>2
<1>4. [s EXCEPT !.slots[i].wantWr = TRUE, !.slots[i].begun = TRUE].up = s.up
  BY DEF Fields
<1> QED
  BY <1>3, <1>4 DEF SendMessage, SendFrame, wrote

\* A message that is taken from a deque is for an open connection
LEMMA DequeueKeepsUp ==
    ASSUME NEW s, NEW b, NEW q, Good(s, b, q), NEW i \in 1..s.nConns, NEW o
    PROVE  DequeueFor(s, i, o).up = s.up
<1> DEFINE old == s.slots[i]
           m == DequeueBody(s.profiles, old.user)
           n == IF old.begun /\ Open(s.net, old.fd)
                THEN WriteDown(s.net, old.fd, Torn) ELSE s.net
           r == [BuildSendMsg(s, i, m) EXCEPT
                    !.slots[i].active = TRUE,
                    !.profiles = AfterDequeue(@, old.user)]
<1>1. /\ DOMAIN s = Fields /\ NetShape(s.net) /\ Open(s.net, old.fd)
      /\ i \in Slots /\ DOMAIN s.slots = Slots /\ DOMAIN old = DOMAIN FreshSlot
  BY LimitAssumption DEF Good, LiveOpen, Slots, TableShape
<1> HIDE DEF m
<1>2. DOMAIN r = Fields /\ r.up = s.up /\ r.net = n /\ r.slots[i].fd = old.fd
  BY <1>1, Shapes DEF BuildSendMsg, Fields
<1>3. Open(n, old.fd)
  BY <1>1, Shapes DEF WriteDown, NetShape, Open
<1> HIDE DEF r, n, old
<1>4. SendMessage(r, i, o).up = r.up
  BY <1>2, <1>3, SendKeepsUp
<1> QED
  BY <1>2, <1>4 DEF DequeueFor, r, m, old

\* Wherever the loop goes on, what it may look at there is in order
LEMMA GotoInv ==
    ASSUME NEW s, NEW b, NEW q, Good(s, b, q),
           s.up => backlog' = q, ~s.up => backlog' = <<>>,
           NEW p \in {"poll", "deques", "scan", "resume"}, NEW i,
           s.up /\ p \in {"deques", "scan"} => i \in 1..s.nConns,
           s.up /\ p = "deques" => s.slots[i].type = "UI",
           s.up /\ p = "poll" => i = 0,
           s.up /\ p = "resume" => i \in 1..b /\ s.slots[i].wr,
           s.up /\ p = "scan" => s.slots[i].rd \/ s.slots[i].wr,
           Goto(s, p, i)
    PROVE  ChatInv'
<1>1. /\ DOMAIN s = Fields /\ s.nConns \in Int /\ b \in Int
      /\ s.nConns <= b /\ b <= MAX_CONCURRENCY_LIMIT
  BY DEF Good
<1>2. /\ slots' = s.slots /\ nConns' = s.nConns /\ profiles' = s.profiles /\ net' = s.net
      /\ pc' = (IF s.up THEN p ELSE "down") /\ scanned' = (IF s.up THEN i ELSE 0)
  BY DEF Goto, Assign
<1> DEFINE d == LastUsed'
           t == Srv'
<1>3. d = IF s.up /\ p = "resume" /\ i > s.nConns THEN i ELSE s.nConns
  BY <1>2 DEF LastUsed
<1>4. d \in Int /\ s.nConns <= d /\ d <= b
  BY <1>1, <1>3
<1> HIDE DEF d
<1>5. Good(s, d, q)
  BY <1>4, ShrinkGood
<1>6. /\ DOMAIN t = Fields /\ t.slots = s.slots /\ t.nConns = s.nConns
      /\ t.profiles = s.profiles /\ t.net = s.net
  BY <1>2 DEF Srv, Fields
<1>7. BacklogOK(t.net, backlog')
  <2>1. CASE s.up
    BY <1>5, <1>6, <2>1 DEF Good
  <2>2. CASE ~s.up
    <3>1. IsSeq(<<>>) /\ DOMAIN <<>> = {}
      BY EmptyIsSeq
    <3> QED
      BY <2>2, <3>1 DEF BacklogOK
  <2> QED
    BY <2>1, <2>2
<1> HIDE DEF t
<1>8. Good(t, d, backlog')
  BY <1>5, <1>6, <1>7 DEF Good, LiveOpen, Apart, Declared, OutFits, Known, Waiting
<1>9. AtOK'
  BY <1>1, <1>2, LimitAssumption DEF AtOK, Slots
<1> QED
  BY <1>8, <1>9 DEF ChatInv, d, t

\* CheckMessageDeques goes on at a UI connection, or ends
LEMMA AfterDequeInv ==
    ASSUME NEW s, NEW b, NEW q, Good(s, b, q),
           s.up => backlog' = q, ~s.up => backlog' = <<>>,
           NEW i \in Nat, AfterDeque(s, i)
    PROVE  ChatInv'
<1> DEFINE at == {j \in (i + 1)..MAX_CONCURRENCY_LIMIT : HasMail(s, j)}
           j == NextMail(s, i)
           p == IF j = 0 THEN "poll" ELSE "deques"
<1>1. at \subseteq Nat /\ \A k \in at : k \in 1..s.nConns /\ s.slots[k].type = "UI" /\ k # 0
  BY LimitAssumption DEF HasMail, IsUiConn, Good
<1>2. j = IF at = {} THEN 0 ELSE Min(at)
  BY DEF NextMail
<1> HIDE DEF at, j
<1>3. j = 0 \/ j \in at
  BY <1>1, <1>2, MinIsIn
<1>4. p \in {"poll", "deques", "scan", "resume"}
  OBVIOUS
<1>5. p = "deques" => j \in 1..s.nConns /\ s.slots[j].type = "UI"
  BY <1>1, <1>3
<1>6. p # "scan" /\ p # "resume" /\ (p = "poll" => j = 0)
  OBVIOUS
<1>7. Goto(s, p, j)
  BY DEF AfterDeque, j
<1> HIDE DEF p
<1> QED
  BY <1>4, <1>5, <1>6, <1>7, GotoInv

\* The scan goes on at an entry of the table, or ends
LEMMA AfterSlotInv ==
    ASSUME NEW s, NEW b, NEW q, Good(s, b, q),
           s.up => backlog' = q, ~s.up => backlog' = <<>>,
           NEW i \in Nat, AfterSlot(s, i)
    PROVE  ChatInv'
<1> DEFINE at == {j \in (i + 1)..MAX_CONCURRENCY_LIMIT : HasEvents(s, j)}
           j == NextAfter(s, i)
<1>1. /\ at \subseteq Nat
      /\ \A k \in at : k \in 1..s.nConns /\ (s.slots[k].rd \/ s.slots[k].wr)
  BY LimitAssumption DEF HasEvents, Good
<1>2. j = IF at = {} THEN 0 ELSE Min(at)
  BY DEF NextAfter
<1>3. IF s.up /\ j = 0 THEN AfterDeque(Settled(s), 0) ELSE Goto(s, "scan", j)
  BY DEF AfterSlot
<1> HIDE DEF at, j
<1>4. j = 0 \/ j \in at
  BY <1>1, <1>2, MinIsIn
<1>5. CASE s.up /\ j = 0
  <2> DEFINE r == Settled(s)
  <2>1. Good(r, s.nConns, q)
    BY SettledGood
  <2>2. r.up = s.up
    BY DEF Settled, Good, Fields
  <2>3. AfterDeque(r, 0)
    BY <1>3, <1>5
  <2> HIDE DEF r
  <2> QED
    BY <2>1, <2>2, <2>3, AfterDequeInv
<1>6. CASE ~(s.up /\ j = 0)
  <2>1. Goto(s, "scan", j)
    BY <1>3, <1>6
  <2>2. s.up => j \in 1..s.nConns /\ (s.slots[j].rd \/ s.slots[j].wr)
    BY <1>1, <1>4, <1>6
  <2> QED
    BY <2>1, <2>2, GotoInv
<1> QED
  BY <1>5, <1>6

-----------------------------------------------------------------------------
(* The server's actions *)

\* Taking a message out of a deque keeps the invariant
LEMMA DequesInv == ChatInv /\ CheckMessageDeques => ChatInv'
<1> SUFFICES ASSUME ChatInv, CheckMessageDeques
             PROVE  ChatInv'
  OBVIOUS
<1> DEFINE t == Srv
<1>1. PICK o \in Outcomes : AfterDeque(DequeueFor(t, scanned, o), scanned)
  BY DEF CheckMessageDeques
<1>2. Good(t, nConns, backlog) /\ scanned \in 1..nConns /\ slots[scanned].type = "UI"
  BY DEF ChatInv, AtOK, LastUsed, CheckMessageDeques
<1>3. t.slots = slots /\ t.nConns = nConns /\ t.up = TRUE
  BY DEF Srv
<1>4. scanned \in Nat
  BY <1>2, <1>3 DEF Good
<1> DEFINE s == DequeueFor(t, scanned, o)
<1> HIDE DEF t
<1>5. Good(s, nConns, backlog) /\ s.up = TRUE
  BY <1>2, <1>3, DequeueGood, DequeueKeepsUp
<1>6. backlog' = backlog /\ AfterDeque(s, scanned)
  BY <1>1 DEF CheckMessageDeques
<1> HIDE DEF s
<1> QED
  BY <1>4, <1>5, <1>6, AfterDequeInv

\* So does reporting what is ready and accepting a connection
LEMMA PollInv == ChatInv /\ Poll => ChatInv'
<1> SUFFICES ASSUME ChatInv, Poll
             PROVE  ChatInv'
  OBVIOUS
<1>1. PICK late \in SUBSET Lags, drained \in SUBSET {i \in 1..nConns : slots[i].wantWr} :
          LET ready == {i \in 1..nConns : Readable(net, slots[i].fd)
                                             /\ slots[i].fd \notin late}
              marked == [Srv EXCEPT !.slots = [i \in Slots |->
                            [@[i] EXCEPT !.rd = i \in ready, !.wr = i \in drained]]]
              accepts == backlog # <<>> /\ HasRoom(nConns)
              s == IF accepts THEN SetConn(marked, Head(backlog)) ELSE marked
          IN  /\ backlog # <<>> \/ ready # {} \/ drained # {}
              /\ backlog' = IF accepts THEN Tail(backlog) ELSE backlog
              /\ AfterSlot(s, 0)
  BY DEF Poll
<1> DEFINE ready == {i \in 1..nConns : Readable(net, slots[i].fd) /\ slots[i].fd \notin late}
           t == [i \in Slots |-> [slots[i] EXCEPT !.rd = i \in ready, !.wr = i \in drained]]
           marked == [Srv EXCEPT !.slots = t]
           accepts == backlog # <<>> /\ HasRoom(nConns)
           s == IF accepts THEN SetConn(marked, Head(backlog)) ELSE marked
<1>2. Good(Srv, nConns, backlog)
  BY DEF ChatInv, LastUsed, Poll
<1>3. Srv.slots = slots /\ Srv.nConns = nConns /\ Srv.up = TRUE /\ DOMAIN Srv = Fields
  BY DEF Srv, Fields
<1>4. [Srv EXCEPT !.slots = [i \in Slots |->
          [@[i] EXCEPT !.rd = i \in ready, !.wr = i \in drained]]] = marked
  BY <1>3
<1>5. backlog' = (IF accepts THEN Tail(backlog) ELSE backlog) /\ AfterSlot(s, 0)
  BY <1>1, <1>4
<1>6. marked.nConns = nConns /\ marked.up = TRUE
  BY <1>3 DEF Fields
<1> HIDE DEF ready, marked
<1>7. Good(marked, nConns, backlog)
  <2>1. /\ DOMAIN FreshSlot = {"fd", "wantWr", "rd", "wr", "out", "begun", "type", "user", "active"}
        /\ \A i \in Slots : DOMAIN slots[i] = DOMAIN FreshSlot
    BY <1>2, <1>3, Shapes DEF Good, TableShape
  <2>2. TableShape(t)
    BY <2>1 DEF TableShape
  <2>3. \A j \in 1..nConns : j \in Slots
    BY <1>2, <1>3, LimitAssumption DEF Good, Slots
  <2>4. \A j \in 1..nConns : /\ t[j].fd = slots[j].fd /\ t[j].out = slots[j].out
                             /\ t[j].type = slots[j].type /\ t[j].user = slots[j].user
                             /\ Waits(t[j])
    <3> SUFFICES ASSUME NEW j \in 1..nConns
                 PROVE  /\ t[j].fd = slots[j].fd /\ t[j].out = slots[j].out
                        /\ t[j].type = slots[j].type /\ t[j].user = slots[j].user
                        /\ Waits(t[j])
      OBVIOUS
    <3>1. t[j] = [slots[j] EXCEPT !.rd = j \in ready, !.wr = j \in drained]
      BY <2>3
    <3> HIDE DEF t
    <3>2. /\ t[j].fd = slots[j].fd /\ t[j].out = slots[j].out
          /\ t[j].type = slots[j].type /\ t[j].user = slots[j].user
          /\ t[j].wantWr = slots[j].wantWr /\ t[j].wr = (j \in drained)
          /\ t[j].begun = slots[j].begun
      BY <2>1, <2>3, <3>1
    <3>3. j \in drained => slots[j].wantWr
      OBVIOUS
    <3>4. Waits(slots[j])
      BY <1>2, <1>3 DEF Good, Waiting
    <3> QED
      BY <3>2, <3>3, <3>4 DEF Waits
  <2> HIDE DEF t
  <2> QED
    BY <1>2, <1>3, <2>2, <2>4, MarksGood DEF marked
<1>8. CASE accepts
  <2>1. nConns < MAX_CONCURRENCY_LIMIT
    BY <1>8 DEF HasRoom
  <2>2. Good(s, s.nConns, Tail(backlog)) /\ s.up = TRUE
    BY <1>6, <1>7, <1>8, <2>1, AcceptGood
  <2> HIDE DEF s
  <2> QED
    BY <1>5, <1>8, <2>2, AfterSlotInv
<1>9. CASE ~accepts
  <2>1. s = marked /\ backlog' = backlog
    BY <1>5, <1>9
  <2> HIDE DEF s, accepts
  <2> QED
    BY <1>5, <1>6, <1>7, <2>1, AfterSlotInv
<1> QED
  BY <1>8, <1>9

\* Reading at an entry of the table keeps the invariant
LEMMA ScanReadInv == ChatInv /\ ScanRead => ChatInv'
<1> SUFFICES ASSUME ChatInv, ScanRead
             PROVE  ChatInv'
  OBVIOUS
<1> DEFINE t == Srv
<1>1. PICK o \in Outcomes :
          LET s == RecvMessage(t, scanned, o)
          IN  /\ IF s.up /\ s.slots[scanned].wr THEN Goto(s, "resume", scanned)
                                                ELSE AfterSlot(s, scanned)
              /\ backlog' = IF s.up THEN backlog ELSE <<>>
  BY DEF ScanRead
<1>2. Good(t, nConns, backlog) /\ scanned \in 1..nConns
  BY DEF ChatInv, AtOK, LastUsed, ScanRead
<1> DEFINE s == RecvMessage(t, scanned, o)
<1> HIDE DEF t
<1>3. Good(s, nConns, backlog)
  <2>1. t.nConns = nConns
    BY DEF t, Srv
  <2>2. Open(t.net, t.slots[scanned].fd)
    BY <1>2, <2>1 DEF Good, LiveOpen
  <2> QED
    BY <1>2, <2>2, ReadGood
<1>4. /\ IF s.up /\ s.slots[scanned].wr THEN Goto(s, "resume", scanned)
                                        ELSE AfterSlot(s, scanned)
      /\ backlog' = IF s.up THEN backlog ELSE <<>>
  BY <1>1
<1>5. scanned \in Nat
  BY <1>2, <1>3 DEF Good
<1> HIDE DEF s
<1>6. CASE s.up /\ s.slots[scanned].wr
  <2>1. Goto(s, "resume", scanned)
    BY <1>4, <1>6
  <2> QED
    BY <1>2, <1>3, <1>4, <1>6, <2>1, GotoInv
<1>7. CASE ~(s.up /\ s.slots[scanned].wr)
  <2>1. AfterSlot(s, scanned)
    BY <1>4, <1>7
  <2> QED
    BY <1>3, <1>4, <1>5, <2>1, AfterSlotInv
<1> QED
  BY <1>6, <1>7

\* So does writing at the entry the scan is at, although it may be behind the end
LEMMA ScanWriteInv == ChatInv /\ ScanWrite => ChatInv'
<1> SUFFICES ASSUME ChatInv, ScanWrite
             PROVE  ChatInv'
  OBVIOUS
<1> DEFINE t == Srv
           b == LastUsed
<1>1. PICK o \in Outcomes :
          /\ AfterSlot(SendMessage(t, scanned, o), scanned)
          /\ backlog' = IF SendMessage(t, scanned, o).up THEN backlog ELSE <<>>
  BY DEF ScanWrite
<1>2. Good(t, b, backlog) /\ nConns \in Int
  BY DEF ChatInv, Srv, Good
<1>3. scanned \in 1..b /\ scanned \in Nat
  BY <1>2, LimitAssumption DEF ChatInv, AtOK, LastUsed, ScanWrite, Slots
<1> DEFINE s == SendMessage(t, scanned, o)
<1> HIDE DEF t, b
<1>4. Good(s, b, backlog)
  <2>1. t.slots = slots
    BY DEF t, Srv
  <2>2. slots[scanned].wr
    BY DEF ChatInv, AtOK, ScanWrite
  <2>3. Waits(t.slots[scanned])
    BY <1>2, <1>3 DEF Good, Waiting
  <2>4. t.slots[scanned].type \in {"UI", "FIL"}
    BY <2>1, <2>2, <2>3 DEF Waits
  <2> QED
    BY <1>2, <1>3, <2>4, SendGood DEF IsUiConn, IsFileConn
<1>5. AfterSlot(s, scanned) /\ backlog' = IF s.up THEN backlog ELSE <<>>
  BY <1>1
<1> HIDE DEF s
<1> QED
  BY <1>3, <1>4, <1>5, AfterSlotInv

\* The end of the process leaves nothing that has to be in order
LEMMA StopInv == ChatInv /\ StopServer => ChatInv'
<1> SUFFICES ASSUME ChatInv, StopServer
             PROVE  ChatInv'
  OBVIOUS
<1> DEFINE t == Srv
           b == LastUsed
           d == IF b < 0 THEN 0 ELSE b
           s == Exit(t)
<1>1. Good(t, b, backlog)
  BY DEF ChatInv
<1> HIDE DEF t, b
<1>2. Good(s, d, backlog) /\ s.up = FALSE
  <2>1. d \in Int /\ 0 <= d /\ d <= d
    BY <1>1 DEF Good
  <2>2. Good(t, d, backlog)
    BY <1>1, LimitAssumption DEF Good, Apart, Declared, OutFits, Waiting
  <2> HIDE DEF d
  <2> QED
    BY <2>1, <2>2, ExitGood
<1>3. Goto(s, "down", 0) /\ backlog' = <<>>
  BY DEF StopServer, t
<1> HIDE DEF s, d
<1>4. Goto(s, "poll", 0)
  BY <1>2, <1>3 DEF Goto
<1> QED
  BY <1>2, <1>3, <1>4, GotoInv

\* A new process finds nothing but the registrar file
LEMMA StartInv == ChatInv /\ StartServer => ChatInv'
<1> SUFFICES ASSUME ChatInv, StartServer
             PROVE  ChatInv'
  OBVIOUS
<1>1. /\ Good(Srv, nConns, backlog)
      /\ LastUsed' = nConns /\ backlog' = backlog
  BY DEF ChatInv, LastUsed, StartServer
<1> DEFINE s == Srv
           t == Srv'
<1>2. /\ DOMAIN t = Fields /\ t.slots = s.slots /\ t.nConns = s.nConns
      /\ t.profiles = s.profiles /\ t.net = s.net /\ t.up = s.up
  BY DEF Srv, StartServer, Fields
<1> HIDE DEF s, t
<1>3. Good(t, nConns, backlog)
  BY <1>1, <1>2 DEF Good, LiveOpen, Apart, Declared, OutFits, Known, Waiting, s
<1>4. AtOK'
  BY DEF ChatInv, AtOK, StartServer
<1> QED
  BY <1>1, <1>3, <1>4 DEF ChatInv, t

\* Every step of the server keeps the invariant
LEMMA ServerKeepsInv == ChatInv /\ (ServerStep \/ StopServer \/ StartServer) => ChatInv'
BY DequesInv, PollInv, ScanReadInv, ScanWriteInv, StopInv, StartInv DEF ServerStep

\* It holds at first
LEMMA InitInv == Init => ChatInv
<1> SUFFICES ASSUME Init
             PROVE  ChatInv
  OBVIOUS
<1> DEFINE t == Srv
<1>1. /\ DOMAIN t = Fields /\ t.slots = [i \in Slots |-> FreshSlot] /\ t.nConns = 0
      /\ t.profiles = <<>> /\ t.net = [c \in Conns |-> Closed] /\ t.up = TRUE
      /\ LastUsed = 0 /\ backlog = <<>>
  BY DEF Srv, Fields, Init, SrvInit, NetInit, LastUsed
<1> HIDE DEF t
<1>2. IsSeq(<<>>) /\ Range(<<>>) = {} /\ Closed.down = <<>> /\ DOMAIN <<>> = {}
  BY EmptyIsSeq DEF Closed
<1>3. NetShape(t.net) /\ NetOK(t.net) /\ BacklogOK(t.net, backlog)
  BY <1>1, <1>2 DEF NetShape, NetOK, BacklogOK
<1>4. TableShape(t.slots) /\ MailOK(t.profiles)
  BY <1>1, NoMail DEF TableShape
<1>5. LiveOpen(t) /\ Apart(t, 0) /\ Declared(t, 0) /\ OutFits(t, 0) /\ Waiting(t, 0)
  BY <1>1 DEF LiveOpen, Apart, Declared, OutFits, Waiting
<1>6. AtOK
  BY DEF Init, SrvInit, AtOK
<1>7. 0 <= MAX_CONCURRENCY_LIMIT
  BY LimitAssumption
<1>8. Known(t)
  BY <1>1 DEF Known, Closed, Open
<1> QED
  BY <1>1, <1>3, <1>4, <1>5, <1>6, <1>7, <1>8 DEF ChatInv, Good, t

-----------------------------------------------------------------------------
(* What ends the process *)

\* The fields of a state
Shaped(s) ==
    /\ DOMAIN s = Fields
    /\ TableShape(s.slots)
    /\ DOMAIN s.net = Conns
    /\ \A c \in Conns : DOMAIN s.net[c] = DOMAIN Closed

\* From s to r the process goes on, and the same connections are open, in the
\* same entries
SameEntries(s, r) ==
    /\ Shaped(r)
    /\ r.up = s.up /\ r.nConns = s.nConns
    /\ \A j \in Slots : r.slots[j].fd = s.slots[j].fd /\ r.slots[j].type = s.slots[j].type
    /\ \A c : Open(r.net, c) <=> Open(s.net, c)

LEMMA GoodShaped == \A s, b, q : Good(s, b, q) => Shaped(s)
BY DEF Good, Shaped, NetShape

LEMMA SameTwice == \A s, r, t : SameEntries(s, r) /\ SameEntries(r, t) => SameEntries(s, t)
BY DEF SameEntries

\* An entry in the table
LEMMA LiveEntry ==
    ASSUME NEW s, NEW b, NEW q, Good(s, b, q), NEW i \in 1..s.nConns
    PROVE  i \in Slots /\ i \in 1..b /\ Open(s.net, s.slots[i].fd)
BY LimitAssumption DEF Good, LiveOpen, Slots

\* Writing on a connection opens and closes none
LEMMA WriteOpens ==
    ASSUME NEW s, Shaped(s), NEW c \in Conns, NEW f
    PROVE  LET w == WriteDown(s.net, c, f)
           IN  /\ DOMAIN w = Conns
               /\ \A d \in Conns : DOMAIN w[d] = DOMAIN Closed
               /\ \A d : Open(w, d) <=> Open(s.net, d)
<1> DEFINE n == s.net
           down == Append(n[c].down, f)
           x == [n[c] EXCEPT !.down = down]
           w == WriteDown(n, c, f)
<1>1. DOMAIN n = Conns /\ \A d \in Conns : DOMAIN n[d] = DOMAIN Closed
  BY DEF Shaped
<1> HIDE DEF n, down
<1>2. w = IF n[c].cli THEN [n EXCEPT ![c] = x] ELSE n
  BY <1>1, Shapes DEF WriteDown, down
<1>3. DOMAIN x = DOMAIN Closed /\ x.srv = n[c].srv
  BY <1>1, Shapes
<1> HIDE DEF x, w
<1>4. /\ DOMAIN w = Conns
      /\ \A d \in Conns : DOMAIN w[d] = DOMAIN Closed /\ w[d].srv = n[d].srv
  BY <1>1, <1>2, <1>3
<1> QED
  BY <1>4 DEF Open, n, w

\* An entry gets new values, not another connection
LEMMA EntrySame ==
    ASSUME NEW s, Shaped(s), NEW i \in Slots, NEW x, DOMAIN x = DOMAIN FreshSlot,
           x.fd = s.slots[i].fd, x.type = s.slots[i].type,
           NEW r, DOMAIN r = Fields, r.slots = [s.slots EXCEPT ![i] = x],
           r.up = s.up, r.nConns = s.nConns,
           DOMAIN r.net = Conns, \A d \in Conns : DOMAIN r.net[d] = DOMAIN Closed,
           \A d : Open(r.net, d) <=> Open(s.net, d)
    PROVE  SameEntries(s, r) /\ r.slots[i] = x
<1>1. TableShape(s.slots)
  BY DEF Shaped
<1>2. /\ TableShape(r.slots) /\ r.slots[i] = x
      /\ \A j \in Slots : j # i => r.slots[j] = s.slots[j]
  BY <1>1, SlotSet
<1>3. Shaped(r)
  BY <1>2 DEF Shaped
<1> QED
  BY <1>2, <1>3 DEF SameEntries

\* A frame is made ready
LEMMA BuildSame ==
    ASSUME NEW s, Shaped(s), NEW i \in Slots, NEW f
    PROVE  SameEntries(s, BuildSendMsg(s, i, f)) /\ BuildSendMsg(s, i, f).slots[i].out = f
<1> DEFINE r == BuildSendMsg(s, i, f)
           old == s.slots[i]
           x == [old EXCEPT !.out = f, !.begun = FALSE]
           w == WriteDown(s.net, old.fd, Torn)
<1>1. /\ DOMAIN s = Fields /\ DOMAIN s.slots = Slots /\ DOMAIN old = DOMAIN FreshSlot
      /\ DOMAIN s.net = Conns /\ \A d \in Conns : DOMAIN s.net[d] = DOMAIN Closed
  BY DEF Shaped, TableShape
<1>2. Open(s.net, old.fd) => /\ DOMAIN w = Conns
                             /\ \A d \in Conns : DOMAIN w[d] = DOMAIN Closed
                             /\ \A d : Open(w, d) <=> Open(s.net, d)
  BY WriteOpens DEF Open
<1> HIDE DEF w
<1>3. /\ DOMAIN x = DOMAIN FreshSlot
      /\ x.fd = old.fd /\ x.type = old.type /\ x.out = f
  BY <1>1, Shapes
<1>4. /\ DOMAIN r = Fields
      /\ r.slots = [s.slots EXCEPT ![i] = x]
      /\ r.net = IF old.begun /\ Open(s.net, old.fd) THEN w ELSE s.net
      /\ r.nConns = s.nConns /\ r.up = s.up
  BY <1>1 DEF BuildSendMsg, Fields, w
<1> HIDE DEF r, x
<1>5. /\ DOMAIN r.net = Conns /\ \A d \in Conns : DOMAIN r.net[d] = DOMAIN Closed
      /\ \A d : Open(r.net, d) <=> Open(s.net, d)
  BY <1>1, <1>2, <1>4
<1>6. SameEntries(s, r) /\ r.slots[i] = x
  <2>1. /\ DOMAIN x = DOMAIN FreshSlot
        /\ x.fd = s.slots[i].fd /\ x.type = s.slots[i].type
    BY <1>3
  <2>2. /\ DOMAIN r = Fields
        /\ r.slots = [s.slots EXCEPT ![i] = x]
        /\ r.nConns = s.nConns /\ r.up = s.up
    BY <1>4
  <2> HIDE DEF old
  <2> QED
    BY <1>5, <2>1, <2>2, EntrySame
<1> QED
  BY <1>3, <1>6 DEF r

\* An answer to an open connection
LEMMA ResponseKeepsUp ==
    ASSUME NEW s, Shaped(s), NEW i \in Slots, Open(s.net, s.slots[i].fd), NEW f, NEW o
    PROVE  SendResponse(s, i, f, o).up = s.up
<1> DEFINE r == BuildSendMsg(s, i, f)
<1>1. /\ DOMAIN r = Fields /\ r.up = s.up
      /\ Open(r.net, r.slots[i].fd)
  <2>1. SameEntries(s, r)
    BY BuildSame
  <2> HIDE DEF r
  <2> QED
    BY <2>1 DEF SameEntries, Shaped
<1> HIDE DEF r
<1>2. SendFrame(r, i, o).up = r.up
  BY <1>1, SendKeepsUp
<1> QED
  BY <1>1, <1>2 DEF SendResponse, r

\* A file that is ready for an open file connection: unless the client has closed
\* its end the table stays, whether the file blocks or not
LEMMA FileSent ==
    ASSUME NEW s, Shaped(s), NEW k \in Slots, Open(s.net, s.slots[k].fd),
           s.slots[k].type = "FIL", NEW o
    PROVE  \/ SameEntries(s, SendMessage(s, k, o))
           \/ s.slots[k].fd \in o.gone /\ SendMessage(s, k, o) = RemoveConnection(s, k)
<1> DEFINE x == s.slots[k]
           w == WriteDown(s.net, x.fd, x.out)
           halted == [x EXCEPT !.wantWr = TRUE, !.begun = TRUE]
           idle == [x EXCEPT !.out = None, !.begun = FALSE, !.wantWr = FALSE]
           done == [idle EXCEPT !.active = FALSE]
           wait == [s EXCEPT !.slots[k] = halted]
           v == [s EXCEPT !.net = w]
           Done(t) == [t EXCEPT !.slots[k] = done]
<1>1. /\ DOMAIN s = Fields /\ DOMAIN s.slots = Slots /\ DOMAIN x = DOMAIN FreshSlot
      /\ DOMAIN s.net = Conns /\ \A d \in Conns : DOMAIN s.net[d] = DOMAIN Closed
  BY DEF Shaped, TableShape
<1>2. /\ DOMAIN w = Conns /\ \A d \in Conns : DOMAIN w[d] = DOMAIN Closed
      /\ \A d : Open(w, d) <=> Open(s.net, d)
  <2> DEFINE c == x.fd
             f == x.out
  <2>1. c \in Conns
    BY DEF Open
  <2> HIDE DEF c, f
  <2>2. LET z == WriteDown(s.net, c, f)
        IN  /\ DOMAIN z = Conns /\ \A d \in Conns : DOMAIN z[d] = DOMAIN Closed
            /\ \A d : Open(z, d) <=> Open(s.net, d)
    BY <2>1, WriteOpens
  <2> QED
    BY <2>2 DEF w, c, f
<1> HIDE DEF w
<1>3. /\ DOMAIN halted = DOMAIN FreshSlot /\ halted.fd = x.fd /\ halted.type = x.type
      /\ DOMAIN done = DOMAIN FreshSlot /\ done.fd = x.fd /\ done.type = x.type
  BY <1>1, Shapes
<1>4. [s EXCEPT !.slots[k].wantWr = TRUE, !.slots[k].begun = TRUE] = wait
  BY <1>1, Shapes DEF Fields
<1>5. ASSUME NEW t, DOMAIN t = Fields, t.slots = s.slots
      PROVE  SendCompleted(t, k) = Done(t)
  <2> DEFINE y == [t EXCEPT !.slots[k].out = None, !.slots[k].begun = FALSE,
                            !.slots[k].wantWr = FALSE]
             z == [t EXCEPT !.slots[k] = idle]
  <2>1. y = z
    BY <1>1, <1>5, Shapes DEF Fields
  <2>2. IsFileConn(t, k)
    BY <1>5 DEF IsFileConn
  <2>3. SendCompleted(t, k) = [y EXCEPT !.slots[k].active = FALSE]
    BY <2>2 DEF SendCompleted
  <2> HIDE DEF y, idle
  <2>4. [z EXCEPT !.slots[k].active = FALSE] = Done(t)
    BY <1>1, <1>5 DEF Fields
  <2> QED
    BY <2>1, <2>3, <2>4
<1> HIDE DEF halted, idle, done
<1>6. /\ DOMAIN v = Fields /\ v.slots = s.slots /\ v.up = s.up /\ v.nConns = s.nConns
      /\ v.net = w
      /\ DOMAIN wait = Fields /\ wait.slots = [s.slots EXCEPT ![k] = halted]
      /\ wait.up = s.up /\ wait.nConns = s.nConns /\ wait.net = s.net
  BY <1>1 DEF Fields
<1>7. ASSUME NEW t, DOMAIN t = Fields
      PROVE  /\ DOMAIN Done(t) = Fields /\ Done(t).slots = [t.slots EXCEPT ![k] = done]
             /\ Done(t).up = t.up /\ Done(t).nConns = t.nConns /\ Done(t).net = t.net
  BY <1>7 DEF Fields
<1> HIDE DEF wait, v, Done
<1>8. SameEntries(s, wait)
  BY <1>1, <1>3, <1>6, EntrySame
<1>9. SameEntries(s, Done(s))
  <2>1. DOMAIN Done(s) = Fields /\ Done(s).slots = [s.slots EXCEPT ![k] = done]
        /\ Done(s).up = s.up /\ Done(s).nConns = s.nConns /\ Done(s).net = s.net
    BY <1>1, <1>7
  <2> QED
    BY <1>1, <1>3, <2>1, EntrySame
<1>10. SameEntries(s, Done(v))
  <2>1. DOMAIN Done(v) = Fields /\ Done(v).slots = [s.slots EXCEPT ![k] = done]
        /\ Done(v).up = s.up /\ Done(v).nConns = s.nConns /\ Done(v).net = w
    BY <1>6, <1>7
  <2> QED
    BY <1>2, <1>3, <2>1, EntrySame
<1>11. CASE s.slots[k].out = None
  <2>1. SendMessage(s, k, o) = Done(s)
    BY <1>1, <1>5, <1>11 DEF SendMessage
  <2> QED
    BY <1>9, <2>1
<1>12. CASE s.slots[k].out # None
  <2>1. SendMessage(s, k, o) = SendFrame(s, k, o)
    BY <1>12 DEF SendMessage
  <2>2. CASE x.fd \in o.gone
    BY <2>1, <2>2 DEF SendFrame
  <2>3. CASE x.fd \notin o.gone
    <3>1. SendCompleted(v, k) = Done(v)
      BY <1>5, <1>6
    <3>2. SendFrame(s, k, o) = wait \/ SendFrame(s, k, o) = SendCompleted(v, k)
      BY <1>4, <2>3 DEF SendFrame, v, w
    <3> QED
      BY <1>8, <1>10, <2>1, <3>1, <3>2
  <2> QED
    BY <2>2, <2>3
<1> QED
  BY <1>11, <1>12

\* After a removal the index of another entry is still that of an open
\* connection: its own or, if its entry has moved, the next one's or, at the end
\* of the table, its own again, whose entry is still there as a copy
LEMMA RemoveSpares ==
    ASSUME NEW s, NEW b, NEW q, Good(s, b, q), NEW i \in 1..s.nConns, NEW k \in 1..s.nConns,
           i # k,
           NEW t, SameEntries(s, t)
    PROVE  LET r == RemoveConnection(t, k)
           IN  /\ r.up = s.up
               /\ Open(r.net, r.slots[i].fd)
               /\ \A c : Open(r.net, c) <=> Open(s.net, c) /\ c # s.slots[k].fd
<1> DEFINE r == RemoveConnection(t, k)
           n == s.nConns
           c == s.slots[k].fd
           m == IF i \in k..(n - 1) THEN i + 1 ELSE i
<1>1. /\ n \in Nat /\ \A j \in 1..n : j \in Slots
      /\ \A j \in 1..n : Open(s.net, s.slots[j].fd)
      /\ \A j, l \in 1..n : j # l => s.slots[j].fd # s.slots[l].fd
  <2>1. n \in Nat /\ b \in Int /\ n <= b
    BY DEF Good
  <2>2. \A j \in 1..n : j \in Slots /\ Open(s.net, s.slots[j].fd)
    BY LiveEntry
  <2>3. \A j \in 1..(n - 1), l \in 1..b : j # l => s.slots[j].fd # s.slots[l].fd
    BY DEF Good, Apart
  <2>4. ASSUME NEW j \in 1..n, NEW l \in 1..n, j # l
        PROVE  s.slots[j].fd # s.slots[l].fd
    <3>1. j \in 1..(n - 1) \/ l \in 1..(n - 1)
      BY <2>1, <2>4
    <3>2. j \in 1..b /\ l \in 1..b
      BY <2>1
    <3> QED
      BY <2>3, <2>4, <3>1, <3>2
  <2> QED
    BY <2>1, <2>2, <2>4
<1>2. /\ DOMAIN t = Fields /\ t.up = s.up /\ t.nConns = n
      /\ DOMAIN t.net = Conns /\ \A d \in Conns : DOMAIN t.net[d] = DOMAIN Closed
      /\ \A j \in Slots : t.slots[j].fd = s.slots[j].fd
      /\ \A d : Open(t.net, d) <=> Open(s.net, d)
  BY DEF SameEntries, Shaped
<1>3. /\ r.up = s.up
      /\ r.slots = [j \in Slots |-> IF j \in k..(n - 1) THEN t.slots[j + 1] ELSE t.slots[j]]
      /\ r.net = CloseServer(t.net, c)
  <2>1. /\ r.net = IF Open(t.net, t.slots[k].fd)
                   THEN CloseServer(t.net, t.slots[k].fd) ELSE t.net
        /\ r.slots = [j \in Slots |-> IF j \in k..(t.nConns - 1) THEN t.slots[j + 1]
                                                                 ELSE t.slots[j]]
        /\ r.up = t.up
    BY <1>2, RemovedFields
  <2> QED
    BY <1>1, <1>2, <2>1
<1> HIDE DEF r
<1>4. m \in 1..n /\ m # k
  BY <1>1
<1>5. r.slots[i].fd = s.slots[m].fd
  BY <1>1, <1>2, <1>3, <1>4
<1>6. \A d : Open(r.net, d) <=> Open(t.net, d) /\ d # c
  <2>1. c \in Conns /\ Closed.srv = "closed"
    BY <1>1 DEF Open, Closed
  <2> HIDE DEF c
  <2>2. CASE t.net[c].cli
    <3> DEFINE x == [t.net[c] EXCEPT !.srv = "closed"]
    <3>1. x.srv = "closed"
      BY <1>2, <2>1, Shapes
    <3>2. r.net = [t.net EXCEPT ![c] = x]
      BY <1>3, <2>2 DEF CloseServer
    <3> HIDE DEF x
    <3>3. \A d \in Conns : r.net[d] = IF d = c THEN x ELSE t.net[d]
      BY <1>2, <2>1, <3>2
    <3> QED
      BY <3>1, <3>3 DEF Open
  <2>3. CASE ~t.net[c].cli
    <3>1. \A d \in Conns : r.net[d] = IF d = c THEN Closed ELSE t.net[d]
      BY <1>2, <1>3, <2>1, <2>3 DEF CloseServer
    <3> QED
      BY <2>1, <3>1 DEF Open
  <2> QED
    BY <2>2, <2>3
<1>7. Open(s.net, s.slots[m].fd) /\ s.slots[m].fd # c
  BY <1>1, <1>4
<1> QED
  BY <1>2, <1>3, <1>5, <1>6, <1>7 DEF r

\* A file is sent to a user: the table stays, or loses a file connection whose
\* client has closed it
LEMMA FileLeaves ==
    ASSUME NEW s, NEW b, NEW q, Good(s, b, q), NEW u, NEW f, NEW o
    PROVE  LET r == FileTo(s, u, f, o)
           IN  \/ SameEntries(s, r)
               \/ \E k \in 1..s.nConns : \E t :
                     /\ s.slots[k].type = "FIL" /\ s.slots[k].fd \in o.gone
                     /\ SameEntries(s, t) /\ r = RemoveConnection(t, k)
<1> DEFINE r == FileTo(s, u, f, o)
           k == GetFileConn(s, u)
           t == BuildSendMsg(s, k, f)
<1>1. Shaped(s)
  BY GoodShaped
<1>2. CASE k = 0
  <2>1. r = s
    BY <1>2 DEF FileTo
  <2> QED
    BY <1>1, <2>1 DEF SameEntries
<1>3. CASE k # 0
  <2>1. k \in 1..s.nConns /\ s.slots[k].type = "FIL"
    BY <1>3, FileConnFound
  <2>2. r = SendMessage(t, k, o)
    BY <1>3 DEF FileTo
  <2> HIDE DEF k, r
  <2>3. k \in Slots /\ Open(s.net, s.slots[k].fd)
    BY <2>1, LiveEntry
  <2>4. SameEntries(s, t)
    BY <1>1, <2>3, BuildSame
  <2> HIDE DEF t
  <2>5. /\ Shaped(t) /\ t.slots[k].fd = s.slots[k].fd /\ t.slots[k].type = "FIL"
        /\ Open(t.net, t.slots[k].fd)
    BY <2>1, <2>3, <2>4 DEF SameEntries
  <2>6. \/ SameEntries(t, SendMessage(t, k, o))
        \/ t.slots[k].fd \in o.gone /\ SendMessage(t, k, o) = RemoveConnection(t, k)
    BY <2>3, <2>5, FileSent
  <2> QED
    BY <2>1, <2>2, <2>4, <2>5, <2>6, SameTwice DEF r
<1> QED
  BY <1>2, <1>3

\* The index of the connection that a command was read from is still that of its
\* entry, or of an open connection when nobody is left whose files could fail
AtSender(s, i) == s.up /\ i \in 1..s.nConns /\ s.slots[i].type # "FIL"

AtSome(s, i, o) ==
    s.up /\ Open(s.net, s.slots[i].fd) /\ \A c \in o.gone : ~Open(s.net, c)

\* A file to one user leaves the index to an open connection
LEMMA FileLeavesSome ==
    ASSUME NEW s, NEW b, NEW q, Good(s, b, q), NEW i, AtSender(s, i), NEW u, NEW f, NEW o
    PROVE  LET r == FileTo(s, u, f, o)
           IN  /\ r.up /\ Open(r.net, r.slots[i].fd)
               /\ AtSender(r, i) \/ \E c \in o.gone : ~Open(r.net, c)
<1> DEFINE r == FileTo(s, u, f, o)
<1>1. i \in 1..s.nConns /\ i \in Slots /\ Open(s.net, s.slots[i].fd)
  BY LiveEntry DEF AtSender
<1>2. \/ SameEntries(s, r)
      \/ \E k \in 1..s.nConns : \E t :
            /\ s.slots[k].type = "FIL" /\ s.slots[k].fd \in o.gone
            /\ SameEntries(s, t) /\ r = RemoveConnection(t, k)
  BY FileLeaves
<1> HIDE DEF r
<1>3. ASSUME SameEntries(s, r)
      PROVE  r.up /\ Open(r.net, r.slots[i].fd) /\ AtSender(r, i)
  BY <1>1, <1>3 DEF SameEntries, AtSender
<1>4. ASSUME NEW k \in 1..s.nConns, NEW t,
             s.slots[k].type = "FIL", s.slots[k].fd \in o.gone,
             SameEntries(s, t), r = RemoveConnection(t, k)
      PROVE  r.up /\ Open(r.net, r.slots[i].fd) /\ \E c \in o.gone : ~Open(r.net, c)
  <2>1. i # k /\ s.up
    BY <1>4 DEF AtSender
  <2>2. LET z == RemoveConnection(t, k)
        IN  /\ z.up = s.up /\ Open(z.net, z.slots[i].fd)
            /\ \A c : Open(z.net, c) <=> Open(s.net, c) /\ c # s.slots[k].fd
    <3>1. i \in 1..s.nConns /\ k \in 1..s.nConns /\ SameEntries(s, t) /\ i # k
      BY <1>1, <1>4, <2>1
    <3>2. Good(s, b, q)
      OBVIOUS
    <3>3. ASSUME NEW y, SameEntries(s, y) PROVE LET z == RemoveConnection(y, k)
        IN  /\ z.up = s.up /\ Open(z.net, z.slots[i].fd)
            /\ \A c : Open(z.net, c) <=> Open(s.net, c) /\ c # s.slots[k].fd
      BY <3>1, <3>2, <3>3, RemoveSpares
    <3> QED
      BY <3>1, <3>3
  <2>3. /\ r.up = s.up /\ Open(r.net, r.slots[i].fd)
        /\ \A c : Open(r.net, c) <=> Open(s.net, c) /\ c # s.slots[k].fd
    BY <1>4, <2>2
  <2> QED
    BY <1>4, <2>1, <2>3
<1> QED
  BY <1>2, <1>3, <1>4 DEF r

\* One more file leaves it there, if one client at most has gone
LEMMA FileLeavesOn ==
    ASSUME NEW s, NEW b, NEW q, Good(s, b, q), NEW i \in Slots, NEW o,
           \A c, d \in o.gone : c = d,
           AtSender(s, i) \/ AtSome(s, i, o), NEW u, NEW f
    PROVE  LET r == FileTo(s, u, f, o) IN AtSender(r, i) \/ AtSome(r, i, o)
<1> DEFINE r == FileTo(s, u, f, o)
<1>1. CASE AtSender(s, i)
  <2>1. /\ r.up /\ Open(r.net, r.slots[i].fd)
        /\ AtSender(r, i) \/ \E c \in o.gone : ~Open(r.net, c)
    BY <1>1, FileLeavesSome
  <2> HIDE DEF r
  <2>2. (\E c \in o.gone : ~Open(r.net, c)) => \A c \in o.gone : ~Open(r.net, c)
    OBVIOUS
  <2> QED
    BY <2>1, <2>2 DEF AtSome, r
<1>2. CASE AtSome(s, i, o)
  <2>1. \/ SameEntries(s, r)
        \/ \E k \in 1..s.nConns : s.slots[k].fd \in o.gone
    BY FileLeaves
  <2>2. \A k \in 1..s.nConns : s.slots[k].fd \notin o.gone
    BY <1>2, LiveEntry DEF AtSome
  <2> HIDE DEF r
  <2>3. SameEntries(s, r)
    BY <2>1, <2>2
  <2> QED
    BY <1>2, <2>3 DEF AtSome, SameEntries, r
<1> QED
  BY <1>1, <1>2

\* So does each recipient of a public file
LEMMA FileLoopOn ==
    ASSUME NEW s, NEW b, NEW q, Good(s, b, q), NEW us, NEW cmd, NEW o,
           NEW n \in Nat, NEW f, IsFileLoop(f, n, s, us, cmd, o),
           NEW i, AtSender(s, i), \A c, d \in o.gone : c = d
    PROVE  AtSender(f[1..n], i) \/ AtSome(f[1..n], i, o)
<1> DEFINE On(x) == Good(x, b, q) /\ (AtSender(x, i) \/ AtSome(x, i, o))
           T == {k \in Nat : k <= n => On(f[1..k])}
<1>1. 0 \in T
  <2>1. 1..0 = {} /\ {} \in SUBSET (1..n)
    OBVIOUS
  <2>2. f[{}] = s
    BY <2>1 DEF IsFileLoop
  <2> QED
    BY <2>1, <2>2
<1>2. ASSUME NEW k \in Nat, k \in T
      PROVE  k + 1 \in T
  <2> SUFFICES ASSUME k + 1 <= n
               PROVE  On(f[1..(k + 1)])
    OBVIOUS
  <2> DEFINE t == 1..(k + 1)
             x == f[1..k]
             v == us[k + 1]
  <2>1. Max(t) = k + 1
    BY MaxIs
  <2>2. t \in SUBSET (1..n) /\ t # {} /\ t \ {k + 1} = 1..k
    OBVIOUS
  <2>3. f[t] = NextRecipient(x, v, cmd, o)
    BY <2>1, <2>2 DEF IsFileLoop
  <2>4. Good(x, b, q) /\ (AtSender(x, i) \/ AtSome(x, i, o))
    BY <1>2
  <2> HIDE DEF x, v, t
  <2>5. CASE ~(x.up /\ v # cmd.user)
    BY <2>3, <2>4, <2>5 DEF NextRecipient, t
  <2>6. CASE x.up /\ v # cmd.user
    <3> DEFINE file == PublicFile(cmd)
               y == FileTo(x, v, file, o)
    <3>1. file.kind = "FILE_MSG" /\ MeantFor(file, v)
      BY <2>6 DEF PublicFile, Message, MeantFor
    <3> HIDE DEF file
    <3>2. Good(y, b, q)
      BY <2>4, <3>1, FileGood
    <3>3. i \in Slots
      BY LiveEntry DEF AtSender
    <3>4. AtSender(y, i) \/ AtSome(y, i, o)
      BY <2>4, <3>3, FileLeavesOn
    <3>5. f[t] = y
      BY <2>3, <2>6 DEF NextRecipient, file
    <3> HIDE DEF y
    <3> QED
      BY <3>2, <3>4, <3>5 DEF t
  <2> QED
    BY <2>5, <2>6
<1> HIDE DEF T, On
<1>3. Nat \subseteq T
  BY <1>1, <1>2, SetInduction
<1>4. On(f[1..n])
  BY <1>3 DEF T
<1> QED
  BY <1>4 DEF On

\* The answer to a public file, if one client at most has gone
LEMMA SendFileKeepsUp ==
    ASSUME NEW s, NEW b, NEW q, Good(s, b, q), NEW i, AtSender(s, i), NEW cmd, NEW o,
           \A c, d \in o.gone : c = d
    PROVE  HandleSendFile(s, i, cmd, o).up
<1> DEFINE us == GetSignedInUsers(s.profiles)
           n == Len(s.profiles)
           file == Message("FILE_MSG", cmd.user, cmd.user, None, cmd.id)
           sent == FoldLeft(LAMBDA x, u : IF x.up /\ u # cmd.user THEN FileTo(x, u, file, o)
                                                                  ELSE x, s, us)
           f == CHOOSE g : IsFileLoop(g, n, s, us, cmd, o)
<1>1. n \in Nat /\ DOMAIN us = 1..n
  BY SeqElements DEF Good, MailOK, GetSignedInUsers
<1>2. IsFileLoop(f, n, s, us, cmd, o)
  BY <1>1, FileLoopExists
<1>3. sent = f[1..n]
  BY <1>1 DEF FoldLeft, MapThenFoldSet, IsFileLoop, NextRecipient, PublicFile
<1> HIDE DEF f
<1>4. Good(sent, b, q) /\ (AtSender(sent, i) \/ AtSome(sent, i, o))
  BY <1>1, <1>2, <1>3, FileLoopGood, FileLoopOn
<1> HIDE DEF sent
<1>5. /\ s.up /\ i \in Slots /\ Shaped(s) /\ Open(s.net, s.slots[i].fd)
      /\ sent.up /\ Shaped(sent) /\ Open(sent.net, sent.slots[i].fd)
  BY <1>4, LiveEntry, GoodShaped DEF AtSender, AtSome
<1>6. ASSUME NEW g
      PROVE  SendResponse(s, i, g, o).up /\ SendResponse(sent, i, g, o).up
  BY <1>5, ResponseKeepsUp
<1> QED
  BY <1>5, <1>6 DEF HandleSendFile, StartFileToAllUsers, sent

\* The answer to a file to one user
LEMMA SendFileToKeepsUp ==
    ASSUME NEW s, NEW b, NEW q, Good(s, b, q), NEW i, AtSender(s, i), NEW cmd, NEW o
    PROVE  HandleSendFileTo(s, i, cmd, o).up
<1> DEFINE file == Message("FILE_MSG", cmd.user, cmd.user, cmd.name, cmd.id)
           sent == FileTo(s, cmd.name, file, o)
<1>1. file.kind = "FILE_MSG" /\ MeantFor(file, cmd.name)
  BY DEF Message, MeantFor
<1> HIDE DEF file
<1>2. Good(sent, b, q)
  BY <1>1, FileGood
<1>3. sent.up /\ Open(sent.net, sent.slots[i].fd)
  BY FileLeavesSome
<1> HIDE DEF sent
<1>4. /\ s.up /\ i \in Slots /\ Shaped(s) /\ Open(s.net, s.slots[i].fd) /\ Shaped(sent)
  BY <1>2, LiveEntry, GoodShaped DEF AtSender
<1>5. ASSUME NEW g
      PROVE  SendResponse(s, i, g, o).up /\ SendResponse(sent, i, g, o).up
  BY <1>3, <1>4, ResponseKeepsUp
<1>6. CASE ~IsLoggedIn(s.profiles, cmd.user)
  BY <1>5, <1>6 DEF HandleSendFileTo
<1>7. CASE IsLoggedIn(s.profiles, cmd.user) /\ ~IsLoggedIn(s.profiles, cmd.name)
  BY <1>5, <1>7 DEF HandleSendFileTo
<1>8. CASE /\ IsLoggedIn(s.profiles, cmd.user) /\ IsLoggedIn(s.profiles, cmd.name)
           /\ GetFileConn(s, cmd.name) = 0
  BY <1>5, <1>8 DEF HandleSendFileTo
<1>9. CASE /\ IsLoggedIn(s.profiles, cmd.user) /\ IsLoggedIn(s.profiles, cmd.name)
           /\ GetFileConn(s, cmd.name) # 0
  <2>1. HandleSendFileTo(s, i, cmd, o)
            = IF sent.up THEN SendResponse(sent, i, Response("OK", "sent", cmd), o) ELSE sent
    BY <1>9 DEF HandleSendFileTo, SendFileToUser, sent, file
  <2> QED
    BY <1>3, <1>5, <2>1
<1> QED
  BY <1>6, <1>7, <1>8, <1>9
\* Calls of the data store leave the connections as they are, and the process up
Spared(s, t) ==
    /\ DOMAIN t = Fields
    /\ t.slots = s.slots /\ t.net = s.net /\ t.nConns = s.nConns /\ t.up = s.up

LEMMA CallsSpare ==
    ASSUME NEW s, DOMAIN s = Fields
    PROVE  /\ Spared(s, s)
           /\ \A reg : Spared(s, [s EXCEPT !.registrar = reg])
           /\ \A ps : Spared(s, [s EXCEPT !.profiles = ps])
           /\ \A u, p : Spared(s, Start(s, u, p))
           /\ \A u, m : Spared(s, Post(s, u, m))
           /\ \A u, m : Spared(s, PostAllExcept(s, u, m))
BY DEF Spared, Fields, Start, Post, PostAllExcept

\* An answer after such calls
LEMMA AnswerKeepsUp ==
    ASSUME NEW s, NEW b, NEW q, Good(s, b, q), NEW i, AtSender(s, i), NEW t, Spared(s, t),
           NEW f, NEW o
    PROVE  SendResponse(t, i, f, o).up
<1>1. i \in Slots /\ Open(s.net, s.slots[i].fd) /\ Shaped(s) /\ s.up
  BY LiveEntry, GoodShaped DEF AtSender
<1>2. Shaped(t) /\ Open(t.net, t.slots[i].fd) /\ t.up = s.up
  BY <1>1 DEF Shaped, Spared
<1> QED
  BY <1>1, <1>2, ResponseKeepsUp

\* The commands a client sends
Commands == ScriptOps \cup {"UI_CONN", "FILE_CONN"}

\* A list of somebody, a public file when one client at most has gone and any
\* other command leave the server running
LEMMA HandleKeepsUp ==
    ASSUME NEW s, NEW b, NEW q, Good(s, b, q), NEW i, AtSender(s, i), NEW cmd, NEW o,
           cmd.op \in Commands,
           cmd.op = "LIST" => s.profiles # <<>>,
           cmd.op = "SEND_FILE" => \A c, d \in o.gone : c = d
    PROVE  HandleReceivedCommand(s, i, cmd, o).up
<1>1. DOMAIN s = Fields /\ s.up
  BY DEF Good, AtSender
<1>2. ASSUME NEW t, Spared(s, t), NEW f
      PROVE  SendResponse(t, i, f, o).up
  BY <1>2, AnswerKeepsUp
<1>3. CASE cmd.op = "REGISTER"
  <2>1. Spared(s, [s EXCEPT !.registrar = AfterRegister(s.registrar, cmd.name, cmd.pwd)])
    BY <1>1, CallsSpare
  <2> QED
    BY <1>2, <1>3, <2>1 DEF HandleReceivedCommand, HandleRegister
<1>4. CASE cmd.op = "LOGIN"
  <2> DEFINE fresh == [s EXCEPT !.profiles = AfterLogout(s.profiles, cmd.name)]
             r == HandleLogin(s, i, cmd, o)
             status == LoginStatus(s.registrar, s.profiles, cmd.name, cmd.pwd)
             taken == GetUiConn(s, cmd.name) # 0
  <2>1. /\ Spared(s, s) /\ Spared(s, fresh)
        /\ Spared(s, Start(s, cmd.name, cmd.pwd))
    BY <1>1, CallsSpare
  <2>2. Spared(s, Start(fresh, cmd.name, cmd.pwd))
    <3> HIDE DEF fresh
    <3>1. DOMAIN fresh = Fields
      BY <2>1 DEF Spared
    <3>2. Spared(fresh, Start(fresh, cmd.name, cmd.pwd))
      BY <3>1, CallsSpare
    <3> QED
      BY <2>1, <3>2 DEF Spared
  <2>3. \/ r = SendResponse(s, i, Response("OK", "already logged in", cmd), o)
        \/ r = SendResponse(Start(fresh, cmd.name, cmd.pwd), i,
                            Response("OK", "logged in", cmd), o)
        \/ r = SendResponse(Start(s, cmd.name, cmd.pwd), i, Response(status, "login", cmd), o)
    <3>1. CASE status = "OK" /\ taken
      BY <3>1 DEF HandleLogin
    <3>2. CASE status = "OK" /\ ~taken
      BY <3>2 DEF HandleLogin
    <3>3. CASE status # "OK"
      BY <3>3 DEF HandleLogin
    <3> QED
      BY <3>1, <3>2, <3>3
  <2>4. HandleReceivedCommand(s, i, cmd, o) = r
    BY <1>4 DEF HandleReceivedCommand
  <2> HIDE DEF r, fresh, status
  <2> QED
    BY <1>2, <2>1, <2>2, <2>3, <2>4
<1>5. CASE cmd.op = "LOGOUT"
  <2>1. Spared(s, [s EXCEPT !.profiles = AfterLogout(s.profiles, cmd.user)])
    BY <1>1, CallsSpare
  <2> QED
    BY <1>2, <1>5, <2>1 DEF HandleReceivedCommand, HandleLogout
<1>6. CASE cmd.op \in {"SEND", "SEND_ANON"}
  <2>1. /\ Spared(s, s)
        /\ \A m : Spared(s, PostAllExcept(s, cmd.user, m))
    BY <1>1, CallsSpare
  <2>2. HandleReceivedCommand(s, i, cmd, o) = HandleSend(s, i, cmd, o)
    BY <1>6 DEF HandleReceivedCommand
  <2> QED
    BY <1>2, <2>1, <2>2 DEF HandleSend
<1>7. CASE cmd.op \in {"SEND_TO", "SEND_TO_ANON"}
  <2>1. /\ Spared(s, s)
        /\ \A m : Spared(s, Post(s, cmd.name, m))
    BY <1>1, CallsSpare
  <2>2. HandleReceivedCommand(s, i, cmd, o) = HandleSendTo(s, i, cmd, o)
    BY <1>7 DEF HandleReceivedCommand
  <2> QED
    BY <1>2, <2>1, <2>2 DEF HandleSendTo
<1>8. CASE cmd.op = "SEND_FILE"
  BY <1>8, SendFileKeepsUp DEF HandleReceivedCommand
<1>9. CASE cmd.op = "SEND_FILE_TO"
  BY <1>9, SendFileToKeepsUp DEF HandleReceivedCommand
<1>10. CASE cmd.op = "LIST"
  <2>1. Spared(s, s)
    BY <1>1, CallsSpare
  <2>2. HandleReceivedCommand(s, i, cmd, o)
            = SendResponse(s, i, Response("LISTT", "list", cmd), o)
    BY <1>10 DEF HandleReceivedCommand, HandleList
  <2> QED
    BY <1>2, <2>1, <2>2
<1>11. CASE cmd.op \in {"UI_CONN", "FILE_CONN"}
  <2> DEFINE Marked(ty) == [s EXCEPT !.slots[i].user = cmd.user, !.slots[i].type = ty]
  <2>1. \A ty : DOMAIN Marked(ty) = Fields /\ Marked(ty).up = s.up
    BY <1>1 DEF Fields
  <2>2. /\ cmd.op = "UI_CONN" => HandleReceivedCommand(s, i, cmd, o)
                                    = Post(Marked("UI"), cmd.user, Onboarding(cmd.user))
        /\ cmd.op = "FILE_CONN" => HandleReceivedCommand(s, i, cmd, o) = Marked("FIL")
    BY DEF HandleReceivedCommand, SetUiConn, SetFileConn
  <2> HIDE DEF Marked
  <2>3. Spared(Marked("UI"), Post(Marked("UI"), cmd.user, Onboarding(cmd.user)))
    BY <2>1, CallsSpare
  <2> QED
    BY <1>1, <1>11, <2>1, <2>2, <2>3 DEF Spared
<1>12. CASE cmd.op = "DELAY"
  BY <1>1, <1>12 DEF HandleReceivedCommand
<1> QED
  BY <1>3, <1>4, <1>5, <1>6, <1>7, <1>8, <1>9, <1>10, <1>11, <1>12 DEF Commands, ScriptOps

\* So does the end of a stream
LEMMA ReadKeepsUp ==
    ASSUME NEW s, NEW b, NEW q, Good(s, b, q), s.up, NEW i \in 1..s.nConns, NEW o,
           HasCommand(s.net, s.slots[i].fd) =>
               LET cmd == s.net[s.slots[i].fd].cmd
               IN  /\ cmd.op \in Commands
                   /\ cmd.op = "LIST" => s.profiles # <<>>
                   /\ cmd.op = "SEND_FILE" => \A c, d \in o.gone : c = d
    PROVE  RecvMessage(s, i, o).up
<1> DEFINE c == s.slots[i].fd
           cmd == s.net[c].cmd
           m == [s.net EXCEPT ![c].up = "read"]
           r == [s EXCEPT !.net[c].up = "read"]
<1>1. /\ DOMAIN s = Fields /\ i \in Slots /\ i \in 1..b /\ Open(s.net, c) /\ Shaped(s)
  BY LiveEntry, GoodShaped DEF Good
<1>2. CASE ~HasCommand(s.net, c)
  <2>1. RecvMessage(s, i, o) = RemoveConnection(s, i)
    BY <1>2 DEF RecvMessage
  <2> QED
    BY <1>1, <2>1, RemoveGood
<1>3. CASE HasCommand(s.net, c)
  <2>1. /\ DOMAIN r = Fields
        /\ r.slots = s.slots /\ r.nConns = s.nConns /\ r.up = s.up
        /\ r.net = m /\ r.profiles = s.profiles
    BY <1>1 DEF Fields
  <2>2. Good(r, b, q)
    <3>1. NetShape(s.net) /\ NetOK(s.net)
      BY DEF Good
    <3>2. /\ DOMAIN m = Conns
          /\ \A d \in Conns : /\ DOMAIN m[d] = DOMAIN Closed
                              /\ m[d].srv = s.net[d].srv /\ m[d].cmd = s.net[d].cmd
                              /\ m[d].down = s.net[d].down
                              /\ m[d].up = IF d = c THEN "read" ELSE s.net[d].up
      <4>1. \A d \in Conns : DOMAIN s.net[d] = {"cli", "srv", "cmd", "up", "down"}
        BY <3>1, Shapes DEF NetShape
      <4>2. DOMAIN s.net = Conns
        BY <3>1 DEF NetShape
      <4> QED
        BY <4>1, <4>2, Shapes
    <3> HIDE DEF r, m
    <3>3. Alike(s.net, r.net) /\ MailOK(r.profiles)
      BY <2>1, <3>1, <3>2 DEF Good, Alike, NetShape, NetOK
    <3> QED
      BY <2>1, <3>3, NetGood
  <2>3. s.slots[i].type # "FIL"
    <3>1. DeclaredAs(s.slots[i], s.net[c]) /\ s.net[c].up = "sent"
      BY <1>1, <1>3 DEF Good, Declared, HasCommand
    <3> QED
      BY <3>1 DEF DeclaredAs
  <2> HIDE DEF r
  <2>4. AtSender(r, i)
    BY <2>1, <2>3 DEF AtSender
  <2>5. HandleReceivedCommand(r, i, cmd, o).up
    BY <1>3, <2>1, <2>2, <2>4, HandleKeepsUp
  <2> QED
    BY <1>3, <2>5 DEF RecvMessage, r
<1> QED
  BY <1>2, <1>3
\* The steps of the loops end the process in no other way
LEMMA KnownEndsOnly ==
    ASSUME ChatInv, CheckMessageDeques \/ Poll \/ ScanRead \/ ScanWrite, pc' = "down",
           \A c \in Conns : HasCommand(net, c) => net[c].cmd.op \in Commands
    PROVE  \/ pc = "resume" /\ scanned > nConns
           \/ /\ pc = "scan"
              /\ HasCommand(net, slots[scanned].fd)
              /\ LET cmd  == net[slots[scanned].fd].cmd
                     left == {c \in Conns : net[c].srv = "open" /\ ~net[c].cli}
                 IN  \/ cmd.op = "LIST" /\ profiles = <<>>
                     \/ cmd.op = "SEND_FILE" /\ \E c, d \in left : c # d
<1> DEFINE t == Srv
<1>1. /\ t.slots = slots /\ t.nConns = nConns /\ t.net = net /\ t.profiles = profiles
      /\ t.up = TRUE /\ DOMAIN t = Fields
  BY DEF Srv, Fields
<1>2. Good(t, LastUsed, backlog) /\ AtOK
  BY DEF ChatInv
<1> HIDE DEF t
<1>3. /\ nConns \in Nat
      /\ \A i \in 1..nConns : i \in Slots /\ Open(net, slots[i].fd)
  BY <1>1, <1>2, LiveEntry DEF Good
<1>4. ASSUME NEW s, NEW p, p # "down", NEW i, Goto(s, p, i)
      PROVE  ~s.up
  BY <1>4 DEF Goto
<1>5. ASSUME NEW s, NEW i, AfterDeque(s, i)
      PROVE  ~s.up
  BY <1>5 DEF AfterDeque, Goto
<1>6. ASSUME NEW s, DOMAIN s = Fields, NEW i, AfterSlot(s, i)
      PROVE  ~s.up
  <2>1. Settled(s).up = s.up
    BY <1>6 DEF Settled, Fields
  <2>2. CASE s.up /\ NextAfter(s, i) = 0
    <3>1. AfterDeque(Settled(s), 0)
      BY <1>6, <2>2 DEF AfterSlot
    <3> QED
      BY <1>5, <2>1, <3>1
  <2>3. CASE ~(s.up /\ NextAfter(s, i) = 0)
    <3>1. Goto(s, "scan", NextAfter(s, i))
      BY <1>6, <2>3 DEF AfterSlot
    <3> QED
      BY <1>4, <3>1
  <2> QED
    BY <2>2, <2>3
<1>7. ~CheckMessageDeques
  <2> SUFFICES ASSUME CheckMessageDeques
               PROVE  FALSE
    OBVIOUS
  <2>1. PICK o \in Outcomes : AfterDeque(DequeueFor(t, scanned, o), scanned)
    BY DEF CheckMessageDeques, t
  <2>2. scanned \in 1..t.nConns
    BY <1>1, <1>2 DEF AtOK, CheckMessageDeques
  <2>3. DequeueFor(t, scanned, o).up
    BY <1>1, <1>2, <2>2, DequeueKeepsUp
  <2> QED
    BY <1>5, <2>1, <2>3
<1>8. ~Poll
  <2> SUFFICES ASSUME Poll
               PROVE  FALSE
    OBVIOUS
  <2> DEFINE Marked(ready, drained) ==
               [t EXCEPT !.slots = [i \in Slots |->
                    [@[i] EXCEPT !.rd = i \in ready, !.wr = i \in drained]]]
  <2>1. PICK ready, drained :
            \/ AfterSlot(Marked(ready, drained), 0)
            \/ AfterSlot(SetConn(Marked(ready, drained), Head(backlog)), 0)
    BY DEF Poll, t
  <2>2. DOMAIN Marked(ready, drained) = Fields /\ Marked(ready, drained).up = t.up
    BY <1>1 DEF Fields
  <2> HIDE DEF Marked
  <2>3. \A c : /\ DOMAIN SetConn(Marked(ready, drained), c) = Fields
               /\ SetConn(Marked(ready, drained), c).up = Marked(ready, drained).up
    BY <2>2 DEF SetConn, Fields
  <2> QED
    BY <1>1, <1>6, <2>1, <2>2, <2>3
<1>9. ASSUME ScanRead
      PROVE  /\ pc = "scan" /\ HasCommand(net, slots[scanned].fd)
             /\ LET cmd  == net[slots[scanned].fd].cmd
                    left == {c \in Conns : net[c].srv = "open" /\ ~net[c].cli}
                IN  \/ cmd.op = "LIST" /\ profiles = <<>>
                    \/ cmd.op = "SEND_FILE" /\ \E c, d \in left : c # d
  <2> DEFINE d0 == slots[scanned].fd
             cmd == net[d0].cmd
             left == {c \in Conns : net[c].srv = "open" /\ ~net[c].cli}
  <2>1. PICK o \in Outcomes :
            LET s == RecvMessage(t, scanned, o)
            IN  IF s.up /\ s.slots[scanned].wr THEN Goto(s, "resume", scanned)
                                               ELSE AfterSlot(s, scanned)
    BY <1>9 DEF ScanRead, t
  <2>2. pc = "scan" /\ scanned \in 1..t.nConns
    BY <1>1, <1>2, <1>9 DEF AtOK, ScanRead
  <2> DEFINE s == RecvMessage(t, scanned, o)
  <2>3. DOMAIN s = Fields
    <3>1. Open(t.net, t.slots[scanned].fd) /\ scanned \in 1..LastUsed
      BY <1>1, <1>2, <2>2, LiveEntry
    <3>2. Good(s, LastUsed, backlog)
      BY <1>2, <3>1, ReadGood
    <3> QED
      BY <3>2 DEF Good
  <2>4. o.gone \subseteq left
    BY DEF Outcomes
  <2>5. ~s.up
    <3> HIDE DEF s
    <3>1. \/ Goto(s, "resume", scanned)
          \/ AfterSlot(s, scanned)
      BY <2>1 DEF s
    <3> QED
      BY <1>4, <1>6, <2>3, <3>1
  <2>6. ~(HasCommand(t.net, d0) =>
              /\ t.net[d0].cmd.op \in Commands
              /\ t.net[d0].cmd.op = "LIST" => t.profiles # <<>>
              /\ t.net[d0].cmd.op = "SEND_FILE" => \A c, d \in o.gone : c = d)
    BY <1>1, <1>2, <2>2, <2>5, ReadKeepsUp
  <2>7. HasCommand(net, d0) => cmd.op \in Commands
    BY DEF HasCommand, Open
  <2> HIDE DEF d0, left
  <2>8. \/ cmd.op = "LIST" /\ profiles = <<>>
        \/ cmd.op = "SEND_FILE" /\ \E c, d \in left : c # d
    BY <1>1, <2>4, <2>6, <2>7
  <2>9. HasCommand(net, d0)
    BY <1>1, <2>6
  <2> QED
    BY <2>2, <2>8, <2>9 DEF d0, left
<1>10. ASSUME ScanWrite
       PROVE  pc = "resume" /\ scanned > nConns
  <2>1. PICK o \in Outcomes : AfterSlot(SendMessage(t, scanned, o), scanned)
    BY <1>10 DEF ScanWrite, t
  <2>2. /\ pc = "scan" => scanned \in 1..nConns
        /\ pc = "resume" => scanned \in Slots
        /\ pc \in {"scan", "resume"}
    BY <1>2, <1>10 DEF AtOK, ScanWrite
  <2>3. ~(scanned \in 1..nConns)
    <3> SUFFICES ASSUME scanned \in 1..nConns
                 PROVE  FALSE
      OBVIOUS
    <3> DEFINE s == SendMessage(t, scanned, o)
    <3>1. Open(t.net, t.slots[scanned].fd) /\ scanned \in 1..LastUsed
      BY <1>1, <1>2, <1>3, LiveEntry
    <3>2. s.up = t.up
      BY <1>1, <3>1, SendKeepsUp
    <3>3. DOMAIN s = Fields
      <4>1. t.slots[scanned].wr
        BY <1>1, <1>2, <1>10 DEF AtOK, ScanWrite
      <4>2. IsUiConn(t, scanned) \/ IsFileConn(t, scanned)
        BY <1>2, <3>1, <4>1 DEF Good, Waiting, Waits, IsUiConn, IsFileConn
      <4>3. Good(s, LastUsed, backlog)
        BY <1>2, <3>1, <4>2, SendGood
      <4> QED
        BY <4>3 DEF Good
    <3> HIDE DEF s
    <3> QED
      BY <1>1, <1>6, <2>1, <3>2, <3>3 DEF s
  <2> QED
    BY <1>3, <2>2, <2>3, LimitAssumption DEF Slots
<1> QED
  BY <1>7, <1>8, <1>9, <1>10
=============================================================================
