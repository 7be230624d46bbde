---------------------------- MODULE SessionProofs ----------------------------
(***************************************************************************)
(* The whole system, for any clients, scripts, connections and faults: the *)
(* connections of a client are its own and what it takes them for, a       *)
(* client is signed in under a name its script has given, and so every     *)
(* field keeps its type, the accounts stay sound and a client prints only  *)
(* what is for one of its users.                                           *)
(***************************************************************************)
EXTENDS DeliveryProofs, AccountProofs

-----------------------------------------------------------------------------
(* The invariant *)

\* An entry of a client's table is of a connection that began with a command of
\* the entry's type, a login under one of the client's names N, a UI connection
\* for one of them
EntryOK(e, n, N) ==
    /\ e.id \in Conns /\ n[e.id].cli /\ n[e.id].up # "none"
    /\ e.type = "UI" <=> n[e.id].cmd.op = "UI_CONN"
    /\ e.type = "FIL" <=> n[e.id].cmd.op = "FILE_CONN"
    /\ n[e.id].cmd.op = "LOGIN" => n[e.id].cmd.name \in N
    /\ n[e.id].cmd.op = "UI_CONN" => n[e.id].cmd.user \in N

\* A client with names N
MineOK(me, n, N) ==
    /\ ClientOK(me)
    /\ \A i \in DOMAIN me.conns : EntryOK(me.conns[i], n, N)
    /\ \A i, j \in DOMAIN me.conns : me.conns[i].id = me.conns[j].id => i = j
    /\ me.status \in {"running", "exited"}
    /\ me.loggedInUser \in N \cup {None}
    /\ IsSeq(me.printed)
    /\ \A f \in Range(me.printed) : \E u \in N : MeantFor(f, u)

\* The connections of a client
Ours(me) == {me.conns[i].id : i \in DOMAIN me.conns}

\* No connection is in two clients' tables
ClientsOwn ==
    /\ script \in Scripts
    /\ \A k \in Clients :
          /\ MineOK(client[k], net, Names(k))
          /\ client[k].next \in 1..(Len(script[k]) + 1)
    /\ \A k, l \in Clients : Ours(client[k]) \cap Ours(client[l]) # {} => k = l

SessionInv == DeliveryInv /\ AccountInv /\ ClientsOwn

\* On the way of a handler of a client with names b.names, which began with
\* network b.net and connections b.ours: the other clients have theirs as they
\* were
Own(x, b) ==
    /\ ClientGood(x, b.net)
    /\ b.names \subseteq Users
    /\ NetTyped(x.net)
    /\ MineOK(x.me, x.net, b.names)
    /\ x.me.next = b.next
    /\ \A c \in Conns : b.net[c].cli /\ c \notin b.ours => x.net[c] = b.net[c]
    /\ \A c \in Ours(x.me) : c \in b.ours \/ ~b.net[c].cli

-----------------------------------------------------------------------------
(* Connections *)

\* The client closes its end
LEMMA CliCloses ==
    ASSUME NEW n, NetTyped(n), NEW c \in Conns
    PROVE  /\ NetTyped(CloseClient(n, c))
           /\ \A d \in Conns : d # c => CloseClient(n, c)[d] = n[d]
<1> DEFINE q == <<>>
           x == [n[c] EXCEPT !.cli = FALSE, !.down = q]
<1>1. DOMAIN n[c] = {"cli", "srv", "cmd", "up", "down"} /\ ConnOK(n[c])
  BY ConnIs, ClosedOK
<1>2. IsSeq(q) /\ DOMAIN q = {} /\ IsSeq(Closed.down)
  BY EmptyIsSeq DEF Closed
<1> HIDE DEF q
<1>3. /\ DOMAIN x = {"cli", "srv", "cmd", "up", "down"}
      /\ x.srv = n[c].srv /\ x.cmd = n[c].cmd /\ x.up = n[c].up /\ x.down = q
  BY <1>1
<1>4. CloseClient(n, c) = [n EXCEPT ![c] = Closed] \/ CloseClient(n, c) = [n EXCEPT ![c] = x]
  BY DEF CloseClient, q
<1> HIDE DEF x
<1>5. ConnOK(x)
  BY <1>1, <1>2, <1>3 DEF ConnOK
<1>6. /\ NetTyped([n EXCEPT ![c] = x])
      /\ \A d \in Conns : d # c => [n EXCEPT ![c] = x][d] = n[d]
  BY <1>2, <1>3, <1>5, NetSet, ClosedOK
<1>7. /\ NetTyped([n EXCEPT ![c] = Closed])
      /\ \A d \in Conns : d # c => [n EXCEPT ![c] = Closed][d] = n[d]
  BY <1>2, NetSet, ClosedOK
<1> QED
  BY <1>4, <1>6, <1>7

\* A client is the same with a network in which its connections are alike
LEMMA MineSame ==
    ASSUME NEW me, NEW n, NEW m, NEW N, MineOK(me, n, N),
           \A c \in Ours(me) \cap Conns : n[c].cli =>
               /\ m[c].cli /\ m[c].cmd = n[c].cmd
               /\ n[c].up # "none" => m[c].up # "none"
    PROVE  MineOK(me, m, N)
<1>1. \A i \in DOMAIN me.conns : me.conns[i].id \in Ours(me)
  BY DEF Ours
<1>2. \A i \in DOMAIN me.conns : EntryOK(me.conns[i], m, N)
  BY <1>1 DEF MineOK, EntryOK
<1> QED
  BY <1>2 DEF MineOK

\* Other variables of a client
LEMMA OwnChange ==
    ASSUME NEW x, NEW b, Own(x, b), NEW me, DOMAIN me = DOMAIN StartState,
           me.conns = x.me.conns, me.status = x.me.status, me.next = x.me.next,
           me.loggedInUser \in b.names \cup {None},
           IsSeq(me.printed), \A f \in Range(me.printed) : \E u \in b.names : MeantFor(f, u)
    PROVE  Own([x EXCEPT !.me = me], b)
<1> DEFINE y == [x EXCEPT !.me = me]
<1>1. ClientGood(x, b.net) /\ MineOK(x.me, x.net, b.names) /\ x.me.next = b.next
  BY DEF Own
<1>2. ClientOK(me)
  BY <1>1 DEF MineOK, ClientOK
<1>3. ClientGood(y, b.net) /\ y.me = me /\ y.net = x.net
  BY <1>1, <1>2, OwnStep DEF ClientGood
<1> HIDE DEF y
<1>4. MineOK(me, x.net, b.names)
  BY <1>1, <1>2 DEF MineOK
<1>5. Ours(me) = Ours(x.me)
  BY DEF Ours
<1>6. Own(y, b)
  BY <1>1, <1>3, <1>4, <1>5 DEF Own
<1> QED
  BY <1>6 DEF y

-----------------------------------------------------------------------------
(* The client's operations *)

\* The end of the program
LEMMA OwnExit ==
    ASSUME NEW x, NEW b, Own(x, b)
    PROVE  Own(ExitGracefully(x), b)
<1> DEFINE y == ExitGracefully(x)
           n == x.net
           q == <<>>
<1>1. /\ ClientGood(x, b.net) /\ DOMAIN x = {"me", "net", "backlog"}
      /\ NetTyped(n) /\ x.me.next = b.next
      /\ \A c \in Ours(x.me) : c \in Conns
  BY DEF Own, MineOK, EntryOK, Ours, ClientGood
<1>2. /\ y.me = [StartState EXCEPT !.status = "exited", !.next = x.me.next]
      /\ y.net = [c \in Conns |-> IF c \in Ours(x.me) THEN CloseClient(n, c)[c] ELSE n[c]]
  BY <1>1 DEF ExitGracefully, Ours
<1>3. ClientGood(y, b.net)
  BY <1>1, ExitLeaves
<1> HIDE DEF y
<1>4. /\ y.me.conns = q /\ y.me.printed = q /\ y.me.loggedInUser = None
      /\ y.me.status = "exited" /\ y.me.next = x.me.next
  BY <1>2, ClientShapes DEF StartState
<1>5. IsSeq(q) /\ DOMAIN q = {} /\ Range(q) = {}
  BY EmptyIsSeq
<1> HIDE DEF n, q
<1>6. MineOK(y.me, y.net, b.names) /\ Ours(y.me) = {}
  BY <1>3, <1>4, <1>5 DEF MineOK, ClientGood, Ours
<1>7. NetTyped(y.net)
  <2>1. ASSUME NEW c \in Conns
        PROVE  DOMAIN y.net[c] = DOMAIN Closed /\ IsSeq(y.net[c].down) /\ ConnOK(y.net[c])
    <3>1. CASE c \in Ours(x.me)
      <4>1. NetTyped(CloseClient(n, c))
        BY <1>1, CliCloses
      <4> QED
        BY <1>2, <3>1, <4>1, ConnIs
    <3>2. CASE c \notin Ours(x.me)
      BY <1>1, <1>2, <3>2, ConnIs
    <3> QED
      BY <3>1, <3>2
  <2> QED
    BY <1>2, <2>1 DEF NetTyped, NetShape
<1>8. \A c \in Conns : b.net[c].cli /\ c \notin b.ours => y.net[c] = b.net[c]
  <2> SUFFICES ASSUME NEW c \in Conns, b.net[c].cli, c \notin b.ours
               PROVE  y.net[c] = b.net[c]
    OBVIOUS
  <2>1. n[c] = b.net[c] /\ c \notin Ours(x.me)
    BY DEF Own, n
  <2> QED
    BY <1>2, <2>1
<1>9. Own(y, b)
  BY <1>1, <1>3, <1>4, <1>6, <1>7, <1>8 DEF Own
<1> QED
  BY <1>9 DEF y

\* The end of a connection
LEMMA OwnRemove ==
    ASSUME NEW x, NEW b, Own(x, b), NEW i \in DOMAIN x.me.conns
    PROVE  Own(RemoveConn(x, i), b)
<1> DEFINE y == RemoveConn(x, i)
           n == x.net
           cs == x.me.conns
           q == RemoveAt(cs, i)
           c == cs[i].id
           len == Len(cs)
<1>1. /\ ClientGood(x, b.net) /\ DOMAIN x = {"me", "net", "backlog"}
      /\ NetTyped(n) /\ MineOK(x.me, n, b.names) /\ x.me.next = b.next
      /\ DOMAIN x.me = DOMAIN StartState /\ IsSeq(cs)
      /\ \A j \in DOMAIN cs : EntryOK(cs[j], n, b.names)
  BY DEF Own, MineOK, ClientGood, ClientOK
<1>2. len \in Nat /\ DOMAIN cs = 1..len /\ cs \in Seq(Range(cs)) /\ i \in 1..len
  BY <1>1, SeqElements DEF IsSeq
<1>3. /\ q \in Seq(Range(cs)) /\ Len(q) = len - 1
      /\ \A j \in 1..(len - 1) : q[j] = IF j < i THEN cs[j] ELSE cs[j + 1]
  BY <1>2, RemoveAtElements
<1>4. y.me = [x.me EXCEPT !.conns = q] /\ y.net = CloseClient(n, c)
  BY <1>1, ClientShapes DEF RemoveConn
<1>5. ClientGood(y, b.net)
  BY <1>1, RemoveLeaves
<1> HIDE DEF q, y
<1>6. /\ y.me.conns = q /\ y.me.printed = x.me.printed
      /\ y.me.loggedInUser = x.me.loggedInUser
      /\ y.me.status = x.me.status /\ y.me.next = x.me.next
  BY <1>1, <1>4, ClientShapes
<1>7. DOMAIN q = 1..(len - 1)
  BY <1>3, LenProperties
<1>8. c \in Conns
  BY <1>1 DEF EntryOK
<1> HIDE DEF cs, n, c, len
<1>9. NetTyped(y.net) /\ \A d \in Conns : d # c => y.net[d] = n[d]
  BY <1>1, <1>4, <1>8, CliCloses
<1> DEFINE From(j) == IF j < i THEN j ELSE j + 1
<1>10. \A j \in DOMAIN q : /\ From(j) \in DOMAIN cs /\ From(j) # i
                           /\ q[j] = cs[From(j)]
  BY <1>2, <1>3, <1>7
<1>11. \A j, l \in DOMAIN q : From(j) = From(l) => j = l
  BY <1>2, <1>7
<1> HIDE DEF From
<1>12. \A j, l \in DOMAIN cs : cs[j].id = cs[l].id => j = l
  BY <1>1 DEF MineOK, cs
<1>13. \A j \in DOMAIN q : q[j].id # c /\ q[j].id \in Conns
  BY <1>1, <1>2, <1>10, <1>12 DEF c, EntryOK
<1>14. \A j \in DOMAIN q : EntryOK(q[j], y.net, b.names)
  BY <1>1, <1>9, <1>10, <1>13 DEF EntryOK
<1>15. \A j, l \in DOMAIN q : q[j].id = q[l].id => j = l
  BY <1>10, <1>11, <1>12
<1>16. MineOK(y.me, y.net, b.names)
  BY <1>1, <1>5, <1>6, <1>14, <1>15 DEF MineOK, ClientGood
<1>17. Ours(y.me) \subseteq Ours(x.me) /\ c \in Ours(x.me)
  BY <1>6, <1>10 DEF Ours, cs, c
<1>18. \A d \in Conns : b.net[d].cli /\ d \notin b.ours => y.net[d] = b.net[d]
  BY <1>9, <1>17 DEF Own, n
<1>19. Own(y, b)
  BY <1>1, <1>5, <1>6, <1>9, <1>16, <1>17, <1>18 DEF Own
<1> QED
  BY <1>19 DEF y

\* A command fits the entry it is sent for
CmdFits(type, cmd, N) ==
    /\ CmdOK(cmd)
    /\ type = "UI" <=> cmd.op = "UI_CONN"
    /\ type = "FIL" <=> cmd.op = "FILE_CONN"
    /\ cmd.op = "LOGIN" => cmd.name \in N
    /\ cmd.op = "UI_CONN" => cmd.user \in N

\* A new connection with a command: it was nobody's
LEMMA OwnIssue ==
    ASSUME NEW x, NEW b, Own(x, b), NEW type \in {"REG", "UI", "FIL"}, NEW cmd,
           CmdFits(type, cmd, b.names),
           NEW l \in Nat, NEW d \in Nat, Room(x, l, d + 1)
    PROVE  Own(Issue(x, type, cmd), b)
<1> DEFINE free == FreeConns(x.net)
           c == Min(free)
           how == IF cmd.op \in SlowUp THEN "part" ELSE "sent"
           e == [id |-> c, type |-> type]
           cs == x.me.conns
           q == Append(cs, e)
           me == [x.me EXCEPT !.conns = q]
           m == WriteUp(Connect(x.net, c), c, cmd, how)
           y == Issue(x, type, cmd)
           n == x.net
           len == Len(cs)
<1>1. CASE x.me.status = "exited"
  BY <1>1 DEF Issue
<1>2. CASE x.me.status = "running" /\ len > MAX_CONNS
  BY <1>2, OwnExit DEF Issue
<1>3. CASE x.me.status # "exited" /\ ~(x.me.status = "running" /\ len > MAX_CONNS)
  <2>1. /\ DOMAIN x = {"me", "net", "backlog"} /\ ClientGood(x, b.net)
        /\ DOMAIN x.me = DOMAIN StartState /\ IsSeq(cs)
        /\ NetTyped(n) /\ DOMAIN n = Conns /\ x.me.next = b.next
        /\ MineOK(x.me, n, b.names)
        /\ \A i \in DOMAIN cs : EntryOK(cs[i], n, b.names)
    BY DEF Own, MineOK, ClientGood, ClientOK, NetTyped, NetShape
  <2>2. y.me = me /\ y.net = m
    BY <1>3, <2>1, ClientShapes DEF Issue
  <2>3. ClientGood(y, b.net)
    BY <2>1, IssueLeaves
  <2> HIDE DEF y
  <2>4. /\ free \subseteq Conns /\ Conns \subseteq Nat /\ IsFiniteSet(free)
        /\ \A f \in free : n[f] = Closed
    BY ConnsAssumption, FS_Subset DEF FreeConns
  <2>5. Cardinality(free) \in Nat /\ Cardinality(free) >= d + 1
    BY <1>3, <2>4, FS_CardinalityType DEF Room
  <2>6. c \in free
    <3>1. free # {}
      <4> HIDE DEF free
      <4> QED
        BY <2>4, <2>5, FS_EmptySet
    <3>2. free \subseteq Nat
      BY <2>4
    <3> HIDE DEF free
    <3> QED
      BY <3>1, <3>2, MinIsIn
  <2>7. c \in Conns /\ n[c] = Closed /\ ~n[c].cli
    <3> HIDE DEF c, free
    <3>1. c \in Conns /\ n[c] = Closed
      BY <2>4, <2>6
    <3> QED
      BY <3>1 DEF Closed
  <2>8. c \notin Ours(x.me)
    BY <2>1, <2>7 DEF Ours, EntryOK
  <2>9. c \in b.ours \/ ~b.net[c].cli
    BY <2>7 DEF Own
  <2>10. how \in {"part", "sent"}
    OBVIOUS
  <2>11. /\ q[len + 1] = e /\ \A i \in 1..len : q[i] = cs[i]
         /\ Len(q) = len + 1 /\ IsSeq(q)
    BY <2>1, SeqAppend
  <2>12. len \in Nat /\ DOMAIN q = 1..(len + 1) /\ DOMAIN cs = 1..len
    BY <2>1, <2>11, SeqElements
  <2>13. e.id = c /\ e.type = type
    OBVIOUS
  <2> HIDE DEF c, how, q, e
  <2>14. /\ y.me.conns = q /\ y.me.printed = x.me.printed
         /\ y.me.loggedInUser = x.me.loggedInUser
         /\ y.me.status = x.me.status /\ y.me.next = x.me.next
    BY <2>1, <2>2, ClientShapes
  <2>15. NetTyped(m) /\ m[c].cmd = cmd /\ m[c].up # "none" /\ m[c].cli
         /\ \A f \in Conns : f # c => m[f] = n[f]
    <3> DEFINE s == <<>>
               w == [cli |-> TRUE, srv |-> "backlog", cmd |-> None, up |-> "none",
                     down |-> s]
               r == Connect(n, c)
               z == [w EXCEPT !.cmd = cmd, !.up = how]
    <3>1. m = [n EXCEPT ![c] = z]
      <4>1. r = [n EXCEPT ![c] = w] /\ m = [r EXCEPT ![c].cmd = cmd, ![c].up = how]
        BY DEF Connect, WriteUp
      <4> HIDE DEF r, w, s, m
      <4>2. r[c] = w
        BY <2>1, <2>7, <4>1
      <4> QED
        BY <2>1, <2>7, <4>1, <4>2
    <3>2. IsSeq(s) /\ DOMAIN s = {}
      BY EmptyIsSeq
    <3> HIDE DEF s, m
    <3>3. /\ DOMAIN z = {"cli", "srv", "cmd", "up", "down"}
          /\ z.cli /\ z.srv = "backlog" /\ z.cmd = cmd /\ z.up = how /\ z.down = s
      OBVIOUS
    <3> HIDE DEF z
    <3>4. ConnOK(z) /\ DOMAIN z = DOMAIN Closed /\ IsSeq(z.down) /\ z.up # "none"
      BY <2>10, <3>2, <3>3, ClosedOK DEF ConnOK, CmdFits
    <3> QED
      BY <2>1, <2>7, <3>1, <3>3, <3>4, NetSet
  <2> HIDE DEF m, n, cs, len
  <2>16. \A i \in DOMAIN q : i \in DOMAIN cs \/ i = len + 1
    BY <2>12
  <2>17. /\ \A i \in DOMAIN cs : i \in 1..len /\ cs[i].id # c
         /\ \A i, j \in DOMAIN cs : cs[i].id = cs[j].id => i = j
    BY <2>1, <2>8, <2>12 DEF Ours, MineOK, cs
  <2>18. \A i \in DOMAIN q : EntryOK(q[i], y.net, b.names)
    <3>1. EntryOK(e, m, b.names)
      BY <2>7, <2>13, <2>15 DEF EntryOK, CmdFits
    <3>2. \A i \in DOMAIN cs : EntryOK(cs[i], m, b.names)
      BY <2>1, <2>15, <2>17 DEF EntryOK
    <3> QED
      BY <2>2, <2>11, <2>16, <2>17, <3>1, <3>2
  <2>19. \A i, j \in DOMAIN q : q[i].id = q[j].id => i = j
    <3> SUFFICES ASSUME NEW i \in DOMAIN q, NEW j \in DOMAIN q, q[i].id = q[j].id
                 PROVE  i = j
      OBVIOUS
    <3>1. i \in DOMAIN cs => q[i] = cs[i] /\ q[i].id # c
      BY <2>11, <2>17
    <3>2. j \in DOMAIN cs => q[j] = cs[j] /\ q[j].id # c
      BY <2>11, <2>17
    <3>3. i \notin DOMAIN cs => i = len + 1 /\ q[i].id = c
      BY <2>11, <2>13, <2>16
    <3>4. j \notin DOMAIN cs => j = len + 1 /\ q[j].id = c
      BY <2>11, <2>13, <2>16
    <3> QED
      BY <2>17, <3>1, <3>2, <3>3, <3>4
  <2>20. MineOK(y.me, y.net, b.names)
    BY <2>1, <2>3, <2>14, <2>18, <2>19 DEF MineOK, ClientGood
  <2>21. \A f \in Ours(y.me) : f = c \/ f \in Ours(x.me)
    <3>1. \A i \in DOMAIN q : q[i].id = c \/ \E j \in DOMAIN cs : q[i].id = cs[j].id
      BY <2>11, <2>13, <2>16, <2>17
    <3> QED
      BY <2>14, <3>1 DEF Ours, cs
  <2>22. \A f \in Conns : b.net[f].cli /\ f \notin b.ours => y.net[f] = b.net[f]
    BY <2>2, <2>9, <2>15 DEF Own, n
  <2>23. \A f \in Ours(y.me) : f \in b.ours \/ ~b.net[f].cli
    BY <2>9, <2>21 DEF Own
  <2>24. NetTyped(y.net) /\ y.me.next = b.next /\ b.names \subseteq Users
    BY <2>1, <2>2, <2>14, <2>15 DEF Own
  <2>25. Own(y, b)
    BY <2>3, <2>20, <2>22, <2>23, <2>24 DEF Own
  <2> QED
    BY <2>25 DEF y
<1> QED
  BY <1>1, <1>2, <1>3

\* The connections of a session
LEMMA OwnSetup ==
    ASSUME NEW x, NEW b, Own(x, b), NEW l \in Nat, Room(x, l, FILE_CONNS + 1),
           x.me.loggedInUser \in b.names
    PROVE  Own(SetupSession(x), b)
<1> DEFINE u == x.me.loggedInUser
           first == Issue(x, "UI", Setup("UI_CONN", u))
           js == [j \in 1..FILE_CONNS |-> j]
           f == CHOOSE g : IsLoop(g, FILE_CONNS, "setup", first, js, u)
           T == {k \in Nat : k <= FILE_CONNS => /\ Own(f[1..k], b)
                                                /\ Room(f[1..k], l, FILE_CONNS - k)}
<1>1. FILE_CONNS \in Nat /\ DOMAIN js = 1..FILE_CONNS
  BY FileConnsAssumption
<1>2. SetupSession(x) = f[1..FILE_CONNS]
  BY <1>1 DEF SetupSession, FoldLeft, MapThenFoldSet, IsLoop, LoopStep
<1>3. /\ CmdFits("UI", Setup("UI_CONN", u), b.names)
      /\ CmdFits("FIL", Setup("FILE_CONN", u), b.names)
  <2>1. u \in Users /\ u \in b.names /\ <<>> \in Ids
    BY DEF Own, Ids
  <2> HIDE DEF u
  <2> QED
    BY <2>1 DEF CmdFits, CmdOK, Setup
<1>4. ClientGood(x, b.net)
  BY DEF Own
<1>5. Own(first, b) /\ Room(first, l, FILE_CONNS)
  <2>1. "UI" \in {"REG", "UI", "FIL"}
    OBVIOUS
  <2>2. Own(first, b)
    BY <1>1, <1>3, <2>1, OwnIssue
  <2> QED
    BY <1>1, <1>4, <2>1, <2>2, IssueLeaves
<1> HIDE DEF first, js, u
<1>6. IsLoop(f, FILE_CONNS, "setup", first, js, u)
  BY <1>1, LoopExists
<1> HIDE DEF f
<1>7. /\ f[1..0] = first
      /\ \A k \in Nat : k + 1 <= FILE_CONNS =>
             f[1..(k + 1)] = LoopStep("setup", f[1..k], js[k + 1], u)
  <2>1. FILE_CONNS \in Nat
    BY <1>1
  <2> HIDE DEF T
  <2> QED
    BY <1>6, <2>1, LoopNext
<1>8. 0 \in T
  BY <1>1, <1>5, <1>7
<1>9. ASSUME NEW k \in Nat, k \in T
      PROVE  k + 1 \in T
  <2> SUFFICES ASSUME k + 1 <= FILE_CONNS
               PROVE  /\ Own(f[1..(k + 1)], b)
                      /\ Room(f[1..(k + 1)], l, FILE_CONNS - (k + 1))
    OBVIOUS
  <2> DEFINE y == f[1..k]
             d == FILE_CONNS - (k + 1)
             z == Issue(y, "FIL", Setup("FILE_CONN", u))
  <2>1. d \in Nat /\ d + 1 = FILE_CONNS - k /\ k <= FILE_CONNS
    BY <1>1
  <2>2. Own(y, b) /\ ClientGood(y, b.net) /\ Room(y, l, d + 1)
    BY <1>9, <2>1 DEF Own
  <2>3. f[1..(k + 1)] = z
    BY <1>7 DEF LoopStep
  <2>4. "FIL" \in {"REG", "UI", "FIL"}
    OBVIOUS
  <2> HIDE DEF y, d
  <2>5. Own(z, b)
    BY <1>3, <2>1, <2>2, <2>4, OwnIssue
  <2>6. Room(z, l, d)
    BY <2>1, <2>2, <2>4, IssueLeaves
  <2> QED
    BY <2>3, <2>5, <2>6 DEF d
<1> HIDE DEF T
<1>10. Nat \subseteq T
  BY <1>8, <1>9, SetInduction
<1>11. FILE_CONNS \in T /\ FILE_CONNS <= FILE_CONNS
  BY <1>1, <1>10
<1> QED
  BY <1>2, <1>11 DEF T

\* The end of a session
LEMMA OwnDisconnect ==
    ASSUME NEW x, NEW b, Own(x, b)
    PROVE  Own(DisconnectFromServer(x), b)
<1> DEFINE len == Len(x.me.conns)
           js == [i \in DOMAIN x.me.conns |-> i]
           u == x.me.loggedInUser
           f == CHOOSE g : IsLoop(g, len, "close", x, js, u)
           T == {k \in Nat : k <= len => Own(f[1..k], b)}
<1>1. len \in Nat /\ DOMAIN x.me.conns = 1..len
  BY SeqElements DEF Own, ClientGood, ClientOK
<1>2. DOMAIN js = 1..len /\ \A k \in 1..len : js[k] = k
  BY <1>1
<1>3. DisconnectFromServer(x) = f[1..len]
  <2>1. DisconnectFromServer(x)
            = FoldLeft(LAMBDA y, i : IF i <= Len(y.me.conns) /\ y.me.conns[i].type # "REG"
                                     THEN RemoveConn(y, i) ELSE y, x, js)
    BY DEF DisconnectFromServer
  <2> HIDE DEF js
  <2> QED
    BY <1>2, <2>1 DEF FoldLeft, MapThenFoldSet, IsLoop, LoopStep
<1> HIDE DEF js, len, u
<1>4. IsLoop(f, len, "close", x, js, u)
  BY <1>1, LoopExists
<1> HIDE DEF f
<1>5. /\ f[1..0] = x
      /\ \A k \in Nat : k + 1 <= len =>
             f[1..(k + 1)] = LoopStep("close", f[1..k], js[k + 1], u)
  <2>1. len \in Nat
    BY <1>1
  <2> QED
    BY <1>4, <2>1, LoopNext
<1>6. 0 \in T
  BY <1>1, <1>5
<1>7. ASSUME NEW k \in Nat, k \in T
      PROVE  k + 1 \in T
  <2> SUFFICES ASSUME k + 1 <= len
               PROVE  Own(f[1..(k + 1)], b)
    OBVIOUS
  <2> DEFINE y == f[1..k]
             j == k + 1
  <2>1. Own(y, b) /\ js[j] = j
    BY <1>1, <1>2, <1>7
  <2>2. f[1..(k + 1)] = LoopStep("close", y, j, u)
    BY <1>5, <2>1
  <2> HIDE DEF y
  <2>3. CASE ~(j <= Len(y.me.conns) /\ y.me.conns[j].type # "REG")
    BY <2>1, <2>2, <2>3 DEF LoopStep
  <2>4. CASE j <= Len(y.me.conns) /\ y.me.conns[j].type # "REG"
    <3>1. j \in DOMAIN y.me.conns
      BY <2>1, <2>4, SeqElements DEF Own, ClientGood, ClientOK
    <3>2. Own(RemoveConn(y, j), b)
      BY <2>1, <3>1, OwnRemove
    <3> QED
      BY <2>2, <2>4, <3>2 DEF LoopStep
  <2> QED
    BY <2>3, <2>4
<1> HIDE DEF T
<1>8. Nat \subseteq T
  BY <1>6, <1>7, SetInduction
<1>9. len \in T /\ len <= len
  BY <1>1, <1>8
<1> QED
  BY <1>3, <1>9 DEF T

-----------------------------------------------------------------------------
(* What arrives at a client *)

\* A response on entry i
LEMMA OwnResponse ==
    ASSUME NEW x, NEW b, Own(x, b), NEW i \in DOMAIN x.me.conns, NEW frame,
           frame.status = "LOGGED_IN" => /\ Room(x, Len(x.me.conns), FILE_CONNS + 1)
                                         /\ frame.user \in b.names
    PROVE  Own(HandleResponse(x, i, frame), b)
<1> DEFINE q == <<>>
           in == [x.me EXCEPT !.unconfirmedLogin = FALSE,
                              !.loggedInUser = frame.user,
                              !.printed = q]
           out == [x.me EXCEPT !.unconfirmedLogout = FALSE,
                               !.loggedInUser = None,
                               !.printed = q]
           xin == [x EXCEPT !.me = in]
           xout == [x EXCEPT !.me = out]
           y == SetupSession(xin)
           l == Len(x.me.conns)
<1>1. /\ DOMAIN x = {"me", "net", "backlog"} /\ ClientGood(x, b.net)
      /\ DOMAIN x.me = DOMAIN StartState
      /\ l \in Nat /\ DOMAIN x.me.conns = 1..l
  BY SeqElements DEF Own, ClientGood, ClientOK
<1>2. IsSeq(q) /\ Range(q) = {}
  BY EmptyIsSeq
<1>3. /\ [x EXCEPT !.me.unconfirmedLogin = FALSE, !.me.loggedInUser = frame.user,
                   !.me.printed = <<>>] = xin
      /\ [x EXCEPT !.me.unconfirmedLogout = FALSE, !.me.loggedInUser = None,
                   !.me.printed = <<>>] = xout
  BY <1>1, ClientShapes
<1> HIDE DEF q
<1>4. /\ DOMAIN in = DOMAIN StartState /\ in.conns = x.me.conns /\ in.status = x.me.status
      /\ in.next = x.me.next /\ in.loggedInUser = frame.user /\ in.printed = q
      /\ DOMAIN out = DOMAIN StartState /\ out.conns = x.me.conns
      /\ out.status = x.me.status /\ out.next = x.me.next /\ out.loggedInUser = None
      /\ out.printed = q
  BY <1>1, ClientShapes
<1>5. xin.me = in /\ xin.net = x.net
  BY <1>1
<1> HIDE DEF in, out
<1>6. Own(xout, b)
  BY <1>2, <1>4, OwnChange
<1> HIDE DEF xout
<1>7. Own(DisconnectFromServer(xout), b) /\ Own(RemoveConn(x, i), b)
  BY <1>6, OwnDisconnect, OwnRemove
<1>8. ASSUME frame.status = "LOGGED_IN"
      PROVE  Own(IF y.me.status = "running" THEN RemoveConn(y, i) ELSE y, b)
  <2>1. Own(xin, b)
    BY <1>2, <1>4, <1>8, OwnChange
  <2>2. Room(xin, l, FILE_CONNS + 1)
    BY <1>4, <1>5, <1>8 DEF Room
  <2> HIDE DEF xin, l
  <2>3. Own(y, b) /\ Room(y, l, 0)
    <3>1. xin.me.loggedInUser \in b.names /\ ClientGood(xin, b.net)
      BY <1>4, <1>5, <1>8, <2>1 DEF Own
    <3> QED
      BY <1>1, <2>1, <2>2, <3>1, OwnSetup, SetupLeaves
  <2> HIDE DEF y
  <2>4. CASE y.me.status = "running"
    <3>1. Len(y.me.conns) \in Nat /\ DOMAIN y.me.conns = 1..Len(y.me.conns)
      BY <2>3, SeqElements DEF Own, ClientGood, ClientOK
    <3>2. Len(y.me.conns) >= l
      BY <2>3, <2>4 DEF Room
    <3>3. i \in DOMAIN y.me.conns
      BY <1>1, <3>1, <3>2
    <3> QED
      BY <2>3, <2>4, <3>3, OwnRemove
  <2> QED
    BY <2>3, <2>4
<1> HIDE DEF y
<1> QED
  BY <1>3, <1>7, <1>8 DEF HandleResponse, y

\* What is for the one of the client's names that the connection was declared for
\* comes on a UI connection, and only answers to its command on any other
LEMMA FrameOnEntry ==
    ASSUME NEW e, NEW n, NEW N, EntryOK(e, n, N), e.type \in {"REG", "UI", "FIL"},
           NEW f, FrameOK(f), Fits(f, n[e.id].cmd)
    PROVE  /\ e.type = "REG" /\ f.status = "LOGGED_IN" => f.user \in N
           /\ e.type = "UI" /\ f.kind = "UI_MSG" => \E u \in N : MeantFor(f, u)
<1> DEFINE cmd == n[e.id].cmd
<1>1. ASSUME e.type = "REG", f.status = "LOGGED_IN"
      PROVE  f.user \in N
  <2>1. cmd.op # "UI_CONN" /\ cmd.op # "FILE_CONN"
    BY <1>1 DEF EntryOK
  <2>2. f.kind = "RESP"
    BY <2>1 DEF Fits, FrameOK, Torn, UiMessages, FileMessages
  <2>3. cmd.op = "LOGIN" /\ f.user = cmd.name
    BY <1>1, <2>2 DEF Fits, Answers, AboutFile
  <2> QED
    BY <2>3 DEF EntryOK
<1>2. ASSUME e.type = "UI", f.kind = "UI_MSG"
      PROVE  \E u \in N : MeantFor(f, u)
  BY <1>2 DEF EntryOK, Fits
<1> QED
  BY <1>1, <1>2

\* A frame on entry i
LEMMA OwnFrame ==
    ASSUME NEW x, NEW b, Own(x, b), NetOK(x.net), NEW i \in DOMAIN x.me.conns,
           x.me.conns[i].id \in b.ours,
           x.net[x.me.conns[i].id].down # <<>>,
           (/\ x.me.conns[i].type = "REG"
            /\ Head(x.net[x.me.conns[i].id].down).status = "LOGGED_IN")
                => Cardinality(FreeConns(x.net)) > FILE_CONNS
    PROVE  Own(RecvFrame(x, i), b)
<1> DEFINE conn == x.me.conns[i]
           c == conn.id
           n == x.net
           frame == Head(n[c].down)
           z == [n[c] EXCEPT !.down = Tail(@)]
           m == [n EXCEPT ![c] = z]
           r == [x EXCEPT !.net = m]
<1>1. /\ DOMAIN x = {"me", "net", "backlog"} /\ ClientGood(x, b.net)
      /\ DOMAIN x.me = DOMAIN StartState
      /\ NetTyped(n) /\ MineOK(x.me, n, b.names) /\ EntryOK(conn, n, b.names)
      /\ c \in Conns
  BY DEF Own, MineOK, EntryOK, ClientGood, ClientOK
<1>2. conn.type \in {"REG", "UI", "FIL"}
  BY <1>1 DEF MineOK, ClientOK, Range
<1>3. /\ DOMAIN n[c] = {"cli", "srv", "cmd", "up", "down"} /\ IsSeq(n[c].down)
      /\ ConnOK(n[c])
  BY <1>1, ConnIs, ClosedOK
<1>4. /\ frame = n[c].down[1] /\ 1 \in DOMAIN n[c].down
      /\ IsSeq(Tail(n[c].down))
      /\ \A j \in DOMAIN Tail(n[c].down) :
             j + 1 \in DOMAIN n[c].down /\ Tail(n[c].down)[j] = n[c].down[j + 1]
  BY <1>3, SeqTail
<1>5. FrameOK(frame) /\ Fits(frame, n[c].cmd)
  <2>1. frame \in Range(n[c].down)
    BY <1>3, <1>4, SeqElements
  <2> QED
    BY <1>1, <1>3, <1>4, <2>1 DEF ConnOK, NetOK
<1>6. /\ conn.type = "REG" /\ frame.status = "LOGGED_IN" => frame.user \in b.names
      /\ conn.type = "UI" /\ frame.kind = "UI_MSG" => \E u \in b.names : MeantFor(frame, u)
  BY <1>1, <1>2, <1>5, FrameOnEntry
<1>7. /\ DOMAIN z = {"cli", "srv", "cmd", "up", "down"}
      /\ z.cli = n[c].cli /\ z.srv = n[c].srv /\ z.cmd = n[c].cmd /\ z.up = n[c].up
      /\ z.down = Tail(n[c].down)
  BY <1>3
<1>8. [x EXCEPT !.net[c].down = Tail(@)] = r
  BY <1>1
<1>9. r.me = x.me /\ r.net = m /\ DOMAIN r = {"me", "net", "backlog"}
  BY <1>1
<1> HIDE DEF z, n, c, frame
<1>10. ConnOK(z)
  BY <1>3, <1>4, <1>7 DEF ConnOK
<1>11. NetTyped(m) /\ m[c] = z /\ \A d \in Conns : d # c => m[d] = n[d]
  <2>1. NetTyped(n) /\ c \in Conns
    BY <1>1 DEF n, c
  <2>2. DOMAIN z = DOMAIN Closed /\ IsSeq(z.down)
    BY <1>4, <1>7, ClosedOK
  <2> QED
    BY <1>10, <2>1, <2>2, NetSet
<1> HIDE DEF m
<1>12. Leaves(n, m)
  <2>1. Range(z.down) \subseteq Range(n[c].down)
    BY <1>3, <1>7, SeqTail DEF n, c
  <2> QED
    BY <1>1, <1>3, <1>7, <1>11, <2>1 DEF Leaves, NetTyped
<1>13. ClientGood(r, b.net)
  BY <1>1, <1>12, LeavesStep DEF n
<1> HIDE DEF r
<1>14. MineOK(r.me, m, b.names)
  BY <1>1, <1>7, <1>9, <1>11, MineSame
<1>15. Own(r, b)
  BY <1>1, <1>9, <1>11, <1>13, <1>14 DEF Own, n, c
<1>16. ASSUME conn.type = "REG", frame.status = "LOGGED_IN"
       PROVE  Room(r, Len(r.me.conns), FILE_CONNS + 1)
  <2>1. Cardinality(FreeConns(n)) > FILE_CONNS
    BY <1>16 DEF n, c, frame
  <2>2. FreeConns(n) \subseteq FreeConns(m)
    <3>1. n[c] # Closed
      BY <1>1 DEF EntryOK, c, Closed
    <3> QED
      BY <1>11, <3>1 DEF FreeConns
  <2>3. IsFiniteSet(FreeConns(m)) /\ IsFiniteSet(FreeConns(n))
    BY ConnsAssumption, FS_Subset DEF FreeConns
  <2>4. /\ Cardinality(FreeConns(m)) \in Nat /\ Cardinality(FreeConns(n)) \in Nat
        /\ Cardinality(FreeConns(n)) <= Cardinality(FreeConns(m))
    BY <2>2, <2>3, FS_Subset, FS_CardinalityType
  <2>5. Cardinality(FreeConns(m)) >= FILE_CONNS + 1
    BY <2>1, <2>4, FileConnsAssumption
  <2>6. Len(r.me.conns) \in Nat
    BY <1>13, SeqElements DEF ClientGood, ClientOK
  <2> QED
    BY <1>9, <2>5, <2>6 DEF Room
<1>17. CASE conn.type = "UI"
  <2> DEFINE me == [r.me EXCEPT !.printed = Append(r.me.printed, frame)]
             q == Append(r.me.printed, frame)
  <2>1. /\ DOMAIN me = DOMAIN StartState /\ me.conns = r.me.conns
        /\ me.status = r.me.status /\ me.next = r.me.next
        /\ me.loggedInUser = r.me.loggedInUser /\ me.printed = q
    BY <1>1, <1>9, ClientShapes
  <2>2. [r EXCEPT !.me.printed = Append(@, frame)] = [r EXCEPT !.me = me]
    BY <1>9
  <2> HIDE DEF me
  <2>3. IsSeq(r.me.printed) /\ \A f \in Range(r.me.printed) : \E u \in b.names : MeantFor(f, u)
    BY <1>14 DEF MineOK
  <2>4. IsSeq(q) /\ \A f \in Range(q) : f = frame \/ f \in Range(r.me.printed)
    BY <2>3, SeqAppend
  <2> HIDE DEF q
  <2>5. ASSUME frame.kind = "UI_MSG"
        PROVE  Own([r EXCEPT !.me = me], b)
    <3>1. \A f \in Range(q) : \E u \in b.names : MeantFor(f, u)
      BY <1>6, <1>17, <2>3, <2>4, <2>5
    <3>2. me.loggedInUser \in b.names \cup {None}
      BY <1>14, <2>1 DEF MineOK
    <3> QED
      BY <1>15, <2>1, <2>4, <3>1, <3>2, OwnChange
  <2>6. Own(ExitGracefully(r), b)
    BY <1>15, OwnExit
  <2>7. Own(HandleMsg(r, frame), b)
    BY <1>15, <2>2, <2>5, <2>6 DEF HandleMsg
  <2> QED
    BY <1>8, <1>17, <2>7 DEF RecvFrame, frame, n, c
<1>18. CASE conn.type = "FIL"
  <2>1. Own(ExitGracefully(r), b)
    BY <1>15, OwnExit
  <2>2. Own(HandleFile(r, frame), b)
    BY <1>15, <2>1 DEF HandleFile
  <2> QED
    BY <1>8, <1>18, <2>2 DEF RecvFrame, frame, n, c
<1>19. CASE conn.type = "REG"
  <2>1. i \in DOMAIN r.me.conns
    BY <1>9
  <2>2. Own(HandleResponse(r, i, frame), b)
    BY <1>6, <1>15, <1>16, <1>19, <2>1, OwnResponse
  <2> QED
    BY <1>8, <1>19, <2>2 DEF RecvFrame, frame, n, c
<1> QED
  BY <1>2, <1>17, <1>18, <1>19

-----------------------------------------------------------------------------
(* The clients' actions *)

\* The names that client k has given with its logins before command n
Before(k, n) == {script[k][j].name : j \in {i \in DOMAIN script[k] :
                                             i < n /\ script[k][i].op = "LOGIN"}}

\* What a handler of client k begins with, that leads to command n of the script
Base(k, n) == [net |-> net, ours |-> Ours(client[k]), names |-> Before(k, n), next |-> n]

LEMMA NamesAre ==
    ASSUME script \in Scripts, NEW k \in Clients
    PROVE  /\ Names(k) = Before(k, client[k].next)
           /\ Len(script[k]) \in Nat /\ DOMAIN script[k] = 1..Len(script[k])
           /\ \A n : Before(k, n) \subseteq Users
           /\ \A n \in Nat : Before(k, n) \subseteq Before(k, n + 1)
           /\ \A n \in DOMAIN script[k] : script[k][n].op = "LOGIN" =>
                                              script[k][n].name \in Before(k, n + 1)
<1>1. script[k] \in Seq({script[k][j] : j \in DOMAIN script[k]})
  BY ScriptsAssumption
<1>2. Len(script[k]) \in Nat /\ DOMAIN script[k] = 1..Len(script[k])
  BY <1>1, SeqIsSeq, SeqElements
<1>3. \A j \in DOMAIN script[k] : script[k][j].op = "LOGIN" => script[k][j].name \in Users
  BY ScriptsAssumption
<1>4. \A i \in DOMAIN script[k], n \in Nat : i < n => i < n + 1
  BY <1>2
<1>5. \A n \in DOMAIN script[k] : n < n + 1
  BY <1>2
<1> QED
  BY <1>2, <1>3, <1>4, <1>5 DEF Names, Before

\* The state of a client, with other variables than its connections changed
LEMMA CliOwn ==
    ASSUME SessionInv, NEW k \in Clients, NEW me, DOMAIN me = DOMAIN StartState,
           me.conns = client[k].conns, me.status = client[k].status,
           me.loggedInUser = client[k].loggedInUser, me.printed = client[k].printed,
           Names(k) \subseteq Before(k, me.next)
    PROVE  /\ Own([Cli(k) EXCEPT !.me = me], Base(k, me.next))
           /\ [Cli(k) EXCEPT !.me = me].me = me
           /\ [Cli(k) EXCEPT !.me = me].net = net
<1> DEFINE x == [Cli(k) EXCEPT !.me = me]
           b == Base(k, me.next)
<1>1. /\ ClientGood(Cli(k), net) /\ DOMAIN Cli(k) = {"me", "net", "backlog"}
      /\ Cli(k).net = net
  BY CliGood DEF SessionInv
<1>2. /\ MineOK(client[k], net, Names(k)) /\ NetTyped(net) /\ script \in Scripts
  BY AccountVars DEF SessionInv, ClientsOwn
<1>3. Before(k, me.next) \subseteq Users
  BY <1>2, NamesAre
<1>4. /\ b.net = net /\ b.ours = Ours(client[k]) /\ b.names = Before(k, me.next)
      /\ b.next = me.next
  BY DEF Base
<1>5. ClientOK(me)
  BY <1>2 DEF MineOK, ClientOK
<1>6. x.me = me /\ x.net = net /\ ClientGood(x, net)
  BY <1>1, <1>5, OwnStep
<1> HIDE DEF x, b
<1>7. \A i \in DOMAIN me.conns : EntryOK(me.conns[i], net, b.names)
  BY <1>2, <1>4 DEF MineOK, EntryOK
<1>8. \A f \in Range(me.printed) : \E u \in b.names : MeantFor(f, u)
  BY <1>2, <1>4 DEF MineOK
<1>9. MineOK(me, net, b.names)
  BY <1>2, <1>4, <1>5, <1>7, <1>8 DEF MineOK
<1>10. Ours(me) = Ours(client[k])
  BY DEF Ours
<1>11. Own(x, b)
  BY <1>2, <1>3, <1>4, <1>6, <1>9, <1>10 DEF Own
<1> QED
  BY <1>6, <1>11 DEF x, b

\* A handler of one client leaves the others what they have
LEMMA OwnBecome ==
    ASSUME SessionInv, NEW k \in Clients, NEW x, NEW n \in 1..(Len(script[k]) + 1),
           Own(x, Base(k, n)), Become(k, x), UNCHANGED srvVars
    PROVE  SessionInv'
<1> DEFINE b == Base(k, n)
<1>1. /\ b.net = net /\ b.ours = Ours(client[k]) /\ b.names = Before(k, n) /\ b.next = n
  BY DEF Base
<1>2. Own(x, b)
  OBVIOUS
<1> HIDE DEF b
<1>3. /\ ClientGood(x, net) /\ NetTyped(x.net) /\ MineOK(x.me, x.net, Before(k, n))
      /\ x.me.next = n
      /\ \A c \in Conns : net[c].cli /\ c \notin Ours(client[k]) => x.net[c] = net[c]
      /\ \A c \in Ours(x.me) : c \in Ours(client[k]) \/ ~net[c].cli
  BY <1>1, <1>2 DEF Own
<1>4. /\ client' = [client EXCEPT ![k] = x.me] /\ net' = x.net /\ script' = script
      /\ slots' = slots /\ nConns' = nConns /\ registrar' = registrar
      /\ profiles' = profiles
  BY DEF Become, srvVars
<1>5. DeliveryInv'
  BY <1>3, BecomeInv DEF SessionInv
<1>6. AccountInv'
  <2>1. AccountInv' <=> /\ AccountsOK(registrar', profiles')
                        /\ SlotsOK(slots')
                        /\ nConns' \in Int /\ nConns' <= MAX_CONCURRENCY_LIMIT
                        /\ NetTyped(net')
    BY DEF AccountInv, Sound, Srv, Fields
  <2> QED
    BY <1>3, <1>4, <2>1, AccountVars DEF SessionInv
<1>7. /\ script \in Scripts /\ DOMAIN client = Clients
      /\ \A l \in Clients : /\ MineOK(client[l], net, Names(l))
                            /\ client[l].next \in 1..(Len(script[l]) + 1)
      /\ \A l, m \in Clients : Ours(client[l]) \cap Ours(client[m]) # {} => l = m
  BY DEF SessionInv, ClientsOwn, DeliveryInv, ClientsInv
<1>8. client'[k] = x.me /\ \A l \in Clients : l # k => client'[l] = client[l]
  BY <1>4, <1>7
<1>9. ASSUME NEW l \in Clients
      PROVE  Names(l)' = IF l = k THEN Before(k, n) ELSE Names(l)
  <2>1. client'[l].next = IF l = k THEN n ELSE client[l].next
    BY <1>3, <1>8
  <2> QED
    BY <1>4, <2>1 DEF Names, Before
<1>10. ASSUME NEW l \in Clients, l # k
       PROVE  \A c \in Ours(client[l]) : /\ c \in Conns /\ net[c].cli
                                         /\ c \notin Ours(client[k])
                                         /\ x.net[c] = net[c] /\ c \notin Ours(x.me)
  <2>1. \A c \in Ours(client[l]) : c \in Conns /\ net[c].cli
    BY <1>7 DEF MineOK, EntryOK, Ours
  <2>2. \A c \in Ours(client[l]) : c \notin Ours(client[k])
    BY <1>7, <1>10
  <2> QED
    BY <1>3, <2>1, <2>2
<1>11. ASSUME NEW l \in Clients
       PROVE  /\ MineOK(client'[l], net', Names(l)')
              /\ client'[l].next \in 1..(Len(script[l]) + 1)
  <2>1. CASE l = k
    <3>1. client'[l] = x.me /\ net' = x.net /\ Names(l)' = Before(k, n) /\ x.me.next = n
      BY <1>3, <1>4, <1>8, <1>9, <2>1
    <3> QED
      BY <1>3, <2>1, <3>1
  <2>2. CASE l # k
    <3>1. MineOK(client[l], x.net, Names(l))
      BY <1>7, <1>10, <2>2, MineSame
    <3>2. client'[l] = client[l] /\ net' = x.net /\ Names(l)' = Names(l)
      BY <1>4, <1>8, <1>9, <2>2
    <3> QED
      BY <1>7, <3>1, <3>2
  <2> QED
    BY <2>1, <2>2
<1>12. ASSUME NEW l \in Clients, NEW m \in Clients,
              Ours(client'[l]) \cap Ours(client'[m]) # {}
       PROVE  l = m
  <2>1. CASE l # k /\ m # k
    BY <1>7, <1>8, <1>12, <2>1
  <2>2. CASE l = k /\ m # k
    BY <1>8, <1>10, <1>12, <2>2
  <2>3. CASE l # k /\ m = k
    BY <1>8, <1>10, <1>12, <2>3
  <2> QED
    BY <2>1, <2>2, <2>3
<1>13. ClientsOwn' <=>
          /\ script' \in Scripts
          /\ \A l \in Clients : /\ MineOK(client'[l], net', Names(l)')
                                /\ client'[l].next \in 1..(Len(script'[l]) + 1)
          /\ \A l, m \in Clients : Ours(client'[l]) \cap Ours(client'[m]) # {} => l = m
  BY DEF ClientsOwn, MineOK, EntryOK, Ours, MeantFor
<1>14. ClientsOwn'
  BY <1>4, <1>7, <1>11, <1>12, <1>13
<1> QED
  BY <1>5, <1>6, <1>14 DEF SessionInv

\* The next command of a client, as it is sent
LEMMA CommandFits ==
    ASSUME SessionInv, NEW k \in Clients, NEW n \in DOMAIN script[k], NEW cmd,
           Passes(client[k], script[k][n].op),
           cmd = [op |-> script[k][n].op, name |-> script[k][n].name,
                  pwd |-> script[k][n].pwd, id |-> <<k, n>>,
                  user |-> IF script[k][n].op \in {"LOGIN", "REGISTER"}
                           THEN None ELSE client[k].loggedInUser]
    PROVE  CmdFits("REG", cmd, Before(k, n + 1))
<1> DEFINE c == script[k][n]
<1>1. /\ script \in Scripts
      /\ client[k].loggedInUser \in Names(k) \cup {None}
  BY DEF SessionInv, ClientsOwn, MineOK
<1>2. /\ c.op \in ScriptOps /\ c.op \notin {"UI_CONN", "FILE_CONN"}
      /\ c.name \in Users \cup {None}
      /\ c.op \in {"LOGIN", "REGISTER"} => c.name \in Users /\ c.pwd # None
  BY <1>1, ScriptsAssumption DEF ScriptOps
<1>3. <<k, n>> \in Ids /\ (c.op \in {"LOGIN", "REGISTER"} => c.pwd \in Pwds)
  <2>1. <<k, n>> \in {<<k, j>> : j \in DOMAIN script[k]}
    OBVIOUS
  <2>2. <<k, n>> \in UNION {{<<l, j>> : j \in DOMAIN script[l]} : l \in Clients}
    BY <2>1
  <2>3. c.pwd \in UNION {{script[l][j].pwd : j \in DOMAIN script[l]} : l \in Clients}
    OBVIOUS
  <2> QED
    BY <1>1, <1>2, <2>2, <2>3 DEF Ids, Pwds
<1>4. c.op \notin {"LOGIN", "REGISTER"} => client[k].loggedInUser \in Users
  <2>1. c.op \notin {"LOGIN", "REGISTER"} => client[k].loggedInUser # None
    BY DEF Passes
  <2>2. Names(k) \subseteq Users
    BY <1>1, NamesAre
  <2> QED
    BY <1>1, <2>1, <2>2
<1>5. c.op = "LOGIN" => c.name \in Before(k, n + 1)
  BY <1>1, NamesAre
<1>6. /\ cmd.op = c.op /\ cmd.name = c.name /\ cmd.pwd = c.pwd /\ cmd.id = <<k, n>>
      /\ cmd.user = IF c.op \in {"LOGIN", "REGISTER"} THEN None
                                                      ELSE client[k].loggedInUser
  OBVIOUS
<1> HIDE DEF c
<1>7. CmdOK(cmd)
  BY <1>2, <1>3, <1>4, <1>6 DEF CmdOK
<1> QED
  BY <1>2, <1>5, <1>6, <1>7 DEF CmdFits

\* Starting a command
LEMMA StartCommandOwn ==
    ASSUME SessionInv, NEW k \in Clients, NEW up, StartCommand(k, up), UNCHANGED srvVars
    PROVE  SessionInv'
<1> DEFINE me == client[k]
           n == me.next
           c == script[k][n]
           cmd == [op |-> c.op, name |-> c.name, pwd |-> c.pwd, id |-> <<k, n>>,
                   user |-> IF c.op \in {"LOGIN", "REGISTER"} THEN None ELSE me.loggedInUser]
           x == [Cli(k) EXCEPT !.me.next = @ + 1,
                               !.me.paused = c.op = "DELAY",
                               !.me.unconfirmedLogin = @ \/ (c.op = "LOGIN" /\ Passes(me, c.op)),
                               !.me.unconfirmedLogout = @ \/ (c.op = "LOGOUT" /\ Passes(me, c.op))]
           mine == [me EXCEPT !.next = @ + 1,
                              !.paused = c.op = "DELAY",
                              !.unconfirmedLogin = @ \/ (c.op = "LOGIN" /\ Passes(me, c.op)),
                              !.unconfirmedLogout = @ \/ (c.op = "LOGOUT" /\ Passes(me, c.op))]
           y == [Cli(k) EXCEPT !.me = mine]
           b == Base(k, n + 1)
<1>1. /\ FreeConns(net) # {} /\ n <= Len(script[k])
      /\ \E read \in IsReadable(c.op) :
            Become(k, CASE ~(Passes(me, c.op) /\ read)   -> x
                        [] Passes(me, c.op) /\ read /\ up  -> Issue(x, "REG", cmd)
                        [] Passes(me, c.op) /\ read /\ ~up -> ExitGracefully(x))
  BY DEF StartCommand
<1>2. /\ Cli(k).me = me /\ DOMAIN Cli(k) = {"me", "net", "backlog"}
      /\ DOMAIN me = DOMAIN StartState
  BY CliGood DEF SessionInv
<1>3. script \in Scripts /\ n \in 1..(Len(script[k]) + 1)
  BY DEF SessionInv, ClientsOwn
<1>4. /\ n \in DOMAIN script[k] /\ n \in Nat /\ n + 1 \in 1..(Len(script[k]) + 1)
      /\ Names(k) \subseteq Before(k, n + 1)
  BY <1>1, <1>3, NamesAre
<1>5. Passes(me, c.op) => CmdFits("REG", cmd, b.names)
  BY <1>4, CommandFits DEF Base
<1> HIDE DEF cmd
<1>6. x = y
  BY <1>2, ClientShapes
<1>7. /\ DOMAIN mine = DOMAIN StartState /\ mine.conns = me.conns
      /\ mine.status = me.status /\ mine.loggedInUser = me.loggedInUser
      /\ mine.printed = me.printed /\ mine.next = n + 1
  BY <1>2, ClientShapes
<1> HIDE DEF mine
<1>8. Own(y, b) /\ y.me = mine /\ y.net = net
  BY <1>4, <1>7, CliOwn
<1> HIDE DEF x, y
<1>9. Room(y, 0, 1)
  <2>1. IsFiniteSet(FreeConns(net))
    BY ConnsAssumption, FS_Subset DEF FreeConns
  <2>2. Cardinality(FreeConns(net)) \in Nat /\ Cardinality(FreeConns(net)) # 0
    BY <1>1, <2>1, FS_CardinalityType, FS_EmptySet
  <2>3. Len(y.me.conns) \in Nat
    BY <1>8, SeqElements DEF Own, ClientGood, ClientOK
  <2> QED
    BY <1>8, <2>2, <2>3 DEF Room
<1>10. Passes(me, c.op) => Own(Issue(y, "REG", cmd), b)
  <2>1. 0 \in Nat /\ 0 + 1 = 1 /\ "REG" \in {"REG", "UI", "FIL"}
    OBVIOUS
  <2>2. Room(y, 0, 0 + 1)
    BY <1>9, <2>1
  <2> HIDE DEF b
  <2> QED
    BY <1>5, <1>8, <2>1, <2>2, OwnIssue
<1>11. Own(ExitGracefully(y), b)
  BY <1>8, OwnExit
<1>12. \E z : Own(z, b) /\ Become(k, z)
  <2>1. PICK read \in IsReadable(c.op) :
            Become(k, CASE ~(Passes(me, c.op) /\ read)   -> y
                        [] Passes(me, c.op) /\ read /\ up  -> Issue(y, "REG", cmd)
                        [] Passes(me, c.op) /\ read /\ ~up -> ExitGracefully(y))
    BY <1>1, <1>6
  <2>2. CASE ~(Passes(me, c.op) /\ read)
    BY <1>8, <2>1, <2>2
  <2>3. CASE Passes(me, c.op) /\ read /\ up
    BY <1>10, <2>1, <2>3
  <2>4. CASE Passes(me, c.op) /\ read /\ ~up
    BY <1>11, <2>1, <2>4
  <2> QED
    BY <2>2, <2>3, <2>4
<1> QED
  BY <1>4, <1>12, OwnBecome

\* A handler begins with the client as it is
LEMMA CliBegins ==
    ASSUME SessionInv, NEW k \in Clients
    PROVE  /\ Own(Cli(k), Base(k, client[k].next))
           /\ Cli(k).me = client[k] /\ Cli(k).net = net
           /\ DOMAIN Cli(k) = {"me", "net", "backlog"}
           /\ client[k].next \in 1..(Len(script[k]) + 1)
           /\ MineOK(client[k], net, Names(k)) /\ NetTyped(net)
<1>1. /\ Cli(k).me = client[k] /\ Cli(k).net = net
      /\ DOMAIN Cli(k) = {"me", "net", "backlog"}
      /\ DOMAIN client[k] = DOMAIN StartState
  BY CliGood DEF SessionInv
<1>2. /\ script \in Scripts /\ client[k].next \in 1..(Len(script[k]) + 1)
      /\ MineOK(client[k], net, Names(k)) /\ NetTyped(net)
  BY AccountVars DEF SessionInv, ClientsOwn
<1>3. Names(k) = Before(k, client[k].next)
  BY <1>2, NamesAre
<1>4. Own([Cli(k) EXCEPT !.me = client[k]], Base(k, client[k].next))
  BY <1>1, <1>3, CliOwn
<1>5. [Cli(k) EXCEPT !.me = client[k]] = Cli(k)
  BY <1>1 DEF Cli
<1> QED
  BY <1>1, <1>2, <1>4, <1>5

\* Writing the rest of a command
LEMMA SendRestOwn ==
    ASSUME SessionInv, NEW k \in Clients, NEW i \in DOMAIN client[k].conns,
           SendRest(k, i), UNCHANGED srvVars
    PROVE  SessionInv'
<1> DEFINE x == Cli(k)
           b == Base(k, client[k].next)
           c == client[k].conns[i].id
           z == [net[c] EXCEPT !.up = "sent"]
           m == [net EXCEPT ![c] = z]
           y == [x EXCEPT !.net = m]
<1>1. /\ Own(x, b) /\ x.me = client[k] /\ x.net = net
      /\ DOMAIN x = {"me", "net", "backlog"} /\ NetTyped(net)
      /\ client[k].next \in 1..(Len(script[k]) + 1)
      /\ MineOK(client[k], net, Names(k))
  BY CliBegins
<1>2. /\ net[c].up = "part"
      /\ \/ Become(k, [x EXCEPT !.net[c].up = "sent"])
         \/ Become(k, RemoveConn(x, i))
         \/ Become(k, ExitGracefully(x))
  BY DEF SendRest
<1>3. c \in Conns /\ c \in Ours(client[k])
  BY <1>1 DEF MineOK, EntryOK, Ours
<1>4. DOMAIN net[c] = {"cli", "srv", "cmd", "up", "down"} /\ IsSeq(net[c].down) /\ ConnOK(net[c])
  BY <1>1, <1>3, ConnIs, ClosedOK
<1>5. /\ DOMAIN z = {"cli", "srv", "cmd", "up", "down"}
      /\ z.cli = net[c].cli /\ z.srv = net[c].srv /\ z.cmd = net[c].cmd /\ z.up = "sent"
      /\ z.down = net[c].down
  BY <1>4
<1>6. [x EXCEPT !.net[c].up = "sent"] = y
  BY <1>1
<1>7. b.net = net /\ b.ours = Ours(client[k])
  BY DEF Base
<1>8. /\ y.me = client[k] /\ y.net = m /\ DOMAIN y = {"me", "net", "backlog"}
  BY <1>1
<1> HIDE DEF x, b, z, c
<1>9. ConnOK(z)
  BY <1>2, <1>4, <1>5 DEF ConnOK
<1>10. NetTyped(m) /\ m[c] = z /\ \A d \in Conns : d # c => m[d] = net[d]
  <2>1. DOMAIN z = DOMAIN Closed /\ IsSeq(z.down)
    BY <1>4, <1>5, ClosedOK
  <2> QED
    BY <1>1, <1>3, <1>9, <2>1, NetSet
<1> HIDE DEF m
<1>11. Leaves(net, m)
  <2>1. net[c].up # "read"
    BY <1>2
  <2> QED
    BY <1>1, <1>5, <1>10, <2>1 DEF Leaves, NetTyped
<1>12. ClientGood(x, net)
  BY <1>1, <1>7 DEF Own
<1>13. ClientGood(y, net)
  BY <1>1, <1>11, <1>12, LeavesStep
<1> HIDE DEF y
<1>14. MineOK(y.me, m, b.names)
  <2>1. MineOK(x.me, net, b.names)
    BY <1>1 DEF Own
  <2>2. MineOK(x.me, m, b.names)
    BY <1>5, <1>10, <2>1, MineSame
  <2> QED
    BY <1>1, <1>8, <2>2
<1>15. Own(y, b)
  BY <1>1, <1>3, <1>7, <1>8, <1>10, <1>13, <1>14 DEF Own
<1>16. Own(RemoveConn(x, i), b) /\ Own(ExitGracefully(x), b)
  BY <1>1, OwnRemove, OwnExit
<1>17. \E w : Own(w, b) /\ Become(k, w)
  BY <1>2, <1>6, <1>15, <1>16
<1> QED
  BY <1>1, <1>17, OwnBecome DEF b

\* Reading a frame, or the end of the stream
LEMMA ReceiveOwn ==
    ASSUME SessionInv, NEW k \in Clients, NEW i \in DOMAIN client[k].conns, NEW up,
           Receive(k, i, up), UNCHANGED srvVars
    PROVE  SessionInv'
<1> DEFINE x == Cli(k)
           b == Base(k, client[k].next)
           c == client[k].conns[i].id
           down == net[c].down
           signsIn == /\ down # <<>>
                      /\ client[k].conns[i].type = "REG"
                      /\ Head(down).status = "LOGGED_IN"
<1>1. \/ /\ down # <<>>
         /\ signsIn /\ up => Cardinality(FreeConns(net)) > FILE_CONNS
         /\ Become(k, IF signsIn /\ ~up THEN ExitGracefully(x) ELSE RecvFrame(x, i))
      \/ Become(k, RemoveConn(x, i))
  BY DEF Receive
<1>2. /\ Own(x, b) /\ x.me = client[k] /\ x.net = net
      /\ client[k].next \in 1..(Len(script[k]) + 1)
  BY CliBegins
<1>3. NetOK(net)
  <2> DEFINE t == Srv
  <2>1. Good(t, LastUsed, backlog) /\ t.net = net
    BY SrvIs DEF SessionInv, DeliveryInv, ChatInv
  <2> HIDE DEF t
  <2> QED
    BY <2>1 DEF Good
<1>4. c \in b.ours
  BY DEF Base, Ours
<1> HIDE DEF x, b
<1>5. Own(RemoveConn(x, i), b) /\ Own(ExitGracefully(x), b)
  BY <1>2, OwnRemove, OwnExit
<1>6. ASSUME down # <<>>, signsIn => Cardinality(FreeConns(net)) > FILE_CONNS
      PROVE  Own(RecvFrame(x, i), b)
  BY <1>2, <1>3, <1>4, <1>6, OwnFrame
<1>7. \E w : Own(w, b) /\ Become(k, w)
  <2>1. CASE Become(k, RemoveConn(x, i))
    BY <1>5, <2>1
  <2>2. CASE /\ down # <<>>
             /\ signsIn /\ up => Cardinality(FreeConns(net)) > FILE_CONNS
             /\ Become(k, IF signsIn /\ ~up THEN ExitGracefully(x) ELSE RecvFrame(x, i))
    <3>1. CASE signsIn /\ ~up
      BY <1>5, <2>2, <3>1
    <3>2. CASE ~(signsIn /\ ~up)
      BY <1>6, <2>2, <3>2
    <3> QED
      BY <3>1, <3>2
  <2> QED
    BY <1>1, <2>1, <2>2
<1> QED
  BY <1>2, <1>7, OwnBecome DEF b

\* Every step of a client keeps the invariant
LEMMA ClientKeepsSessions ==
    ASSUME SessionInv, NEW k \in Clients, ClientStep(k)
    PROVE  SessionInv' /\ registrar' = registrar
<1> DEFINE x == Cli(k)
           b == Base(k, client[k].next)
           me == [client[k] EXCEPT !.paused = FALSE]
<1>1. /\ Own(x, b) /\ x.me = client[k] /\ DOMAIN x = {"me", "net", "backlog"}
      /\ client[k].next \in 1..(Len(script[k]) + 1)
      /\ MineOK(client[k], net, Names(k)) /\ script \in Scripts
      /\ DOMAIN client[k] = DOMAIN StartState
  BY CliBegins, CliGood DEF SessionInv, ClientsOwn
<1>2. Own(ExitGracefully(x), b)
  BY <1>1, OwnExit
<1>3. Own([x EXCEPT !.me.paused = FALSE], b)
  <2>1. /\ DOMAIN me = DOMAIN StartState /\ me.conns = client[k].conns
        /\ me.status = client[k].status /\ me.loggedInUser = client[k].loggedInUser
        /\ me.printed = client[k].printed /\ me.next = client[k].next
    BY <1>1, ClientShapes
  <2>2. [x EXCEPT !.me.paused = FALSE] = [x EXCEPT !.me = me]
    BY <1>1
  <2> HIDE DEF me
  <2>3. Names(k) \subseteq Before(k, me.next)
    BY <1>1, <2>1, NamesAre
  <2> QED
    BY <2>1, <2>2, <2>3, CliOwn
<1>4. UNCHANGED srvVars /\ registrar' = registrar
  BY DEF ClientStep, srvVars
<1>5. ASSUME NEW w, Own(w, b), Become(k, w)
      PROVE  SessionInv'
  BY <1>1, <1>4, <1>5, OwnBecome
<1>6. CASE StartCommand(k, ServerIsUp)
  BY <1>4, <1>6, StartCommandOwn
<1>7. CASE Finish(k) \/ Kill(k)
  <2>1. Become(k, ExitGracefully(x))
    BY <1>7 DEF Finish, Kill
  <2> QED
    BY <1>2, <1>4, <1>5, <2>1
<1>8. CASE EndPause(k)
  <2>1. Become(k, [x EXCEPT !.me.paused = FALSE])
    BY <1>8 DEF EndPause
  <2> QED
    BY <1>3, <1>4, <1>5, <2>1
<1>9. CASE \E i \in DOMAIN client[k].conns : SendRest(k, i)
  BY <1>4, <1>9, SendRestOwn
<1>10. CASE \E i \in DOMAIN client[k].conns : Receive(k, i, ServerIsUp)
  BY <1>4, <1>10, ReceiveOwn
<1>11. \/ StartCommand(k, ServerIsUp) \/ Finish(k) \/ Kill(k) \/ EndPause(k)
       \/ \E i \in DOMAIN client[k].conns : SendRest(k, i)
       \/ \E i \in DOMAIN client[k].conns : Receive(k, i, ServerIsUp)
  BY DEF ClientStep
<1>12. SessionInv'
  BY <1>6, <1>7, <1>8, <1>9, <1>10, <1>11
<1> QED
  BY <1>4, <1>12

-----------------------------------------------------------------------------
(* The theorems *)

\* A step of the server leaves the clients what they have
LEMMA ServerSparesClients ==
    ASSUME SessionInv, AccountStep, UNCHANGED cliVars
    PROVE  ClientsOwn'
<1>1. client' = client /\ script' = script /\ Spares(net, net')
  BY DEF cliVars, AccountStep
<1>2. /\ script \in Scripts
      /\ \A k \in Clients : /\ MineOK(client[k], net, Names(k))
                            /\ client[k].next \in 1..(Len(script[k]) + 1)
      /\ \A k, l \in Clients : Ours(client[k]) \cap Ours(client[l]) # {} => k = l
  BY DEF SessionInv, ClientsOwn
<1>3. ASSUME NEW k \in Clients
      PROVE  MineOK(client[k], net', Names(k)) /\ Names(k)' = Names(k)
  <2>1. Names(k)' = Names(k)
    BY <1>1 DEF Names
  <2> DEFINE n == net
             m == net'
  <2>2. Spares(n, m) /\ MineOK(client[k], n, Names(k))
    BY <1>1, <1>2
  <2> HIDE DEF n, m
  <2>3. MineOK(client[k], m, Names(k))
    BY <2>2, MineSame DEF Spares
  <2> QED
    BY <2>1, <2>3 DEF m
<1>4. ClientsOwn' <=>
          /\ script' \in Scripts
          /\ \A l \in Clients : /\ MineOK(client'[l], net', Names(l)')
                                /\ client'[l].next \in 1..(Len(script'[l]) + 1)
          /\ \A l, m \in Clients : Ours(client'[l]) \cap Ours(client'[m]) # {} => l = m
  BY DEF ClientsOwn, MineOK, EntryOK, Ours, MeantFor
<1> QED
  BY <1>1, <1>2, <1>3, <1>4

\* The invariant is inductive, and no step takes a registration back
THEOREM SessionInductive ==
    /\ Init => SessionInv
    /\ SessionInv /\ [Next]_vars => SessionInv' /\ Lasts(registrar, registrar')
<1>1. Init => SessionInv
  <2> SUFFICES ASSUME Init
               PROVE  ClientsOwn
    BY AccountInit, DeliveryInductive DEF SessionInv
  <2>1. script \in Scripts /\ \A k \in Clients : client[k] = StartState
    BY DEF Init, CliInit
  <2>2. /\ StartState.conns = <<>> /\ StartState.printed = <<>> /\ StartState.next = 1
        /\ StartState.status = "running" /\ StartState.loggedInUser = None
    BY DEF StartState
  <2>3. IsSeq(StartState.conns) /\ Range(StartState.conns) = {} /\ DOMAIN StartState.conns = {}
    BY <2>2, EmptyIsSeq
  <2>4. ClientOK(StartState)
    BY <2>3 DEF ClientOK
  <2>5. \A n, N : MineOK(StartState, n, N)
    BY <2>2, <2>3, <2>4 DEF MineOK
  <2>6. Ours(StartState) = {}
    BY <2>3 DEF Ours
  <2>7. \A k \in Clients : 1 \in 1..(Len(script[k]) + 1)
    BY <2>1, NamesAre
  <2> QED
    BY <2>1, <2>2, <2>5, <2>6, <2>7 DEF ClientsOwn
<1>2. ASSUME SessionInv, [Next]_vars
      PROVE  SessionInv' /\ Lasts(registrar, registrar')
  <2>1. DeliveryInv'
    BY <1>2, DeliveryInductive DEF SessionInv
  <2>2. CASE (ServerStep \/ StopServer \/ StartServer) /\ UNCHANGED cliVars
    <3>1. AccountStep
      BY <1>2, <2>2, ServerStepKeeps, RestartKeeps DEF SessionInv, DeliveryInv
    <3>2. ClientsOwn'
      BY <1>2, <2>2, <3>1, ServerSparesClients
    <3> QED
      BY <2>1, <3>1, <3>2 DEF AccountStep, SessionInv
  <2>3. CASE \E k \in Clients : ClientStep(k)
    BY <1>2, <2>3, ClientKeepsSessions DEF Lasts
  <2>4. CASE UNCHANGED vars
    <3>1. UNCHANGED srvVars /\ UNCHANGED cliVars /\ net' = net
      BY <2>4 DEF vars
    <3>2. AccountInv' <=> /\ AccountsOK(registrar', profiles')
                          /\ SlotsOK(slots')
                          /\ nConns' \in Int /\ nConns' <= MAX_CONCURRENCY_LIMIT
                          /\ NetTyped(net')
      BY DEF AccountInv, Sound, Srv, Fields
    <3>3. AccountInv' /\ AccountStep
      <4>1. AccountInv'
        BY <1>2, <3>1, <3>2, AccountVars DEF SessionInv, srvVars
      <4>2. NetStep(net, net)
        BY <1>2, SpareSame, AccountVars DEF SessionInv
      <4> QED
        BY <3>1, <4>1, <4>2 DEF AccountStep, Lasts, NetStep, srvVars
    <3>4. ClientsOwn'
      BY <1>2, <3>1, <3>3, ServerSparesClients
    <3> QED
      BY <2>1, <3>3, <3>4 DEF SessionInv, AccountStep
  <2>5. ServerStep => UNCHANGED cliVars
    BY DEF ServerStep
  <2> QED
    BY <1>2, <2>2, <2>3, <2>4, <2>5 DEF Next
<1> QED
  BY <1>1, <1>2

\* However the handlers of server and clients, the ends of processes and the
\* restarts follow on one another, every field keeps to what its C++ type and its
\* writers allow: a client is signed in only as a user of the system, a frame on
\* a connection or in an entry of the table is a whole one, and no index leaves
\* its array
THEOREM ChatTyped == Spec => []TypeOK
<1>1. SessionInv => TypeOK
  <2> SUFFICES ASSUME SessionInv
               PROVE  TypeOK
    OBVIOUS
  <2>1. /\ AccountsOK(registrar, profiles) /\ SlotsOK(slots)
        /\ nConns <= MAX_CONCURRENCY_LIMIT /\ NetTyped(net)
    BY AccountVars DEF SessionInv
  <2>2. nConns \in 0..MAX_CONCURRENCY_LIMIT
    <3>1. nConns \in Nat
      BY SrvIs DEF SessionInv, DeliveryInv, ChatInv, Good
    <3> QED
      BY <2>1, <3>1, LimitAssumption
  <2>3. \A i \in DOMAIN registrar : registrar[i].user \in Users /\ registrar[i].pwd \in Pwds
    <3>1. registrar \in Seq(Entries(Users, Pwds))
      BY <2>1 DEF AccountsOK, RegistrarOK
    <3>2. \A i \in DOMAIN registrar : registrar[i] \in Entries(Users, Pwds)
      BY <3>1
    <3> QED
      BY <3>2 DEF Entries
  <2>4. \A i \in DOMAIN profiles :
           /\ profiles[i].user \in Users
           /\ \A j \in DOMAIN profiles[i].messages : profiles[i].messages[j] \in UiMessages
    <3>1. profiles \in Seq(Profiles(Users, Seq(UiMessages)))
      BY <2>1 DEF AccountsOK, ProfilesOK
    <3>2. ASSUME NEW i \in DOMAIN profiles
          PROVE  /\ profiles[i].user \in Users
                 /\ \A j \in DOMAIN profiles[i].messages : profiles[i].messages[j] \in UiMessages
      <4>1. profiles[i] \in Profiles(Users, Seq(UiMessages))
        BY <3>1
      <4>2. profiles[i].user \in Users /\ profiles[i].messages \in Seq(UiMessages)
        BY <4>1 DEF Profiles
      <4> QED
        BY <4>2
    <3> QED
      BY <3>2
  <2>5. /\ pc \in {"deques", "poll", "scan", "resume", "down"}
        /\ scanned \in Slots \cup {0}
    <3>1. AtOK /\ nConns \in Nat
      BY SrvIs DEF SessionInv, DeliveryInv, ChatInv, Good
    <3> QED
      BY <2>1, <3>1, LimitAssumption DEF AtOK, Slots
  <2>6. ASSUME NEW k \in Clients
        PROVE  /\ client[k].status \in {"running", "exited"}
               /\ client[k].next \in 1..(Len(script[k]) + 1)
               /\ client[k].loggedInUser \in Users \cup {None}
    <3>1. /\ script \in Scripts /\ MineOK(client[k], net, Names(k))
          /\ client[k].next \in 1..(Len(script[k]) + 1)
      BY DEF SessionInv, ClientsOwn
    <3>2. Names(k) \subseteq Users
      BY <3>1, NamesAre
    <3> QED
      BY <3>1, <3>2 DEF MineOK
  <2> QED
    BY <2>1, <2>2, <2>3, <2>4, <2>5, <2>6 DEF TypeOK, SlotsOK, NetTyped
<1> QED
  BY <1>1, SessionInductive, PTL DEF Spec

\* There is at most one line and one profile for a user, and only a user with a
\* line is signed in, whatever the clients send, whichever connection ends first
\* and whichever process fails
THEOREM ChatAccountsSound == Spec => []AccountsAreSound
<1>1. SessionInv => AccountsAreSound
  <2> SUFFICES ASSUME SessionInv
               PROVE  AccountsAreSound
    OBVIOUS
  <2>1. AccountsOK(registrar, profiles)
    BY AccountVars DEF SessionInv
  <2>2. \A i \in DOMAIN profiles : profiles[i].user \in Online(profiles)
    BY DEF Online
  <2> QED
    BY <2>1, <2>2 DEF AccountsOK, RegistrarOK, ProfilesOK, NoTwoFor, AccountsAreSound
<1> QED
  BY <1>1, SessionInductive, PTL DEF Spec

\* No step of a client or the server, no end of a process and no restart takes a
\* registration back or changes its password
THEOREM ChatRegistrationsLast == Spec => RegistrationsLast
<1>1. SessionInv /\ [Next]_vars =>
          [\A u \in Users : IsIn(registrar, u) =>
               PasswordOf(registrar', u) = PasswordOf(registrar, u)]_vars
  BY SessionInductive DEF Lasts
<1> QED
  BY <1>1, SessionInductive, PTL DEF Spec, RegistrationsLast

\* What a client prints was sent to everybody by another user, or to the user by
\* name, for a user that the client has asked to sign in: no message goes to a
\* client by way of a connection that another user's session, an earlier session
\* of its own or a lost one has left in the table
THEOREM ClientsPrintTheirOwn == Spec => []PrintsOwnMessages
<1>1. SessionInv => PrintsOwnMessages
  <2> SUFFICES ASSUME SessionInv, NEW k \in Clients, NEW j \in DOMAIN client[k].printed
               PROVE  \E u \in Names(k) : MeantFor(client[k].printed[j], u)
    BY DEF PrintsOwnMessages
  <2>1. MineOK(client[k], net, Names(k))
    BY DEF SessionInv, ClientsOwn
  <2>2. client[k].printed[j] \in Range(client[k].printed)
    BY DEF Range
  <2> QED
    BY <2>1, <2>2 DEF MineOK
<1> QED
  BY <1>1, SessionInductive, PTL DEF Spec

\* Whatever commands the clients send, in whatever order the server's loops take
\* the connections, messages and answers, whichever connection fails while it is
\* written to and whichever process ends, each step of the system is one of the
\* abstract accounts or leaves them alone: a password is set once, a user signs
\* in, out or over an earlier session, a mailbox is that of one session, and within
\* it gains only at its end and loses only what is oldest
THEOREM ChatImplementsAccounts == Spec => ServerImplementsAccounts
<1>1. SessionInv /\ [Next]_vars => [Abs!Next]_(Abs!vars)
  <2> SUFFICES ASSUME SessionInv, [Next]_vars
               PROVE  Abs!Next \/ UNCHANGED Abs!vars
    OBVIOUS
  <2>1. ChatInv /\ AccountInv
    BY DEF SessionInv, DeliveryInv
  <2>2. CASE ServerStep \/ StopServer \/ StartServer
    BY <2>1, <2>2, ServerStepMaps, RestartMaps
  <2>3. CASE UNCHANGED srvVars
    <3>1. UNCHANGED <<registrar, profiles, pc>>
      BY <2>3 DEF srvVars
    <3> QED
      BY <3>1 DEF Abs!vars
  <2>4. (\E k \in Clients : ClientStep(k)) => UNCHANGED srvVars
    BY DEF ClientStep
  <2>5. UNCHANGED vars => UNCHANGED srvVars
    BY DEF vars
  <2> QED
    BY <2>2, <2>3, <2>4, <2>5 DEF Next
<1> QED
  BY <1>1, SessionInductive, PTL DEF Spec, ServerImplementsAccounts

\* Whatever the scripts, the sizes of the table and the answers of the kernel, the
\* server ends by a signal or in one of three ways: no other handler and no other
\* pass of a loop follows an index, an entry or a mark that a removal has left
\* behind to a closed descriptor, and no command of a script is unknown to it
THEOREM ServerEndsOnly == Spec => KnownEnds
<1>1. SessionInv /\ [Next]_vars =>
          [pc # "down" /\ pc' = "down" /\ ~StopServer =>
              \/ pc = "resume" /\ scanned > nConns
              \/ /\ pc = "scan"
                 /\ HasCommand(net, slots[scanned].fd)
                 /\ LET cmd  == net[slots[scanned].fd].cmd
                        left == {c \in Conns : net[c].srv = "open" /\ ~net[c].cli}
                    IN  \/ cmd.op = "LIST" /\ profiles = <<>>
                        \/ cmd.op = "SEND_FILE" /\ \E c, d \in left : c # d]_vars
  <2> SUFFICES ASSUME SessionInv, Next, pc # "down", pc' = "down", ~StopServer
               PROVE  \/ pc = "resume" /\ scanned > nConns
                      \/ /\ pc = "scan"
                         /\ HasCommand(net, slots[scanned].fd)
                         /\ LET cmd  == net[slots[scanned].fd].cmd
                                left == {c \in Conns : net[c].srv = "open" /\ ~net[c].cli}
                            IN  \/ cmd.op = "LIST" /\ profiles = <<>>
                                \/ cmd.op = "SEND_FILE" /\ \E c, d \in left : c # d
    OBVIOUS
  <2>1. ChatInv
    BY DEF SessionInv, DeliveryInv
  <2>2. ASSUME NEW c \in Conns, HasCommand(net, c)
        PROVE  net[c].cmd.op \in Commands
    <3>1. ConnOK(net[c])
      BY SrvIs DEF SessionInv, AccountInv, Sound, NetTyped
    <3> QED
      BY <2>2, <3>1 DEF HasCommand, ConnOK, CmdOK, Commands
  <2>3. ~StartServer
    BY DEF StartServer
  <2>4. ~(\E k \in Clients : ClientStep(k))
    BY DEF ClientStep, srvVars
  <2>5. CheckMessageDeques \/ Poll \/ ScanRead \/ ScanWrite
    BY <2>3, <2>4 DEF Next, ServerStep
  <2> QED
    BY <2>1, <2>2, <2>5, KnownEndsOnly
<1> QED
  BY <1>1, SessionInductive, PTL DEF Spec, KnownEnds
=============================================================================
