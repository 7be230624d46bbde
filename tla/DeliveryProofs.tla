--------------------------- MODULE DeliveryProofs ---------------------------
(***************************************************************************)
(* For any clients, scripts, connections and faults: what the server       *)
(* writes on a connection is meant for the user the connection is of.  The *)
(* steps of the server are those of ServerProofs; here are the clients'.   *)
(***************************************************************************)
EXTENDS ServerProofs, FiniteSetTheorems

-----------------------------------------------------------------------------
(* What a client may do to the connections *)

\* What is open at the server stays open, with its command, which stays read once
\* it is, what waits to be accepted waits, and nothing new is on the way to a client
Leaves(n, m) ==
    /\ NetShape(m)
    /\ \A c \in Conns :
          /\ m[c].srv = "open" <=> n[c].srv = "open"
          /\ n[c].srv = "open" => m[c].cmd = n[c].cmd
          /\ n[c].srv = "open" /\ n[c].up = "read" => m[c].up = "read"
          /\ n[c].srv = "backlog" => m[c].srv = "backlog"
          /\ \A f \in Range(m[c].down) : f \in Range(n[c].down) /\ m[c].cmd = n[c].cmd

\* The connections of a client
ClientOK(me) ==
    /\ DOMAIN me = DOMAIN StartState
    /\ IsSeq(me.conns)
    /\ \A e \in Range(me.conns) : e.type \in {"REG", "UI", "FIL"}

\* A state of a client with the network, on the way of a handler that began
\* with network n
ClientGood(x, n) ==
    /\ DOMAIN x = {"me", "net", "backlog"}
    /\ ClientOK(x.me)
    /\ NetShape(x.net)
    /\ Leaves(n, x.net)
    /\ BacklogOK(x.net, x.backlog)

ClientsInv ==
    /\ DOMAIN client = Clients
    /\ \A k \in Clients : ClientOK(client[k])

DeliveryInv == ChatInv /\ ClientsInv

\* The fields of the records
LEMMA ClientShapes ==
    DOMAIN StartState = {"status", "next", "loggedInUser", "unconfirmedLogin",
                         "unconfirmedLogout", "paused", "conns", "printed"}
BY DEF StartState

\* One more step of that kind, to a net with the same queue
LEMMA LeavesStep ==
    ASSUME NEW x, NEW n, ClientGood(x, n), NEW m, Leaves(x.net, m)
    PROVE  /\ Leaves(n, m)
           /\ BacklogOK(m, x.backlog)
           /\ ClientGood([x EXCEPT !.net = m], n)
<1>1. Leaves(n, m)
  BY DEF ClientGood, Leaves
<1>2. BacklogOK(m, x.backlog)
  BY DEF ClientGood, Leaves, BacklogOK
<1> QED
  BY <1>1, <1>2 DEF ClientGood, Leaves

\* A change of the client's own variables but the connections
LEMMA OwnStep ==
    ASSUME NEW x, NEW n, ClientGood(x, n), NEW me, ClientOK(me)
    PROVE  ClientGood([x EXCEPT !.me = me], n)
BY DEF ClientGood

\* Closing a connection at the client
LEMMA ClosedAtClient ==
    ASSUME NEW n, NetShape(n), NEW c
    PROVE  Leaves(n, CloseClient(n, c))
<1> DEFINE m == CloseClient(n, c)
<1>1. /\ DOMAIN n = Conns
      /\ \A d \in Conns : DOMAIN n[d] = {"cli", "srv", "cmd", "up", "down"} /\ IsSeq(n[d].down)
  BY Shapes DEF NetShape
<1>2. \A d \in Conns : d # c => m[d] = n[d]
  BY <1>1 DEF CloseClient
<1>3. DOMAIN m = Conns
  BY <1>1 DEF CloseClient
<1>4. IsSeq(<<>>) /\ Range(<<>>) = {} /\ Closed.down = <<>> /\ Closed.srv = "closed"
  BY EmptyIsSeq DEF Closed
<1>5. ASSUME c \in Conns
      PROVE  /\ DOMAIN m[c] = DOMAIN Closed /\ m[c].down = <<>> /\ m[c].srv = n[c].srv
             /\ n[c].srv # "closed" => m[c].cmd = n[c].cmd /\ m[c].up = n[c].up
  <2>1. CASE n[c].srv = "closed"
    BY <1>1, <1>4, <1>5, <2>1 DEF CloseClient
  <2>2. CASE n[c].srv # "closed"
    <3>1. m[c] = [n[c] EXCEPT !.cli = FALSE, !.down = <<>>]
      BY <1>1, <1>5, <2>2 DEF CloseClient
    <3> HIDE DEF m
    <3> QED
      BY <1>1, <1>5, <3>1, Shapes
  <2> QED
    BY <2>1, <2>2
<1> HIDE DEF m
<1>6. NetShape(m)
  <2> SUFFICES ASSUME NEW d \in Conns
               PROVE  DOMAIN m[d] = DOMAIN Closed /\ IsSeq(m[d].down)
    BY <1>3 DEF NetShape
  <2>1. CASE d = c
    BY <1>4, <1>5, <2>1
  <2>2. CASE d # c
    BY <1>2, <2>2 DEF NetShape
  <2> QED
    BY <2>1, <2>2
<1>7. Leaves(n, m)
  <2> SUFFICES ASSUME NEW d \in Conns
               PROVE  /\ m[d].srv = "open" <=> n[d].srv = "open"
                      /\ n[d].srv = "open" => m[d].cmd = n[d].cmd
                      /\ n[d].srv = "open" /\ n[d].up = "read" => m[d].up = "read"
                      /\ n[d].srv = "backlog" => m[d].srv = "backlog"
                      /\ \A f \in Range(m[d].down) :
                             f \in Range(n[d].down) /\ m[d].cmd = n[d].cmd
    BY <1>6 DEF Leaves
  <2>1. CASE d = c
    BY <1>4, <1>5, <2>1
  <2>2. CASE d # c
    BY <1>2, <2>2
  <2> QED
    BY <2>1, <2>2
<1> QED
  BY <1>7 DEF m

-----------------------------------------------------------------------------
(* The client's operations *)

\* The end of the program
LEMMA ExitLeaves ==
    ASSUME NEW x, NEW n, ClientGood(x, n)
    PROVE  ClientGood(ExitGracefully(x), n) /\ ExitGracefully(x).me.status = "exited"
<1> DEFINE mine == {x.me.conns[i].id : i \in DOMAIN x.me.conns}
           me == [StartState EXCEPT !.status = "exited", !.next = x.me.next]
           m == [c \in Conns |-> IF c \in mine THEN CloseClient(x.net, c)[c] ELSE x.net[c]]
           y == [x EXCEPT !.me = me]
           r == [y EXCEPT !.net = m]
<1>1. ClientOK(me) /\ me.status = "exited"
  <2>1. /\ DOMAIN me = DOMAIN StartState /\ me.conns = StartState.conns
        /\ me.status = "exited"
    BY ClientShapes
  <2>2. IsSeq(StartState.conns) /\ Range(StartState.conns) = {}
    BY EmptyIsSeq DEF StartState
  <2> HIDE DEF me
  <2> QED
    BY <2>1, <2>2 DEF ClientOK
<1>2. NetShape(x.net) /\ DOMAIN x = {"me", "net", "backlog"}
  BY DEF ClientGood
<1>3. \A c \in Conns : Leaves(x.net, CloseClient(x.net, c))
  BY <1>2, ClosedAtClient
<1> HIDE DEF mine, me
<1>4. Leaves(x.net, m)
  <2>1. ASSUME NEW c \in Conns
        PROVE  /\ DOMAIN m[c] = DOMAIN Closed /\ IsSeq(m[c].down)
               /\ m[c].srv = "open" <=> x.net[c].srv = "open"
               /\ x.net[c].srv = "open" => m[c].cmd = x.net[c].cmd
               /\ x.net[c].srv = "open" /\ x.net[c].up = "read" => m[c].up = "read"
               /\ x.net[c].srv = "backlog" => m[c].srv = "backlog"
               /\ \A f \in Range(m[c].down) :
                      f \in Range(x.net[c].down) /\ m[c].cmd = x.net[c].cmd
    <3>1. CASE c \in mine
      <4>1. m[c] = CloseClient(x.net, c)[c]
        BY <3>1
      <4> HIDE DEF m
      <4> QED
        BY <1>3, <4>1 DEF Leaves, NetShape
    <3>2. CASE c \notin mine
      <4>1. m[c] = x.net[c]
        BY <3>2
      <4> HIDE DEF m
      <4> QED
        BY <1>2, <4>1 DEF NetShape
    <3> QED
      BY <3>1, <3>2
  <2>2. DOMAIN m = Conns
    OBVIOUS
  <2> HIDE DEF m
  <2> QED
    BY <2>1, <2>2 DEF Leaves, NetShape
<1> HIDE DEF m
<1>5. ClientGood(y, n) /\ y.net = x.net
  BY <1>1, <1>2, OwnStep
<1> HIDE DEF y
<1>6. ClientGood(r, n) /\ r.me = y.me
  BY <1>4, <1>5, LeavesStep DEF ClientGood
<1>7. ExitGracefully(x) = r
  BY <1>2 DEF ExitGracefully, r, y, m, me, mine
<1>8. y.me = me
  BY <1>2 DEF y
<1> HIDE DEF r
<1> QED
  BY <1>1, <1>6, <1>7, <1>8

\* The end of a connection
LEMMA RemoveLeaves ==
    ASSUME NEW x, NEW n, ClientGood(x, n), NEW i \in DOMAIN x.me.conns
    PROVE  ClientGood(RemoveConn(x, i), n)
<1> DEFINE cs == x.me.conns
           me == [x.me EXCEPT !.conns = RemoveAt(cs, i)]
           m == CloseClient(x.net, cs[i].id)
           y == [x EXCEPT !.me = me]
           r == [y EXCEPT !.net = m]
<1>1. /\ NetShape(x.net) /\ DOMAIN x = {"me", "net", "backlog"} /\ ClientOK(x.me)
      /\ IsSeq(cs) /\ i \in 1..Len(cs) /\ cs \in Seq(Range(cs))
      /\ DOMAIN x.me = DOMAIN StartState
  <2>1. ClientOK(x.me) /\ IsSeq(cs)
    BY DEF ClientGood, ClientOK
  <2> QED
    BY <2>1, SeqElements DEF ClientGood, ClientOK, IsSeq
<1>2. ClientOK(me)
  <2> DEFINE q == RemoveAt(cs, i)
  <2>1. q \in Seq(Range(cs))
    BY <1>1, RemoveAtElements
  <2>2. DOMAIN me = DOMAIN StartState /\ me.conns = q
    BY <1>1, ClientShapes
  <2> HIDE DEF q
  <2>3. IsSeq(q) /\ Range(q) \subseteq Range(cs)
    BY <2>1, SeqIsSeq, LenProperties DEF Range
  <2> HIDE DEF me
  <2> QED
    BY <1>1, <2>2, <2>3 DEF ClientOK
<1>3. Leaves(x.net, m)
  BY <1>1, ClosedAtClient
<1>4. RemoveConn(x, i) = r
  BY <1>1, ClientShapes DEF RemoveConn
<1> HIDE DEF m, me
<1>5. ClientGood(y, n) /\ y.net = x.net
  BY <1>1, <1>2, OwnStep
<1> HIDE DEF y
<1>6. ClientGood(r, n)
  BY <1>3, <1>5, LeavesStep
<1> QED
  BY <1>4, <1>6

\* A client that has not ended has at least l connections, and d more are free
Room(x, l, d) ==
    \/ x.me.status = "exited"
    \/ /\ Len(x.me.conns) >= l
       /\ Cardinality(FreeConns(x.net)) >= d

\* A new connection with a command: it is one that was free
LEMMA IssueLeaves ==
    ASSUME NEW x, NEW n, ClientGood(x, n), NEW type \in {"REG", "UI", "FIL"}, NEW cmd,
           NEW l \in Nat, NEW d \in Nat, Room(x, l, d + 1)
    PROVE  ClientGood(Issue(x, type, cmd), n) /\ Room(Issue(x, type, cmd), l, d)
<1> DEFINE free == FreeConns(x.net)
           c == Min(free)
           how == IF cmd.op \in SlowUp THEN "part" ELSE "sent"
           e == [id |-> c, type |-> type]
           cs == x.me.conns
           me == [x.me EXCEPT !.conns = Append(cs, e)]
           m == WriteUp(Connect(x.net, c), c, cmd, how)
           q == Append(x.backlog, c)
           r == [me |-> me, net |-> m, backlog |-> q]
<1>1. CASE x.me.status = "exited"
  BY <1>1 DEF Issue, Room
<1>2. CASE x.me.status = "running" /\ Len(cs) > MAX_CONNS
  <2>1. Issue(x, type, cmd) = ExitGracefully(x)
    BY <1>2 DEF Issue
  <2> QED
    BY <2>1, ExitLeaves DEF Room
<1>3. CASE x.me.status # "exited" /\ ~(x.me.status = "running" /\ Len(cs) > MAX_CONNS)
  <2>1. /\ DOMAIN x = {"me", "net", "backlog"}
        /\ DOMAIN x.me = DOMAIN StartState
        /\ ClientOK(x.me) /\ IsSeq(cs) /\ BacklogOK(x.net, x.backlog) /\ NetShape(x.net)
        /\ DOMAIN x.net = Conns /\ IsSeq(x.backlog)
    BY DEF ClientGood, ClientOK, BacklogOK, NetShape
  <2>2. Issue(x, type, cmd) = r
    BY <1>3, <2>1, ClientShapes DEF Issue
  <2>3. /\ free \subseteq Conns /\ Conns \subseteq Nat /\ IsFiniteSet(free)
        /\ \A f \in free : x.net[f] = Closed
    BY ConnsAssumption, FS_Subset DEF FreeConns
  <2>4. Cardinality(free) \in Nat /\ Cardinality(free) >= d + 1 /\ Len(cs) >= l
    BY <1>3, <2>3, FS_CardinalityType DEF Room
  <2>5. c \in free
    <3>1. free # {}
      <4> HIDE DEF free
      <4> QED
        BY <2>3, <2>4, FS_EmptySet
    <3>2. free \subseteq Nat
      BY <2>3
    <3> HIDE DEF free
    <3> QED
      BY <3>1, <3>2, MinIsIn
  <2> HIDE DEF c, how
  <2>6. c \in Conns /\ x.net[c] = Closed
    BY <2>3, <2>5
  <2>7. /\ IsSeq(<<>>) /\ Range(<<>>) = {} /\ Closed.srv = "closed" /\ Closed.cli = FALSE
        /\ Closed.down = <<>>
    BY EmptyIsSeq DEF Closed
  <2>8. /\ DOMAIN m = Conns
        /\ \A f \in Conns : f # c => m[f] = x.net[f]
        /\ DOMAIN m[c] = DOMAIN Closed
        /\ m[c].srv = "backlog" /\ m[c].down = <<>> /\ m[c].cli = TRUE
    BY <2>1, <2>6, Shapes DEF WriteUp, Connect
  <2> HIDE DEF m
  <2>9. NetShape(m) /\ Leaves(x.net, m)
    BY <2>1, <2>6, <2>7, <2>8 DEF NetShape, Leaves
  <2>10. BacklogOK(m, q)
    <3>1. BacklogOK(m, x.backlog)
      BY <2>9, LeavesStep
    <3>2. \A i \in DOMAIN x.backlog : x.backlog[i] # c
      BY <2>1, <2>6, <2>7 DEF BacklogOK
    <3>3. /\ Len(x.backlog) \in Nat /\ DOMAIN x.backlog = 1..Len(x.backlog)
          /\ IsSeq(q) /\ Len(q) = Len(x.backlog) + 1
          /\ \A i \in 1..Len(x.backlog) : q[i] = x.backlog[i]
          /\ q[Len(x.backlog) + 1] = c
      BY <2>1, SeqAppend, SeqElements
    <3>4. DOMAIN q = 1..(Len(x.backlog) + 1)
      BY <3>3, SeqElements
    <3> HIDE DEF q
    <3>5. \A i \in DOMAIN q : i \in DOMAIN x.backlog \/ i = Len(x.backlog) + 1
      BY <3>3, <3>4
    <3>6. \A i \in DOMAIN q : q[i] \in Conns /\ m[q[i]].srv = "backlog"
      BY <2>6, <2>8, <3>1, <3>3, <3>5 DEF BacklogOK
    <3>7. \A i, j \in DOMAIN q : q[i] = q[j] => i = j
      BY <3>1, <3>2, <3>3, <3>5 DEF BacklogOK
    <3> QED
      BY <3>3, <3>6, <3>7 DEF BacklogOK
  <2>11. ClientOK(me) /\ Len(me.conns) = Len(cs) + 1
    <3> DEFINE es == Append(cs, e)
    <3>1. IsSeq(es) /\ Len(es) = Len(cs) + 1 /\ \A f \in Range(es) : f = e \/ f \in Range(cs)
      BY <2>1, SeqAppend
    <3> HIDE DEF es
    <3>2. DOMAIN me = DOMAIN StartState /\ me.conns = es
      BY <2>1, ClientShapes DEF es
    <3> HIDE DEF me
    <3> QED
      BY <2>1, <3>1, <3>2 DEF ClientOK
  <2> HIDE DEF q, me
  <2>12. Leaves(n, m)
    BY <2>9, LeavesStep
  <2>13. ClientGood(r, n)
    BY <2>9, <2>10, <2>11, <2>12 DEF ClientGood
  <2>14. FreeConns(m) = free \ {c}
    <3>1. m[c] # Closed
      BY <2>7, <2>8
    <3> QED
      BY <2>8, <3>1 DEF FreeConns
  <2>15. Cardinality(FreeConns(m)) >= d
    <3> HIDE DEF free
    <3>1. Cardinality(free \ {c}) = Cardinality(free) - 1
      BY <2>3, <2>5, FS_RemoveElement
    <3> QED
      BY <2>4, <2>14, <3>1
  <2>16. Len(me.conns) >= l
    BY <2>1, <2>4, <2>11, SeqElements
  <2>17. Room(r, l, d)
    BY <2>15, <2>16 DEF Room
  <2> QED
    BY <2>2, <2>13, <2>17
<1> QED
  BY <1>1, <1>2, <1>3

\* The recursive functions behind the loops of the set-up and of the end of a
\* session, over the numbers 1..n
LoopStep(loop, x, j, u) ==
    CASE loop = "setup" -> Issue(x, "FIL", Setup("FILE_CONN", u))
      [] loop = "close" -> IF j <= Len(x.me.conns) /\ x.me.conns[j].type # "REG"
                           THEN RemoveConn(x, j) ELSE x

IsLoop(f, n, loop, x, js, u) ==
    f = [t \in SUBSET (1..n) |->
            IF t = {} THEN x ELSE LoopStep(loop, f[t \ {Max(t)}], js[Max(t)], u)]

\* There is one
LEMMA LoopExists ==
    ASSUME NEW loop, NEW x, NEW js, NEW u
    PROVE  \A n \in Nat : \E f : IsLoop(f, n, loop, x, js, u)
<1> DEFINE S == {n \in Nat : \E f : IsLoop(f, n, loop, x, js, u)}
           Op(y, j) == LoopStep(loop, y, js[j], u)
<1>1. 0 \in S
  <2> DEFINE f == [t \in SUBSET (1..0) |-> x]
  <2>1. 1..0 = {}
    OBVIOUS
  <2>2. IsLoop(f, 0, loop, x, js, u)
    BY <2>1 DEF IsLoop
  <2> QED
    BY <2>2
<1>2. ASSUME NEW n \in Nat, n \in S
      PROVE  n + 1 \in S
  <2>1. PICK f : IsLoop(f, n, loop, x, js, u)
    BY <1>2
  <2> DEFINE g == [t \in SUBSET (1..(n + 1)) |->
                      IF n + 1 \in t THEN Op(f[t \ {n + 1}], n + 1) ELSE f[t]]
  <2> HIDE DEF Op
  <2>2. ASSUME NEW t \in SUBSET (1..n)
        PROVE  f[t] = IF t = {} THEN x ELSE Op(f[t \ {Max(t)}], Max(t))
    BY <2>1 DEF IsLoop, Op
  <2>3. ASSUME NEW t \in SUBSET (1..(n + 1))
        PROVE  g[t] = IF t = {} THEN x ELSE Op(g[t \ {Max(t)}], Max(t))
    <3>1. CASE n + 1 \in t
      <4>1. Max(t) = n + 1
        <5>1. n + 1 \in Nat /\ t \subseteq 1..(n + 1)
          OBVIOUS
        <5> QED
          BY <3>1, <5>1, MaxIs
      <4>2. t \ {n + 1} \in SUBSET (1..n) /\ t \ {n + 1} \in SUBSET (1..(n + 1))
        OBVIOUS
      <4>3. g[t \ {n + 1}] = f[t \ {n + 1}]
        BY <4>2
      <4>4. g[t] = Op(f[t \ {n + 1}], n + 1)
        BY <3>1
      <4> HIDE DEF g
      <4> QED
        BY <3>1, <4>1, <4>3, <4>4
    <3>2. CASE n + 1 \notin t
      <4>1. t \in SUBSET (1..n)
        BY <3>2
      <4>2. g[t] = f[t]
        BY <3>2
      <4>3. t \ {Max(t)} \in SUBSET (1..(n + 1)) /\ n + 1 \notin t \ {Max(t)}
        BY <3>2
      <4>4. g[t \ {Max(t)}] = f[t \ {Max(t)}]
        BY <4>3
      <4> HIDE DEF g
      <4> QED
        BY <2>2, <4>1, <4>2, <4>4
    <3> QED
      BY <3>1, <3>2
  <2>4. g = [t \in SUBSET (1..(n + 1)) |-> g[t]]
    OBVIOUS
  <2> HIDE DEF g
  <2>5. IsLoop(g, n + 1, loop, x, js, u)
    BY <2>3, <2>4 DEF IsLoop, Op
  <2>6. \E h : IsLoop(h, n + 1, loop, x, js, u)
    BY <2>5
  <2> QED
    BY <2>6
<1> HIDE DEF S
<1>3. Nat \subseteq S
  BY <1>1, <1>2, SetInduction
<1> QED
  BY <1>3 DEF S

\* One pass of it
LEMMA LoopNext ==
    ASSUME NEW loop, NEW x, NEW js, NEW u, NEW n \in Nat, NEW f,
           IsLoop(f, n, loop, x, js, u)
    PROVE  /\ f[1..0] = x
           /\ \A k \in Nat : k + 1 <= n =>
                  f[1..(k + 1)] = LoopStep(loop, f[1..k], js[k + 1], u)
<1>1. f[1..0] = x
  <2>1. 1..0 = {} /\ {} \in SUBSET (1..n)
    OBVIOUS
  <2> QED
    BY <2>1 DEF IsLoop
<1>2. ASSUME NEW k \in Nat, k + 1 <= n
      PROVE  f[1..(k + 1)] = LoopStep(loop, f[1..k], js[k + 1], u)
  <2> DEFINE t == 1..(k + 1)
  <2>1. Max(t) = k + 1
    BY MaxIs
  <2>2. t \in SUBSET (1..n) /\ t # {} /\ t \ {k + 1} = 1..k
    BY <1>2
  <2>3. f[t] = LoopStep(loop, f[t \ {Max(t)}], js[Max(t)], u)
    BY <2>2 DEF IsLoop
  <2> QED
    BY <2>1, <2>2, <2>3
<1> QED
  BY <1>1, <1>2

\* The connections of a session, as long as there are enough free
LEMMA SetupLeaves ==
    ASSUME NEW x, NEW n, ClientGood(x, n), NEW l \in Nat, Room(x, l, FILE_CONNS + 1)
    PROVE  ClientGood(SetupSession(x), n) /\ Room(SetupSession(x), l, 0)
<1> DEFINE u == x.me.loggedInUser
           first == Issue(x, "UI", Setup("UI_CONN", u))
           js == [j \in 1..FILE_CONNS |-> j]
           f == CHOOSE g : IsLoop(g, FILE_CONNS, "setup", first, js, u)
           T == {k \in Nat : k <= FILE_CONNS => /\ ClientGood(f[1..k], n)
                                                /\ Room(f[1..k], l, FILE_CONNS - k)}
<1>1. FILE_CONNS \in Nat /\ DOMAIN js = 1..FILE_CONNS
  BY FileConnsAssumption
<1>2. SetupSession(x) = f[1..FILE_CONNS]
  BY <1>1 DEF SetupSession, FoldLeft, MapThenFoldSet, IsLoop, LoopStep
<1>3. ClientGood(first, n) /\ Room(first, l, FILE_CONNS)
  BY <1>1, IssueLeaves
<1> HIDE DEF first, js
<1>4. IsLoop(f, FILE_CONNS, "setup", first, js, u)
  BY <1>1, LoopExists
<1> HIDE DEF f
<1>5. /\ f[1..0] = first
      /\ \A k \in Nat : k + 1 <= FILE_CONNS =>
             f[1..(k + 1)] = LoopStep("setup", f[1..k], js[k + 1], u)
  BY <1>1, <1>4, LoopNext
<1>6. 0 \in T
  BY <1>1, <1>3, <1>5
<1>7. ASSUME NEW k \in Nat, k \in T
      PROVE  k + 1 \in T
  <2> SUFFICES ASSUME k + 1 <= FILE_CONNS
               PROVE  /\ ClientGood(f[1..(k + 1)], n)
                      /\ Room(f[1..(k + 1)], l, FILE_CONNS - (k + 1))
    OBVIOUS
  <2> DEFINE y == f[1..k]
             d == FILE_CONNS - (k + 1)
  <2>1. d \in Nat /\ d + 1 = FILE_CONNS - k /\ k <= FILE_CONNS
    BY <1>1
  <2>2. ClientGood(y, n) /\ Room(y, l, d + 1)
    BY <1>7, <2>1
  <2>3. f[1..(k + 1)] = Issue(y, "FIL", Setup("FILE_CONN", u))
    BY <1>5 DEF LoopStep
  <2> HIDE DEF y, d
  <2>4. /\ ClientGood(Issue(y, "FIL", Setup("FILE_CONN", u)), n)
        /\ Room(Issue(y, "FIL", Setup("FILE_CONN", u)), l, d)
    BY <2>1, <2>2, IssueLeaves
  <2> QED
    BY <2>3, <2>4 DEF d
<1> HIDE DEF T
<1>8. Nat \subseteq T
  BY <1>6, <1>7, SetInduction
<1>9. FILE_CONNS \in T /\ FILE_CONNS - FILE_CONNS = 0 /\ FILE_CONNS <= FILE_CONNS
  BY <1>1, <1>8
<1> QED
  BY <1>2, <1>9 DEF T

\* The end of a session, whichever of its connections the loop closes
LEMMA DisconnectLeaves ==
    ASSUME NEW x, NEW n, ClientGood(x, n)
    PROVE  ClientGood(DisconnectFromServer(x), n)
<1> DEFINE len == Len(x.me.conns)
           js == [i \in DOMAIN x.me.conns |-> i]
           u == x.me.loggedInUser
           f == CHOOSE g : IsLoop(g, len, "close", x, js, u)
           T == {k \in Nat : k <= len => ClientGood(f[1..k], n)}
<1>1. len \in Nat /\ DOMAIN x.me.conns = 1..len
  BY SeqElements DEF ClientGood, ClientOK
<1>2. DOMAIN js = 1..len /\ \A k \in 1..len : js[k] = k
  BY <1>1
<1>3. DisconnectFromServer(x) = f[1..len]
  <2>1. DisconnectFromServer(x)
            = FoldLeft(LAMBDA y, i : IF i <= Len(y.me.conns) /\ y.me.conns[i].type # "REG"
                                     THEN RemoveConn(y, i) ELSE y, x, js)
    BY DEF DisconnectFromServer
  <2> HIDE DEF js
  <2> QED
    BY <1>2, <2>1 DEF FoldLeft, MapThenFoldSet, IsLoop, LoopStep
<1> HIDE DEF js, len, u
<1>4. IsLoop(f, len, "close", x, js, u)
  BY <1>1, LoopExists
<1> HIDE DEF f
<1>5. /\ f[1..0] = x
      /\ \A k \in Nat : k + 1 <= len =>
             f[1..(k + 1)] = LoopStep("close", f[1..k], js[k + 1], u)
  <2>1. len \in Nat
    BY <1>1
  <2> QED
    BY <1>4, <2>1, LoopNext
<1>6. 0 \in T
  BY <1>1, <1>5
<1>7. ASSUME NEW k \in Nat, k \in T
      PROVE  k + 1 \in T
  <2> SUFFICES ASSUME k + 1 <= len
               PROVE  ClientGood(f[1..(k + 1)], n)
    OBVIOUS
  <2> DEFINE y == f[1..k]
             j == k + 1
  <2>1. ClientGood(y, n) /\ js[j] = j
    BY <1>1, <1>2, <1>7
  <2>2. f[1..(k + 1)] = LoopStep("close", y, j, u)
    BY <1>5, <2>1
  <2> HIDE DEF y
  <2>3. CASE ~(j <= Len(y.me.conns) /\ y.me.conns[j].type # "REG")
    BY <2>1, <2>2, <2>3 DEF LoopStep
  <2>4. CASE j <= Len(y.me.conns) /\ y.me.conns[j].type # "REG"
    <3>1. j \in DOMAIN y.me.conns
      BY <2>1, <2>4, SeqElements DEF ClientGood, ClientOK
    <3>2. ClientGood(RemoveConn(y, j), n)
      BY <2>1, <3>1, RemoveLeaves
    <3> QED
      BY <2>2, <2>4, <3>2 DEF LoopStep
  <2> QED
    BY <2>3, <2>4
<1> HIDE DEF T
<1>8. Nat \subseteq T
  BY <1>6, <1>7, SetInduction
<1>9. len \in T /\ len <= len
  BY <1>1, <1>8
<1> QED
  BY <1>3, <1>9 DEF T

-----------------------------------------------------------------------------
(* What arrives at a client *)

\* A response on entry i
LEMMA ResponseLeaves ==
    ASSUME NEW x, NEW n, ClientGood(x, n), NEW i \in DOMAIN x.me.conns, NEW frame,
           frame.status = "LOGGED_IN" => Room(x, Len(x.me.conns), FILE_CONNS + 1)
    PROVE  ClientGood(HandleResponse(x, i, frame), n)
<1> DEFINE in == [x.me EXCEPT !.unconfirmedLogin = FALSE,
                              !.loggedInUser = frame.user,
                              !.printed = <<>>]
           out == [x.me EXCEPT !.unconfirmedLogout = FALSE,
                               !.loggedInUser = None,
                               !.printed = <<>>]
           xin == [x EXCEPT !.me = in]
           xout == [x EXCEPT !.me = out]
           y == SetupSession(xin)
           l == Len(x.me.conns)
<1>1. /\ DOMAIN x = {"me", "net", "backlog"} /\ ClientOK(x.me)
      /\ DOMAIN x.me = DOMAIN StartState
      /\ l \in Nat /\ DOMAIN x.me.conns = 1..l
  BY SeqElements DEF ClientGood, ClientOK
<1>2. /\ DOMAIN in = DOMAIN StartState /\ in.conns = x.me.conns /\ in.status = x.me.status
      /\ DOMAIN out = DOMAIN StartState /\ out.conns = x.me.conns
  BY <1>1, ClientShapes
<1>3. /\ [x EXCEPT !.me.unconfirmedLogin = FALSE, !.me.loggedInUser = frame.user,
                   !.me.printed = <<>>] = xin
      /\ [x EXCEPT !.me.unconfirmedLogout = FALSE, !.me.loggedInUser = None,
                   !.me.printed = <<>>] = xout
  BY <1>1, ClientShapes
<1> HIDE DEF in, out
<1>4. ClientOK(in) /\ ClientOK(out)
  BY <1>1, <1>2 DEF ClientOK
<1>5. ClientGood(xin, n) /\ ClientGood(xout, n) /\ xin.me = in /\ xin.net = x.net
  BY <1>1, <1>4, OwnStep
<1> HIDE DEF xin, xout
<1>6. ClientGood(DisconnectFromServer(xout), n)
  BY <1>5, DisconnectLeaves
<1>7. ClientGood(RemoveConn(x, i), n)
  BY RemoveLeaves
<1>8. ASSUME frame.status = "LOGGED_IN"
      PROVE  ClientGood(IF y.me.status = "running" THEN RemoveConn(y, i) ELSE y, n)
  <2>1. Room(xin, l, FILE_CONNS + 1)
    BY <1>2, <1>5, <1>8 DEF Room
  <2>2. ClientGood(y, n) /\ Room(y, l, 0)
    BY <1>1, <1>5, <2>1, SetupLeaves
  <2> HIDE DEF y
  <2>3. CASE y.me.status = "running"
    <3>1. Len(y.me.conns) \in Nat /\ DOMAIN y.me.conns = 1..Len(y.me.conns)
      BY <2>2, SeqElements DEF ClientGood, ClientOK
    <3>2. Len(y.me.conns) >= l
      BY <2>2, <2>3 DEF Room
    <3>3. i \in DOMAIN y.me.conns
      BY <1>1, <3>1, <3>2
    <3> QED
      BY <2>2, <2>3, <3>3, RemoveLeaves
  <2> QED
    BY <2>2, <2>3
<1> HIDE DEF y
<1> QED
  BY <1>3, <1>6, <1>7, <1>8 DEF HandleResponse, y

\* A frame on entry i
LEMMA FrameLeaves ==
    ASSUME NEW x, NEW n, ClientGood(x, n), NEW i \in DOMAIN x.me.conns,
           x.net[x.me.conns[i].id].down # <<>>,
           (/\ x.me.conns[i].type = "REG"
            /\ Head(x.net[x.me.conns[i].id].down).status = "LOGGED_IN")
                => Cardinality(FreeConns(x.net)) > FILE_CONNS
    PROVE  ClientGood(RecvFrame(x, i), n)
<1> DEFINE conn == x.me.conns[i]
           c == conn.id
           frame == Head(x.net[c].down)
           m == [x.net EXCEPT ![c].down = Tail(@)]
           r == [x EXCEPT !.net = m]
<1>1. /\ DOMAIN x = {"me", "net", "backlog"} /\ ClientOK(x.me) /\ NetShape(x.net)
      /\ DOMAIN x.me = DOMAIN StartState
      /\ DOMAIN x.net = Conns
      /\ \A d \in Conns : /\ DOMAIN x.net[d] = {"cli", "srv", "cmd", "up", "down"}
                          /\ IsSeq(x.net[d].down)
  BY Shapes DEF ClientGood, ClientOK, NetShape
<1>2. conn.type \in {"REG", "UI", "FIL"}
  BY <1>1 DEF ClientOK, Range
<1>3. \A d \in Conns : d # c => m[d] = x.net[d]
  BY <1>1
<1>4. ASSUME c \in Conns
      PROVE  /\ DOMAIN m[c] = DOMAIN Closed /\ m[c].srv = x.net[c].srv
             /\ m[c].cmd = x.net[c].cmd /\ m[c].up = x.net[c].up
             /\ m[c].down = Tail(x.net[c].down)
             /\ IsSeq(m[c].down) /\ Range(m[c].down) \subseteq Range(x.net[c].down)
  <2>1. /\ DOMAIN m[c] = DOMAIN Closed /\ m[c].srv = x.net[c].srv
        /\ m[c].cmd = x.net[c].cmd /\ m[c].up = x.net[c].up
        /\ m[c].down = Tail(x.net[c].down)
    BY <1>1, <1>4, Shapes
  <2>2. /\ IsSeq(Tail(x.net[c].down))
        /\ Range(Tail(x.net[c].down)) \subseteq Range(x.net[c].down)
    BY <1>1, <1>4, SeqTail
  <2> HIDE DEF m
  <2> QED
    BY <2>1, <2>2
<1>5. DOMAIN m = Conns
  BY <1>1
<1>6. [x EXCEPT !.net[c].down = Tail(@)] = r
  BY <1>1
<1> HIDE DEF m
<1>7. Leaves(x.net, m)
  BY <1>1, <1>3, <1>4, <1>5 DEF Leaves, NetShape
<1>8. ClientGood(r, n) /\ r.me = x.me /\ r.net = m
  BY <1>1, <1>7, LeavesStep
<1> HIDE DEF r
<1>9. ASSUME conn.type = "REG", frame.status = "LOGGED_IN"
      PROVE  Room(r, Len(r.me.conns), FILE_CONNS + 1)
  <2>1. Cardinality(FreeConns(x.net)) > FILE_CONNS
    BY <1>9
  <2>2. FreeConns(x.net) \subseteq FreeConns(m)
    <3>1. Closed.down = <<>>
      BY DEF Closed
    <3> QED
      BY <1>3, <3>1 DEF FreeConns
  <2>3. IsFiniteSet(FreeConns(m)) /\ IsFiniteSet(FreeConns(x.net))
    BY ConnsAssumption, FS_Subset DEF FreeConns
  <2>4. /\ Cardinality(FreeConns(m)) \in Nat /\ Cardinality(FreeConns(x.net)) \in Nat
        /\ Cardinality(FreeConns(x.net)) <= Cardinality(FreeConns(m))
    BY <2>2, <2>3, FS_Subset, FS_CardinalityType
  <2>5. Cardinality(FreeConns(m)) >= FILE_CONNS + 1
    BY <2>1, <2>4, FileConnsAssumption
  <2>6. Len(r.me.conns) >= Len(r.me.conns)
    BY <1>8, SeqElements DEF ClientGood, ClientOK
  <2> QED
    BY <1>8, <2>5, <2>6 DEF Room
<1>10. i \in DOMAIN r.me.conns
  BY <1>8
<1>11. CASE conn.type = "UI"
  <2> DEFINE me == [r.me EXCEPT !.printed = Append(r.me.printed, frame)]
  <2>1. DOMAIN me = DOMAIN StartState /\ me.conns = r.me.conns
    BY <1>1, <1>8, ClientShapes
  <2> HIDE DEF me
  <2>2. ClientOK(me)
    BY <1>8, <2>1 DEF ClientGood, ClientOK
  <2>3. ClientGood([r EXCEPT !.me = me], n)
    BY <1>8, <2>2, OwnStep
  <2>4. [r EXCEPT !.me.printed = Append(@, frame)] = [r EXCEPT !.me = me]
    BY <1>8 DEF ClientGood, me
  <2>5. ClientGood(ExitGracefully(r), n)
    BY <1>8, ExitLeaves
  <2>6. ClientGood(HandleMsg(r, frame), n)
    BY <1>8, <2>3, <2>4, <2>5 DEF HandleMsg
  <2> QED
    BY <1>6, <1>11, <2>6 DEF RecvFrame
<1>12. CASE conn.type = "FIL"
  <2>1. ClientGood(ExitGracefully(r), n)
    BY <1>8, ExitLeaves
  <2>2. ClientGood(HandleFile(r, frame), n)
    BY <1>8, <2>1 DEF HandleFile
  <2> QED
    BY <1>6, <1>12, <2>2 DEF RecvFrame
<1>13. CASE conn.type = "REG"
  <2> DEFINE g == frame
  <2>1. g.status = "LOGGED_IN" => Room(r, Len(r.me.conns), FILE_CONNS + 1)
    BY <1>9, <1>13
  <2>2. RecvFrame(x, i) = HandleResponse(r, i, g)
    BY <1>6, <1>13 DEF RecvFrame
  <2> HIDE DEF g
  <2>3. ClientGood(HandleResponse(r, i, g), n)
    BY <1>8, <1>10, <2>1, ResponseLeaves
  <2> QED
    BY <2>2, <2>3
<1> QED
  BY <1>2, <1>11, <1>12, <1>13

-----------------------------------------------------------------------------
(* The clients' actions *)

\* A handler begins with the connections as they are
LEMMA CliGood ==
    ASSUME DeliveryInv, NEW k \in Clients
    PROVE  /\ ClientGood(Cli(k), net)
           /\ Cli(k).me = client[k] /\ Cli(k).net = net /\ Cli(k).backlog = backlog
           /\ DOMAIN Cli(k) = {"me", "net", "backlog"}
           /\ DOMAIN client[k] = DOMAIN StartState
<1> DEFINE x == Cli(k)
           t == Srv
<1>1. /\ x.me = client[k] /\ x.net = net /\ x.backlog = backlog
      /\ DOMAIN x = {"me", "net", "backlog"}
  BY DEF Cli
<1>2. ClientOK(client[k]) /\ DOMAIN client[k] = DOMAIN StartState
  BY DEF DeliveryInv, ClientsInv, ClientOK
<1>3. Good(t, LastUsed, backlog) /\ t.up = TRUE /\ t.net = net
  BY DEF DeliveryInv, ChatInv, Srv
<1> HIDE DEF x, t
<1>4. NetShape(net) /\ BacklogOK(net, backlog)
  BY <1>3 DEF Good
<1>5. Leaves(net, net)
  BY <1>4 DEF Leaves
<1>6. ClientGood(x, net)
  BY <1>1, <1>2, <1>4, <1>5 DEF ClientGood
<1> QED
  BY <1>1, <1>2, <1>6 DEF x

\* What a client leaves of the connections is as good for the server as before
LEMMA BecomeInv ==
    ASSUME DeliveryInv, NEW k \in Clients, NEW x, ClientGood(x, net), Become(k, x),
           UNCHANGED srvVars
    PROVE  DeliveryInv'
<1> DEFINE s == Srv
           t == Srv'
           b == LastUsed
<1>1. Good(s, b, backlog) /\ AtOK
  BY DEF DeliveryInv, ChatInv
<1>2. LastUsed' = b /\ AtOK'
  BY <1>1 DEF srvVars, LastUsed, AtOK
<1>3. /\ DOMAIN t = Fields /\ t.slots = s.slots /\ t.nConns = s.nConns
      /\ t.profiles = s.profiles /\ t.net = x.net /\ s.net = net
  BY DEF Srv, srvVars, Become, Fields
<1>4. /\ Leaves(net, x.net) /\ NetShape(x.net) /\ BacklogOK(x.net, x.backlog)
      /\ ClientOK(x.me) /\ backlog' = x.backlog
      /\ client' = [client EXCEPT ![k] = x.me]
  BY DEF ClientGood, Become
<1> HIDE DEF s, t, b
<1>5. \A c : /\ Open(x.net, c) <=> Open(net, c)
             /\ Open(net, c) => x.net[c].cmd = net[c].cmd
             /\ Open(net, c) /\ net[c].up = "read" => x.net[c].up = "read"
  BY <1>4 DEF Leaves, Open
<1>6. NetOK(x.net)
  <2> SUFFICES ASSUME NEW c \in Conns, NEW f \in Range(x.net[c].down)
               PROVE  Fits(f, x.net[c].cmd)
    BY DEF NetOK
  <2>1. f \in Range(net[c].down) /\ x.net[c].cmd = net[c].cmd
    BY <1>4 DEF Leaves
  <2> QED
    BY <1>1, <1>3, <2>1 DEF Good, NetOK
<1>7. LiveOpen(t) /\ OutFits(t, b)
  BY <1>1, <1>3, <1>5 DEF Good, LiveOpen, OutFits
<1>8. Apart(t, b) /\ Waiting(t, b) /\ Known(t)
  BY <1>1, <1>3, <1>5 DEF Good, Apart, Waiting, Known, Open
<1>9. Declared(t, b)
  <2> SUFFICES ASSUME NEW i \in 1..b, Open(t.net, t.slots[i].fd)
               PROVE  DeclaredAs(t.slots[i], t.net[t.slots[i].fd])
    BY DEF Declared
  <2> DEFINE c == s.slots[i].fd
  <2>1. /\ t.slots[i] = s.slots[i] /\ Open(net, c)
        /\ x.net[c].cmd = net[c].cmd
        /\ net[c].up = "read" => x.net[c].up = "read"
    BY <1>3, <1>5
  <2>2. DeclaredAs(s.slots[i], net[c])
    BY <1>1, <1>3, <2>1 DEF Good, Declared
  <2> HIDE DEF c
  <2>3. DeclaredAs(s.slots[i], x.net[c])
    BY <2>1, <2>2 DEF DeclaredAs
  <2> QED
    BY <1>3, <2>1, <2>3 DEF c
<1>10. Good(t, b, backlog')
  BY <1>1, <1>3, <1>4, <1>6, <1>7, <1>8, <1>9 DEF Good
<1>11. ClientsInv'
  BY <1>4 DEF DeliveryInv, ClientsInv
<1> QED
  BY <1>2, <1>10, <1>11 DEF DeliveryInv, ChatInv, t

\* Starting a command
LEMMA StartCommandInv ==
    ASSUME DeliveryInv, NEW k \in Clients, NEW up, StartCommand(k, up), UNCHANGED srvVars
    PROVE  DeliveryInv'
<1> DEFINE me == client[k]
           c == script[k][me.next]
           cmd == [op |-> c.op, name |-> c.name, pwd |-> c.pwd, id |-> <<k, me.next>>,
                   user |-> IF c.op \in {"LOGIN", "REGISTER"} THEN None ELSE me.loggedInUser]
           x == [Cli(k) EXCEPT !.me.next = @ + 1,
                               !.me.paused = c.op = "DELAY",
                               !.me.unconfirmedLogin = @ \/ (c.op = "LOGIN" /\ Passes(me, c.op)),
                               !.me.unconfirmedLogout = @ \/ (c.op = "LOGOUT" /\ Passes(me, c.op))]
           mine == [me EXCEPT !.next = @ + 1,
                              !.paused = c.op = "DELAY",
                              !.unconfirmedLogin = @ \/ (c.op = "LOGIN" /\ Passes(me, c.op)),
                              !.unconfirmedLogout = @ \/ (c.op = "LOGOUT" /\ Passes(me, c.op))]
           y == [Cli(k) EXCEPT !.me = mine]
<1>1. /\ FreeConns(net) # {}
      /\ \E read \in IsReadable(c.op) :
            Become(k, CASE ~(Passes(me, c.op) /\ read)   -> x
                        [] Passes(me, c.op) /\ read /\ up  -> Issue(x, "REG", cmd)
                        [] Passes(me, c.op) /\ read /\ ~up -> ExitGracefully(x))
  BY DEF StartCommand
<1>2. /\ ClientGood(Cli(k), net) /\ Cli(k).me = me /\ Cli(k).net = net
      /\ DOMAIN Cli(k) = {"me", "net", "backlog"}
      /\ ClientOK(me) /\ DOMAIN me = DOMAIN StartState
  BY CliGood DEF DeliveryInv, ClientsInv
<1> HIDE DEF cmd
<1>3. x = y
  BY <1>2, ClientShapes
<1>4. DOMAIN mine = DOMAIN StartState /\ mine.conns = me.conns
  BY <1>2, ClientShapes
<1> HIDE DEF mine
<1>5. ClientOK(mine)
  BY <1>2, <1>4 DEF ClientOK
<1>6. ClientGood(y, net) /\ y.net = net /\ y.me = mine
  BY <1>2, <1>5, OwnStep
<1> HIDE DEF x, y
<1>7. Room(y, 0, 1)
  <2>1. IsFiniteSet(FreeConns(net))
    BY ConnsAssumption, FS_Subset DEF FreeConns
  <2>2. Cardinality(FreeConns(net)) \in Nat /\ Cardinality(FreeConns(net)) # 0
    BY <1>1, <2>1, FS_CardinalityType, FS_EmptySet
  <2>3. Len(y.me.conns) \in Nat
    BY <1>6, SeqElements DEF ClientGood, ClientOK
  <2> QED
    BY <1>6, <2>2, <2>3 DEF Room
<1>8. ClientGood(Issue(y, "REG", cmd), net)
  <2>1. 0 \in Nat /\ 0 + 1 = 1 /\ "REG" \in {"REG", "UI", "FIL"}
    OBVIOUS
  <2>2. Room(y, 0, 0 + 1)
    BY <1>7, <2>1
  <2> QED
    BY <1>6, <2>1, <2>2, IssueLeaves
<1>9. ClientGood(ExitGracefully(y), net)
  BY <1>6, ExitLeaves
<1>10. \E z : ClientGood(z, net) /\ Become(k, z)
  <2>1. PICK read \in IsReadable(c.op) :
            Become(k, CASE ~(Passes(me, c.op) /\ read)   -> y
                        [] Passes(me, c.op) /\ read /\ up  -> Issue(y, "REG", cmd)
                        [] Passes(me, c.op) /\ read /\ ~up -> ExitGracefully(y))
    BY <1>1, <1>3
  <2>2. CASE ~(Passes(me, c.op) /\ read)
    BY <1>6, <2>1, <2>2
  <2>3. CASE Passes(me, c.op) /\ read /\ up
    BY <1>8, <2>1, <2>3
  <2>4. CASE Passes(me, c.op) /\ read /\ ~up
    BY <1>9, <2>1, <2>4
  <2> QED
    BY <2>2, <2>3, <2>4
<1> QED
  BY <1>10, BecomeInv

\* Writing the rest of a command
LEMMA SendRestInv ==
    ASSUME DeliveryInv, NEW k \in Clients, NEW i \in DOMAIN client[k].conns,
           SendRest(k, i), UNCHANGED srvVars
    PROVE  DeliveryInv'
<1> DEFINE c == client[k].conns[i].id
           m == [net EXCEPT ![c].up = "sent"]
           y == [Cli(k) EXCEPT !.net = m]
<1>1. \/ Become(k, [Cli(k) EXCEPT !.net[c].up = "sent"])
      \/ Become(k, RemoveConn(Cli(k), i))
      \/ Become(k, ExitGracefully(Cli(k)))
  BY DEF SendRest
<1>2. /\ ClientGood(Cli(k), net) /\ Cli(k).me = client[k] /\ Cli(k).net = net
      /\ DOMAIN Cli(k) = {"me", "net", "backlog"} /\ NetShape(net)
  BY CliGood DEF ClientGood
<1>3. [Cli(k) EXCEPT !.net[c].up = "sent"] = y
  BY <1>2
<1>4. /\ DOMAIN m = Conns
      /\ \A d \in Conns : /\ DOMAIN m[d] = DOMAIN Closed /\ m[d].srv = net[d].srv
                          /\ m[d].cmd = net[d].cmd /\ m[d].down = net[d].down
                          /\ d # c => m[d].up = net[d].up
  BY <1>2, Shapes DEF NetShape
<1>5. net[c].up = "part"
  BY DEF SendRest
<1> HIDE DEF c, m
<1>6. Leaves(net, m)
  BY <1>2, <1>4, <1>5 DEF Leaves, NetShape
<1>7. ClientGood(y, net)
  BY <1>2, <1>6, LeavesStep
<1>8. ClientGood(RemoveConn(Cli(k), i), net) /\ ClientGood(ExitGracefully(Cli(k)), net)
  BY <1>2, RemoveLeaves, ExitLeaves
<1> QED
  BY <1>1, <1>3, <1>7, <1>8, BecomeInv

\* Reading a frame, or the end of the stream
LEMMA ReceiveInv ==
    ASSUME DeliveryInv, NEW k \in Clients, NEW i \in DOMAIN client[k].conns, NEW up,
           Receive(k, i, up), UNCHANGED srvVars
    PROVE  DeliveryInv'
<1> DEFINE c == client[k].conns[i].id
           down == net[c].down
           signsIn == /\ down # <<>>
                      /\ client[k].conns[i].type = "REG"
                      /\ Head(down).status = "LOGGED_IN"
           x == Cli(k)
<1>1. \/ /\ down # <<>>
         /\ signsIn /\ up => Cardinality(FreeConns(net)) > FILE_CONNS
         /\ Become(k, IF signsIn /\ ~up THEN ExitGracefully(x) ELSE RecvFrame(x, i))
      \/ Become(k, RemoveConn(x, i))
  BY DEF Receive
<1>2. ClientGood(x, net) /\ x.me = client[k] /\ x.net = net
  BY CliGood
<1> HIDE DEF x
<1>3. ClientGood(RemoveConn(x, i), net) /\ ClientGood(ExitGracefully(x), net)
  BY <1>2, RemoveLeaves, ExitLeaves
<1>4. ASSUME down # <<>>, signsIn => Cardinality(FreeConns(net)) > FILE_CONNS
      PROVE  ClientGood(RecvFrame(x, i), net)
  BY <1>2, <1>4, FrameLeaves
<1>5. CASE Become(k, RemoveConn(x, i))
  BY <1>3, <1>5, BecomeInv
<1>6. CASE /\ down # <<>>
           /\ signsIn /\ up => Cardinality(FreeConns(net)) > FILE_CONNS
           /\ Become(k, IF signsIn /\ ~up THEN ExitGracefully(x) ELSE RecvFrame(x, i))
  <2>1. CASE signsIn /\ ~up
    BY <1>3, <1>6, <2>1, BecomeInv
  <2>2. CASE ~(signsIn /\ ~up)
    <3>1. Become(k, RecvFrame(x, i)) /\ ClientGood(RecvFrame(x, i), net)
      BY <1>4, <1>6, <2>2
    <3> QED
      BY <3>1, BecomeInv
  <2> QED
    BY <2>1, <2>2
<1> QED
  BY <1>1, <1>5, <1>6

\* Every step of a client keeps the invariant
LEMMA ClientInv ==
    ASSUME DeliveryInv, NEW k \in Clients, ClientStep(k)
    PROVE  DeliveryInv'
<1> DEFINE x == Cli(k)
           me == [client[k] EXCEPT !.paused = FALSE]
<1>1. /\ ClientGood(x, net) /\ x.me = client[k] /\ DOMAIN x = {"me", "net", "backlog"}
      /\ ClientOK(client[k]) /\ DOMAIN client[k] = DOMAIN StartState
  BY CliGood DEF DeliveryInv, ClientsInv
<1> HIDE DEF x
<1>2. ClientGood(ExitGracefully(x), net)
  BY <1>1, ExitLeaves
<1>3. ClientGood([x EXCEPT !.me.paused = FALSE], net)
  <2>1. DOMAIN me = DOMAIN StartState /\ me.conns = client[k].conns
    BY <1>1, ClientShapes
  <2>2. [x EXCEPT !.me.paused = FALSE] = [x EXCEPT !.me = me]
    BY <1>1
  <2> HIDE DEF me
  <2>3. ClientOK(me)
    BY <1>1, <2>1 DEF ClientOK
  <2> QED
    BY <1>1, <2>2, <2>3, OwnStep
<1>4. CASE StartCommand(k, ServerIsUp) /\ UNCHANGED srvVars
  BY <1>4, StartCommandInv
<1>5. CASE Finish(k) /\ UNCHANGED srvVars
  <2>1. Become(k, ExitGracefully(x))
    BY <1>5 DEF Finish, x
  <2> QED
    BY <1>2, <1>5, <2>1, BecomeInv
<1>6. CASE EndPause(k) /\ UNCHANGED srvVars
  <2>1. Become(k, [x EXCEPT !.me.paused = FALSE])
    BY <1>6 DEF EndPause, x
  <2> QED
    BY <1>3, <1>6, <2>1, BecomeInv
<1>7. CASE \E i \in DOMAIN client[k].conns : SendRest(k, i) /\ UNCHANGED srvVars
  BY <1>7, SendRestInv
<1>8. CASE \E i \in DOMAIN client[k].conns :
               Receive(k, i, ServerIsUp) /\ UNCHANGED srvVars
  BY <1>8, ReceiveInv
<1>9. CASE Kill(k) /\ UNCHANGED srvVars
  <2>1. Become(k, ExitGracefully(x))
    BY <1>9 DEF Kill, x
  <2> QED
    BY <1>2, <1>9, <2>1, BecomeInv
<1> QED
  BY <1>4, <1>5, <1>6, <1>7, <1>8, <1>9 DEF ClientStep

-----------------------------------------------------------------------------
(* The theorem *)

\* The invariant is inductive: whatever the server's handlers do to the table,
\* and the clients and the kernel to the connections, each entry that is looked
\* at says truly what its connection is for
THEOREM DeliveryInductive ==
    /\ Init => DeliveryInv
    /\ DeliveryInv /\ [Next]_vars => DeliveryInv'
<1>1. Init => DeliveryInv
  <2>1. Init => ClientsInv
    <3>1. ClientOK(StartState)
      <4>1. IsSeq(StartState.conns) /\ Range(StartState.conns) = {}
        BY EmptyIsSeq DEF StartState
      <4> QED
        BY <4>1 DEF ClientOK
    <3> QED
      BY <3>1 DEF Init, CliInit, ClientsInv
  <2> QED
    BY <2>1, InitInv DEF DeliveryInv
<1>2. ASSUME DeliveryInv, [Next]_vars
      PROVE  DeliveryInv'
  <2>1. ASSUME ServerStep \/ StopServer \/ StartServer, UNCHANGED cliVars
        PROVE  DeliveryInv'
    <3>1. ChatInv'
      BY <1>2, <2>1, ServerKeepsInv DEF DeliveryInv
    <3>2. ClientsInv'
      BY <1>2, <2>1 DEF DeliveryInv, ClientsInv, cliVars
    <3> QED
      BY <3>1, <3>2 DEF DeliveryInv
  <2>2. CASE ServerStep
    BY <2>1, <2>2 DEF ServerStep
  <2>3. CASE StopServer /\ UNCHANGED cliVars
    BY <2>1, <2>3
  <2>4. CASE StartServer /\ UNCHANGED cliVars
    BY <2>1, <2>4
  <2>5. CASE \E k \in Clients : ClientStep(k)
    BY <1>2, <2>5, ClientInv
  <2>6. CASE UNCHANGED vars
    <3>1. /\ slots' = slots /\ nConns' = nConns /\ registrar' = registrar
          /\ profiles' = profiles /\ pc' = pc /\ scanned' = scanned /\ posted' = posted
          /\ net' = net /\ backlog' = backlog /\ client' = client
      BY <2>6 DEF vars, srvVars, cliVars
    <3>2. Srv' = Srv /\ LastUsed' = LastUsed /\ AtOK' = AtOK
      BY <3>1 DEF Srv, LastUsed, AtOK
    <3> QED
      BY <1>2, <3>1, <3>2 DEF DeliveryInv, ChatInv, ClientsInv
  <2> QED
    BY <1>2, <2>2, <2>3, <2>4, <2>5, <2>6 DEF Next
<1> QED
  BY <1>1, <1>2

\* Nothing is written on a connection but a message or a file meant for the user
\* the connection was declared for, the answer to the command it began with, or
\* the status of a file: a client that has signed out, been killed or lost its
\* server, and another that is given its place in the table, never get each
\* other's messages, files, confirmations of a login or answers to a message
THEOREM OnlyRecipientsGetMessages == Spec => []DeliveredToRecipients
<1>1. DeliveryInv => DeliveredToRecipients
  <2> SUFFICES ASSUME DeliveryInv
               PROVE  DeliveredToRecipients
    OBVIOUS
  <2> DEFINE t == Srv
  <2>1. Good(t, LastUsed, backlog) /\ t.net = net
    BY DEF DeliveryInv, ChatInv, Srv
  <2> HIDE DEF t
  <2>2. NetOK(net)
    BY <2>1 DEF Good
  <2> QED
    BY <2>2 DEF NetOK, DeliveredToRecipients, Range
<1> QED
  BY <1>1, DeliveryInductive, PTL DEF Spec

\* No order of commands, failing connections, removals and restarts makes the
\* connection table overflow, leaves a closed descriptor in it or puts a
\* connection into it twice
THEOREM EntriesStayConnections == Spec => []EntriesAreConnections
<1>1. DeliveryInv => EntriesAreConnections
  <2> SUFFICES ASSUME DeliveryInv
               PROVE  EntriesAreConnections
    OBVIOUS
  <2> DEFINE t == Srv
             b == LastUsed
  <2>1. Good(t, b, backlog) /\ t.net = net /\ t.slots = slots /\ t.nConns = nConns
    BY DEF DeliveryInv, ChatInv, Srv
  <2> HIDE DEF t, b
  <2>2. nConns \in Int /\ b \in Int /\ nConns <= b /\ b <= MAX_CONCURRENCY_LIMIT
    BY <2>1 DEF Good
  <2>3. MAX_CONCURRENCY_LIMIT \in Int
    BY LimitAssumption
  <2>4. \A i \in 1..nConns : net[slots[i].fd].srv = "open"
    BY <2>1 DEF Good, LiveOpen, Open
  <2>5. \A i \in 1..(nConns - 1), j \in 1..b : i # j => slots[i].fd # slots[j].fd
    BY <2>1 DEF Good, Apart
  <2>6. ASSUME NEW i \in 1..nConns, NEW j \in 1..nConns, slots[i].fd = slots[j].fd
        PROVE  i = j
    <3>1. CASE i < nConns
      BY <2>2, <2>5, <2>6, <3>1
    <3>2. CASE j < nConns
      BY <2>2, <2>5, <2>6, <3>2
    <3> QED
      BY <2>2, <3>1, <3>2
  <2>7. nConns <= MAX_CONCURRENCY_LIMIT
    BY <2>2, <2>3
  <2> QED
    BY <2>4, <2>6, <2>7 DEF EntriesAreConnections
<1> QED
  BY <1>1, DeliveryInductive, PTL DEF Spec

\* However the handlers shift the table while the scan goes over it, no
\* connection that is still open drops out of it: poll() watches each of them
THEOREM NoConnectionForgotten == Spec => []NoneForgotten
<1>1. DeliveryInv => NoneForgotten
  <2> SUFFICES ASSUME DeliveryInv
               PROVE  NoneForgotten
    OBVIOUS
  <2> DEFINE t == Srv
  <2>1. Good(t, LastUsed, backlog) /\ t.net = net /\ t.slots = slots /\ t.nConns = nConns
    BY DEF DeliveryInv, ChatInv, Srv
  <2> HIDE DEF t
  <2>2. \A c : Open(net, c) => \E i \in 1..nConns : slots[i].fd = c
    BY <2>1 DEF Good, Known
  <2> QED
    BY <2>2 DEF NoneForgotten, Open
<1> QED
  BY <1>1, DeliveryInductive, PTL DEF Spec
=============================================================================
