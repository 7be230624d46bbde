--------------------------- MODULE DataStoreLemmas ---------------------------
(***************************************************************************)
(* What the searches and updates of the registrar and of the vector of     *)
(* profiles return, for any sets U of names, P of passwords and M of       *)
(* deques, as long as a name occurs at most once.                          *)
(***************************************************************************)
EXTENDS DataStoreOps, SequenceTheorems, TLAPS

Entries(U, P) == [user : U, pwd : P]

Profiles(U, M) == [user : U, messages : M]

NoTwoFor(s) == \A i, j \in DOMAIN s : s[i].user = s[j].user => i = j

-----------------------------------------------------------------------------
(* Searching a sequence in which a user occurs at most once *)

\* The first entry found for a user is the only one
LEMMA EntryFound ==
    ASSUME NEW U, NEW P, NEW reg \in Seq(Entries(U, P)), NoTwoFor(reg), NEW i \in DOMAIN reg
    PROVE  EntryOf(reg, reg[i].user) = i
<1> DEFINE I == {k \in 1..Len(reg) : reg[k].user = reg[i].user}
<1>1. I = {i}
  BY DEF NoTwoFor
<1>2. EntryOf(reg, reg[i].user) = IF I # {} THEN Min(I) ELSE 0
  BY DEF EntryOf, SelectInSeq
<1>3. Min(I) = i
  BY <1>1 DEF Min
<1> QED
  BY <1>1, <1>2, <1>3

\* A user is in the registrar exactly if some line bears the name
LEMMA EntryExists ==
    ASSUME NEW U, NEW P, NEW reg \in Seq(Entries(U, P)), NoTwoFor(reg), NEW u
    PROVE  IsIn(reg, u) <=> \E i \in DOMAIN reg : reg[i].user = u
<1>1. CASE \E i \in DOMAIN reg : reg[i].user = u
  BY <1>1, EntryFound DEF IsIn
<1>2. CASE ~ \E i \in DOMAIN reg : reg[i].user = u
  <2>1. {k \in 1..Len(reg) : reg[k].user = u} = {}
    BY <1>2
  <2> QED
    BY <1>2, <2>1 DEF IsIn, EntryOf, SelectInSeq
<1> QED
  BY <1>1, <1>2

\* The first profile found for a user is the only one
LEMMA ProfileFound ==
    ASSUME NEW U, NEW M, NEW ps \in Seq(Profiles(U, M)), NoTwoFor(ps), NEW i \in DOMAIN ps
    PROVE  FindIndexOf(ps, ps[i].user) = i
<1> DEFINE I == {k \in 1..Len(ps) : ps[k].user = ps[i].user}
<1>1. I = {i}
  BY DEF NoTwoFor
<1>2. FindIndexOf(ps, ps[i].user) = IF I # {} THEN Min(I) ELSE 0
  BY DEF FindIndexOf, SelectInSeq
<1>3. Min(I) = i
  BY <1>1 DEF Min
<1> QED
  BY <1>1, <1>2, <1>3

\* A user is signed in exactly if some profile bears the name, and then
\* FindIndexOf points at it
LEMMA ProfileExists ==
    ASSUME NEW U, NEW M, NEW ps \in Seq(Profiles(U, M)), NoTwoFor(ps), NEW u
    PROVE  /\ IsLoggedIn(ps, u) <=> \E i \in DOMAIN ps : ps[i].user = u
           /\ IsLoggedIn(ps, u) => /\ FindIndexOf(ps, u) \in DOMAIN ps
                                   /\ ps[FindIndexOf(ps, u)].user = u
<1>1. CASE \E i \in DOMAIN ps : ps[i].user = u
  BY <1>1, ProfileFound DEF IsLoggedIn
<1>2. CASE ~ \E i \in DOMAIN ps : ps[i].user = u
  <2>1. {k \in 1..Len(ps) : ps[k].user = u} = {}
    BY <1>2
  <2> QED
    BY <1>2, <2>1 DEF IsLoggedIn, FindIndexOf, SelectInSeq
<1> QED
  BY <1>1, <1>2

-----------------------------------------------------------------------------
(* What the operations do to a vector of profiles *)

\* Erasing an element keeps the others, in order
LEMMA RemoveAtElements ==
    ASSUME NEW S, NEW s \in Seq(S), NEW i \in 1..Len(s)
    PROVE  /\ RemoveAt(s, i) \in Seq(S)
           /\ Len(RemoveAt(s, i)) = Len(s) - 1
           /\ \A j \in 1..(Len(s) - 1) :
                  RemoveAt(s, i)[j] = IF j < i THEN s[j] ELSE s[j + 1]
<1> DEFINE a == SubSeq(s, 1, i - 1)
           b == SubSeq(s, i + 1, Len(s))
<1>1. Len(s) \in Nat
  BY LenProperties
<1>2. /\ a \in Seq(S)
      /\ Len(a) = i - 1
      /\ \A j \in 1..(i - 1) : a[j] = s[j]
  BY <1>1, SubSeqProperties
<1>3. /\ b \in Seq(S)
      /\ Len(b) = Len(s) - i
      /\ \A j \in 1..(Len(s) - i) : b[j] = s[i + j]
  BY <1>1, SubSeqProperties
<1> HIDE DEF a, b
<1>4. /\ a \o b \in Seq(S)
      /\ Len(a \o b) = Len(a) + Len(b)
      /\ \A j \in 1..(Len(a) + Len(b)) :
             (a \o b)[j] = IF j <= Len(a) THEN a[j] ELSE b[j - Len(a)]
  BY <1>2, <1>3, ConcatProperties
<1>5. \A j \in 1..(Len(s) - 1) :
          (a \o b)[j] = IF j < i THEN s[j] ELSE s[j + 1]
  <2> TAKE j \in 1..(Len(s) - 1)
  <2>1. CASE j < i
    BY <1>1, <1>2, <1>3, <1>4, <2>1
  <2>2. CASE j >= i
    <3>1. /\ j - (i - 1) \in 1..(Len(s) - i)
          /\ j \in 1..(Len(a) + Len(b))
          /\ ~(j <= Len(a))
      BY <1>1, <1>2, <1>3, <2>2
    <3>2. (a \o b)[j] = b[j - (i - 1)]
      BY <1>2, <1>4, <3>1
    <3>3. b[j - (i - 1)] = s[i + (j - (i - 1))]
      BY <1>3, <3>1
    <3>4. i + (j - (i - 1)) = j + 1
      BY <1>1
    <3> QED
      BY <1>1, <2>2, <3>2, <3>3, <3>4
  <2>3. j < i \/ j >= i
    BY <1>1
  <2> QED
    BY <2>1, <2>2, <2>3
<1>6. Len(a \o b) = Len(s) - 1
  BY <1>1, <1>2, <1>3, <1>4
<1> QED
  BY <1>4, <1>5, <1>6 DEF RemoveAt, a, b

\* A user who signs out leaves the vector; everybody else stays, once, with the
\* messages they had
LEMMA LogoutProfiles ==
    ASSUME NEW U, NEW M, NEW ps \in Seq(Profiles(U, M)), NoTwoFor(ps), NEW u
    PROVE  /\ AfterLogout(ps, u) \in Seq(Profiles(U, M))
           /\ NoTwoFor(AfterLogout(ps, u))
           /\ \A i \in DOMAIN AfterLogout(ps, u) :
                  /\ AfterLogout(ps, u)[i].user # u
                  /\ \E j \in DOMAIN ps : ps[j] = AfterLogout(ps, u)[i]
           /\ \A j \in DOMAIN ps : ps[j].user # u =>
                  \E i \in DOMAIN AfterLogout(ps, u) : AfterLogout(ps, u)[i] = ps[j]
<1>1. CASE ~IsLoggedIn(ps, u)
  BY <1>1, ProfileExists DEF AfterLogout
<1>2. CASE IsLoggedIn(ps, u)
  <2> DEFINE k == FindIndexOf(ps, u)
             qs == AfterLogout(ps, u)
  <2>1. /\ k \in 1..Len(ps)
        /\ ps[k].user = u
    BY <1>2, ProfileExists, LenProperties
  <2>2. qs = RemoveAt(ps, k)
    BY <1>2 DEF AfterLogout
  <2> HIDE DEF k, qs
  <2>3. /\ qs \in Seq(Profiles(U, M))
        /\ Len(qs) = Len(ps) - 1
        /\ \A j \in 1..(Len(ps) - 1) : qs[j] = IF j < k THEN ps[j] ELSE ps[j + 1]
    BY <2>1, <2>2, RemoveAtElements
  <2>4. \A i, j \in DOMAIN ps : ps[i].user = ps[j].user => i = j
    BY DEF NoTwoFor
  <2>5. NoTwoFor(qs)
    <3> SUFFICES ASSUME NEW i \in DOMAIN qs, NEW j \in DOMAIN qs,
                        qs[i].user = qs[j].user
                 PROVE  i = j
      BY DEF NoTwoFor
    <3> DEFINE at(x) == IF x < k THEN x ELSE x + 1
    <3>1. /\ at(i) \in DOMAIN ps /\ qs[i] = ps[at(i)]
          /\ at(j) \in DOMAIN ps /\ qs[j] = ps[at(j)]
      BY <2>1, <2>3
    <3>2. at(i) = at(j)
      BY <2>4, <3>1
    <3> QED
      BY <2>1, <2>3, <3>2
  <2>6. \A i \in DOMAIN qs : qs[i].user # u /\ \E j \in DOMAIN ps : ps[j] = qs[i]
    BY <2>1, <2>3, <2>4
  <2>7. ASSUME NEW j \in DOMAIN ps, ps[j].user # u
        PROVE  \E i \in DOMAIN qs : qs[i] = ps[j]
    <3>1. j # k
      BY <2>1, <2>7
    <3>2. CASE j < k
      BY <2>1, <2>3, <3>2
    <3>3. CASE j > k
      <4>1. j - 1 \in DOMAIN qs
        BY <2>1, <2>3, <3>3
      <4>2. qs[j - 1] = ps[j]
        BY <2>1, <2>3, <3>3
      <4> QED
        BY <4>1, <4>2
    <3> QED
      BY <2>1, <3>1, <3>2, <3>3
  <2> QED
    BY <2>3, <2>5, <2>6, <2>7 DEF qs
<1> QED
  BY <1>1, <1>2

\* A changed deque leaves the users where they are
LEMMA SameUsers ==
    ASSUME NEW U, NEW M, NEW ps \in Seq(Profiles(U, M)), NoTwoFor(ps),
           NEW qs \in Seq(Profiles(U, M)), DOMAIN qs = DOMAIN ps,
           \A i \in DOMAIN ps : qs[i].user = ps[i].user
    PROVE  NoTwoFor(qs)
BY DEF NoTwoFor

\* Giving one profile another deque
WithDeque(ps, k, m) == [ps EXCEPT ![k].messages = m]

\* It changes the deque of that profile, and nobody's name
LEMMA SetDeque ==
    ASSUME NEW U, NEW M, NEW ps \in Seq(Profiles(U, M)), NEW k \in DOMAIN ps, NEW m \in M
    PROVE  /\ WithDeque(ps, k, m) \in Seq(Profiles(U, M))
           /\ DOMAIN WithDeque(ps, k, m) = DOMAIN ps
           /\ \A i \in DOMAIN ps : WithDeque(ps, k, m)[i].user = ps[i].user
           /\ \A i \in DOMAIN ps : WithDeque(ps, k, m)[i].messages =
                  IF i = k THEN m ELSE ps[i].messages
<1> DEFINE p == [ps[k] EXCEPT !.messages = m]
           qs == WithDeque(ps, k, m)
<1>1. ps[k] \in Profiles(U, M)
  OBVIOUS
<1>2. /\ p \in Profiles(U, M)
      /\ p.user = ps[k].user
      /\ p.messages = m
  BY <1>1 DEF Profiles
<1>3. qs = [ps EXCEPT ![k] = p]
  BY DEF WithDeque
<1> HIDE DEF p
<1>4. /\ DOMAIN qs = DOMAIN ps
      /\ \A i \in DOMAIN ps : qs[i] = IF i = k THEN p ELSE ps[i]
  BY <1>3
<1>5. qs \in Seq(Profiles(U, M))
  <2>1. /\ DOMAIN ps = 1..Len(ps)
        /\ Len(ps) \in Nat
    BY LenProperties
  <2>2. qs = [i \in 1..Len(ps) |-> qs[i]]
    BY <1>3, <2>1
  <2>3. \A i \in 1..Len(ps) : qs[i] \in Profiles(U, M)
    BY <1>2, <1>4, <2>1
  <2> QED
    BY <2>1, <2>2, <2>3, SeqDef
<1> QED
  BY <1>2, <1>4, <1>5

-----------------------------------------------------------------------------
(* The same in terms of users: who has a profile, which password, which mail *)

Online(ps) == {ps[i].user : i \in DOMAIN ps}

\* A user's password is the one on the only line with the name, and None
\* without such a line
LEMMA PasswordIs ==
    ASSUME NEW U, NEW P, NEW reg \in Seq(Entries(U, P)), NoTwoFor(reg)
    PROVE  /\ \A i \in DOMAIN reg : PasswordOf(reg, reg[i].user) = reg[i].pwd
           /\ \A u : (\A i \in DOMAIN reg : reg[i].user # u) => PasswordOf(reg, u) = None
           /\ \A u : IsIn(reg, u) => PasswordOf(reg, u) \in P
<1>1. ASSUME NEW i \in DOMAIN reg
      PROVE  PasswordOf(reg, reg[i].user) = reg[i].pwd
  <2>1. EntryOf(reg, reg[i].user) = i /\ IsIn(reg, reg[i].user)
    BY EntryFound, EntryExists
  <2> QED
    BY <2>1 DEF PasswordOf
<1>2. ASSUME NEW u, \A i \in DOMAIN reg : reg[i].user # u
      PROVE  PasswordOf(reg, u) = None
  BY <1>2, EntryExists DEF PasswordOf
<1>3. ASSUME NEW u, IsIn(reg, u)
      PROVE  PasswordOf(reg, u) \in P
  <2>1. PICK i \in DOMAIN reg : reg[i].user = u
    BY <1>3, EntryExists
  <2>2. reg[i] \in Entries(U, P)
    OBVIOUS
  <2> QED
    BY <1>1, <2>1, <2>2 DEF Entries
<1> QED
  BY <1>1, <1>2, <1>3

\* An empty file holds nobody's password
LEMMA NoPasswords == \A u : PasswordOf(<<>>, u) = None
<1> SUFFICES ASSUME NEW u
             PROVE  ~IsIn(<<>>, u)
  BY DEF PasswordOf
<1> DEFINE reg == <<>>
<1>1. {k \in 1..Len(reg) : reg[k].user = u} = {}
  OBVIOUS
<1>2. EntryOf(reg, u) = 0
  BY <1>1 DEF EntryOf, SelectInSeq
<1> QED
  BY <1>2 DEF IsIn

\* Registering a new name gives it its password and nobody else another one
LEMMA RegisterPasswords ==
    ASSUME NEW U, NEW P, NEW reg \in Seq(Entries(U, P)), NoTwoFor(reg),
           NEW u \in U, NEW p \in P, ~IsIn(reg, u)
    PROVE  /\ AfterRegister(reg, u, p) \in Seq(Entries(U, P))
           /\ NoTwoFor(AfterRegister(reg, u, p))
           /\ \A v : PasswordOf(AfterRegister(reg, u, p), v) =
                         IF v = u THEN p ELSE PasswordOf(reg, v)
<1> DEFINE e == [user |-> u, pwd |-> p]
           new == AfterRegister(reg, u, p)
<1>1. new = Append(reg, e) /\ e \in Entries(U, P)
  BY DEF AfterRegister, Entries
<1> HIDE DEF new
<1>2. /\ new \in Seq(Entries(U, P))
      /\ Len(new) = Len(reg) + 1
      /\ \A i \in 1..Len(reg) : new[i] = reg[i]
      /\ new[Len(reg) + 1] = e
  BY <1>1, AppendProperties
<1>3. \A i \in DOMAIN reg : reg[i].user # u
  BY EntryExists
<1>4. NoTwoFor(new)
  BY <1>2, <1>3 DEF NoTwoFor
<1>5. /\ \A i \in DOMAIN reg : i \in DOMAIN new /\ new[i] = reg[i]
      /\ Len(reg) + 1 \in DOMAIN new
      /\ \A i \in DOMAIN new : i \in DOMAIN reg \/ new[i] = e
  BY <1>2
<1>6. ASSUME NEW v
      PROVE  PasswordOf(new, v) = IF v = u THEN p ELSE PasswordOf(reg, v)
  <2>1. CASE v = u
    <3>1. PasswordOf(new, new[Len(reg) + 1].user) = new[Len(reg) + 1].pwd
      BY <1>2, <1>4, <1>5, PasswordIs
    <3> QED
      BY <1>2, <2>1, <3>1
  <2>2. CASE v # u /\ \E i \in DOMAIN reg : reg[i].user = v
    <3>1. PICK i \in DOMAIN reg : reg[i].user = v
      BY <2>2
    <3>2. PasswordOf(new, new[i].user) = new[i].pwd
      BY <1>2, <1>4, <1>5, PasswordIs
    <3>3. PasswordOf(reg, reg[i].user) = reg[i].pwd
      BY PasswordIs
    <3> QED
      BY <1>5, <2>2, <3>1, <3>2, <3>3
  <2>3. CASE v # u /\ \A i \in DOMAIN reg : reg[i].user # v
    <3>1. \A i \in DOMAIN new : new[i].user # v
      BY <1>5, <2>3
    <3>2. PasswordOf(new, v) = None
      BY <1>2, <1>4, <3>1, PasswordIs
    <3>3. PasswordOf(reg, v) = None
      BY <2>3, PasswordIs
    <3> QED
      BY <2>3, <3>2, <3>3
  <2> QED
    BY <2>1, <2>2, <2>3
<1> QED
  BY <1>2, <1>4, <1>6 DEF new

\* A user's mail is the deque of their only profile, and empty without one
LEMMA MessagesAre ==
    ASSUME NEW U, NEW M, NEW ps \in Seq(Profiles(U, M)), NoTwoFor(ps)
    PROVE  /\ \A i \in DOMAIN ps : MessagesOf(ps, ps[i].user) = ps[i].messages
           /\ \A u : u \notin Online(ps) => MessagesOf(ps, u) = <<>>
           /\ \A u : IsLoggedIn(ps, u) <=> u \in Online(ps)
<1>1. ASSUME NEW i \in DOMAIN ps
      PROVE  MessagesOf(ps, ps[i].user) = ps[i].messages
  <2>1. FindIndexOf(ps, ps[i].user) = i /\ IsLoggedIn(ps, ps[i].user)
    BY ProfileFound, ProfileExists
  <2> QED
    BY <2>1 DEF MessagesOf
<1>2. \A u : IsLoggedIn(ps, u) <=> u \in Online(ps)
  BY ProfileExists DEF Online
<1>3. \A u : u \notin Online(ps) => MessagesOf(ps, u) = <<>>
  BY <1>2 DEF MessagesOf
<1> QED
  BY <1>1, <1>2, <1>3

\* m is all that a search of ps for v can come upon
Holds(ps, v, m) ==
    /\ \A i \in DOMAIN ps : ps[i].user = v => ps[i].messages = m
    /\ v \notin Online(ps) => m = <<>>

\* A user's mail is m if every profile with the name says so and, when there is
\* none, m is empty
LEMMA MessagesBecome ==
    ASSUME NEW U, NEW M, NEW ps \in Seq(Profiles(U, M)), NoTwoFor(ps)
    PROVE  \A v, m : Holds(ps, v, m) => MessagesOf(ps, v) = m
<1> SUFFICES ASSUME NEW v, NEW m,
                    \A i \in DOMAIN ps : ps[i].user = v => ps[i].messages = m,
                    v \notin Online(ps) => m = <<>>
             PROVE  MessagesOf(ps, v) = m
  BY DEF Holds
<1>1. CASE v \in Online(ps)
  <2>1. PICK i \in DOMAIN ps : ps[i].user = v
    BY <1>1 DEF Online
  <2> QED
    BY <2>1, MessagesAre
<1>2. CASE v \notin Online(ps)
  BY <1>2, MessagesAre
<1> QED
  BY <1>1, <1>2

\* Signing in appends a profile without mail
LEMMA LoginMessages ==
    ASSUME NEW U, NEW B, NEW ps \in Seq(Profiles(U, Seq(B))), NoTwoFor(ps),
           NEW u \in U, ~IsLoggedIn(ps, u)
    PROVE  LET new == Append(ps, [user |-> u, messages |-> <<>>])
           IN  /\ new \in Seq(Profiles(U, Seq(B)))
               /\ NoTwoFor(new)
               /\ Online(new) = Online(ps) \cup {u}
               /\ \A v : MessagesOf(new, v) = MessagesOf(ps, v)
<1> DEFINE q == [user |-> u, messages |-> <<>>]
           new == Append(ps, q)
<1>1. q \in Profiles(U, Seq(B)) /\ q.user = u /\ q.messages = <<>>
  BY DEF Profiles
<1> HIDE DEF q
<1>2. /\ new \in Seq(Profiles(U, Seq(B)))
      /\ Len(new) = Len(ps) + 1
      /\ \A i \in 1..Len(ps) : new[i] = ps[i]
      /\ new[Len(ps) + 1] = q
  BY <1>1, AppendProperties
<1>3. \A i \in DOMAIN ps : ps[i].user # u
  BY ProfileExists
<1> HIDE DEF new
<1>4. NoTwoFor(new)
  BY <1>1, <1>2, <1>3 DEF NoTwoFor
<1>5. /\ \A i \in DOMAIN ps : i \in DOMAIN new /\ new[i] = ps[i]
      /\ Len(ps) + 1 \in DOMAIN new
      /\ \A i \in DOMAIN new : i \in DOMAIN ps \/ new[i] = q
  BY <1>2
<1>6. Online(new) = Online(ps) \cup {u}
  BY <1>1, <1>2, <1>5 DEF Online
<1>7. ASSUME NEW v
      PROVE  MessagesOf(new, v) = MessagesOf(ps, v)
  <2>1. \A i \in DOMAIN ps : ps[i].user = v => ps[i].messages = MessagesOf(ps, v)
    BY MessagesAre
  <2>2. u \notin Online(ps)
    BY <1>3 DEF Online
  <2>3. v \notin Online(ps) => MessagesOf(ps, v) = <<>>
    BY MessagesAre
  <2>4. \A i \in DOMAIN new : new[i].user = v => new[i].messages = MessagesOf(ps, v)
    BY <1>1, <1>5, <2>1, <2>2, <2>3
  <2>5. v \notin Online(new) => MessagesOf(ps, v) = <<>>
    BY <1>6, <2>3
  <2>6. MessagesOf(new, v) = MessagesOf(ps, v)
    <3>1. Holds(new, v, MessagesOf(ps, v))
      BY <2>4, <2>5 DEF Holds
    <3>2. \A w, n : Holds(new, w, n) => MessagesOf(new, w) = n
      BY <1>2, <1>4, MessagesBecome
    <3> QED
      BY <3>1, <3>2
  <2> QED
    BY <2>6
<1> QED
  BY <1>1, <1>2, <1>4, <1>6, <1>7 DEF new, q

\* Signing out takes one user and their mail away
LEMMA LogoutMessages ==
    ASSUME NEW U, NEW M, NEW ps \in Seq(Profiles(U, M)), NoTwoFor(ps), NEW u
    PROVE  /\ Online(AfterLogout(ps, u)) = Online(ps) \ {u}
           /\ \A v : MessagesOf(AfterLogout(ps, u), v) =
                         IF v = u THEN <<>> ELSE MessagesOf(ps, v)
<1> DEFINE new == AfterLogout(ps, u)
<1>1. /\ new \in Seq(Profiles(U, M))
      /\ NoTwoFor(new)
      /\ \A i \in DOMAIN new : /\ new[i].user # u
                               /\ \E j \in DOMAIN ps : ps[j] = new[i]
      /\ \A j \in DOMAIN ps : ps[j].user # u => \E i \in DOMAIN new : new[i] = ps[j]
  BY LogoutProfiles
<1> HIDE DEF new
<1>2. Online(new) = Online(ps) \ {u}
  BY <1>1 DEF Online
<1>3. ASSUME NEW v
      PROVE  MessagesOf(new, v) = IF v = u THEN <<>> ELSE MessagesOf(ps, v)
  <2> DEFINE m == IF v = u THEN <<>> ELSE MessagesOf(ps, v)
  <2>1. /\ \A i \in DOMAIN ps : MessagesOf(ps, ps[i].user) = ps[i].messages
        /\ v \notin Online(ps) => MessagesOf(ps, v) = <<>>
    BY MessagesAre
  <2>2. \A i \in DOMAIN new : new[i].user = v => new[i].messages = m
    BY <1>1, <2>1
  <2>3. v \notin Online(new) => m = <<>>
    BY <1>2, <2>1
  <2> HIDE DEF m
  <2>4. MessagesOf(new, v) = m
    <3>1. Holds(new, v, m)
      BY <2>2, <2>3 DEF Holds
    <3>2. \A w, n : Holds(new, w, n) => MessagesOf(new, w) = n
      BY <1>1, MessagesBecome
    <3> QED
      BY <3>1, <3>2
  <2> QED
    BY <2>4 DEF m
<1> QED
  BY <1>2, <1>3 DEF new

\* Changing a deque changes the mail of its user
LEMMA SetDequeMessages ==
    ASSUME NEW U, NEW M, NEW ps \in Seq(Profiles(U, M)), NoTwoFor(ps),
           NEW k \in DOMAIN ps, NEW m \in M
    PROVE  /\ Online(WithDeque(ps, k, m)) = Online(ps)
           /\ \A v : MessagesOf(WithDeque(ps, k, m), v) =
                         IF v = ps[k].user THEN m ELSE MessagesOf(ps, v)
<1> DEFINE new == WithDeque(ps, k, m)
<1>1. /\ new \in Seq(Profiles(U, M))
      /\ DOMAIN new = DOMAIN ps
      /\ \A i \in DOMAIN ps : new[i].user = ps[i].user
      /\ \A i \in DOMAIN ps : new[i].messages = IF i = k THEN m ELSE ps[i].messages
  BY SetDeque
<1> HIDE DEF new
<1>2. NoTwoFor(new)
  BY <1>1, SameUsers
<1>3. Online(new) = Online(ps)
  BY <1>1 DEF Online
<1>4. ASSUME NEW v
      PROVE  MessagesOf(new, v) = IF v = ps[k].user THEN m ELSE MessagesOf(ps, v)
  <2> DEFINE c == IF v = ps[k].user THEN m ELSE MessagesOf(ps, v)
  <2>1. /\ \A i \in DOMAIN ps : MessagesOf(ps, ps[i].user) = ps[i].messages
        /\ v \notin Online(ps) => MessagesOf(ps, v) = <<>>
    BY MessagesAre
  <2>2. ps[k].user \in Online(ps)
    BY DEF Online
  <2>3. \A i \in DOMAIN ps : ps[i].user = ps[k].user => i = k
    BY DEF NoTwoFor
  <2>4. \A i \in DOMAIN new : new[i].user = v => new[i].messages = c
    BY <1>1, <2>1, <2>3
  <2>5. v \notin Online(new) => c = <<>>
    BY <1>3, <2>1, <2>2
  <2> HIDE DEF c
  <2>6. MessagesOf(new, v) = c
    <3>1. Holds(new, v, c)
      BY <2>4, <2>5 DEF Holds
    <3>2. \A w, n : Holds(new, w, n) => MessagesOf(new, w) = n
      BY <1>1, <1>2, MessagesBecome
    <3> QED
      BY <3>1, <3>2
  <2> QED
    BY <2>6 DEF c
<1> QED
  BY <1>3, <1>4 DEF new

\* A public message goes to the end of every other user's mail
LEMMA EnqueueAllMessages ==
    ASSUME NEW U, NEW B, NEW ps \in Seq(Profiles(U, Seq(B))), NoTwoFor(ps),
           NEW u, NEW b \in B, Len(ps) # 1
    PROVE  LET new == AfterEnqueueAllExcept(ps, u, b)
           IN  /\ new \in Seq(Profiles(U, Seq(B)))
               /\ NoTwoFor(new)
               /\ Online(new) = Online(ps)
               /\ \A v : MessagesOf(new, v) =
                             IF v \in Online(ps) \ {u}
                             THEN Append(MessagesOf(ps, v), b)
                             ELSE MessagesOf(ps, v)
<1> DEFINE new == AfterEnqueueAllExcept(ps, u, b)
           more(i) == [ps[i] EXCEPT !.messages = Append(@, b)]
<1>1. new = [i \in DOMAIN ps |-> IF ps[i].user = u THEN ps[i] ELSE more(i)]
  BY DEF AfterEnqueueAllExcept
<1> HIDE DEF new
<1>2. ASSUME NEW i \in DOMAIN ps
      PROVE  /\ ps[i] \in Profiles(U, Seq(B))
             /\ more(i) \in Profiles(U, Seq(B))
             /\ more(i).user = ps[i].user
             /\ more(i).messages = Append(ps[i].messages, b)
  <2>1. ps[i] \in Profiles(U, Seq(B))
    OBVIOUS
  <2>2. Append(ps[i].messages, b) \in Seq(B)
    BY <2>1, AppendProperties DEF Profiles
  <2> QED
    BY <2>1, <2>2 DEF Profiles
<1> HIDE DEF more
<1>3. /\ DOMAIN new = DOMAIN ps
      /\ \A i \in DOMAIN ps : new[i] = IF ps[i].user = u THEN ps[i] ELSE more(i)
  BY <1>1
<1>4. new \in Seq(Profiles(U, Seq(B)))
  <2>1. DOMAIN ps = 1..Len(ps) /\ Len(ps) \in Nat
    BY LenProperties
  <2>2. new = [i \in 1..Len(ps) |-> new[i]]
    BY <1>1, <2>1
  <2>3. \A i \in 1..Len(ps) : new[i] \in Profiles(U, Seq(B))
    BY <1>2, <1>3, <2>1
  <2> QED
    BY <2>1, <2>2, <2>3, SeqDef
<1>5. \A i \in DOMAIN ps : new[i].user = ps[i].user
  BY <1>2, <1>3
<1>6. NoTwoFor(new)
  BY <1>3, <1>4, <1>5, SameUsers
<1>7. Online(new) = Online(ps)
  BY <1>3, <1>5 DEF Online
<1>8. ASSUME NEW v
      PROVE  MessagesOf(new, v) = IF v \in Online(ps) \ {u}
                                  THEN Append(MessagesOf(ps, v), b)
                                  ELSE MessagesOf(ps, v)
  <2> DEFINE c == IF v \in Online(ps) \ {u}
                  THEN Append(MessagesOf(ps, v), b) ELSE MessagesOf(ps, v)
  <2>1. /\ \A i \in DOMAIN ps : MessagesOf(ps, ps[i].user) = ps[i].messages
        /\ v \notin Online(ps) => MessagesOf(ps, v) = <<>>
    BY MessagesAre
  <2>2. ASSUME NEW i \in DOMAIN new, new[i].user = v
        PROVE  new[i].messages = c
    <3>1. ps[i].user = v /\ v \in Online(ps) /\ MessagesOf(ps, v) = ps[i].messages
      BY <1>3, <1>5, <2>1, <2>2 DEF Online
    <3> QED
      BY <1>2, <1>3, <3>1
  <2>3. v \notin Online(new) => c = <<>>
    BY <1>7, <2>1
  <2> HIDE DEF c
  <2>4. MessagesOf(new, v) = c
    <3>1. Holds(new, v, c)
      BY <2>2, <2>3 DEF Holds
    <3>2. \A w, n : Holds(new, w, n) => MessagesOf(new, w) = n
      BY <1>4, <1>6, MessagesBecome
    <3> QED
      BY <3>1, <3>2
  <2> QED
    BY <2>4 DEF c
<1> QED
  BY <1>4, <1>6, <1>7, <1>8 DEF new

=============================================================================
