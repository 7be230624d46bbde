-------------------------- MODULE DataStoreProofs --------------------------
(***************************************************************************)
(* What TLAPS proves of the data store for any users, passwords, bodies    *)
(* and bound on the deques.                                                *)
(***************************************************************************)
EXTENDS DataStore, DataStoreLemmas

\* The inductive invariant.  The last conjunct is what makes Reset harmless:
\* it empties the registrar only when nobody is signed in.
DSInv ==
    /\ DSTypeOK
    /\ UniqueProfiles
    /\ UniqueEntries
    /\ SignedInAreRegistered
    /\ ~running => profiles = <<>>

-----------------------------------------------------------------------------
(* The invariant *)

\* A new file and a new process satisfy it
LEMMA InitDSInv == DSInit => DSInv
BY DEF DSInit, DSInv, DSTypeOK, UniqueProfiles, UniqueEntries, SignedInAreRegistered

\* Registering appends a line for a new name or changes nothing
LEMMA RegisterDSInv ==
    ASSUME DSInv, NEW u \in Users, NEW p \in Passwords, Register(u, p)
    PROVE  DSInv'
<1>1. /\ registrar \in Seq(Entries(Users, Passwords)) /\ NoTwoFor(registrar)
      /\ profiles \in Seq(Profiles(Users, Seq(Bodies)))
  BY DEF DSInv, DSTypeOK, UniqueEntries, NoTwoFor, Entries, Profiles
<1>2. CASE IsIn(registrar, u)
  <2>1. UNCHANGED <<registrar, profiles, running>> /\ result' = "FAILURE"
    BY <1>2 DEF Register, AfterRegister, RegisterStatus
  <2> QED
    BY <2>1 DEF DSInv, DSTypeOK, UniqueProfiles, UniqueEntries,
                SignedInAreRegistered, Statuses
<1>3. CASE ~IsIn(registrar, u)
  <2> DEFINE e == [user |-> u, pwd |-> p]
  <2>1. /\ registrar' = Append(registrar, e)
        /\ UNCHANGED <<profiles, running>>
        /\ running
        /\ result' = "OK"
    BY <1>3 DEF Register, AfterRegister, RegisterStatus
  <2>2. e \in Entries(Users, Passwords)
    BY DEF Entries
  <2>3. /\ registrar' \in Seq(Entries(Users, Passwords))
        /\ Len(registrar') = Len(registrar) + 1
        /\ \A i \in 1..Len(registrar) : registrar'[i] = registrar[i]
        /\ registrar'[Len(registrar) + 1] = e
    BY <1>1, <2>1, <2>2, AppendProperties
  <2>4. \A i \in DOMAIN registrar : registrar[i].user # u
    BY <1>1, <1>3, EntryExists
  <2>5. NoTwoFor(registrar')
    BY <1>1, <2>3, <2>4 DEF NoTwoFor
  <2>6. SignedInAreRegistered'
    <3> SUFFICES ASSUME NEW i \in DOMAIN profiles
                 PROVE  IsIn(registrar', profiles[i].user)
      BY <2>1 DEF SignedInAreRegistered
    <3>1. IsIn(registrar, profiles[i].user)
      BY DEF DSInv, SignedInAreRegistered
    <3>2. PICK j \in DOMAIN registrar : registrar[j].user = profiles[i].user
      BY <1>1, <3>1, EntryExists
    <3>3. j \in DOMAIN registrar' /\ registrar'[j].user = profiles[i].user
      BY <1>1, <2>3, <3>2
    <3> QED
      BY <2>3, <2>5, <3>3, EntryExists
  <2> QED
    BY <2>1, <2>3, <2>5, <2>6
       DEF DSInv, DSTypeOK, UniqueProfiles, UniqueEntries, NoTwoFor, Entries, Statuses
<1> QED
  BY <1>2, <1>3

\* Login appends a profile only for a registered user who has none
LEMMA LoginDSInv ==
    ASSUME DSInv, NEW u \in Users, NEW p \in Passwords, Login(u, p)
    PROVE  DSInv'
<1>1. /\ registrar \in Seq(Entries(Users, Passwords)) /\ NoTwoFor(registrar)
      /\ profiles \in Seq(Profiles(Users, Seq(Bodies))) /\ NoTwoFor(profiles)
  BY DEF DSInv, DSTypeOK, UniqueEntries, UniqueProfiles, NoTwoFor, Entries, Profiles
<1>2. result' \in Statuses
  BY DEF Login, LoginStatus, Statuses
<1>3. CASE LoginStatus(registrar, profiles, u, p) # "LOGGED_IN"
  <2>1. UNCHANGED <<registrar, profiles, running>>
    BY <1>3 DEF Login, AfterLogin
  <2> QED
    BY <1>2, <2>1 DEF DSInv, DSTypeOK, UniqueProfiles, UniqueEntries,
                      SignedInAreRegistered
<1>4. CASE LoginStatus(registrar, profiles, u, p) = "LOGGED_IN"
  <2> DEFINE q == [user |-> u, messages |-> <<>>]
  <2>1. /\ profiles' = Append(profiles, q)
        /\ UNCHANGED <<registrar, running>>
        /\ running
    BY <1>4 DEF Login, AfterLogin
  <2>2. IsIn(registrar, u) /\ ~IsLoggedIn(profiles, u)
    BY <1>4 DEF LoginStatus
  <2>3. q \in Profiles(Users, Seq(Bodies))
    BY DEF Profiles
  <2>4. /\ profiles' \in Seq(Profiles(Users, Seq(Bodies)))
        /\ Len(profiles') = Len(profiles) + 1
        /\ \A i \in 1..Len(profiles) : profiles'[i] = profiles[i]
        /\ profiles'[Len(profiles) + 1] = q
    BY <1>1, <2>1, <2>3, AppendProperties
  <2>5. \A i \in DOMAIN profiles : profiles[i].user # u
    BY <1>1, <2>2, ProfileExists
  <2>6. NoTwoFor(profiles')
    BY <1>1, <2>4, <2>5 DEF NoTwoFor
  <2>7. \A i \in DOMAIN profiles' : i \in DOMAIN profiles \/ profiles'[i] = q
    BY <1>1, <2>4
  <2>8. SignedInAreRegistered'
    BY <1>1, <2>1, <2>2, <2>4, <2>7 DEF DSInv, SignedInAreRegistered
  <2>9. \A i \in DOMAIN profiles' : Len(profiles'[i].messages) <= MaxQueue
    <3> TAKE i \in DOMAIN profiles'
    <3>1. CASE profiles'[i] = q
      BY <3>1, MaxQueueAssumption
    <3>2. CASE i \in DOMAIN profiles
      <4>1. profiles'[i] = profiles[i]
        BY <1>1, <2>4, <3>2
      <4>2. Len(profiles[i].messages) <= MaxQueue
        BY <3>2 DEF DSInv, DSTypeOK
      <4> QED
        BY <4>1, <4>2
    <3> QED
      BY <2>7, <3>1, <3>2
  <2> QED
    BY <1>2, <2>1, <2>4, <2>6, <2>8, <2>9
       DEF DSInv, DSTypeOK, UniqueProfiles, UniqueEntries, NoTwoFor, Profiles
<1> QED
  BY <1>3, <1>4

\* Logout erases at most the profile of the user
LEMMA LogoutDSInv ==
    ASSUME DSInv, NEW u \in Users, Logout(u)
    PROVE  DSInv'
<1>1. profiles \in Seq(Profiles(Users, Seq(Bodies))) /\ NoTwoFor(profiles)
  BY DEF DSInv, DSTypeOK, UniqueProfiles, NoTwoFor, Profiles
<1>2. /\ profiles' = AfterLogout(profiles, u)
      /\ UNCHANGED <<registrar, running>>
      /\ running
      /\ result' \in Statuses
  BY DEF Logout, LogoutStatus, Statuses
<1>3. /\ profiles' \in Seq(Profiles(Users, Seq(Bodies)))
      /\ NoTwoFor(profiles')
      /\ \A i \in DOMAIN profiles' : \E j \in DOMAIN profiles : profiles[j] = profiles'[i]
  BY <1>1, <1>2, LogoutProfiles
<1>4. SignedInAreRegistered'
  BY <1>2, <1>3 DEF DSInv, SignedInAreRegistered
<1>5. \A i \in DOMAIN profiles' : Len(profiles'[i].messages) <= MaxQueue
  BY <1>3 DEF DSInv, DSTypeOK
<1> QED
  BY <1>2, <1>3, <1>4, <1>5
     DEF DSInv, DSTypeOK, UniqueProfiles, UniqueEntries, NoTwoFor, Profiles

\* Replacing the deque of one profile, or of several, keeps the invariant when
\* the new deques are within the bound
LEMMA SameUsersDSInv ==
    ASSUME DSInv,
           profiles' \in Seq(Profiles(Users, Seq(Bodies))),
           DOMAIN profiles' = DOMAIN profiles,
           \A i \in DOMAIN profiles : profiles'[i].user = profiles[i].user,
           \A i \in DOMAIN profiles' : Len(profiles'[i].messages) <= MaxQueue,
           running,
           UNCHANGED <<registrar, running>>,
           result' \in Statuses \cup Bodies \cup {None}
    PROVE  DSInv'
<1>1. profiles \in Seq(Profiles(Users, Seq(Bodies))) /\ NoTwoFor(profiles)
  BY DEF DSInv, DSTypeOK, UniqueProfiles, NoTwoFor, Profiles
<1>2. NoTwoFor(profiles')
  BY <1>1, SameUsers
<1>3. SignedInAreRegistered'
  BY DEF DSInv, SignedInAreRegistered
<1> QED
  BY <1>2, <1>3 DEF DSInv, DSTypeOK, UniqueProfiles, UniqueEntries, NoTwoFor, Profiles

\* Enqueue makes one deque longer, and those of the others it leaves alone
LEMMA EnqueueDSInv ==
    ASSUME DSInv, NEW u \in Users, NEW b \in Bodies, Enqueue(u, b)
    PROVE  DSInv'
<1>1. profiles \in Seq(Profiles(Users, Seq(Bodies))) /\ NoTwoFor(profiles)
  BY DEF DSInv, DSTypeOK, UniqueProfiles, NoTwoFor, Profiles
<1>2. /\ profiles' = AfterEnqueue(profiles, u, b)
      /\ UNCHANGED <<registrar, running>>
      /\ running
      /\ result' \in Statuses
      /\ Len(MessagesOf(profiles, u)) < MaxQueue
  BY DEF Enqueue, EnqueueStatus, Statuses
<1>3. CASE ~IsLoggedIn(profiles, u)
  <2>1. profiles' = profiles
    BY <1>2, <1>3 DEF AfterEnqueue
  <2> QED
    BY <1>1, <1>2, <2>1, SameUsersDSInv DEF DSInv, DSTypeOK
<1>4. CASE IsLoggedIn(profiles, u)
  <2> DEFINE k == FindIndexOf(profiles, u)
  <2>1. k \in DOMAIN profiles
    BY <1>1, <1>4, ProfileExists
  <2>2. profiles' = [profiles EXCEPT ![k].messages = Append(@, b)]
    BY <1>2, <1>4 DEF AfterEnqueue
  <2>3. Len(profiles[k].messages) < MaxQueue
    BY <1>2, <1>4 DEF MessagesOf
  <2> DEFINE old == profiles[k].messages
  <2> HIDE DEF k
  <2>4. old \in Seq(Bodies)
    <3>1. profiles[k] \in Profiles(Users, Seq(Bodies))
      BY <1>1, <2>1
    <3> QED
      BY <3>1 DEF Profiles
  <2>5. profiles' = WithDeque(profiles, k, Append(old, b))
    BY <2>2 DEF WithDeque
  <2> HIDE DEF old
  <2>6. /\ Append(old, b) \in Seq(Bodies)
        /\ Len(Append(old, b)) = Len(old) + 1
        /\ Len(old) \in Nat
    BY <2>4, AppendProperties, LenProperties
  <2>7. Len(Append(old, b)) <= MaxQueue
    BY <2>3, <2>6, MaxQueueAssumption DEF old
  <2>8. /\ profiles' \in Seq(Profiles(Users, Seq(Bodies)))
        /\ DOMAIN profiles' = DOMAIN profiles
        /\ \A i \in DOMAIN profiles : profiles'[i].user = profiles[i].user
        /\ \A i \in DOMAIN profiles : profiles'[i].messages =
               IF i = k THEN Append(old, b) ELSE profiles[i].messages
    <3> DEFINE m == Append(old, b)
    <3>1. profiles \in Seq(Profiles(Users, Seq(Bodies))) /\ k \in DOMAIN profiles /\ m \in Seq(Bodies)
      BY <1>1, <2>1, <2>5, <2>6
    <3> HIDE DEF m
    <3>2. /\ WithDeque(profiles, k, m) \in Seq(Profiles(Users, Seq(Bodies)))
          /\ DOMAIN WithDeque(profiles, k, m) = DOMAIN profiles
          /\ \A i \in DOMAIN profiles :
                 WithDeque(profiles, k, m)[i].user = profiles[i].user
          /\ \A i \in DOMAIN profiles : WithDeque(profiles, k, m)[i].messages =
                 IF i = k THEN m ELSE profiles[i].messages
      BY <3>1, SetDeque
    <3> QED
      BY <2>5, <3>2 DEF m
  <2>9. \A i \in DOMAIN profiles' : Len(profiles'[i].messages) <= MaxQueue
    BY <2>7, <2>8 DEF DSInv, DSTypeOK
  <2> QED
    BY <1>2, <2>8, <2>9, SameUsersDSInv
<1> QED
  BY <1>3, <1>4

\* EnqueueAllExcept makes deques longer and changes no name
LEMMA EnqueueAllExceptDSInv ==
    ASSUME DSInv, NEW u \in Users, NEW b \in Bodies, EnqueueAllExcept(u, b)
    PROVE  DSInv'
<1>1. profiles \in Seq(Profiles(Users, Seq(Bodies))) /\ NoTwoFor(profiles)
  BY DEF DSInv, DSTypeOK, UniqueProfiles, NoTwoFor, Profiles
<1>2. /\ profiles' = AfterEnqueueAllExcept(profiles, u, b)
      /\ UNCHANGED <<registrar, running>>
      /\ running
      /\ result' \in Statuses
      /\ \A i \in DOMAIN profiles : Len(profiles[i].messages) < MaxQueue
  BY DEF EnqueueAllExcept, EnqueueAllStatus, Statuses
<1>3. CASE Len(profiles) = 1
  <2>1. profiles' = profiles
    BY <1>2, <1>3 DEF AfterEnqueueAllExcept
  <2> QED
    BY <1>1, <1>2, <2>1, SameUsersDSInv DEF DSInv, DSTypeOK
<1>4. CASE Len(profiles) # 1
  <2> DEFINE more(i) == [profiles[i] EXCEPT !.messages = Append(@, b)]
  <2>1. profiles' = [i \in DOMAIN profiles |->
                        IF profiles[i].user = u THEN profiles[i] ELSE more(i)]
    BY <1>2, <1>4 DEF AfterEnqueueAllExcept
  <2>2. ASSUME NEW i \in DOMAIN profiles
        PROVE  /\ more(i) \in Profiles(Users, Seq(Bodies))
               /\ more(i).user = profiles[i].user
               /\ Len(more(i).messages) <= MaxQueue
    <3>1. profiles[i] \in Profiles(Users, Seq(Bodies))
      BY <1>1
    <3>2. /\ Append(profiles[i].messages, b) \in Seq(Bodies)
          /\ Len(Append(profiles[i].messages, b)) = Len(profiles[i].messages) + 1
      BY <3>1, AppendProperties DEF Profiles
    <3>3. /\ more(i).messages = Append(profiles[i].messages, b)
          /\ more(i).user = profiles[i].user
          /\ more(i) \in Profiles(Users, Seq(Bodies))
      BY <3>1, <3>2 DEF Profiles
    <3>4. Len(profiles[i].messages) \in Nat
      BY <3>1, LenProperties DEF Profiles
    <3> QED
      BY <1>2, <3>2, <3>3, <3>4, MaxQueueAssumption
  <2>3. DOMAIN profiles' = DOMAIN profiles
    BY <2>1
  <2>4. \A i \in DOMAIN profiles : /\ profiles'[i] \in Profiles(Users, Seq(Bodies))
                                   /\ profiles'[i].user = profiles[i].user
                                   /\ Len(profiles'[i].messages) <= MaxQueue
    <3> TAKE i \in DOMAIN profiles
    <3>1. profiles'[i] = IF profiles[i].user = u THEN profiles[i] ELSE more(i)
      BY <2>1
    <3> HIDE DEF more
    <3>2. profiles[i] \in Profiles(Users, Seq(Bodies)) /\ Len(profiles[i].messages) <= MaxQueue
      BY <1>1 DEF DSInv, DSTypeOK
    <3> QED
      BY <2>2, <3>1, <3>2
  <2>5. profiles' \in Seq(Profiles(Users, Seq(Bodies)))
    <3>1. DOMAIN profiles = 1..Len(profiles) /\ Len(profiles) \in Nat
      BY <1>1, LenProperties
    <3>2. profiles' = [i \in 1..Len(profiles) |-> profiles'[i]]
      BY <2>1, <3>1
    <3> QED
      BY <2>4, <3>1, <3>2, SeqDef
  <2> QED
    BY <1>2, <2>3, <2>4, <2>5, SameUsersDSInv
<1> QED
  BY <1>3, <1>4

\* Dequeue makes one deque shorter
LEMMA DequeueDSInv ==
    ASSUME DSInv, NEW u \in Users, Dequeue(u)
    PROVE  DSInv'
<1>1. profiles \in Seq(Profiles(Users, Seq(Bodies))) /\ NoTwoFor(profiles)
  BY DEF DSInv, DSTypeOK, UniqueProfiles, NoTwoFor, Profiles
<1>2. /\ profiles' = AfterDequeue(profiles, u)
      /\ UNCHANGED <<registrar, running>>
      /\ running
      /\ result' = DequeueBody(profiles, u)
  BY DEF Dequeue
<1>3. CASE MessagesOf(profiles, u) = <<>>
  <2>1. profiles' = profiles /\ result' = None
    BY <1>2, <1>3 DEF AfterDequeue, DequeueBody
  <2> QED
    BY <1>1, <1>2, <2>1, SameUsersDSInv DEF DSInv, DSTypeOK
<1>4. CASE MessagesOf(profiles, u) # <<>>
  <2> DEFINE k == FindIndexOf(profiles, u)
  <2>1. /\ k \in DOMAIN profiles
        /\ MessagesOf(profiles, u) = profiles[k].messages
    BY <1>1, <1>4, ProfileExists DEF MessagesOf
  <2>2. profiles' = [profiles EXCEPT ![k].messages = Tail(@)]
    BY <1>2, <1>4 DEF AfterDequeue
  <2>3. result' = Head(profiles[k].messages)
    BY <1>2, <1>4, <2>1 DEF DequeueBody
  <2> DEFINE old == profiles[k].messages
  <2>4. old # <<>>
    BY <1>4, <2>1
  <2> HIDE DEF k
  <2>5. old \in Seq(Bodies) /\ Len(old) <= MaxQueue
    <3>1. profiles[k] \in Profiles(Users, Seq(Bodies))
      BY <1>1, <2>1
    <3>2. old \in Seq(Bodies)
      BY <3>1 DEF Profiles
    <3>3. Len(old) <= MaxQueue
      BY <2>1 DEF DSInv, DSTypeOK
    <3> QED
      BY <3>2, <3>3
  <2>6. profiles' = WithDeque(profiles, k, Tail(old)) /\ result' = Head(old)
    BY <2>2, <2>3 DEF WithDeque
  <2> HIDE DEF old
  <2>7. /\ Head(old) \in Bodies
        /\ Tail(old) \in Seq(Bodies)
        /\ Len(Tail(old)) = Len(old) - 1
        /\ Len(old) \in Nat
    BY <2>4, <2>5, HeadTailProperties, LenProperties
  <2>8. /\ profiles' \in Seq(Profiles(Users, Seq(Bodies)))
        /\ DOMAIN profiles' = DOMAIN profiles
        /\ \A i \in DOMAIN profiles : profiles'[i].user = profiles[i].user
        /\ \A i \in DOMAIN profiles : profiles'[i].messages =
               IF i = k THEN Tail(old) ELSE profiles[i].messages
    <3> DEFINE m == Tail(old)
    <3>1. profiles \in Seq(Profiles(Users, Seq(Bodies))) /\ k \in DOMAIN profiles /\ m \in Seq(Bodies)
      BY <1>1, <2>1, <2>6, <2>7
    <3> HIDE DEF m
    <3>2. /\ WithDeque(profiles, k, m) \in Seq(Profiles(Users, Seq(Bodies)))
          /\ DOMAIN WithDeque(profiles, k, m) = DOMAIN profiles
          /\ \A i \in DOMAIN profiles :
                 WithDeque(profiles, k, m)[i].user = profiles[i].user
          /\ \A i \in DOMAIN profiles : WithDeque(profiles, k, m)[i].messages =
                 IF i = k THEN m ELSE profiles[i].messages
      BY <3>1, SetDeque
    <3> QED
      BY <2>6, <3>2 DEF m
  <2>9. Len(Tail(old)) <= MaxQueue
    BY <2>5, <2>7, MaxQueueAssumption
  <2>10. \A i \in DOMAIN profiles' : Len(profiles'[i].messages) <= MaxQueue
    BY <2>8, <2>9 DEF DSInv, DSTypeOK
  <2> QED
    BY <1>2, <2>6, <2>7, <2>8, <2>10, SameUsersDSInv
<1> QED
  BY <1>3, <1>4

\* Stopping drops the profiles, so an emptied registrar contradicts nobody
LEMMA ProcessDSInv ==
    ASSUME DSInv, Stop \/ Start \/ Reset
    PROVE  DSInv'
<1>1. /\ profiles' = <<>>
      /\ registrar' = registrar \/ registrar' = <<>>
      /\ running' = TRUE \/ running' = FALSE \/ running' = running
      /\ result' = result \/ result' = None
  BY SMT DEF DSInv, Stop, Start, Reset
<1>2. UniqueProfiles' /\ SignedInAreRegistered' /\ (~running => profiles = <<>>)'
  BY <1>1 DEF UniqueProfiles, SignedInAreRegistered
<1>3. UniqueEntries'
  BY <1>1 DEF DSInv, UniqueEntries
<1>4. DSTypeOK'
  <2>1. /\ registrar' \in Seq([user : Users, pwd : Passwords])
        /\ profiles' \in Seq([user : Users, messages : Seq(Bodies)])
    BY <1>1, EmptySeq DEF DSInv, DSTypeOK
  <2>2. \A i \in DOMAIN profiles' : Len(profiles'[i].messages) <= MaxQueue
    BY <1>1
  <2>3. running' \in BOOLEAN /\ result' \in Statuses \cup Bodies \cup {None}
    BY <1>1 DEF DSInv, DSTypeOK
  <2> QED
    BY <2>1, <2>2, <2>3 DEF DSTypeOK
<1> QED
  BY <1>2, <1>3, <1>4 DEF DSInv

\* Every method keeps the invariant, and so do the ends and starts of the process
LEMMA NextDSInv == DSInv /\ [DSNext]_dsVars => DSInv'
<1> SUFFICES ASSUME DSInv, [DSNext]_dsVars
             PROVE  DSInv'
  OBVIOUS
<1>1. CASE \E u \in Users, p \in Passwords : Register(u, p) \/ Login(u, p)
  BY <1>1, RegisterDSInv, LoginDSInv
<1>2. CASE \E u \in Users : Logout(u) \/ Dequeue(u)
  BY <1>2, LogoutDSInv, DequeueDSInv
<1>3. CASE \E u \in Users, b \in Bodies : Enqueue(u, b) \/ EnqueueAllExcept(u, b)
  BY <1>3, EnqueueDSInv, EnqueueAllExceptDSInv
<1>4. CASE Stop \/ Start \/ Reset
  BY <1>4, ProcessDSInv
<1>5. CASE UNCHANGED dsVars
  BY <1>5 DEF dsVars, DSInv, DSTypeOK, UniqueProfiles, UniqueEntries,
              SignedInAreRegistered
<1> QED
  BY <1>1, <1>2, <1>3, <1>4, <1>5 DEF DSNext

\* So it holds of every state the data store reaches
LEMMA Invariance == DSSpec => []DSInv
BY InitDSInv, NextDSInv, PTL DEF DSSpec

\* The registrar, the profiles and the results keep their types, and no deque
\* outgrows the bound
THEOREM TypeCorrect == DSSpec => []DSTypeOK
<1>1. DSInv => DSTypeOK
  BY DEF DSInv
<1> QED
  BY <1>1, Invariance, PTL

\* A user has at most one profile, whatever logins and logouts came before
THEOREM OneProfileEach == DSSpec => []UniqueProfiles
<1>1. DSInv => UniqueProfiles
  BY DEF DSInv
<1> QED
  BY <1>1, Invariance, PTL

\* The registrar file has at most one line for a name
THEOREM OneEntryEach == DSSpec => []UniqueEntries
<1>1. DSInv => UniqueEntries
  BY DEF DSInv
<1> QED
  BY <1>1, Invariance, PTL

\* Nobody is signed in without being registered, across stops and resets
THEOREM OnlyRegisteredSignedIn == DSSpec => []SignedInAreRegistered
<1>1. DSInv => SignedInAreRegistered
  BY DEF DSInv
<1> QED
  BY <1>1, Invariance, PTL

-----------------------------------------------------------------------------
(* The data store implements Accounts: every step of the file and of the      *)
(* vector is a step of the passwords, the online users and the mailboxes, or  *)
(* leaves them alone.                                                         *)

\* The mapping of Abs, by names
Password == [u \in Users |-> PasswordOf(registrar, u)]
Mail == [u \in Users |-> MessagesOf(profiles, u)]

\* What the steps need of the invariant
LEMMA Typed ==
    ASSUME DSInv
    PROVE  /\ registrar \in Seq(Entries(Users, Passwords)) /\ NoTwoFor(registrar)
           /\ profiles \in Seq(Profiles(Users, Seq(Bodies))) /\ NoTwoFor(profiles)
           /\ running \in BOOLEAN
BY DEF DSInv, DSTypeOK, UniqueEntries, UniqueProfiles, NoTwoFor, Entries, Profiles

\* An empty file and an empty vector are accounts that nobody has
LEMMA InitMaps == DSInit => Abs!Init
<1> SUFFICES ASSUME DSInit
             PROVE  Abs!Init
  OBVIOUS
<1>1. registrar = <<>> /\ profiles = <<>> /\ running = TRUE
  BY DEF DSInit
<1>2. profiles \in Seq(Profiles(Users, Seq(Bodies))) /\ NoTwoFor(profiles)
  BY <1>1 DEF NoTwoFor
<1>3. Online(profiles) = {}
  BY <1>1 DEF Online
<1>4. \A u \in Users : PasswordOf(registrar, u) = None
  BY <1>1, NoPasswords
<1>5. \A u \in Users : MessagesOf(profiles, u) = <<>>
  BY <1>2, <1>3, MessagesAre
<1> QED
  BY <1>1, <1>3, <1>4, <1>5 DEF Abs!Init, Online

\* Register signs up a new name
LEMMA RegisterMaps ==
    ASSUME DSInv, NEW u \in Users, NEW p \in Passwords, Register(u, p)
    PROVE  Abs!SignUp(u, p) \/ UNCHANGED Abs!vars
<1>1. CASE IsIn(registrar, u)
  <2>1. UNCHANGED <<registrar, profiles, running>>
    BY <1>1 DEF Register, AfterRegister
  <2> QED
    BY <2>1 DEF Abs!vars
<1>2. CASE ~IsIn(registrar, u)
  <2>1. /\ running /\ UNCHANGED <<profiles, running>>
        /\ registrar' = AfterRegister(registrar, u, p)
    BY DEF Register
  <2>2. \A v : PasswordOf(registrar', v) = IF v = u THEN p ELSE PasswordOf(registrar, v)
    BY <1>2, <2>1, Typed, RegisterPasswords
  <2>3. Password' = [Password EXCEPT ![u] = p]
    BY <2>2 DEF Password
  <2>4. Password[u] = None
    BY <1>2 DEF Password, PasswordOf
  <2> QED
    BY <2>1, <2>3, <2>4 DEF Abs!SignUp, Password
<1> QED
  BY <1>1, <1>2

\* Login brings a registered user online, with no mail
LEMMA LoginMaps ==
    ASSUME DSInv, NEW u \in Users, NEW p \in Passwords, Login(u, p)
    PROVE  Abs!SignIn(u) \/ UNCHANGED Abs!vars
<1>1. CASE LoginStatus(registrar, profiles, u, p) # "LOGGED_IN"
  <2>1. UNCHANGED <<registrar, profiles, running>>
    BY <1>1 DEF Login, AfterLogin
  <2> QED
    BY <2>1 DEF Abs!vars
<1>2. CASE LoginStatus(registrar, profiles, u, p) = "LOGGED_IN"
  <2>1. /\ running /\ UNCHANGED <<registrar, running>>
        /\ profiles' = Append(profiles, [user |-> u, messages |-> <<>>])
    BY <1>2 DEF Login, AfterLogin
  <2>2. IsIn(registrar, u) /\ ~IsLoggedIn(profiles, u)
    BY <1>2 DEF LoginStatus
  <2>3. /\ Online(profiles') = Online(profiles) \cup {u}
        /\ \A v : MessagesOf(profiles', v) = MessagesOf(profiles, v)
    BY <2>1, <2>2, Typed, LoginMessages
  <2>4. PasswordOf(registrar, u) # None
    BY <2>2, Typed, PasswordIs, NoneAssumption
  <2>5. u \notin Online(profiles)
    BY <2>2, Typed, MessagesAre
  <2>6. Mail' = Mail
    BY <2>3 DEF Mail
  <2> QED
    BY <2>1, <2>3, <2>4, <2>5, <2>6 DEF Abs!SignIn, Online, Mail
<1> QED
  BY <1>1, <1>2

\* Logout takes one user offline with their mail
LEMMA LogoutMaps ==
    ASSUME DSInv, NEW u \in Users, Logout(u)
    PROVE  \/ {u} \in SUBSET Online(profiles) /\ Abs!SignOut({u})
           \/ UNCHANGED Abs!vars
<1>1. /\ running /\ UNCHANGED <<registrar, running>>
      /\ profiles' = AfterLogout(profiles, u)
  BY DEF Logout
<1>2. CASE ~IsLoggedIn(profiles, u)
  <2>1. profiles' = profiles
    BY <1>1, <1>2 DEF AfterLogout
  <2> QED
    BY <1>1, <2>1 DEF Abs!vars
<1>3. CASE IsLoggedIn(profiles, u)
  <2>1. u \in Online(profiles)
    BY <1>3, Typed, MessagesAre
  <2>2. /\ Online(profiles') = Online(profiles) \ {u}
        /\ \A v : MessagesOf(profiles', v) =
                      IF v = u THEN <<>> ELSE MessagesOf(profiles, v)
    BY <1>1, Typed, LogoutMessages
  <2>3. Mail' = [v \in Users |-> IF v \in {u} THEN <<>> ELSE Mail[v]]
    BY <2>2 DEF Mail
  <2> QED
    BY <1>1, <2>1, <2>2, <2>3 DEF Abs!SignOut, Online, Mail
<1> QED
  BY <1>2, <1>3

\* Enqueue delivers to one online user
LEMMA EnqueueMaps ==
    ASSUME DSInv, NEW u \in Users, NEW b \in Bodies, Enqueue(u, b)
    PROVE  Abs!Deliver(b) \/ UNCHANGED Abs!vars
<1>1. /\ running /\ UNCHANGED <<registrar, running>>
      /\ profiles' = AfterEnqueue(profiles, u, b)
  BY DEF Enqueue
<1>2. CASE ~IsLoggedIn(profiles, u)
  <2>1. profiles' = profiles
    BY <1>1, <1>2 DEF AfterEnqueue
  <2> QED
    BY <1>1, <2>1 DEF Abs!vars
<1>3. CASE IsLoggedIn(profiles, u)
  <2> DEFINE k == FindIndexOf(profiles, u)
             m == Append(MessagesOf(profiles, u), b)
  <2>1. k \in DOMAIN profiles /\ profiles[k].user = u
    BY <1>3, Typed, ProfileExists
  <2>2. profiles' = WithDeque(profiles, k, m)
    BY <1>1, <1>3 DEF AfterEnqueue, WithDeque, MessagesOf
  <2>3. m \in Seq(Bodies)
    <3>1. MessagesOf(profiles, u) = profiles[k].messages
      BY <1>3 DEF MessagesOf
    <3>2. profiles[k] \in Profiles(Users, Seq(Bodies))
      BY <2>1, Typed
    <3> QED
      BY <3>1, <3>2, AppendProperties DEF Profiles
  <2> HIDE DEF k
  <2>4. /\ Online(profiles') = Online(profiles)
        /\ \A v : MessagesOf(profiles', v) = IF v = u THEN m ELSE MessagesOf(profiles, v)
    <3> HIDE DEF m
    <3> QED
      BY <2>1, <2>2, <2>3, Typed, SetDequeMessages
  <2>5. u \in Online(profiles)
    BY <1>3, Typed, MessagesAre
  <2>6. Mail' = [v \in Users |-> IF v \in {u} THEN Append(Mail[v], b) ELSE Mail[v]]
    BY <2>4 DEF Mail
  <2>7. Abs!Post({u}, b)
    BY <1>1, <2>4, <2>5, <2>6 DEF Abs!Post, Online, Mail
  <2> QED
    BY <2>5, <2>7 DEF Abs!Deliver, Online
<1> QED
  BY <1>2, <1>3

\* EnqueueAllExcept delivers to everybody but the sender
LEMMA EnqueueAllExceptMaps ==
    ASSUME DSInv, NEW u \in Users, NEW b \in Bodies, EnqueueAllExcept(u, b)
    PROVE  Abs!Deliver(b) \/ UNCHANGED Abs!vars
<1>1. /\ running /\ UNCHANGED <<registrar, running>>
      /\ IsLoggedIn(profiles, u)
      /\ profiles' = AfterEnqueueAllExcept(profiles, u, b)
  BY DEF EnqueueAllExcept
<1>2. CASE Len(profiles) = 1
  <2>1. profiles' = profiles
    BY <1>1, <1>2 DEF AfterEnqueueAllExcept
  <2> QED
    BY <1>1, <2>1 DEF Abs!vars
<1>3. CASE Len(profiles) # 1
  <2> DEFINE to == Online(profiles) \ {u}
  <2>1. /\ Online(profiles') = Online(profiles)
        /\ \A v : MessagesOf(profiles', v) =
                      IF v \in to THEN Append(MessagesOf(profiles, v), b)
                      ELSE MessagesOf(profiles, v)
    BY <1>1, <1>3, Typed, EnqueueAllMessages
  <2>2. u \in Online(profiles)
    BY <1>1, Typed, MessagesAre
  <2>3. Mail' = [v \in Users |-> IF v \in to THEN Append(Mail[v], b) ELSE Mail[v]]
    BY <2>1 DEF Mail
  <2>4. Abs!Post(to, b)
    BY <1>1, <2>1, <2>3 DEF Abs!Post, Online, Mail
  <2> QED
    BY <2>2, <2>4 DEF Abs!Deliver, Online
<1> QED
  BY <1>2, <1>3

\* Dequeue collects the oldest body
LEMMA DequeueMaps ==
    ASSUME DSInv, NEW u \in Users, Dequeue(u)
    PROVE  Abs!Collect(u) \/ UNCHANGED Abs!vars
<1>1. /\ running /\ UNCHANGED <<registrar, running>>
      /\ profiles' = AfterDequeue(profiles, u)
  BY DEF Dequeue
<1>2. CASE MessagesOf(profiles, u) = <<>>
  <2>1. profiles' = profiles
    BY <1>1, <1>2 DEF AfterDequeue
  <2> QED
    BY <1>1, <2>1 DEF Abs!vars
<1>3. CASE MessagesOf(profiles, u) # <<>>
  <2> DEFINE k == FindIndexOf(profiles, u)
             m == Tail(MessagesOf(profiles, u))
  <2>1. IsLoggedIn(profiles, u)
    BY <1>3 DEF MessagesOf
  <2>2. k \in DOMAIN profiles /\ profiles[k].user = u
    BY <2>1, Typed, ProfileExists
  <2>3. profiles' = WithDeque(profiles, k, m)
    BY <1>1, <1>3, <2>1 DEF AfterDequeue, WithDeque, MessagesOf
  <2>4. m \in Seq(Bodies)
    <3>1. MessagesOf(profiles, u) = profiles[k].messages
      BY <2>1 DEF MessagesOf
    <3>2. profiles[k] \in Profiles(Users, Seq(Bodies))
      BY <2>2, Typed
    <3> QED
      BY <1>3, <3>1, <3>2, HeadTailProperties DEF Profiles
  <2> HIDE DEF k
  <2>5. /\ Online(profiles') = Online(profiles)
        /\ \A v : MessagesOf(profiles', v) = IF v = u THEN m ELSE MessagesOf(profiles, v)
    <3> HIDE DEF m
    <3> QED
      BY <2>2, <2>3, <2>4, Typed, SetDequeMessages
  <2>6. Mail' = [Mail EXCEPT ![u] = Tail(@)]
    BY <2>5 DEF Mail
  <2>7. Mail[u] # <<>>
    BY <1>3 DEF Mail
  <2> QED
    BY <1>1, <2>5, <2>6, <2>7 DEF Abs!Collect, Online, Mail
<1> QED
  BY <1>2, <1>3

\* The end of the process, its start and the reset of the file
LEMMA ProcessMaps ==
    ASSUME DSInv, Stop \/ Start \/ Reset
    PROVE  Abs!Shutdown \/ Abs!Boot \/ Abs!Forget
<1>1. CASE Stop
  <2>1. running /\ ~running' /\ registrar' = registrar /\ profiles' = <<>>
    BY <1>1 DEF Stop
  <2>2. profiles' \in Seq(Profiles(Users, Seq(Bodies))) /\ NoTwoFor(profiles')
    BY <2>1 DEF NoTwoFor
  <2>3. Online(profiles') = {}
    BY <2>1 DEF Online
  <2>4. \A u \in Users : MessagesOf(profiles', u) = <<>>
    BY <2>2, <2>3, MessagesAre
  <2>5. running' = FALSE
    BY <1>1 DEF Stop
  <2> QED
    BY <2>1, <2>3, <2>4, <2>5 DEF Abs!Shutdown, Online
<1>2. CASE Start
  BY <1>2 DEF Start, Abs!Boot
<1>3. CASE Reset
  <2>1. ~running /\ registrar' = <<>> /\ UNCHANGED <<profiles, running>>
    BY <1>3 DEF Reset
  <2>2. \A u \in Users : PasswordOf(registrar', u) = None
    BY <2>1, NoPasswords
  <2> QED
    BY <2>1, <2>2 DEF Abs!Forget
<1> QED
  BY <1>1, <1>2, <1>3

\* Every method maps to a step of the accounts or to a stutter
LEMMA NextMaps == DSInv /\ [DSNext]_dsVars => [Abs!Next]_(Abs!vars)
<1> SUFFICES ASSUME DSInv, [DSNext]_dsVars
             PROVE  Abs!Next \/ UNCHANGED Abs!vars
  OBVIOUS
<1>1. CASE \E u \in Users, p \in Passwords : Register(u, p) \/ Login(u, p)
  BY <1>1, RegisterMaps, LoginMaps DEF Abs!Next
<1>2. CASE \E u \in Users : Logout(u) \/ Dequeue(u)
  BY <1>2, LogoutMaps, DequeueMaps DEF Abs!Next, Online
<1>3. CASE \E u \in Users, b \in Bodies : Enqueue(u, b) \/ EnqueueAllExcept(u, b)
  BY <1>3, EnqueueMaps, EnqueueAllExceptMaps DEF Abs!Next
<1>4. CASE Stop \/ Start \/ Reset
  BY <1>4, ProcessMaps DEF Abs!Next
<1>5. CASE UNCHANGED dsVars
  BY <1>5 DEF dsVars, Abs!vars
<1> QED
  BY <1>1, <1>2, <1>3, <1>4, <1>5 DEF DSNext

\* The registrar file, the vector of profiles and the searches through them
\* behave as one password, one online flag and one first-in first-out mailbox
\* for each user, whatever methods the server calls and however often it is
\* stopped and started
THEOREM StoreImplementsAccounts == DSSpec => ImplementsAccounts
<1>1. DSInit => Abs!Init
  BY InitMaps
<1>2. DSInv /\ [DSNext]_dsVars => [Abs!Next]_(Abs!vars)
  BY NextMaps
<1> QED
  BY <1>1, <1>2, Invariance, PTL DEF DSSpec, ImplementsAccounts, Abs!Spec
=============================================================================
