------------------------------- MODULE MCChat -------------------------------
EXTENDS ChatClaims
CONSTANTS c1, c2, alice, bob, pA, pB

Entry(u, p) == [user |-> u, pwd |-> p]
Registered == <<Entry(alice, pA), Entry(bob, pB)>>
OnlyAlice == <<Entry(alice, pA)>>

LoginA  == Cmd("LOGIN", alice, pA)
LoginAWrong == Cmd("LOGIN", alice, pB)
LoginB  == Cmd("LOGIN", bob, pB)
Logout == Cmd("LOGOUT", None, None)
Send    == Cmd("SEND", None, None)
SendTo(u) == Cmd("SEND_TO", u, None)
SendAnon == Cmd("SEND_ANON", None, None)
SendToAnon(u) == Cmd("SEND_TO_ANON", u, None)
SendFile == Cmd("SEND_FILE", None, None)
SendFileTo(u) == Cmd("SEND_FILE_TO", u, None)
List    == Cmd("LIST", None, None)
Delay   == Cmd("DELAY", None, None)
RegisterB == Cmd("REGISTER", bob, pB)
RegisterBToo == Cmd("REGISTER", bob, pA)

Two(s1, s2) == {(c1 :> s1) @@ (c2 :> s2)}

\* Passing runs
MessageScripts == Two(<<LoginA, SendTo(bob)>>, <<LoginB, Send, Logout>>)
             \cup Two(<<LoginA, SendToAnon(bob)>>, <<LoginB, SendAnon, Logout>>)
FileScripts    == Two(<<LoginA, SendFile>>, <<LoginB, List>>)
CrowdScripts   == Two(<<LoginA, Delay, SendTo(bob)>>, <<RegisterB, LoginB>>)
             \cup Two(<<RegisterBToo, LoginA>>, <<RegisterB, LoginB>>)
RestartScripts == Two(<<LoginA, SendTo(bob), Logout>>, <<LoginB>>)

\* Runs that refute a claim
OneSession     == Two(<<LoginA, Logout>>, <<>>)
TwoFiles       == Two(<<LoginA, SendFileTo(bob), SendFileTo(bob)>>, <<LoginB>>)
OneFile        == Two(<<LoginA, SendFileTo(bob), List>>, <<LoginB>>)
WrongPassword  == Two(<<LoginAWrong, LoginA>>, <<>>)
SameUser       == Two(<<LoginA>>, <<LoginA>>)
=============================================================================
