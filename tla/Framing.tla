------------------------------- MODULE Framing -------------------------------
(***************************************************************************)
(* Frames on one direction of a connection, byte by byte: SendMsgNB and    *)
(* RecvMsgNB of src/app/utils/socket/socket_messenger.cpp on non-blocking  *)
(* sockets, called by the loops of the client and the server.  A frame is  *)
(* the size of a body and the body.  The sender takes a new frame only     *)
(* when the one before is written, as CheckMessageDeques does and as holds *)
(* for the one command of a request.                                       *)
(***************************************************************************)
EXTENDS Bytes, SequencesExt

CONSTANTS
    Bodies,     \* the bodies that may be sent
    Room,       \* how many bytes the kernel holds at a time (bound)
    MaxFrames   \* how many frames are sent (bound)

\* The formats never make an empty body, and a size is an int
ASSUME FramingAssumption ==
    /\ Bodies \subseteq Seq(Byte) \ {<<>>}
    /\ \A b \in Bodies : Len(b) <= MaxInt
    /\ Room \in Nat \ {0}
    /\ MaxFrames \in Nat

VARIABLES
    sender,     \* SendStat, the POLLWRNORM of its events, and its end
    wire,       \* written and not read
    receiver,   \* the two MsgStats of RecvStat, and its end
    built,      \* history: the bodies of the frames built
    received    \* history: the bodies handed to the receiving program

vars == <<sender, wire, receiver, built, received>>

Least(a, b) == IF a <= b THEN a ELSE b

Frame(body) == IntToByte(Len(body)) \o body

\* RefreshSendStat and InitRecvStat: no message, and a size to read
Idle == [end |-> "open", msg |-> <<>>, nSent |-> 0, wantWr |-> FALSE]

InitRecvStat == [end |-> "open", size |-> <<>>, body |-> <<>>]

FramingInit ==
    /\ sender = Idle
    /\ wire = <<>>
    /\ receiver = InitRecvStat
    /\ built = <<>>
    /\ received = <<>>

-----------------------------------------------------------------------------
(* Sending *)

Rest(s) == SubSeq(s.msg, s.nSent + 1, Len(s.msg))

\* How many bytes send() may take: some if there is room for any
Takes(s) ==
    LET most == Least(Room - Len(wire), Len(Rest(s)))
    IN  IF most = 0 THEN {0} ELSE 1..most

\* Slip: POLLWRNORM is cleared when the socket blocks, too
WrittenAsleep(s, k) ==
    IF s.nSent + k = Len(s.msg)
    THEN Idle
    ELSE [s EXCEPT !.nSent = @ + k, !.wantWr = FALSE]

\* Slip: nSent is not advanced by what a blocked call has sent
WrittenAgain(s, k) ==
    IF s.nSent + k = Len(s.msg) THEN Idle ELSE [s EXCEPT !.wantWr = TRUE]

\* BLOCKED or OKAY after k bytes
Written(s, k) ==
    IF s.nSent + k = Len(s.msg)
    THEN Idle
    ELSE [s EXCEPT !.nSent = @ + k, !.wantWr = TRUE]

\* What is written towards a closed end is lost, and at some time send() fails
SendMsgNB(s) ==
    /\ \/ \E k \in Takes(s) :
             /\ sender' = Written(s, k)
             /\ wire' = IF receiver.end = "open"
                        THEN wire \o SubSeq(s.msg, s.nSent + 1, s.nSent + k) ELSE <<>>
       \/ /\ receiver.end # "open"
          /\ sender' = [s EXCEPT !.end = "closed"]
          /\ UNCHANGED wire
    /\ UNCHANGED <<receiver, received>>

\* BuildSendMsg and the call of SendMsgNB that follows it
Send ==
    /\ sender = Idle
    /\ Len(built) < MaxFrames
    /\ \E b \in Bodies :
          /\ built' = Append(built, b)
          /\ SendMsgNB([sender EXCEPT !.msg = Frame(b), !.nSent = 0])

\* poll() reports that a blocked socket has become writable
Resume ==
    /\ sender.end = "open"
    /\ sender.wantWr
    /\ Len(wire) < Room
    /\ SendMsgNB(sender)
    /\ UNCHANGED built

CloseSender ==
    /\ sender.end = "open"
    /\ sender' = [sender EXCEPT !.end = "closed"]
    /\ UNCHANGED <<wire, receiver, built, received>>

-----------------------------------------------------------------------------
(* Receiving *)

\* RecvMsgNB when n bytes can be read: the rest of the size, then of the body,
\* and no byte of the next frame
RecvMsgNB(n) ==
    LET a    == Least(n, INT_BYTES - Len(receiver.size))
        size == receiver.size \o SubSeq(wire, 1, a)
        need == IF Len(size) = INT_BYTES THEN ByteToInt(size) - Len(receiver.body) ELSE 0
        b    == IF need > 0 THEN Least(n - a, need) ELSE 0
    IN  [size |-> size,
         body |-> receiver.body \o SubSeq(wire, a + 1, a + b),
         used |-> a + b]

SizeIsSet(r) == Len(r.size) = INT_BYTES

\* A negative size cannot be allocated, and no byte is asked for with size 0,
\* which recv() answers like the end of the stream
BadSize(r) == SizeIsSet(r) /\ ByteToInt(r.size) <= 0

Complete(r) == SizeIsSet(r) /\ ~BadSize(r) /\ Len(r.body) = ByteToInt(r.size)

\* Slip: the bytes of the body before this call are dropped
AfterReadShort(r) ==
    CASE BadSize(r)  -> [receiver EXCEPT !.end = "bad"]
      [] Complete(r) -> [InitRecvStat EXCEPT !.body = r.body]
      [] OTHER       -> [receiver EXCEPT !.size = r.size, !.body = r.body]

\* BLOCKED, ERROR, or OKAY with InitRecvStat by the caller
AfterRead(r) ==
    CASE BadSize(r)  -> [receiver EXCEPT !.end = "bad"]
      [] Complete(r) -> InitRecvStat
      [] OTHER       -> [receiver EXCEPT !.size = r.size, !.body = r.body]

Receive ==
    /\ receiver.end = "open"
    /\ \E n \in 1..Len(wire) :
          LET r == RecvMsgNB(n)
          IN  /\ receiver' = AfterRead(r)
              /\ received' = IF Complete(r) THEN Append(received, r.body) ELSE received
              /\ wire' = SubSeq(wire, r.used + 1, Len(wire))
    /\ UNCHANGED <<sender, built>>

\* Slip: a closed peer is noticed before its last bytes are read
ReceiveEndEarly ==
    /\ receiver.end = "open"
    /\ sender.end = "closed"
    /\ receiver' = [receiver EXCEPT !.end = "eof"]
    /\ wire' = <<>>
    /\ UNCHANGED <<sender, built, received>>

\* recv() returns 0 when all is read and the sender has closed
ReceiveEnd ==
    /\ receiver.end = "open"
    /\ sender.end = "closed"
    /\ wire = <<>>
    /\ receiver' = [receiver EXCEPT !.end = "eof"]
    /\ UNCHANGED <<sender, wire, built, received>>

CloseReceiver ==
    /\ receiver.end = "open"
    /\ receiver' = [receiver EXCEPT !.end = "left"]
    /\ wire' = <<>>
    /\ UNCHANGED <<sender, built, received>>

FramingNext == Send \/ Resume \/ CloseSender \/ Receive \/ ReceiveEnd \/ CloseReceiver

\* poll() reports a readable or writable socket until it is served, and a frame
\* that is built is sent; nobody has to build or to close
FramingSpec ==
    /\ FramingInit
    /\ [][FramingNext]_vars
    /\ WF_vars(Resume)
    /\ WF_vars(Receive \/ ReceiveEnd)

-----------------------------------------------------------------------------
(* Properties *)

\* A message is there while it is sent, and a body is shorter than its size says
\* while it is read
FramingTypeOK ==
    /\ sender.end \in {"open", "closed"}
    /\ sender.msg \in Seq(Byte)
    /\ sender.nSent \in 0..Len(sender.msg)
    /\ sender.nSent = Len(sender.msg) => sender.msg = <<>>
    /\ sender.end = "open" => sender.wantWr = (sender.msg # <<>>)
    /\ wire \in Seq(Byte) /\ Len(wire) <= Room
    /\ receiver.end \in {"open", "eof", "left", "bad"}
    /\ receiver.size \in Seq(Byte) /\ Len(receiver.size) <= INT_BYTES
    /\ receiver.body \in Seq(Byte)
    /\ IF SizeIsSet(receiver) THEN Len(receiver.body) < ByteToInt(receiver.size)
                              ELSE receiver.body = <<>>

Pending == SubSeq(built, Len(received) + 1, Len(built))

\* Wherever the kernels cut the stream and however often a send resumes, the bytes
\* read of the current frame, on the wire and not yet sent are the frames that
\* have not been received, one after the other
StreamIntact ==
    receiver.end = "open" =>
        receiver.size \o receiver.body \o wire \o Rest(sender)
            = FlattenSeq([j \in DOMAIN Pending |-> Frame(Pending[j])])

\* How many frames have been written to their end
Finished == IF sender.msg = <<>> THEN Len(built) ELSE Len(built) - 1

\* A receiver that sees the end of the stream has all the frames that were
\* written to their end, and no size ends a stream
EndAfterFrames ==
    /\ receiver.end = "eof" => Len(received) = Finished
    /\ receiver.end # "bad"

Channel == INSTANCE FrameChannel WITH
    put <- built, got <- received, over <- receiver.end # "open"

\* The bytes implement a channel of whole bodies, also in that what is built is
\* received as long as the connection lasts: a blocked sender is woken again
ImplementsChannel == Channel!Spec

\* A frame that was written to its end is received although its sender closes
\* the connection then, unless the receiver goes first
WrittenIsReceived ==
    \A k \in 1..MaxFrames :
        (sender.msg = <<>> /\ Len(built) >= k) ~> (Len(received) >= k \/ receiver.end = "left")
=============================================================================
