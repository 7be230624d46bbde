---------------------------- MODULE FramingProofs ----------------------------
(***************************************************************************)
(* What IntToByte and ByteToInt do with every int that is not negative,    *)
(* and what becomes of the frames, for any bodies, room in the kernel and  *)
(* number of frames.                                                       *)
(***************************************************************************)
EXTENDS Framing, SequenceLemmas

-----------------------------------------------------------------------------
(* Integers; leaves name SMT, since Zenon cannot read numbers of this size *)

\* The greatest int
LEMMA MaxIntBound == MaxInt \in Nat /\ MaxInt < 128 * 16777216
BY SMT DEF MaxInt

\* An int that is not negative is a natural number below 2^31
LEMMA IntRange ==
    ASSUME NEW n \in 0..MaxInt
    PROVE  n \in Nat /\ n < 128 * 16777216
BY MaxIntBound, SMT

\* One step of IntToByte: the lowest digit and what is left
LEMMA DivStep ==
    ASSUME NEW n \in Nat
    PROVE  /\ n \div 256 \in Nat
           /\ n % 256 \in 0..255
           /\ n = 256 * (n \div 256) + (n % 256)
BY SMT

\* A number below 2^31 is the sum of its four base-256 digits, each a byte, and
\* the highest below 128
LEMMA Digits ==
    ASSUME NEW n \in 0..MaxInt
    PROVE  /\ n % 256 \in 0..255
           /\ (n \div 256) % 256 \in 0..255
           /\ (n \div 65536) % 256 \in 0..255
           /\ (n \div 16777216) % 256 \in 0..127
           /\ n = (n % 256) + 256 * (((n \div 256) % 256) + 256 * (((n \div 65536) % 256)
                     + 256 * ((n \div 16777216) % 256)))
<1> DEFINE a == n \div 256
           b == a \div 256
           c == b \div 256
<1>0. n \in Nat /\ n < 128 * 16777216
    BY IntRange
<1>1. n \div 65536 = b /\ n \div 16777216 = c
  <2>1. n \div 65536 = b
      BY <1>0, SMT
  <2>2. n \div 16777216 = (n \div 65536) \div 256
      BY <1>0, SMT
  <2> QED
      BY <2>1, <2>2, SMT
<1>2. a \in Nat /\ n % 256 \in 0..255 /\ n = 256 * a + (n % 256)
    BY <1>0, DivStep, SMT
<1>3. b \in Nat /\ a % 256 \in 0..255 /\ a = 256 * b + (a % 256)
    BY <1>2, DivStep, SMT
<1>4. c \in Nat /\ b % 256 \in 0..255 /\ b = 256 * c + (b % 256)
    BY <1>3, DivStep, SMT
<1> HIDE DEF a, b, c
<1>5. c < 128
    BY <1>0, <1>2, <1>3, <1>4, SMT
<1>6. c % 256 = c
    BY <1>4, <1>5, SMT
<1>7. n = (n % 256) + 256 * ((a % 256) + 256 * ((b % 256) + 256 * c))
    BY <1>0, <1>2, <1>3, <1>4, SMT
<1>8. c \in 0..127
    BY <1>4, <1>5, SMT
<1> QED
    BY <1>1, <1>2, <1>3, <1>4, <1>6, <1>7, <1>8, SMT DEF a

\* The four bytes IntToByte makes of a number
LEMMA BytesOf ==
    ASSUME NEW n \in 0..MaxInt
    PROVE  IntToByte(n) = <<n % 256, (n \div 256) % 256, (n \div 65536) % 256,
                            (n \div 16777216) % 256>>
<1>1. ~(n < 0)
    BY IntRange, SMT
<1>2. /\ MAX_VALUE = 256
      /\ MAX_VALUE * MAX_VALUE = 65536
      /\ MAX_VALUE * MAX_VALUE * MAX_VALUE = 16777216
    BY SMT DEF MAX_VALUE
<1> QED
    BY <1>1, <1>2, SMT DEF IntToByte

\* An int that is not negative is sent as four bytes
THEOREM IntToByteType == \A n \in 0..MaxInt : IntToByte(n) \in [1..INT_BYTES -> Byte]
<1> SUFFICES ASSUME NEW n \in 0..MaxInt
             PROVE  IntToByte(n) \in [1..INT_BYTES -> Byte]
    BY SMT
<1> DEFINE D(k) == (n \div k) % 256
<1>1. n % 256 \in 0..255 /\ D(256) \in 0..255 /\ D(65536) \in 0..255 /\ D(16777216) \in 0..127
    BY Digits, SMT
<1>2. IntToByte(n) = <<n % 256, D(256), D(65536), D(16777216)>>
    BY BytesOf, SMT
<1> HIDE DEF D
<1>3. D(16777216) \in 0..255
    BY <1>1, SMT
<1>4. <<n % 256, D(256), D(65536), D(16777216)>> \in [1..4 -> 0..255]
    BY <1>1, <1>3, SMT
<1> QED
    BY <1>2, <1>4, SMT DEF INT_BYTES, Byte, MAX_VALUE

\* The size of a frame, a command code, a status or the length of an argument is
\* read as it was written, whatever its value
THEOREM IntRoundTrip == \A n \in 0..MaxInt : ByteToInt(IntToByte(n)) = n
<1> SUFFICES ASSUME NEW n \in 0..MaxInt
             PROVE  ByteToInt(IntToByte(n)) = n
    BY SMT
<1> DEFINE arr == IntToByte(n)
<1>1. /\ arr[1] = n % 256
      /\ arr[2] = (n \div 256) % 256
      /\ arr[3] = (n \div 65536) % 256
      /\ arr[4] = (n \div 16777216) % 256
    BY BytesOf, SMT
<1> HIDE DEF arr
<1>2. arr[4] < MAX_VALUE \div 2
    BY <1>1, Digits, SMT DEF MAX_VALUE
<1>3. ByteToInt(arr) = arr[1] + MAX_VALUE * (arr[2] + MAX_VALUE * (arr[3] + MAX_VALUE * arr[4]))
    BY <1>2, SMT DEF ByteToInt
<1>4. ByteToInt(arr) = n
    BY <1>1, <1>3, Digits, SMT DEF MAX_VALUE
<1> QED
    BY <1>4, SMT DEF arr

-----------------------------------------------------------------------------
(* Frames and streams of frames *)

\* The bytes of frames one after the other
Stream(bs) == FlattenSeq([j \in DOMAIN bs |-> Frame(bs[j])])

\* A body is not empty, its size is four bytes that are read back as they were
\* written, and its frame is as long as both
LEMMA FrameProperties ==
    \A b \in Bodies :
        /\ b \in Seq(Byte) /\ Len(b) \in Nat /\ Len(b) >= 1
        /\ IntToByte(Len(b)) \in Seq(Byte) /\ Len(IntToByte(Len(b))) = INT_BYTES
        /\ ByteToInt(IntToByte(Len(b))) = Len(b)
        /\ Frame(b) \in Seq(Byte) /\ Len(Frame(b)) = INT_BYTES + Len(b)
<1> SUFFICES ASSUME NEW b \in Bodies
             PROVE  /\ b \in Seq(Byte) /\ Len(b) \in Nat /\ Len(b) >= 1
                    /\ IntToByte(Len(b)) \in Seq(Byte)
                    /\ Len(IntToByte(Len(b))) = INT_BYTES
                    /\ ByteToInt(IntToByte(Len(b))) = Len(b)
                    /\ Frame(b) \in Seq(Byte) /\ Len(Frame(b)) = INT_BYTES + Len(b)
  BY SMT
<1>1. b \in Seq(Byte) /\ b # <<>> /\ Len(b) <= MaxInt
  BY FramingAssumption, SMT
<1>2. Len(b) \in Nat /\ Len(b) >= 1
  BY <1>1, EmptySeq, SMT
<1> DEFINE n == Len(b)
<1> HIDE DEF n
<1>3. n \in 0..MaxInt
  BY <1>1, <1>2, MaxIntBound, SMT DEF n
<1>4. IntToByte(n) \in [1..INT_BYTES -> Byte] /\ ByteToInt(IntToByte(n)) = n
  BY <1>3, IntToByteType, IntRoundTrip, SMT
<1> DEFINE a == IntToByte(n)
<1> HIDE DEF a
<1>5. a \in [1..INT_BYTES -> Byte]
  BY <1>4 DEF a
<1>6. a \in Seq(Byte) /\ Len(a) = INT_BYTES
  <2>1. INT_BYTES \in Nat
    BY SMT DEF INT_BYTES
  <2>2. a \in Seq(Byte)
    BY <1>5, <2>1, SeqDef, Zenon
  <2>3. Len(a) \in Nat /\ 1..Len(a) = 1..INT_BYTES
    BY <1>5, <2>2, LenProperties
  <2> QED
    BY <2>1, <2>2, <2>3, SMT
<1>7. a \o b \in Seq(Byte) /\ Len(a \o b) = INT_BYTES + Len(b)
  BY <1>1, <1>6, Concatenated, SMT
<1> QED
  BY <1>1, <1>2, <1>4, <1>6, <1>7, SMT DEF Frame, a, n

\* The frames of a sequence of bodies, one for each
LEMMA FramesAre ==
    ASSUME NEW bs \in Seq(Bodies)
    PROVE  LET fs == [j \in DOMAIN bs |-> Frame(bs[j])]
           IN  /\ fs \in Seq(Seq(Byte))
               /\ Len(fs) = Len(bs)
               /\ \A j \in 1..Len(bs) : fs[j] = Frame(bs[j])
<1> DEFINE fs == [j \in DOMAIN bs |-> Frame(bs[j])]
<1>1. Len(bs) \in Nat /\ DOMAIN bs = 1..Len(bs)
  BY LenProperties
<1>2. \A j \in 1..Len(bs) : bs[j] \in Bodies
  BY ElementOfSeq
<1>3. fs = [j \in 1..Len(bs) |-> Frame(bs[j])]
  BY <1>1
<1>4. \A j \in 1..Len(bs) : Frame(bs[j]) \in Seq(Byte)
  BY <1>2, FrameProperties
<1> HIDE DEF fs
<1>5. fs \in Seq(Seq(Byte)) /\ Len(fs) = Len(bs)
  BY <1>1, <1>3, <1>4
<1> QED
  BY <1>3, <1>5 DEF fs

\* No bodies, no bytes
LEMMA StreamEmpty == Stream(<<>>) = <<>>
<1>1. [j \in DOMAIN <<>> |-> Frame(<<>>[j])] = <<>>
  OBVIOUS
<1> QED
  BY <1>1, FlattenEmpty DEF Stream

\* A stream is a sequence of bytes
LEMMA StreamType == \A bs \in Seq(Bodies) : Stream(bs) \in Seq(Byte)
BY FramesAre, FlattenIsSeq DEF Stream

\* A frame more at the end of the stream
LEMMA StreamAppend ==
    ASSUME NEW bs \in Seq(Bodies), NEW b \in Bodies
    PROVE  Stream(Append(bs, b)) = Stream(bs) \o Frame(b)
<1> DEFINE fs == [j \in DOMAIN bs |-> Frame(bs[j])]
           cs == Append(bs, b)
           gs == [j \in DOMAIN cs |-> Frame(cs[j])]
<1>1. /\ cs \in Seq(Bodies) /\ Len(cs) = Len(bs) + 1
      /\ \A j \in 1..Len(bs) : cs[j] = bs[j]
      /\ cs[Len(bs) + 1] = b
      /\ Len(bs) \in Nat
  BY AppendProperties, LenProperties
<1> HIDE DEF cs
<1>2. /\ fs \in Seq(Seq(Byte)) /\ Len(fs) = Len(bs)
      /\ \A j \in 1..Len(bs) : fs[j] = Frame(bs[j])
  BY FramesAre
<1>3. /\ gs \in Seq(Seq(Byte)) /\ Len(gs) = Len(cs)
      /\ \A j \in 1..Len(cs) : gs[j] = Frame(cs[j])
  BY <1>1, FramesAre
<1>4. Frame(b) \in Seq(Byte)
  BY FrameProperties
<1> HIDE DEF fs, gs
<1>5. /\ Append(fs, Frame(b)) \in Seq(Seq(Byte)) /\ Len(Append(fs, Frame(b))) = Len(fs) + 1
      /\ \A j \in 1..Len(fs) : Append(fs, Frame(b))[j] = fs[j]
      /\ Append(fs, Frame(b))[Len(fs) + 1] = Frame(b)
  BY <1>2, <1>4, AppendProperties
<1>6. \A j \in 1..Len(gs) : gs[j] = Append(fs, Frame(b))[j]
  <2> TAKE j \in 1..Len(gs)
  <2>1. CASE j = Len(bs) + 1
    BY <1>1, <1>2, <1>3, <1>5, <2>1
  <2>2. CASE j # Len(bs) + 1
    <3>1. j \in 1..Len(bs) /\ j \in 1..Len(cs)
      BY <1>1, <1>3, <2>2
    <3> QED
      BY <1>1, <1>2, <1>3, <1>5, <3>1
  <2> QED
    BY <2>1, <2>2
<1>7. gs = Append(fs, Frame(b))
  BY <1>1, <1>2, <1>3, <1>5, <1>6, SeqEqual
<1>8. FlattenSeq(gs) = FlattenSeq(fs) \o Frame(b)
  BY <1>2, <1>4, <1>7, FlattenAppend
<1> QED
  BY <1>8 DEF Stream, cs, fs, gs

\* The first frame of the stream
LEMMA StreamHead ==
    ASSUME NEW bs \in Seq(Bodies), bs # <<>>
    PROVE  Stream(bs) = Frame(Head(bs)) \o Stream(Tail(bs))
<1> DEFINE fs == [j \in DOMAIN bs |-> Frame(bs[j])]
           cs == Tail(bs)
           gs == [j \in DOMAIN cs |-> Frame(cs[j])]
<1>1. /\ cs \in Seq(Bodies) /\ Len(bs) \in Nat /\ Len(bs) # 0
      /\ Len(cs) = Len(bs) - 1
      /\ \A j \in 1..Len(cs) : cs[j] = bs[j + 1]
      /\ Head(bs) = bs[1]
  BY HeadTailProperties, EmptySeq
<1> HIDE DEF cs
<1>2. /\ fs \in Seq(Seq(Byte)) /\ Len(fs) = Len(bs)
      /\ \A j \in 1..Len(bs) : fs[j] = Frame(bs[j])
  BY FramesAre
<1>3. /\ gs \in Seq(Seq(Byte)) /\ Len(gs) = Len(cs)
      /\ \A j \in 1..Len(cs) : gs[j] = Frame(cs[j])
  BY <1>1, FramesAre
<1> HIDE DEF fs, gs
<1>4. fs # <<>>
  BY <1>1, <1>2, EmptySeq
<1>5. /\ Head(fs) = Frame(Head(bs))
      /\ Tail(fs) \in Seq(Seq(Byte)) /\ Len(Tail(fs)) = Len(fs) - 1
      /\ \A j \in 1..Len(Tail(fs)) : Tail(fs)[j] = fs[j + 1]
  BY <1>1, <1>2, <1>4, HeadTailProperties
<1>6. \A j \in 1..Len(gs) : gs[j] = Tail(fs)[j]
  <2> TAKE j \in 1..Len(gs)
  <2>1. j \in 1..Len(cs) /\ j \in 1..Len(Tail(fs)) /\ j + 1 \in 1..Len(bs)
    BY <1>1, <1>2, <1>3, <1>5
  <2> QED
    BY <1>1, <1>2, <1>3, <1>5, <2>1
<1>7. gs = Tail(fs)
  BY <1>1, <1>2, <1>3, <1>5, <1>6, SeqEqual
<1>8. FlattenSeq(fs) = Head(fs) \o FlattenSeq(Tail(fs))
  BY <1>2, <1>4, FlattenHead
<1> QED
  BY <1>5, <1>7, <1>8 DEF Stream, cs, fs, gs

\* A stream is at least as long as its last frame
LEMMA StreamLast ==
    ASSUME NEW bs \in Seq(Bodies), bs # <<>>
    PROVE  Len(Stream(bs)) >= Len(Frame(bs[Len(bs)]))
<1>1. PICK as \in Seq(Bodies), b \in Bodies : bs = Append(as, b)
  BY SequenceEmptyOrAppend
<1>2. bs[Len(bs)] = b
  <2>1. Len(bs) = Len(as) + 1 /\ Append(as, b)[Len(as) + 1] = b
    BY <1>1, AppendProperties
  <2> QED
    BY <1>1, <2>1
<1>3. Stream(bs) = Stream(as) \o Frame(b)
  BY <1>1, StreamAppend
<1>4. Stream(as) \in Seq(Byte) /\ Frame(b) \in Seq(Byte)
  BY StreamType, FrameProperties
<1> DEFINE s == Stream(as)
           f == Frame(b)
<1>5. s \in Seq(Byte) /\ f \in Seq(Byte) /\ Stream(bs) = s \o f
  BY <1>3, <1>4
<1> HIDE DEF s, f
<1>6. Len(s \o f) = Len(s) + Len(f) /\ Len(s) \in Nat /\ Len(f) \in Nat
  BY <1>5, Concatenated
<1>7. Len(s \o f) >= Len(f)
  BY <1>6
<1> QED
  BY <1>2, <1>5, <1>7 DEF f

-----------------------------------------------------------------------------
(* Reading a stream *)

\* INT_BYTES bytes from the start of a stream are the size of its first body, and
\* what follows is that body and the other frames
LEMMA SizeRead ==
    ASSUME NEW bs \in Seq(Bodies), NEW size \in Seq(Byte), NEW rest \in Seq(Byte),
           Len(size) = INT_BYTES, size \o rest = Stream(bs)
    PROVE  /\ bs # <<>> /\ Head(bs) \in Bodies
           /\ ByteToInt(size) = Len(Head(bs))
           /\ rest = Head(bs) \o Stream(Tail(bs))
<1>1. bs # <<>>
  <2> SUFFICES ASSUME bs = <<>>
               PROVE  FALSE
    OBVIOUS
  <2>1. size \o rest = <<>>
    BY StreamEmpty
  <2>2. Len(size \o rest) = Len(size) + Len(rest) /\ Len(rest) \in Nat
    BY Concatenated
  <2> QED
    BY <2>1, <2>2, EmptySeq DEF INT_BYTES
<1>2. Head(bs) \in Bodies /\ Tail(bs) \in Seq(Bodies)
  BY <1>1, HeadTailProperties
<1> DEFINE h == Head(bs)
           g == Stream(Tail(bs))
           a == IntToByte(Len(h))
<1>3. Stream(bs) = (a \o h) \o g
  BY <1>1, StreamHead DEF Frame
<1>4. h \in Seq(Byte) /\ a \in Seq(Byte) /\ Len(a) = INT_BYTES /\ ByteToInt(a) = Len(h)
  BY <1>2, FrameProperties
<1>5. g \in Seq(Byte)
  BY <1>2, StreamType
<1> HIDE DEF a, h, g
<1>6. (a \o h) \o g = a \o (h \o g)
  <2>1. Cat(Cat(a, h), g) = Cat(a, Cat(h, g))
    BY <1>4, <1>5, CatRules
  <2> QED
    BY <2>1 DEF Cat
<1>7. h \o g \in Seq(Byte)
  BY <1>4, <1>5, Concatenated
<1>8. size = a /\ rest = h \o g
  BY <1>3, <1>4, <1>6, <1>7, SameCut
<1> QED
  BY <1>1, <1>2, <1>4, <1>8 DEF h, g

\* While a frame is being read, more is missing than the frames after it
LEMMA MissingBytes ==
    ASSUME NEW bs \in Seq(Bodies), bs # <<>>,
           NEW size \in Seq(Byte), NEW body \in Seq(Byte), NEW rest \in Seq(Byte),
           Len(size) <= INT_BYTES,
           IF Len(size) = INT_BYTES THEN Len(body) < ByteToInt(size) ELSE body = <<>>,
           size \o (body \o rest) = Stream(bs)
    PROVE  Len(rest) > Len(Stream(Tail(bs)))
<1>1. Head(bs) \in Bodies /\ Tail(bs) \in Seq(Bodies)
  BY HeadTailProperties
<1> DEFINE h == Head(bs)
           g == Stream(Tail(bs))
<1>2. h \in Seq(Byte) /\ g \in Seq(Byte) /\ Frame(h) \in Seq(Byte)
      /\ Len(Frame(h)) = INT_BYTES + Len(h) /\ Len(h) >= 1
  BY <1>1, FrameProperties, StreamType
<1>3. size \o (body \o rest) = Frame(h) \o g
  BY StreamHead
<1>4. Len(size) = INT_BYTES =>
          ByteToInt(size) = Len(h) /\ body \o rest = h \o g
  <2>1. body \o rest \in Seq(Byte)
    BY Concatenated
  <2> QED
    BY <2>1, SizeRead
<1> HIDE DEF h, g
<1>5. body \o rest \in Seq(Byte)
  BY Concatenated
<1>6. Len(size) + (Len(body) + Len(rest)) = (INT_BYTES + Len(h)) + Len(g)
  <2>1. Len(size \o (body \o rest)) = Len(size) + Len(body \o rest)
    BY <1>5, Concatenated
  <2>2. Len(body \o rest) = Len(body) + Len(rest)
    BY Concatenated
  <2>3. Len(Frame(h) \o g) = Len(Frame(h)) + Len(g)
    BY <1>2, Concatenated
  <2> QED
    BY <1>2, <1>3, <2>1, <2>2, <2>3
<1>7. /\ Len(size) \in Nat /\ Len(body) \in Nat /\ Len(rest) \in Nat
      /\ Len(h) \in Nat /\ Len(g) \in Nat
  BY <1>2, LenProperties
<1>8. CASE Len(size) = INT_BYTES
  <2>1. Len(body) < Len(h)
    BY <1>4, <1>8
  <2>2. Len(rest) > Len(g)
    BY <1>6, <1>7, <1>8, <2>1 DEF INT_BYTES
  <2> QED
    BY <2>2 DEF g
<1>9. CASE Len(size) # INT_BYTES
  <2>1. Len(body) = 0 /\ Len(size) < INT_BYTES
    <3>1. body = <<>>
      BY <1>9
    <3>2. Len(size) < INT_BYTES
      <4>1. \A n \in Nat : n <= INT_BYTES /\ n # INT_BYTES => n < INT_BYTES
        BY DEF INT_BYTES
      <4> QED
        BY <1>7, <1>9, <4>1, Zenon
    <3> QED
      BY <3>1, <3>2, EmptySeq
  <2>2. Len(rest) > Len(g)
    BY <1>2, <1>6, <1>7, <2>1 DEF INT_BYTES
  <2> QED
    BY <2>2 DEF g
<1> QED
  BY <1>8, <1>9

-----------------------------------------------------------------------------
(* The inductive invariant *)

Senders == [end : {"open", "closed"}, msg : Seq(Byte), nSent : Nat, wantWr : BOOLEAN]

Receivers == [end : {"open", "eof", "left", "bad"}, size : Seq(Byte), body : Seq(Byte)]

\* What has been received is the beginning of what has been built
ReceivedFirst ==
    /\ Len(received) <= Len(built)
    /\ received = SubSeq(built, 1, Len(received))

\* The message that is being sent is the frame of the last body built
SendingLast ==
    sender.msg # <<>> => built # <<>> /\ sender.msg = Frame(built[Len(built)])

\* StreamIntact does not follow from itself: that the bytes of a size are those
\* of the frame being read needs its type, and that none of the frames in it
\* has been received before needs ReceivedFirst.  What a receiver may conclude
\* from the end of the stream needs SendingLast.
FramingInv ==
    /\ sender \in Senders
    /\ receiver \in Receivers
    /\ built \in Seq(Bodies)
    /\ received \in Seq(Bodies)
    /\ FramingTypeOK
    /\ ReceivedFirst
    /\ SendingLast
    /\ StreamIntact
    /\ receiver.end = "eof" => sender.end = "closed"
    /\ EndAfterFrames

-----------------------------------------------------------------------------
(* The invariant holds *)

\* A new connection satisfies it
LEMMA InitFramingInv == FramingInit => FramingInv
<1> SUFFICES ASSUME FramingInit
             PROVE  FramingInv
  OBVIOUS
<1>1. /\ sender = Idle /\ wire = <<>> /\ receiver = InitRecvStat
      /\ built = <<>> /\ received = <<>>
  BY DEF FramingInit
<1>2. /\ sender \in Senders /\ sender.end = "open" /\ sender.msg = <<>>
      /\ sender.nSent = 0 /\ sender.wantWr = FALSE
  BY <1>1, EmptySeq DEF Idle, Senders
<1>3. /\ receiver \in Receivers /\ receiver.end = "open"
      /\ receiver.size = <<>> /\ receiver.body = <<>>
  BY <1>1, EmptySeq DEF InitRecvStat, Receivers
<1>4. Len(<<>>) = 0 /\ <<>> \in Seq(Byte) /\ <<>> \in Seq(Bodies)
  BY EmptySeq
<1>5. FramingTypeOK
  <2>1. 0 <= Room
    BY FramingAssumption
  <2>2. ~SizeIsSet(receiver) /\ Len(receiver.size) <= INT_BYTES
    BY <1>3, <1>4 DEF SizeIsSet, INT_BYTES
  <2>3. 0 \in 0..Len(sender.msg)
    BY <1>2, <1>4
  <2> QED
    BY <1>1, <1>2, <1>3, <1>4, <2>1, <2>2, <2>3 DEF FramingTypeOK
<1>6. ReceivedFirst
  BY <1>1, <1>4, SubSeqEmpty DEF ReceivedFirst
<1>7. StreamIntact
  <2>1. Pending = <<>>
    BY <1>1, <1>4, SubSeqEmpty DEF Pending
  <2>2. Rest(sender) = <<>>
    BY <1>2, <1>4, SubSeqEmpty DEF Rest
  <2>3. <<>> \o <<>> = <<>>
    BY ConcatEmptySeq, EmptySeq
  <2>4. receiver.size \o receiver.body \o wire \o Rest(sender) = <<>>
    BY <1>1, <1>3, <2>2, <2>3
  <2>5. Stream(Pending) = <<>>
    BY <2>1, StreamEmpty
  <2> QED
    BY <2>4, <2>5 DEF StreamIntact, Stream
<1> QED
  BY <1>1, <1>2, <1>3, <1>4, <1>5, <1>6, <1>7 DEF FramingInv, SendingLast, EndAfterFrames

\* The types that the steps need, as facts of their own
LEMMA Types ==
    ASSUME FramingInv
    PROVE  /\ sender.end \in {"open", "closed"} /\ sender.msg \in Seq(Byte)
           /\ sender.nSent \in Nat /\ sender.nSent <= Len(sender.msg)
           /\ sender.wantWr \in BOOLEAN
           /\ wire \in Seq(Byte) /\ Len(wire) \in Nat /\ Len(wire) <= Room
           /\ receiver.end \in {"open", "eof", "left", "bad"}
           /\ receiver.size \in Seq(Byte) /\ receiver.body \in Seq(Byte)
           /\ built \in Seq(Bodies) /\ Len(built) \in Nat
           /\ received \in Seq(Bodies) /\ Len(received) \in 0..Len(built)
           /\ Rest(sender) \in Seq(Byte)
           /\ Len(Rest(sender)) = Len(sender.msg) - sender.nSent
           /\ Len(sender.msg) \in Nat
           /\ Pending \in Seq(Bodies)
           /\ Pending = After(built, Len(received))
           /\ Room \in Nat
<1>1. sender \in Senders /\ receiver \in Receivers /\ FramingTypeOK /\ ReceivedFirst
      /\ built \in Seq(Bodies) /\ received \in Seq(Bodies)
  BY DEF FramingInv
<1>2. /\ sender.end \in {"open", "closed"} /\ sender.msg \in Seq(Byte)
      /\ sender.nSent \in Nat /\ sender.wantWr \in BOOLEAN
  BY <1>1 DEF Senders
<1>3. Len(sender.msg) \in Nat /\ Len(built) \in Nat /\ Len(received) \in Nat
  BY <1>1, <1>2, LenProperties
<1>4. sender.nSent \in 0..Len(sender.msg) /\ wire \in Seq(Byte) /\ Len(wire) <= Room
  BY <1>1 DEF FramingTypeOK
<1>5. Len(wire) \in Nat
  BY <1>4, LenProperties
<1>6. /\ receiver.end \in {"open", "eof", "left", "bad"}
      /\ receiver.size \in Seq(Byte) /\ receiver.body \in Seq(Byte)
  BY <1>1 DEF Receivers
<1>7. Rest(sender) \in Seq(Byte) /\ Len(Rest(sender)) = Len(sender.msg) - sender.nSent
  BY <1>2, <1>4, Cut DEF Rest
<1>8. Len(received) \in 0..Len(built)
  BY <1>1, <1>3 DEF ReceivedFirst
<1>9. Pending = After(built, Len(received)) /\ Pending \in Seq(Bodies)
  BY <1>1, <1>8, AfterProperties DEF Pending, After
<1>10. Room \in Nat
  BY FramingAssumption
<1> QED
  BY <1>1, <1>2, <1>3, <1>4, <1>5, <1>6, <1>7, <1>8, <1>9, <1>10

\* Sending k bytes more of a message moves them from the rest of it to the wire
LEMMA SendMoves ==
    ASSUME NEW s \in Senders, s.nSent < Len(s.msg), NEW k \in Nat,
           k <= Len(s.msg) - s.nSent
    PROVE  LET part == SubSeq(s.msg, s.nSent + 1, s.nSent + k)
           IN  /\ part \in Seq(Byte) /\ Len(part) = k
               /\ Written(s, k) \in Senders
               /\ Rest(Written(s, k)) \in Seq(Byte)
               /\ Rest(s) = part \o Rest(Written(s, k))
               /\ Written(s, k).end \in {"open", s.end}
               /\ Written(s, k).msg \in {<<>>, s.msg}
               /\ Written(s, k).wantWr = (Written(s, k).msg # <<>>)
               /\ IF Written(s, k).msg = <<>> THEN Written(s, k).nSent = 0
                                              ELSE Written(s, k).nSent < Len(s.msg)
<1> DEFINE m == s.msg
           n == s.nSent
           part == SubSeq(m, n + 1, n + k)
           new == Written(s, k)
<1>1. m \in Seq(Byte) /\ n \in Nat /\ Len(m) \in Nat /\ s.end \in {"open", "closed"}
  BY LenProperties DEF Senders
<1>2. n + k <= Len(m) /\ n < Len(m) /\ n + k \in Nat
  BY <1>1
<1>3. /\ part \in Seq(Byte) /\ Len(part) = k
      /\ SubSeq(m, n + k + 1, Len(m)) \in Seq(Byte)
      /\ SubSeq(m, n + 1, Len(m)) = part \o SubSeq(m, n + k + 1, Len(m))
  <2> DEFINE j == n + k
  <2>1. j \in n..Len(m) /\ j \in 0..Len(m) /\ j - n = k
    BY <1>1, <1>2
  <2> HIDE DEF m, n, j
  <2>2. /\ SubSeq(m, n + 1, j) \in Seq(Byte) /\ Len(SubSeq(m, n + 1, j)) = j - n
        /\ SubSeq(m, n + 1, j) \o SubSeq(m, j + 1, Len(m)) = SubSeq(m, n + 1, Len(m))
    BY <1>1, <2>1, CutRest
  <2>3. SubSeq(m, j + 1, Len(m)) \in Seq(Byte)
    BY <1>1, <2>1, Cut
  <2> QED
    BY <2>1, <2>2, <2>3 DEF j
<1>5. m # <<>>
  BY <1>1, <1>2, EmptySeq
<1>6. CASE n + k = Len(m)
  <2>1. new = Idle
    BY <1>6 DEF Written
  <2>2. new \in Senders /\ new.msg = <<>> /\ new.nSent = 0 /\ new.wantWr = FALSE
        /\ new.end = "open"
    BY <2>1, EmptySeq DEF Idle, Senders
  <2>3. Rest(new) = <<>>
    BY <2>2, EmptySeq, SubSeqEmpty DEF Rest
  <2>4. SubSeq(m, n + k + 1, Len(m)) = <<>>
    BY <1>1, <1>2, <1>6, SubSeqEmpty
  <2> QED
    BY <1>3, <2>2, <2>3, <2>4, EmptySeq DEF Rest
<1>7. CASE n + k # Len(m)
  <2>1. new = [s EXCEPT !.nSent = @ + k, !.wantWr = TRUE]
    BY <1>7 DEF Written
  <2>2. new \in Senders /\ new.msg = m /\ new.nSent = n + k /\ new.wantWr = TRUE
        /\ new.end = s.end
    BY <1>1, <1>2, <2>1 DEF Senders
  <2>3. Rest(new) = SubSeq(m, n + k + 1, Len(m))
    BY <2>2 DEF Rest
  <2>4. new.nSent < Len(m)
    BY <1>1, <1>2, <1>7, <2>2
  <2> QED
    BY <1>3, <1>5, <2>2, <2>3, <2>4 DEF Rest
<1> QED
  BY <1>6, <1>7

\* A call of SendMsgNB keeps the invariant, be it for a new message or for the
\* rest of one; s is the sender before the call
LEMMA SendStep ==
    ASSUME FramingInv,
           NEW s \in Senders, s.end = "open", s.nSent < Len(s.msg),
           receiver.end # "eof",
           built' \in Seq(Bodies), built' # <<>>, s.msg = Frame(built'[Len(built')]),
           Len(received) <= Len(built'), received = SubSeq(built', 1, Len(received)),
           receiver.end = "open" =>
               receiver.size \o receiver.body \o wire \o Rest(s)
                   = Stream(After(built', Len(received))),
           SendMsgNB(s)
    PROVE  FramingInv'
<1>1. receiver' = receiver /\ received' = received
  BY DEF SendMsgNB
<1>2. s.msg \in Seq(Byte) /\ Len(s.msg) \in Nat /\ s.nSent \in Nat
  BY LenProperties DEF Senders
<1>3. Rest(s) \in Seq(Byte) /\ Len(Rest(s)) = Len(s.msg) - s.nSent
  <2>1. s.nSent \in 0..Len(s.msg)
    BY <1>2
  <2> QED
    BY <1>2, <2>1, Cut DEF Rest
<1>4. ASSUME sender' \in Senders, sender'.msg \in {<<>>, s.msg},
             sender'.nSent \in 0..Len(sender'.msg),
             sender'.nSent = Len(sender'.msg) => sender'.msg = <<>>,
             sender'.end = "open" => sender'.wantWr = (sender'.msg # <<>>),
             wire' \in Seq(Byte), Len(wire') <= Room,
             receiver.end = "open" =>
                 receiver.size \o receiver.body \o wire' \o Rest(sender')
                     = Stream(After(built', Len(received)))
      PROVE  FramingInv'
  <2>1. FramingTypeOK'
    <3>1. sender'.end \in {"open", "closed"} /\ sender'.msg \in Seq(Byte)
      BY <1>4 DEF Senders
    <3> QED
      BY <1>1, <1>4, <3>1 DEF FramingInv, FramingTypeOK, SizeIsSet
  <2>2. StreamIntact'
    <3>1. Pending' = After(built', Len(received))
      BY <1>1 DEF Pending, After
    <3> QED
      BY <1>1, <1>4, <3>1 DEF StreamIntact, Stream, Rest
  <2>3. ReceivedFirst' /\ SendingLast' /\ EndAfterFrames'
    BY <1>1, <1>4 DEF FramingInv, ReceivedFirst, SendingLast, EndAfterFrames
  <2> QED
    BY <1>1, <1>4, <2>1, <2>2, <2>3 DEF FramingInv
<1>5. CASE \E k \in Takes(s) :
               /\ sender' = Written(s, k)
               /\ wire' = IF receiver.end = "open"
                          THEN wire \o SubSeq(s.msg, s.nSent + 1, s.nSent + k) ELSE <<>>
  <2>1. PICK k \in Takes(s) :
               /\ sender' = Written(s, k)
               /\ wire' = IF receiver.end = "open"
                          THEN wire \o SubSeq(s.msg, s.nSent + 1, s.nSent + k) ELSE <<>>
    BY <1>5
  <2>2. k \in Nat /\ k <= Len(s.msg) - s.nSent /\ Len(wire) + k <= Room
    BY <1>2, <1>3, Types DEF Takes, Least
  <2> DEFINE part == SubSeq(s.msg, s.nSent + 1, s.nSent + k)
  <2>3. /\ part \in Seq(Byte) /\ Len(part) = k
        /\ sender' \in Senders
        /\ Rest(sender') \in Seq(Byte)
        /\ Rest(s) = part \o Rest(sender')
        /\ sender'.msg \in {<<>>, s.msg}
        /\ sender'.wantWr = (sender'.msg # <<>>)
        /\ IF sender'.msg = <<>> THEN sender'.nSent = 0
                                 ELSE sender'.nSent < Len(s.msg)
    BY <2>1, <2>2, SendMoves
  <2>4. /\ sender'.nSent \in 0..Len(sender'.msg)
        /\ sender'.nSent = Len(sender'.msg) => sender'.msg = <<>>
    <3>1. sender'.nSent \in Nat
      BY <2>3 DEF Senders
    <3>2. CASE sender'.msg = <<>>
      BY <2>3, <3>2, EmptySeq
    <3>3. CASE sender'.msg # <<>>
      BY <1>2, <2>3, <3>1, <3>3
    <3> QED
      BY <3>2, <3>3
  <2> HIDE DEF part
  <2>5. wire' = IF receiver.end = "open" THEN wire \o part ELSE <<>>
    BY <2>1 DEF part
  <2>6. wire' \in Seq(Byte) /\ Len(wire') <= Room
    <3>1. CASE receiver.end = "open"
      <4>1. wire \o part \in Seq(Byte) /\ Len(wire \o part) = Len(wire) + Len(part)
        BY <2>3, Types, Concatenated
      <4> QED
        BY <2>2, <2>3, <2>5, <3>1, <4>1
    <3>2. CASE receiver.end # "open"
      BY <2>5, <3>2, EmptySeq, Types
    <3> QED
      BY <3>1, <3>2
  <2>7. receiver.end = "open" =>
            receiver.size \o receiver.body \o wire' \o Rest(sender')
                = Stream(After(built', Len(received)))
    <3> SUFFICES ASSUME receiver.end = "open"
                 PROVE  receiver.size \o receiver.body \o wire' \o Rest(sender')
                            = Stream(After(built', Len(received)))
      OBVIOUS
    <3> DEFINE p == receiver.size \o receiver.body \o wire
               head == receiver.size \o receiver.body
               rest == Rest(sender')
    <3>1. head \in Seq(Byte) /\ wire \in Seq(Byte) /\ part \in Seq(Byte) /\ rest \in Seq(Byte)
      BY <2>3, Types, Concatenated
    <3>2. p \o (part \o rest) = Stream(After(built', Len(received)))
      BY <2>3
    <3>3. wire' = wire \o part
      BY <2>5
    <3> HIDE DEF rest, head
    <3>4. (head \o (wire \o part)) \o rest = (head \o wire) \o (part \o rest)
      <4>1. Cat(Cat(head, Cat(wire, part)), rest) = Cat(Cat(head, wire), Cat(part, rest))
        BY <3>1, Shift
      <4> QED
        BY <4>1 DEF Cat
    <3> QED
      BY <3>2, <3>3, <3>4 DEF head, rest
  <2> QED
    BY <1>4, <2>3, <2>4, <2>6, <2>7
<1>6. CASE /\ receiver.end # "open"
           /\ sender' = [s EXCEPT !.end = "closed"]
           /\ UNCHANGED wire
  <2>1. /\ sender' \in Senders /\ sender'.msg = s.msg /\ sender'.nSent = s.nSent
        /\ sender'.end = "closed"
    BY <1>6 DEF Senders
  <2>2. sender'.nSent \in 0..Len(sender'.msg) /\ sender'.nSent # Len(sender'.msg)
    BY <1>2, <2>1
  <2>3. wire' \in Seq(Byte) /\ Len(wire') <= Room
    BY <1>6, Types
  <2> QED
    BY <1>4, <1>6, <2>1, <2>2, <2>3
<1> QED
  BY <1>5, <1>6 DEF SendMsgNB

\* The end of the stream is seen only after the sender has closed
LEMMA NotSeenYet ==
    ASSUME FramingInv, sender.end = "open"
    PROVE  receiver.end # "eof"
BY DEF FramingInv

\* A frame that is built joins the end of the stream
LEMMA SendInv ==
    ASSUME FramingInv, Send
    PROVE  FramingInv'
<1>1. PICK b \in Bodies :
          /\ built' = Append(built, b)
          /\ SendMsgNB([sender EXCEPT !.msg = Frame(b), !.nSent = 0])
  BY DEF Send
<1> DEFINE s == [sender EXCEPT !.msg = Frame(b), !.nSent = 0]
<1>2. /\ sender = Idle /\ sender.end = "open" /\ sender.msg = <<>> /\ sender.nSent = 0
  BY DEF Send, Idle
<1>3. Frame(b) \in Seq(Byte) /\ Len(Frame(b)) \in Nat /\ Len(Frame(b)) > 0
  BY FrameProperties DEF INT_BYTES
<1>4. /\ s \in Senders /\ s.end = "open" /\ s.msg = Frame(b) /\ s.nSent = 0
  <2>1. sender \in Senders
    BY DEF FramingInv
  <2> QED
    BY <1>2, <1>3, <2>1 DEF Senders
<1>5. SendMsgNB(s)
  BY <1>1
<1> HIDE DEF s
<1>6. /\ built' \in Seq(Bodies) /\ built' # <<>> /\ Len(built') = Len(built) + 1
      /\ built'[Len(built')] = b
  <2>1. built \in Seq(Bodies)
    BY Types
  <2>2. /\ Append(built, b) \in Seq(Bodies) /\ Append(built, b) # <<>>
        /\ Len(Append(built, b)) = Len(built) + 1
        /\ Append(built, b)[Len(built) + 1] = b
    BY <2>1, AppendProperties
  <2> QED
    BY <1>1, <2>2
<1>7. Len(received) <= Len(built') /\ received = SubSeq(built', 1, Len(received))
  <2>1. SubSeq(built', 1, Len(received)) = SubSeq(built, 1, Len(received))
    BY <1>1, Types, PrefixAppend
  <2>2. received = SubSeq(built, 1, Len(received))
    BY DEF FramingInv, ReceivedFirst
  <2>3. Len(built) \in Nat /\ Len(received) \in 0..Len(built)
    BY Types
  <2> QED
    BY <1>6, <2>1, <2>2, <2>3
<1>8. receiver.end = "open" =>
          receiver.size \o receiver.body \o wire \o Rest(s)
              = Stream(After(built', Len(received)))
  <2> SUFFICES ASSUME receiver.end = "open"
               PROVE  receiver.size \o receiver.body \o wire \o Rest(s)
                          = Stream(After(built', Len(received)))
    OBVIOUS
  <2> DEFINE p == receiver.size \o receiver.body \o wire
  <2>1. p \o Rest(sender) = Stream(Pending)
    BY DEF FramingInv, StreamIntact, Stream
  <2>2. p \in Seq(Byte)
    <3>1. receiver.size \o receiver.body \in Seq(Byte)
      BY Types, Concatenated
    <3> QED
      BY <3>1, Types, Concatenated
  <2>3. Rest(sender) = <<>>
    BY <1>2, EmptySeq, SubSeqEmpty DEF Rest
  <2>4. Rest(s) = Frame(b)
    BY <1>3, <1>4, SubSeqFull DEF Rest
  <2>5. After(built', Len(received)) = Append(Pending, b)
    <3>1. /\ built \in Seq(Bodies) /\ Len(received) \in 0..Len(built)
          /\ Pending = After(built, Len(received))
      BY Types
    <3>2. After(Append(built, b), Len(received)) = Append(After(built, Len(received)), b)
      BY <3>1, AfterAppend
    <3> QED
      BY <1>1, <3>1, <3>2
  <2>6. Stream(Append(Pending, b)) = Stream(Pending) \o Frame(b)
    BY Types, StreamAppend
  <2> HIDE DEF p
  <2>7. p = Stream(Pending)
    BY <2>1, <2>2, <2>3, ConcatEmptySeq
  <2>8. p \o Rest(s) = Stream(After(built', Len(received)))
    BY <2>4, <2>5, <2>6, <2>7
  <2> QED
    BY <2>8 DEF p
<1>9. s.nSent < Len(s.msg) /\ s.msg = Frame(built'[Len(built')])
  BY <1>3, <1>4, <1>6
<1> QED
  BY <1>2, <1>4, <1>5, <1>6, <1>7, <1>8, <1>9, NotSeenYet, SendStep

\* A send that is resumed goes on with the frame it stopped in
LEMMA ResumeInv ==
    ASSUME FramingInv, Resume
    PROVE  FramingInv'
<1>1. /\ sender.end = "open" /\ sender.wantWr /\ SendMsgNB(sender) /\ built' = built
  BY DEF Resume
<1>2. sender.msg # <<>>
  BY <1>1 DEF FramingInv, FramingTypeOK
<1>3. sender.nSent < Len(sender.msg)
  BY <1>2, Types DEF FramingInv, FramingTypeOK
<1>4. /\ built # <<>> /\ sender.msg = Frame(built[Len(built)])
      /\ Len(received) <= Len(built) /\ received = SubSeq(built, 1, Len(received))
      /\ sender \in Senders
  BY <1>2 DEF FramingInv, SendingLast, ReceivedFirst
<1>5. receiver.end = "open" =>
          receiver.size \o receiver.body \o wire \o Rest(sender)
              = Stream(After(built, Len(received)))
  BY DEF FramingInv, StreamIntact, Stream, Pending, After
<1> QED
  BY <1>1, <1>3, <1>4, <1>5, Types, NotSeenYet, SendStep

\* A sender that closes leaves what it has written, and what it has not stays away
LEMMA CloseSenderInv ==
    ASSUME FramingInv, CloseSender
    PROVE  FramingInv'
<1>1. /\ sender' = [sender EXCEPT !.end = "closed"]
      /\ UNCHANGED <<wire, receiver, built, received>>
      /\ sender.end = "open"
  BY DEF CloseSender
<1>2. /\ sender' \in Senders /\ sender'.end = "closed" /\ sender'.msg = sender.msg
      /\ sender'.nSent = sender.nSent
  BY <1>1 DEF FramingInv, Senders
<1>3. Rest(sender') = Rest(sender)
  BY <1>2 DEF Rest
<1>4. FramingTypeOK'
  BY <1>1, <1>2 DEF FramingInv, FramingTypeOK, SizeIsSet
<1>5. StreamIntact'
  BY <1>1, <1>3 DEF FramingInv, StreamIntact, Pending
<1>6. SendingLast' /\ ReceivedFirst'
  BY <1>1, <1>2 DEF FramingInv, SendingLast, ReceivedFirst
<1>7. EndAfterFrames'
  BY <1>1, <1>2, NotSeenYet DEF FramingInv, EndAfterFrames
<1> QED
  BY <1>1, <1>2, <1>4, <1>5, <1>6, <1>7 DEF FramingInv

\* A receiver that closes promises nothing more
LEMMA CloseReceiverInv ==
    ASSUME FramingInv, CloseReceiver
    PROVE  FramingInv'
<1>1. /\ receiver' = [receiver EXCEPT !.end = "left"] /\ wire' = <<>>
      /\ UNCHANGED <<sender, built, received>>
  BY DEF CloseReceiver
<1>2. /\ receiver' \in Receivers /\ receiver'.end = "left" /\ receiver'.size = receiver.size
      /\ receiver'.body = receiver.body
  BY <1>1 DEF FramingInv, Receivers
<1>3. FramingTypeOK'
  <2>1. wire' \in Seq(Byte) /\ Len(wire') <= Room
    BY <1>1, EmptySeq, Types
  <2> QED
    BY <1>1, <1>2, <2>1 DEF FramingInv, FramingTypeOK, SizeIsSet
<1> QED
  BY <1>1, <1>2, <1>3
     DEF FramingInv, SendingLast, ReceivedFirst, StreamIntact, EndAfterFrames

\* A receiver that finds nothing more to read of a sender that has closed is
\* between two frames, or in the middle of the one that was given up
LEMMA ReceiveEndInv ==
    ASSUME FramingInv, ReceiveEnd
    PROVE  FramingInv'
<1>1. /\ receiver.end = "open" /\ sender.end = "closed" /\ wire = <<>>
      /\ receiver' = [receiver EXCEPT !.end = "eof"]
      /\ UNCHANGED <<sender, wire, built, received>>
  BY DEF ReceiveEnd
<1>2. /\ receiver' \in Receivers /\ receiver'.end = "eof" /\ receiver'.size = receiver.size
      /\ receiver'.body = receiver.body
  BY <1>1 DEF FramingInv, Receivers
<1>3. FramingTypeOK'
  BY <1>1, <1>2 DEF FramingInv, FramingTypeOK, SizeIsSet
<1> DEFINE size == receiver.size
           body == receiver.body
           rest == Rest(sender)
<1>4. size \o (body \o rest) = Stream(Pending)
  <2>1. size \o body \o wire \o rest = Stream(Pending)
    BY <1>1 DEF FramingInv, StreamIntact, Stream
  <2>2. size \in Seq(Byte) /\ body \in Seq(Byte) /\ rest \in Seq(Byte)
    BY Types
  <2> HIDE DEF size, body, rest
  <2>3. size \o body \in Seq(Byte)
    BY <2>2, Concatenated
  <2>4. (size \o body) \o wire = size \o body
    BY <1>1, <2>3, ConcatEmptySeq
  <2>5. Cat(Cat(size, body), rest) = Cat(size, Cat(body, rest))
    BY <2>2, CatRules
  <2> QED
    BY <2>1, <2>4, <2>5 DEF Cat
<1>5. Len(Pending) = Len(built) - Len(received)
  BY Types, AfterProperties
<1>6. Pending # <<>> => Len(rest) > Len(Stream(Tail(Pending)))
  <2>1. /\ Len(size) <= INT_BYTES
        /\ IF Len(size) = INT_BYTES THEN Len(body) < ByteToInt(size) ELSE body = <<>>
    BY DEF FramingInv, FramingTypeOK, SizeIsSet
  <2>2. size \in Seq(Byte) /\ body \in Seq(Byte) /\ rest \in Seq(Byte)
        /\ Pending \in Seq(Bodies)
    BY Types
  <2> HIDE DEF size, body, rest
  <2> QED
    BY <1>4, <2>1, <2>2, MissingBytes
<1>7. Len(received) = Finished
  <2>1. CASE sender.msg = <<>>
    <3>1. Len(rest) = 0
      BY <2>1, Types, EmptySeq
    <3>2. Pending = <<>>
      <4> SUFFICES ASSUME Pending # <<>>
                   PROVE  FALSE
        OBVIOUS
      <4>1. Tail(Pending) \in Seq(Bodies)
        BY Types, HeadTailProperties
      <4>2. Len(Stream(Tail(Pending))) \in Nat
        BY <4>1, StreamType, LenProperties
      <4> QED
        BY <1>6, <3>1, <4>2
    <3> QED
      BY <1>5, <2>1, <3>2, Types, EmptySeq DEF Finished
  <2>2. CASE sender.msg # <<>>
    <3>1. built # <<>> /\ sender.msg = Frame(built[Len(built)])
      BY <2>2 DEF FramingInv, SendingLast
    <3>2. sender.nSent < Len(sender.msg)
      BY <2>2, Types DEF FramingInv, FramingTypeOK
    <3>3. Pending # <<>>
      <4> SUFFICES ASSUME Pending = <<>>
                   PROVE  FALSE
        OBVIOUS
      <4>1. Stream(Pending) = <<>>
        BY StreamEmpty
      <4>2. rest = <<>>
        <5>1. body \o rest \in Seq(Byte) /\ size \in Seq(Byte)
              /\ body \in Seq(Byte) /\ rest \in Seq(Byte)
          BY Types, Concatenated
        <5> HIDE DEF size, body, rest
        <5>2. body \o rest = <<>>
          BY <1>4, <4>1, <5>1, ConcatEqualIffEmpty
        <5> QED
          BY <5>1, <5>2, ConcatEqualIffEmpty
      <4>3. Len(rest) = 0
        BY <4>2, EmptySeq
      <4> QED
        BY <3>2, <4>3, Types
    <3>4. Len(received) < Len(built)
      BY <1>5, <3>3, Types, EmptySeq
    <3>5. Tail(Pending) = After(built, Len(received) + 1)
      BY <3>4, Types, AfterNext
    <3>6. Tail(Pending) = <<>>
      <4> SUFFICES ASSUME Tail(Pending) # <<>>
                   PROVE  FALSE
        OBVIOUS
      <4> DEFINE n == Len(received) + 1
                 bs == After(built, n)
      <4>1. n \in 0..Len(built) /\ Len(built) \in Nat /\ built \in Seq(Bodies)
        BY <3>4, Types
      <4> HIDE DEF n
      <4>2. /\ bs \in Seq(Bodies) /\ Len(bs) = Len(built) - n
            /\ \A i \in 1..(Len(built) - n) : bs[i] = built[n + i]
        BY <4>1, AfterProperties
      <4>3. bs = Tail(Pending)
        BY <3>5 DEF n
      <4> HIDE DEF bs
      <4>4. Len(bs) \in Nat \ {0}
        BY <4>2, <4>3, EmptySeq
      <4>5. bs[Len(bs)] = built[Len(built)]
        <5>1. Len(bs) \in 1..(Len(built) - n) /\ n + Len(bs) = Len(built)
          BY <4>1, <4>2, <4>4
        <5> QED
          BY <4>2, <5>1
      <4>6. Len(Stream(bs)) >= Len(sender.msg)
        BY <3>1, <4>2, <4>3, <4>5, StreamLast
      <4>7. Len(Stream(bs)) \in Nat
        BY <4>2, StreamType, LenProperties
      <4>8. Len(rest) > Len(Stream(bs))
        BY <1>6, <3>3, <4>3
      <4>9. Len(rest) = Len(sender.msg) - sender.nSent /\ sender.nSent \in Nat
            /\ Len(sender.msg) \in Nat
        BY Types
      <4> HIDE DEF rest
      <4> QED
        BY <4>6, <4>7, <4>8, <4>9
    <3>7. Len(Tail(Pending)) = Len(Pending) - 1
      BY <3>3, Types, HeadTailProperties
    <3> QED
      <4>1. Len(Pending) - 1 = 0
        BY <3>6, <3>7, EmptySeq
      <4>2. Len(built) \in Nat /\ Len(received) \in Nat
        BY Types
      <4>3. Len(received) = Len(built) - 1
        BY <1>5, <4>1, <4>2
      <4> QED
        BY <2>2, <4>3 DEF Finished
  <2> QED
    BY <2>1, <2>2
<1>8. EndAfterFrames'
  <2>1. Len(received)' = Finished'
    BY <1>1, <1>7 DEF Finished
  <2> QED
    BY <1>2, <2>1 DEF EndAfterFrames
<1> QED
  BY <1>1, <1>2, <1>3, <1>8 DEF FramingInv, SendingLast, ReceivedFirst, StreamIntact

\* A call of RecvMsgNB takes the next bytes of the frame and no more: with what it
\* leaves on the wire they are the stream as before
LEMMA ReadStep ==
    ASSUME FramingInv, receiver.end = "open", NEW n \in 1..Len(wire)
    PROVE  LET r == RecvMsgNB(n)
           IN  /\ r.size \in Seq(Byte) /\ Len(r.size) <= INT_BYTES
               /\ r.body \in Seq(Byte)
               /\ r.used \in 0..Len(wire)
               /\ IF Len(r.size) = INT_BYTES THEN Len(r.body) <= ByteToInt(r.size)
                                             ELSE r.body = <<>>
               /\ (r.size \o r.body) \o (SubSeq(wire, r.used + 1, Len(wire)) \o Rest(sender))
                      = Stream(Pending)
<1> DEFINE size0 == receiver.size
           body0 == receiver.body
           rest == Rest(sender)
           a == Least(n, INT_BYTES - Len(size0))
           w1 == SubSeq(wire, 1, a)
           size == size0 \o w1
           need == IF Len(size) = INT_BYTES THEN ByteToInt(size) - Len(body0) ELSE 0
           b == IF need > 0 THEN Least(n - a, need) ELSE 0
           w2 == SubSeq(wire, a + 1, a + b)
           body == body0 \o w2
<1>1. RecvMsgNB(n) = [size |-> size, body |-> body, used |-> a + b]
  BY DEF RecvMsgNB
<1>2. /\ size0 \in Seq(Byte) /\ body0 \in Seq(Byte) /\ rest \in Seq(Byte)
      /\ wire \in Seq(Byte) /\ Len(wire) \in Nat /\ Pending \in Seq(Bodies)
      /\ Len(size0) \in Nat /\ Len(body0) \in Nat
  BY Types, LenProperties
<1>3. /\ Len(size0) <= INT_BYTES
      /\ IF Len(size0) = INT_BYTES THEN Len(body0) < ByteToInt(size0) ELSE body0 = <<>>
  BY DEF FramingInv, FramingTypeOK, SizeIsSet
<1>4. ((size0 \o body0) \o wire) \o rest = Stream(Pending)
  BY DEF FramingInv, StreamIntact, Stream
<1>5. a \in Nat /\ a <= n /\ a <= INT_BYTES - Len(size0) /\ a <= Len(wire)
      /\ (Len(size0) = INT_BYTES => a = 0)
  <2>1. \A l \in Nat, k \in Nat : l <= INT_BYTES =>
            LET m == Least(k, INT_BYTES - l)
            IN  m \in Nat /\ m <= k /\ m <= INT_BYTES - l /\ (l = INT_BYTES => m = 0)
    BY DEF Least, INT_BYTES
  <2>2. n \in Nat /\ n <= Len(wire)
    BY <1>2
  <2>3. a \in Nat /\ a <= n /\ a <= INT_BYTES - Len(size0) /\ (Len(size0) = INT_BYTES => a = 0)
    BY <1>2, <1>3, <2>1, <2>2, Zenon
  <2> HIDE DEF a, size0
  <2> QED
    BY <1>2, <2>2, <2>3
<1> HIDE DEF size0, body0, rest, a
<1>6. w1 \in Seq(Byte) /\ Len(w1) = a
  <2>1. a \in 0..Len(wire)
    BY <1>2, <1>5
  <2> QED
    BY <1>2, <2>1, Cut
<1>7. size \in Seq(Byte) /\ Len(size) = Len(size0) + a
  BY <1>2, <1>6, Concatenated
<1>8. w1 = <<>> \/ body0 = <<>>
  BY <1>3, <1>5, <1>6, EmptySeq
<1>9. Len(size) <= INT_BYTES
  BY <1>2, <1>5, <1>7 DEF INT_BYTES
<1>10. ASSUME NEW j \in Nat, a + j <= Len(wire)
       PROVE  LET v == SubSeq(wire, a + 1, a + j)
                  w == SubSeq(wire, a + j + 1, Len(wire))
              IN  /\ v \in Seq(Byte) /\ Len(v) = j /\ w \in Seq(Byte)
                  /\ (size \o (body0 \o v)) \o (w \o rest) = Stream(Pending)
  <2> DEFINE v == SubSeq(wire, a + 1, a + j)
             w == SubSeq(wire, a + j + 1, Len(wire))
  <2>1. v \in Seq(Byte) /\ Len(v) = j /\ w \in Seq(Byte) /\ wire = w1 \o (v \o w)
    <3> DEFINE k == a + j
    <3>1. wire \in Seq(Byte) /\ a \in Nat /\ a \in 0..Len(wire)
          /\ k \in a..Len(wire) /\ k \in 0..Len(wire) /\ k - a = j
      BY <1>2, <1>5, <1>10
    <3> HIDE DEF k
    <3>2. wire = SubSeq(wire, 1, a) \o SubSeq(wire, a + 1, Len(wire))
          /\ SubSeq(wire, k + 1, Len(wire)) \in Seq(Byte)
      BY <3>1, Cut
    <3>3. /\ SubSeq(wire, a + 1, k) \in Seq(Byte) /\ Len(SubSeq(wire, a + 1, k)) = k - a
          /\ SubSeq(wire, a + 1, k) \o SubSeq(wire, k + 1, Len(wire))
                 = SubSeq(wire, a + 1, Len(wire))
      BY <3>1, CutRest
    <3>4. v = SubSeq(wire, a + 1, k) /\ w = SubSeq(wire, k + 1, Len(wire))
      BY DEF k
    <3> HIDE DEF v, w
    <3>5. v \in Seq(Byte) /\ Len(v) = j /\ w \in Seq(Byte)
      BY <3>1, <3>2, <3>3, <3>4
    <3>6. v \o w = SubSeq(wire, a + 1, Len(wire))
      BY <3>3, <3>4
    <3> QED
      BY <3>2, <3>5, <3>6
  <2> HIDE DEF v, w, w1
  <2>2. Cat(Cat(Cat(size0, body0), Cat(w1, Cat(v, w))), rest)
            = Cat(Cat(Cat(size0, w1), Cat(body0, v)), Cat(w, rest))
    BY <1>2, <1>6, <1>8, <2>1, Regroup
  <2>3. Cat(Cat(Cat(size0, body0), Cat(w1, Cat(v, w))), rest) = Stream(Pending)
    BY <1>4, <2>1 DEF Cat
  <2>4. (size \o (body0 \o v)) \o (w \o rest) = Stream(Pending)
    BY <2>2, <2>3 DEF Cat
  <2> QED
    BY <2>1, <2>4 DEF v, w
<1> HIDE DEF w1
<1>11. Len(size) = INT_BYTES => ByteToInt(size) \in Nat /\ Len(body0) < ByteToInt(size)
  <2> SUFFICES ASSUME Len(size) = INT_BYTES
               PROVE  ByteToInt(size) \in Nat /\ Len(body0) < ByteToInt(size)
    OBVIOUS
  <2>1. PICK v \in Seq(Byte), w \in Seq(Byte) :
            (size \o (body0 \o v)) \o (w \o rest) = Stream(Pending)
    <3>1. 0 \in Nat /\ a + 0 <= Len(wire)
      BY <1>5
    <3> QED
      BY <1>10, <3>1
  <2> HIDE DEF size
  <2>2. /\ body0 \o v \in Seq(Byte) /\ w \o rest \in Seq(Byte)
        /\ (body0 \o v) \o (w \o rest) \in Seq(Byte)
    <3>1. body0 \o v \in Seq(Byte) /\ w \o rest \in Seq(Byte)
      BY <1>2, Concatenated
    <3> QED
      BY <3>1, Concatenated
  <2>3. size \o ((body0 \o v) \o (w \o rest)) = Stream(Pending)
    <3> DEFINE x == body0 \o v
               y == w \o rest
    <3>1. x \in Seq(Byte) /\ y \in Seq(Byte) /\ (size \o x) \o y = Stream(Pending)
      BY <2>1, <2>2
    <3> HIDE DEF x, y
    <3>2. Cat(Cat(size, x), y) = Cat(size, Cat(x, y))
      BY <1>7, <3>1, CatRules
    <3> QED
      BY <3>1, <3>2 DEF Cat, x, y
  <2>4. Head(Pending) \in Bodies /\ ByteToInt(size) = Len(Head(Pending))
    BY <1>2, <1>7, <2>2, <2>3, SizeRead
  <2>5. Len(Head(Pending)) \in Nat /\ Len(Head(Pending)) >= 1
    BY <2>4, FrameProperties
  <2>6. CASE Len(size0) = INT_BYTES
    <3>1. w1 = <<>>
      BY <1>5, <1>6, <2>6, EmptySeq
    <3>2. size = size0
      BY <1>2, <3>1, ConcatEmptySeq DEF size
    <3> QED
      BY <1>3, <2>4, <2>5, <2>6, <3>2
  <2>7. CASE Len(size0) # INT_BYTES
    <3>1. Len(body0) = 0
      BY <1>3, <2>7, EmptySeq
    <3> QED
      BY <2>4, <2>5, <3>1
  <2> QED
    BY <2>6, <2>7
<1>12. /\ b \in Nat /\ a + b <= Len(wire)
       /\ IF Len(size) = INT_BYTES THEN Len(body0) + b <= ByteToInt(size) ELSE b = 0
  <2> HIDE DEF size
  <2>1. CASE Len(size) = INT_BYTES
    <3>1. /\ need = ByteToInt(size) - Len(body0) /\ need \in Nat /\ need > 0
      BY <1>2, <1>11, <2>1
    <3>2. b = Least(n - a, need)
      BY <3>1
    <3> QED
      BY <1>2, <1>5, <1>11, <2>1, <3>1, <3>2 DEF Least
  <2>2. CASE Len(size) # INT_BYTES
    <3>1. b = 0
      BY <2>2
    <3> QED
      BY <1>5, <2>2, <3>1
  <2> QED
    BY <2>1, <2>2
<1> HIDE DEF b, size
<1>13. /\ w2 \in Seq(Byte) /\ Len(w2) = b
       /\ (size \o body) \o (SubSeq(wire, (a + b) + 1, Len(wire)) \o rest) = Stream(Pending)
  BY <1>10, <1>12
<1> HIDE DEF w2
<1>14. body \in Seq(Byte) /\ Len(body) = Len(body0) + b
  BY <1>2, <1>13, Concatenated
<1>15. IF Len(size) = INT_BYTES THEN Len(body) <= ByteToInt(size) ELSE body = <<>>
  <2>1. CASE Len(size) = INT_BYTES
    BY <1>12, <1>14, <2>1
  <2>2. CASE Len(size) # INT_BYTES
    <3>1. Len(size0) # INT_BYTES
      <4>1. Len(size0) = INT_BYTES => Len(size) = Len(size0) + 0
        BY <1>5, <1>7
      <4>2. \A l \in Nat : l + 0 = l
        OBVIOUS
      <4> QED
        BY <1>2, <2>2, <4>1, <4>2
    <3>2. Len(body) = 0
      BY <1>3, <1>12, <1>14, <2>2, <3>1, EmptySeq
    <3> QED
      BY <1>14, <2>2, <3>2, EmptySeq
  <2> QED
    BY <2>1, <2>2
<1>16. a + b \in 0..Len(wire)
  BY <1>2, <1>5, <1>12
<1> HIDE DEF body
<1> DEFINE r == RecvMsgNB(n)
<1>17. r.size = size /\ r.body = body /\ r.used = a + b
  BY <1>1
<1> HIDE DEF r
<1>18. /\ r.size \in Seq(Byte) /\ Len(r.size) <= INT_BYTES
       /\ r.body \in Seq(Byte)
       /\ r.used \in 0..Len(wire)
       /\ IF Len(r.size) = INT_BYTES THEN Len(r.body) <= ByteToInt(r.size) ELSE r.body = <<>>
  BY <1>7, <1>9, <1>14, <1>15, <1>16, <1>17
<1>19. (r.size \o r.body) \o (SubSeq(wire, r.used + 1, Len(wire)) \o Rest(sender))
           = Stream(Pending)
  BY <1>13, <1>17 DEF rest
<1> QED
  BY <1>18, <1>19 DEF r

\* A call hands over nothing or the next body built, in one piece
LEMMA ReceiveStep ==
    ASSUME FramingInv, Receive
    PROVE  /\ FramingInv'
           /\ receiver'.end = "open"
           /\ \/ received' = received
              \/ /\ Len(received) < Len(built)
                 /\ received' = Append(received, built[Len(received) + 1])
<1>1. PICK n \in 1..Len(wire) :
          LET r == RecvMsgNB(n)
          IN  /\ receiver' = AfterRead(r)
              /\ received' = IF Complete(r) THEN Append(received, r.body) ELSE received
              /\ wire' = SubSeq(wire, r.used + 1, Len(wire))
  BY DEF Receive
<1> DEFINE r == RecvMsgNB(n)
           rest == Rest(sender)
<1>2. receiver.end = "open" /\ UNCHANGED <<sender, built>>
  BY DEF Receive
<1>3. /\ r.size \in Seq(Byte) /\ Len(r.size) <= INT_BYTES
      /\ r.body \in Seq(Byte)
      /\ r.used \in 0..Len(wire)
      /\ IF Len(r.size) = INT_BYTES THEN Len(r.body) <= ByteToInt(r.size) ELSE r.body = <<>>
      /\ (r.size \o r.body) \o (wire' \o rest) = Stream(Pending)
  BY <1>1, <1>2, ReadStep
<1>4. /\ receiver' = AfterRead(r)
      /\ received' = IF Complete(r) THEN Append(received, r.body) ELSE received
      /\ wire' = SubSeq(wire, r.used + 1, Len(wire))
  BY <1>1
<1> HIDE DEF r
<1>5. wire' \in Seq(Byte) /\ Len(wire') <= Room
  <2>1. wire \in Seq(Byte) /\ Len(wire) \in Nat /\ Len(wire) <= Room /\ Room \in Nat
    BY Types
  <2> DEFINE k == r.used
  <2>2. k \in 0..Len(wire)
    BY <1>3
  <2> HIDE DEF k
  <2>3. /\ SubSeq(wire, k + 1, Len(wire)) \in Seq(Byte)
        /\ Len(SubSeq(wire, k + 1, Len(wire))) = Len(wire) - k
    BY <2>1, <2>2, Cut
  <2>4. wire' = SubSeq(wire, k + 1, Len(wire))
    BY <1>4 DEF k
  <2>5. wire' \in Seq(Byte) /\ Len(wire') = Len(wire) - k
    BY <2>3, <2>4
  <2>6. Len(wire) - k <= Room
    BY <2>1, <2>2
  <2> QED
    BY <2>5, <2>6
<1>6. rest \in Seq(Byte) /\ Pending \in Seq(Bodies)
  BY Types
<1> HIDE DEF rest
<1>7. wire' \o rest \in Seq(Byte)
  BY <1>5, <1>6, Concatenated
<1>8. r.size \o (r.body \o (wire' \o rest)) = Stream(Pending)
      /\ r.body \o (wire' \o rest) \in Seq(Byte)
  <2> DEFINE x == r.size
             y == r.body
             z == wire' \o rest
  <2>1. x \in Seq(Byte) /\ y \in Seq(Byte) /\ z \in Seq(Byte)
        /\ (x \o y) \o z = Stream(Pending)
    BY <1>3, <1>7
  <2> HIDE DEF x, y, z
  <2>2. Cat(Cat(x, y), z) = Cat(x, Cat(y, z)) /\ Cat(y, z) \in Seq(Byte)
    BY <2>1, CatRules
  <2> QED
    BY <2>1, <2>2 DEF Cat, x, y, z
<1>9. Len(r.size) = INT_BYTES =>
          /\ Pending # <<>> /\ Head(Pending) \in Bodies
          /\ ByteToInt(r.size) = Len(Head(Pending))
          /\ ByteToInt(r.size) \in Nat /\ ByteToInt(r.size) >= 1
          /\ r.body \o (wire' \o rest) = Head(Pending) \o Stream(Tail(Pending))
  <2> SUFFICES ASSUME Len(r.size) = INT_BYTES
               PROVE  /\ Pending # <<>> /\ Head(Pending) \in Bodies
                      /\ ByteToInt(r.size) = Len(Head(Pending))
                      /\ ByteToInt(r.size) \in Nat /\ ByteToInt(r.size) >= 1
                      /\ r.body \o (wire' \o rest) = Head(Pending) \o Stream(Tail(Pending))
    OBVIOUS
  <2> DEFINE follows == r.body \o (wire' \o rest)
  <2>1. r.size \o follows = Stream(Pending) /\ follows \in Seq(Byte)
    BY <1>8
  <2> HIDE DEF follows
  <2>2. /\ Pending # <<>> /\ Head(Pending) \in Bodies
        /\ ByteToInt(r.size) = Len(Head(Pending))
        /\ follows = Head(Pending) \o Stream(Tail(Pending))
    BY <1>3, <1>6, <2>1, SizeRead
  <2>3. Len(Head(Pending)) \in Nat /\ Len(Head(Pending)) >= 1
    BY <2>2, FrameProperties
  <2> QED
    BY <2>2, <2>3 DEF follows
<1>10. ~BadSize(r)
  <2>1. \A k \in Nat : k >= 1 => ~(k <= 0)
    OBVIOUS
  <2>2. Len(r.size) = INT_BYTES => ~(ByteToInt(r.size) <= 0)
    BY <1>9, <2>1, Zenon
  <2> QED
    BY <2>2, Zenon DEF BadSize, SizeIsSet
<1>11. CASE Complete(r)
  <2>1. Len(r.size) = INT_BYTES /\ Len(r.body) = ByteToInt(r.size)
    BY <1>11 DEF Complete, SizeIsSet
  <2>2. Pending # <<>> /\ Head(Pending) \in Bodies /\ Tail(Pending) \in Seq(Bodies)
    BY <1>6, <1>9, <2>1, HeadTailProperties
  <2>3. r.body = Head(Pending) /\ wire' \o rest = Stream(Tail(Pending))
    <3> DEFINE x == r.body
               y == wire' \o rest
               f == Head(Pending)
               g == Stream(Tail(Pending))
    <3>1. f \in Seq(Byte) /\ g \in Seq(Byte)
      BY <2>2, FrameProperties, StreamType
    <3>2. x \in Seq(Byte) /\ y \in Seq(Byte) /\ x \o y = f \o g /\ Len(x) = Len(f)
      BY <1>3, <1>7, <1>9, <2>1
    <3> HIDE DEF x, y, f, g
    <3>3. x = f /\ y = g
      BY <3>1, <3>2, SameCut
    <3> QED
      BY <3>3 DEF x, y, f, g
  <2>4. receiver' = InitRecvStat /\ received' = Append(received, Head(Pending))
    BY <1>4, <1>10, <1>11, <2>3 DEF AfterRead
  <2>5. /\ receiver' \in Receivers /\ receiver'.end = "open"
        /\ receiver'.size = <<>> /\ receiver'.body = <<>>
    BY <2>4, EmptySeq DEF InitRecvStat, Receivers
  <2> DEFINE k == Len(received)
  <2>6. k \in Nat /\ k < Len(built)
    <3>1. Len(Pending) # 0 /\ Len(Pending) = Len(built) - Len(received)
      BY <2>2, Types, EmptySeq, AfterProperties
    <3> QED
      BY <3>1, Types
  <2>7. Head(Pending) = built[k + 1] /\ Tail(Pending) = After(built, k + 1)
    BY <2>6, Types, AfterNext
  <2>8. received' = SubSeq(built, 1, k + 1)
    <3>1. received = SubSeq(built, 1, k) /\ built \in Seq(Bodies)
      BY Types DEF FramingInv, ReceivedFirst
    <3> HIDE DEF k
    <3>2. Append(SubSeq(built, 1, k), built[k + 1]) = SubSeq(built, 1, k + 1)
      BY <2>6, <3>1, PrefixNext
    <3> QED
      BY <2>4, <2>7, <3>1, <3>2
  <2>9. received' \in Seq(Bodies) /\ Len(received') = k + 1
    <3>1. received \in Seq(Bodies)
      BY Types
    <3> QED
      BY <2>2, <2>4, <3>1, AppendProperties
  <2>10. ReceivedFirst'
    BY <1>2, <2>6, <2>8, <2>9, Types DEF ReceivedFirst
  <2>11. StreamIntact'
    <3>1. Pending' = Tail(Pending)
      BY <1>2, <2>7, <2>9 DEF Pending, After
    <3>2. Rest(sender') = rest
      BY <1>2 DEF rest
    <3>3. <<>> \o <<>> = <<>> /\ <<>> \o wire' = wire'
      BY <1>5, ConcatEmptySeq, EmptySeq
    <3>4. receiver'.size \o receiver'.body \o wire' \o Rest(sender') = Stream(Pending')
      BY <2>3, <2>5, <3>1, <3>2, <3>3
    <3> QED
      BY <3>4 DEF StreamIntact, Stream, Rest
  <2>12. FramingTypeOK'
    <3>1. Len(receiver'.size) = 0
      BY <2>5, EmptySeq
    <3>2. ~SizeIsSet(receiver') /\ Len(receiver'.size) <= INT_BYTES
      BY <3>1 DEF SizeIsSet, INT_BYTES
    <3> QED
      BY <1>2, <1>5, <2>5, <3>2, EmptySeq DEF FramingInv, FramingTypeOK, SizeIsSet
  <2>13. FramingInv'
    BY <1>2, <2>5, <2>9, <2>10, <2>11, <2>12
       DEF FramingInv, SendingLast, EndAfterFrames
  <2> QED
    BY <2>4, <2>5, <2>6, <2>7, <2>13
<1>12. CASE ~Complete(r)
  <2>1. receiver' = [receiver EXCEPT !.size = r.size, !.body = r.body]
        /\ received' = received
    BY <1>4, <1>10, <1>12 DEF AfterRead
  <2>2. /\ receiver' \in Receivers /\ receiver'.end = "open"
        /\ receiver'.size = r.size /\ receiver'.body = r.body
    BY <1>2, <1>3, <2>1 DEF FramingInv, Receivers
  <2>3. IF Len(r.size) = INT_BYTES THEN Len(r.body) < ByteToInt(r.size) ELSE r.body = <<>>
    <3>1. Len(r.size) = INT_BYTES => Len(r.body) # ByteToInt(r.size)
      BY <1>10, <1>12 DEF Complete, SizeIsSet
    <3>2. Len(r.body) \in Nat
      BY <1>3, LenProperties
    <3>3. \A k, l \in Nat : k <= l /\ k # l => k < l
      OBVIOUS
    <3>4. ASSUME Len(r.size) = INT_BYTES
          PROVE  Len(r.body) < ByteToInt(r.size)
      BY <1>3, <1>9, <3>1, <3>2, <3>3, <3>4, Zenon
    <3> QED
      BY <1>3, <3>4, Zenon
  <2>4. FramingTypeOK'
    BY <1>2, <1>3, <1>5, <2>2, <2>3 DEF FramingInv, FramingTypeOK, SizeIsSet
  <2>5. StreamIntact'
    <3>1. Pending' = Pending
      BY <1>2, <2>1 DEF Pending
    <3>2. Rest(sender') = rest
      BY <1>2 DEF rest
    <3> DEFINE x == r.size \o r.body
    <3>3. x \in Seq(Byte) /\ x \o (wire' \o rest) = Stream(Pending)
      BY <1>3, Concatenated
    <3> HIDE DEF x
    <3>4. Cat(Cat(x, wire'), rest) = Cat(x, Cat(wire', rest))
      BY <1>5, <1>6, <3>3, CatRules
    <3>5. (x \o wire') \o rest = Stream(Pending)
      BY <3>3, <3>4 DEF Cat
    <3>6. receiver'.size \o receiver'.body \o wire' \o Rest(sender') = Stream(Pending')
      BY <2>2, <3>1, <3>2, <3>5 DEF x
    <3> QED
      BY <3>6 DEF StreamIntact, Stream, Rest
  <2>6. FramingInv'
    BY <1>2, <2>1, <2>2, <2>4, <2>5
       DEF FramingInv, ReceivedFirst, SendingLast, EndAfterFrames
  <2> QED
    BY <2>1, <2>2, <2>6
<1> QED
  BY <1>11, <1>12

-----------------------------------------------------------------------------
(* The theorems *)

\* Every step of the two ends keeps the invariant
LEMMA NextFramingInv == FramingInv /\ [FramingNext]_vars => FramingInv'
<1> SUFFICES ASSUME FramingInv, [FramingNext]_vars
             PROVE  FramingInv'
  OBVIOUS
<1>1. CASE Send
  BY <1>1, SendInv
<1>2. CASE Resume
  BY <1>2, ResumeInv
<1>3. CASE CloseSender
  BY <1>3, CloseSenderInv
<1>4. CASE Receive
  BY <1>4, ReceiveStep
<1>5. CASE ReceiveEnd
  BY <1>5, ReceiveEndInv
<1>6. CASE CloseReceiver
  BY <1>6, CloseReceiverInv
<1>7. CASE UNCHANGED vars
  <2>1. /\ sender' = sender /\ wire' = wire /\ receiver' = receiver
        /\ built' = built /\ received' = received
    BY <1>7 DEF vars
  <2>2. FramingTypeOK' /\ EndAfterFrames'
    BY <2>1 DEF FramingInv, FramingTypeOK, SizeIsSet, EndAfterFrames, Finished
  <2>3. StreamIntact'
    BY <2>1 DEF FramingInv, StreamIntact, Pending, Rest
  <2>4. ReceivedFirst' /\ SendingLast'
    BY <2>1 DEF FramingInv, ReceivedFirst, SendingLast
  <2> QED
    BY <2>1, <2>2, <2>3, <2>4 DEF FramingInv
<1> QED
  BY <1>1, <1>2, <1>3, <1>4, <1>5, <1>6, <1>7 DEF FramingNext

\* So it holds of every state that SendMsgNB, RecvMsgNB and the ends of the
\* connection reach
THEOREM FramingInvariance == FramingSpec => []FramingInv
<1> QED
  BY InitFramingInv, NextFramingInv, PTL DEF FramingSpec

\* The statuses of both ends keep their shape: a blocked sender has something to
\* resume with and asks for POLLWRNORM, an idle one does not, and a receiver never
\* holds a whole body that it has not handed over
THEOREM FramingTypeCorrect == FramingSpec => []FramingTypeOK
<1>1. FramingInv => FramingTypeOK
  BY DEF FramingInv
<1> QED
  BY <1>1, FramingInvariance, PTL

\* No byte is lost, repeated or moved, wherever SendMsgNB and RecvMsgNB stop for
\* a socket that would block
THEOREM StreamStaysIntact == FramingSpec => []StreamIntact
<1>1. FramingInv => StreamIntact
  BY DEF FramingInv
<1> QED
  BY <1>1, FramingInvariance, PTL

\* A receiver that reads 0 bytes has every frame that was written to its end, and
\* no size that is read ends the stream
THEOREM EndMeansAllFrames == FramingSpec => []EndAfterFrames
<1>1. FramingInv => EndAfterFrames
  BY DEF FramingInv
<1> QED
  BY <1>1, FramingInvariance, PTL

-----------------------------------------------------------------------------
(* The channel *)

\* The bytes begin as an empty channel that is open
LEMMA InitIsChannelInit == FramingInit => Channel!Init
BY DEF FramingInit, InitRecvStat, Channel!Init

\* A frame that is built is a body put in, a frame whose last byte is read is the
\* next body that comes out, the end of the receiver is the end of the channel,
\* and every other step is none of the channel's
LEMMA NextIsChannelNext ==
    FramingInv /\ [FramingNext]_vars => [Channel!Next]_(Channel!vars)
<1> SUFFICES ASSUME FramingInv, [FramingNext]_vars
             PROVE  [Channel!Next]_(Channel!vars)
  OBVIOUS
<1> DEFINE over == receiver.end # "open"
<1>1. CASE Send
  <2>1. /\ \E b \in Bodies : built' = Append(built, b)
        /\ received' = received /\ receiver' = receiver
    BY <1>1 DEF Send, SendMsgNB
  <2>2. Channel!Put
    BY <2>1 DEF Channel!Put
  <2> QED
    BY <2>2 DEF Channel!Next
<1>2. CASE Resume
  <2>1. built' = built /\ received' = received /\ receiver' = receiver
    BY <1>2 DEF Resume, SendMsgNB
  <2> QED
    BY <2>1 DEF Channel!vars
<1>3. CASE CloseSender
  <2>1. built' = built /\ received' = received /\ receiver' = receiver
    BY <1>3 DEF CloseSender
  <2> QED
    BY <2>1 DEF Channel!vars
<1>4. CASE Receive
  <2>1. /\ receiver.end = "open" /\ receiver'.end = "open" /\ built' = built
        /\ \/ received' = received
           \/ /\ Len(received) < Len(built)
              /\ received' = Append(received, built[Len(received) + 1])
    BY <1>4, ReceiveStep DEF Receive
  <2>2. CASE received' = received
    BY <2>1, <2>2 DEF Channel!vars
  <2>3. CASE /\ Len(received) < Len(built)
             /\ received' = Append(received, built[Len(received) + 1])
    <3>1. Channel!Get
      BY <2>1, <2>3 DEF Channel!Get
    <3> QED
      BY <3>1 DEF Channel!Next
  <2> QED
    BY <2>1, <2>2, <2>3
<1>5. CASE ReceiveEnd \/ CloseReceiver
  <2>1. /\ receiver'.end # "open" /\ built' = built /\ received' = received
    <3>1. receiver \in Receivers
      BY DEF FramingInv
    <3> QED
      BY <1>5, <3>1 DEF ReceiveEnd, CloseReceiver, Receivers
  <2>2. Channel!End
    BY <2>1 DEF Channel!End
  <2> QED
    BY <2>2 DEF Channel!Next
<1>6. CASE UNCHANGED vars
  BY <1>6 DEF vars, Channel!vars
<1> QED
  BY <1>1, <1>2, <1>3, <1>4, <1>5, <1>6 DEF FramingNext

\* The bytes implement the safety part of ImplementsChannel: bodies come out one
\* by one, in the order they were put in, each in one piece, and none after the
\* end.  That what is put in comes out is the WF_vars(Get) of Channel!Spec.
THEOREM BytesCarryBodies == FramingSpec => Channel!Init /\ [][Channel!Next]_(Channel!vars)
<1> QED
  BY InitIsChannelInit, NextIsChannelNext, FramingInvariance, PTL DEF FramingSpec

=============================================================================
