------------------------------ MODULE ChatSession ------------------------------
(***************************************************************************)
(* ChatServer/ChatSession.cpp: a session cuts the bytes of its connection  *)
(* into packages, a head (KaHead_t) and a body each, and gives each body   *)
(* to process.  What the peer sends arrives in pieces of any size, and     *)
(* OnRead runs after every piece.                                          *)
(*                                                                         *)
(* A byte is a record that says what it is part of.  retrieves says which  *)
(* Buffer the session stands on: FALSE is Net/Buffer.h as it is, whose     *)
(* retrieve refuses every length below readableBytes(); TRUE is the one    *)
(* OnRead is written for, which gives up the len bytes it is asked to.     *)
(* process has no return statement: its result is any.                     *)
(*                                                                         *)
(* A head may say that its compressed body is shorter or longer than it is *)
(* (of originSize and of bodies that are not compressed the head is the    *)
(* only measure).  zlib ignores what is behind the compressed text, so a   *)
(* compressSize that is too long takes the beginning of the next package   *)
(* away unnoticed.  The bytes in front are no head then: OnRead copies     *)
(* what they happen to be, which is misread.                               *)
(***************************************************************************)
EXTENDS Integers, Sequences, KaZlibUtil

CONSTANTS HeadLen,         \* sizeof(KaHead_t), 20
          MaxPackage,      \* MAX_PACKAGESIZE
          Packages,        \* what peers send: [flag, originSize, compressSize]
          MaxPacks,        \* bound on the packages of one peer
          MaxCalls         \* bound on the calls of process

ASSUME ChatAssumption ==
  /\ HeadLen \in Nat \ {0} /\ MaxPackage \in Nat
  /\ Packages # {}
  /\ Packages \subseteq [flag : {"COMPRESSED", "UNCOMPRESSED"}, originSize : Int, compressSize : Int]

VARIABLES retrieves,
          packs,           \* the packages of the peer, in the order it sends them
          coming,          \* their bytes that have not arrived
          input,           \* the readable bytes of the connection's Buffer
          misread,         \* what the bytes in front are as a head, when they are none
          reading,         \* OnRead is running
          forceClosed,
          processed        \* what process was given

chatVars == <<retrieves, packs, coming, input, misread, reading, forceClosed, processed>>

\* The body of the i-th package before it is compressed.
BodyText(i, n) == [k \in 1..n |-> [text |-> i, at |-> k]]

\* The i-th package as it is sent.
Wire(i, p) ==
  [k \in 1..HeadLen |-> [head |-> p, at |-> k]] \o
  (IF p.flag = "COMPRESSED" THEN Deflated(BodyText(i, p.originSize)) ELSE BodyText(i, p.originSize))

ChatInit ==
  /\ retrieves \in BOOLEAN
  /\ packs = <<>> /\ coming = <<>> /\ input = <<>>
  /\ misread = CHOOSE p \in Packages : TRUE
  /\ reading = FALSE /\ forceClosed = FALSE
  /\ processed = <<>>

-----------------------------------------------------------------------------
\* Buffer::retrieve.
Retrieved(s, len) == IF len >= Len(s) THEN <<>>
                     ELSE IF retrieves THEN SubSeq(s, len + 1, Len(s))
                     ELSE s

\* A head begins in front of s.
AtHead(s) == s # <<>> /\ "head" \in DOMAIN s[1] /\ s[1].at = 1

\* The head at the front of the input, copied from peek().
FrontHead == IF AtHead(input) THEN input[1].head ELSE misread

InRange(n) == n \in 1..MaxPackage

SizesInRange(h) == InRange(h.originSize) /\ (h.flag = "COMPRESSED" => InRange(h.compressSize))

BodySize(h) == IF h.flag = "COMPRESSED" THEN h.compressSize ELSE h.originSize

\* There is a head, and as much behind it as it says.
Whole == Len(input) >= HeadLen /\ Len(input) >= BodySize(FrontHead) + HeadLen

\* The piece of s that inBuf gets, when its head was h.
Body(s, h) == SubSeq(s, 1, BodySize(h))

\* What process would be given of the body: ok is FALSE when it cannot be uncompressed.
Unpacked(body, h) ==
  IF h.flag = "COMPRESSED" THEN UncompressBuf(body, <<>>, h.originSize) ELSE Result(TRUE, body)

\* The bytes that come to the front, if they are no head, can be anything.
Misread(stream) == IF stream # <<>> /\ ~AtHead(stream) THEN Packages ELSE {misread}

-----------------------------------------------------------------------------
\* The peer sends one more package.
PeerSends(p) ==
  /\ ~forceClosed /\ Len(packs) < MaxPacks
  /\ packs' = Append(packs, p)
  /\ coming' = coming \o Wire(Len(packs) + 1, p)
  /\ UNCHANGED <<retrieves, input, misread, reading, forceClosed, processed>>

\* A piece of n bytes arrives, and the connection calls OnRead.
Arrive(n) ==
  /\ ~reading /\ ~forceClosed /\ n \in DOMAIN coming
  /\ input' = input \o SubSeq(coming, 1, n)
  /\ coming' = SubSeq(coming, n + 1, Len(coming))
  /\ reading' = TRUE
  /\ UNCHANGED <<retrieves, packs, misread, forceClosed, processed>>

\* OnRead returns and leaves the connection open.
WaitForMore ==
  /\ reading
  /\ Len(input) >= HeadLen => SizesInRange(FrontHead) /\ ~Whole
  /\ reading' = FALSE
  /\ UNCHANGED <<retrieves, packs, coming, input, misread, forceClosed, processed>>

ForceClose == reading' = FALSE /\ forceClosed' = TRUE

\* A head that cannot be.
RefuseHead ==
  /\ reading /\ Len(input) >= HeadLen /\ ~SizesInRange(FrontHead)
  /\ ForceClose
  /\ UNCHANGED <<retrieves, packs, coming, input, misread, processed>>

\* OnRead returns after one package.
ReadPackage_Once(good) ==
  /\ reading /\ Len(input) >= HeadLen /\ SizesInRange(FrontHead) /\ Whole
  /\ LET rest == Retrieved(input, HeadLen)
         out == Unpacked(Body(rest, FrontHead), FrontHead)
     IN  /\ input' = Retrieved(rest, BodySize(FrontHead))
         /\ misread' \in Misread(input' \o coming)
         /\ processed' = IF out.ok THEN Append(processed, out.dest) ELSE processed
         /\ reading' = FALSE /\ forceClosed' = ~(out.ok /\ good)
  /\ UNCHANGED <<retrieves, packs, coming>>

\* One turn of the loop for a whole package; process returns good.
ReadPackage(good) ==
  /\ reading /\ Len(input) >= HeadLen /\ SizesInRange(FrontHead) /\ Whole
  /\ LET rest == Retrieved(input, HeadLen)
         out == Unpacked(Body(rest, FrontHead), FrontHead)
     IN  /\ input' = Retrieved(rest, BodySize(FrontHead))
         /\ misread' \in Misread(input' \o coming)
         /\ processed' = IF out.ok THEN Append(processed, out.dest) ELSE processed
         /\ IF out.ok /\ good THEN UNCHANGED <<reading, forceClosed>> ELSE ForceClose
  /\ UNCHANGED <<retrieves, packs, coming>>

ChatNext ==
  \/ \E p \in Packages : PeerSends(p)
  \/ \E n \in DOMAIN coming : Arrive(n)
  \/ WaitForMore \/ RefuseHead
  \/ Len(processed) < MaxCalls /\ \E good \in BOOLEAN : ReadPackage(good)

ChatSpec == ChatInit /\ [][ChatNext]_chatVars

-----------------------------------------------------------------------------
(* Properties.                                                             *)

\* compressSize is not longer than the compressed body.
FitsIn(p) == p.flag = "COMPRESSED" => p.compressSize <= CompressBound(p.originSize)

\* process is given the bodies of the peer's packages, whole, uncompressed, each once and in
\* the order they were sent, however the bytes were cut into pieces, up to and with the first
\* one whose compressSize is too long (ChatSession.cpp:63, 83).
BodyIsProcessed ==
  \A i \in DOMAIN processed :
    (\A j \in DOMAIN packs : j < i => FitsIn(packs[j])) =>
      i \in DOMAIN packs /\ processed[i] = BodyText(i, packs[i].originSize)

\* When OnRead has returned and the connection is open, nothing stays behind that it takes for
\* a whole package: the next one may never come, and nothing else would have it read
\* (ChatSession.cpp:33).
NoneLeftWaiting == ~reading /\ ~forceClosed => ~Whole

\* On a Buffer that gives up what is retrieved the packages are cut out of the bytes whole
\* and in order; on this and on the Buffer as it is none is left waiting.
FramedInOrder == (retrieves => BodyIsProcessed) /\ NoneLeftWaiting
==============================================================================
