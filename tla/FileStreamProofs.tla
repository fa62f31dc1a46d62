-------------------------- MODULE FileStreamProofs --------------------------
(***************************************************************************)
(* Proofs about FileStream, for files of any size, any size of a chunk, of *)
(* a frame's header and of the signature, any edits and any damage.        *)
(***************************************************************************)
EXTENDS FileStream, SequenceTheorems, TLAPS

USE SizesAssumption, LayoutAssumption, BoundAssumption

-----------------------------------------------------------------------------
(* The Content-Length.                                                      *)

\* A file of n bytes takes k chunks.
InChunks(n, k) == IF k = 0 THEN n = 0 ELSE ChunkSize * (k - 1) < n /\ n <= ChunkSize * k

LEMMA ChunkOrder ==
    ASSUME NEW a \in Nat, NEW b \in Nat
    PROVE  (ChunkSize * a <= ChunkSize * b) <=> a <= b
<1>1. ASSUME NEW c \in Nat, NEW d \in Nat
      PROVE  ChunkSize * d \in Nat /\ ChunkSize * (c + d) = ChunkSize * c + ChunkSize * d
             /\ (d > 0 => ChunkSize * d > 0)
    OBVIOUS
<1>2. CASE a <= b
  <2>1. b - a \in Nat /\ a + (b - a) = b
      BY <1>2
  <2>2. ChunkSize * (a + (b - a)) = ChunkSize * a + ChunkSize * (b - a)
        /\ ChunkSize * (b - a) \in Nat
      BY <1>1, <2>1
  <2>3. QED
      BY <1>2, <2>1, <2>2
<1>3. CASE b < a
  <2>1. a - b \in Nat /\ a - b > 0 /\ b + (a - b) = a
      BY <1>3
  <2>2. ChunkSize * (b + (a - b)) = ChunkSize * b + ChunkSize * (a - b)
        /\ ChunkSize * (a - b) \in Nat /\ ChunkSize * (a - b) > 0
      BY <1>1, <2>1
  <2>3. QED
      BY <1>3, <2>1, <2>2
<1>4. QED
    BY <1>2, <1>3

LEMMA PayloadOfChunks ==
    ASSUME NEW n \in Nat, NEW k \in Nat, InChunks(n, k)
    PROVE  PayloadSize(n) = Preamble + n + Frame * k + Frame + SigLen
<1> DEFINE full == n \div ChunkSize
           rem  == n % ChunkSize
<1>1. full \in Nat /\ rem \in Nat /\ rem < ChunkSize /\ n = ChunkSize * full + rem
    OBVIOUS
<1>2. /\ PayloadSize(n) = IF n = 0 THEN Preamble + (Frame + SigLen)
             ELSE Preamble + (full * (Frame + ChunkSize) + IF rem = 0 THEN 0 ELSE Frame + rem)
                    + (Frame + SigLen)
    BY DEF PayloadSize
<1> HIDE DEF full, rem
<1>3. full * (Frame + ChunkSize) = Frame * full + ChunkSize * full
    BY <1>1
<1>4. CASE k = 0
    BY <1>2, <1>4 DEF InChunks
<1>5. CASE k # 0
  <2>1. k - 1 \in Nat /\ ChunkSize * (k - 1) < n /\ n <= ChunkSize * k /\ n # 0
      BY <1>5 DEF InChunks
  <2>2. ChunkSize * (full + 1) = ChunkSize * full + ChunkSize
      BY <1>1
  <2>3. CASE rem = 0
    <3>1. ~(ChunkSize * full <= ChunkSize * (k - 1)) /\ ChunkSize * full <= ChunkSize * k
        BY <1>1, <2>1, <2>3
    <3>2. full = k
        BY <1>1, <2>1, <3>1, ChunkOrder
    <3>3. QED
        BY <1>1, <1>2, <1>3, <2>1, <2>3, <3>2
  <2>4. CASE rem # 0
    <3>1. ChunkSize * (k - 1) <= ChunkSize * full \/ ~(ChunkSize * (full + 1) <= ChunkSize * (k - 1))
        BY <1>1, <2>1, <2>2, <2>4
    <3>2. ~(ChunkSize * k <= ChunkSize * full)
        BY <1>1, <2>1, <2>4
    <3>3. ~(ChunkSize * (full + 1) <= ChunkSize * (k - 1))
        BY <1>1, <2>1, <2>2, <2>4
    <3>4. ~(k <= full) /\ ~(full + 1 <= k - 1)
        BY <1>1, <2>1, <3>2, <3>3, ChunkOrder
    <3>5. k = full + 1
        BY <1>1, <3>4
    <3>6. Frame * k = Frame * full + Frame
        BY <1>1, <3>5
    <3>7. QED
        BY <1>1, <1>2, <1>3, <2>1, <2>4, <3>6
  <2>5. QED
      BY <2>3, <2>4
<1>6. QED
    BY <1>4, <1>5

LEMMA ChunksExist ==
    ASSUME NEW n \in Nat
    PROVE  \E k \in Nat : InChunks(n, k)
<1> DEFINE full == n \div ChunkSize
           rem  == n % ChunkSize
<1>1. full \in Nat /\ rem \in Nat /\ rem < ChunkSize /\ n = ChunkSize * full + rem
    OBVIOUS
<1> HIDE DEF full, rem
<1>2. ChunkSize * (full + 1) = ChunkSize * full + ChunkSize
    BY <1>1
<1>3. CASE rem # 0
  <2>1. InChunks(n, full + 1)
      BY <1>1, <1>2, <1>3 DEF InChunks
  <2>2. QED
      BY <1>1, <2>1
<1>4. CASE rem = 0
  <2>1. full # 0 => full - 1 \in Nat /\ ChunkSize * (full - 1 + 1) = ChunkSize * (full - 1) + ChunkSize
      BY <1>1
  <2>2. InChunks(n, full)
      BY <1>1, <1>4, <2>1 DEF InChunks
  <2>3. QED
      BY <1>1, <2>2
<1>5. QED
    BY <1>3, <1>4

\* The more bytes, the more chunks.
LEMMA ChunksGrow ==
    ASSUME NEW n \in Nat, NEW k \in Nat, InChunks(n, k),
           NEW m \in Nat, NEW j \in Nat, InChunks(m, j), n <= m
    PROVE  k <= j /\ Frame * k <= Frame * j
<1>1. CASE k = 0
    BY <1>1
<1>2. CASE j = 0
    BY <1>2 DEF InChunks
<1>3. CASE k # 0 /\ j # 0
  <2>1. k - 1 \in Nat /\ ChunkSize * (k - 1) \in Nat /\ ChunkSize * j \in Nat
      BY <1>3
  <2>2. ~(ChunkSize * j <= ChunkSize * (k - 1))
      BY <1>3, <2>1 DEF InChunks
  <2>3. ~(j <= k - 1)
      BY <2>1, <2>2, ChunkOrder
  <2>4. j - k \in Nat /\ k + (j - k) = j
      BY <2>3
  <2>5. Frame * (k + (j - k)) = Frame * k + Frame * (j - k) /\ Frame * (j - k) \in Nat
        /\ Frame * k \in Nat
      BY <2>4
  <2>6. QED
      BY <2>3, <2>4, <2>5
<1>4. QED
    BY <1>1, <1>2, <1>3

\* Files of different sizes have different lengths on the wire.
LEMMA PayloadGrows ==
    ASSUME NEW n \in Nat, NEW m \in Nat, n < m
    PROVE  PayloadSize(n) < PayloadSize(m)
<1>1. PICK k \in Nat : InChunks(n, k)
    BY ChunksExist
<1>2. PICK j \in Nat : InChunks(m, j)
    BY ChunksExist
<1>3. Frame * k <= Frame * j /\ Frame * k \in Nat /\ Frame * j \in Nat
    BY <1>1, <1>2, ChunksGrow
<1>4. /\ PayloadSize(n) = Preamble + n + Frame * k + Frame + SigLen
      /\ PayloadSize(m) = Preamble + m + Frame * j + Frame + SigLen
    BY <1>1, <1>2, PayloadOfChunks
<1>5. QED
    BY <1>3, <1>4

-----------------------------------------------------------------------------
(* Types, and where the frames come from.                                   *)

Frames == [kind : {"meta", "data", "final"}, pos : Nat, len : Nat]

Streaming == spc \in {"reading", "last"}
Whole == spc \in {"waiting", "ok"}

\* The frames of the sender: each is at the place its position says, the
\* metadata first, the trailer last, and between them chunks.
SentInv ==
    /\ spc \in {"idle", "measured"} => sent = <<>> /\ wire = 0 /\ offset = 0
    /\ Streaming => Len(sent) >= 1
    /\ \A i \in 1 .. Len(sent) :
          /\ sent[i].pos = i
          /\ sent[i].kind = "meta" <=> i = 1
          /\ IsData(sent[i]) => sent[i].len \in 1 .. ChunkSize
          /\ sent[i].kind = "final" => i = Len(sent) /\ ~Streaming
    /\ Whole => Len(sent) >= 2 /\ sent[Len(sent)].kind = "final"

\* A stored frame is the sender's frame of its position, or none.
FromSent(f) == f.pos = 0 \/ (f.pos \in 1 .. Len(sent) /\ f = sent[f.pos])

ServerInv ==
    /\ vpc # "empty" => spc \in {"waiting", "failed", "ok"}
    /\ \A i \in 1 .. Len(body) : FromSent(body[i])
    /\ Whole /\ vpc = "stored" /\ damage = 0 => body = sent /\ tail = "none"
    /\ spc = "ok" => vpc = "stored"
    /\ vpc # "stored" => body = <<>> /\ tail = "none"

\* What the receiver has read is a prefix of the sender's stream.
ReceiverInv ==
    /\ rpc = "idle" => next = 1 /\ got = <<>> /\ written = 0
    /\ rpc # "idle" => vpc = "stored"
    /\ rpc \in {"reading", "delivered"} =>
          /\ next >= 2 /\ next <= Len(body) + 1
          /\ \A i \in 1 .. next - 1 : i <= Len(sent) /\ body[i] = sent[i]
          /\ Len(got) = next - 2
          /\ \A i \in 1 .. Len(got) : got[i] = body[i + 1]
    /\ rpc = "delivered" => IsEnd(next)

StreamInv == TypeOK /\ SentInv /\ ServerInv /\ ReceiverInv

LEMMA InitStream == Init => StreamInv
<1> SUFFICES ASSUME Init
             PROVE  StreamInv
    OBVIOUS
<1>1. /\ sent \in Seq(Frames) /\ body \in Seq(Frames)
      /\ got \in Seq([kind : {"data"}, pos : Nat, len : 1 .. ChunkSize])
      /\ Len(sent) = 0 /\ Len(body) = 0
    BY DEF Init
<1>2. TypeOK
    BY <1>1 DEF Init, TypeOK, Frames
<1>3. SentInv
    BY <1>1 DEF Init, SentInv, Streaming, Whole
<1>4. ServerInv
    BY <1>1 DEF Init, ServerInv, Whole
<1>5. ReceiverInv
    BY DEF Init, ReceiverInv
<1>6. QED
    BY <1>2, <1>3, <1>4, <1>5 DEF StreamInv

\* A frame given to httpx comes after the frames given before it.
LEMMA AppendFrame ==
    ASSUME StreamInv, NEW f \in Frames, Streaming, sent' = Append(sent, f)
    PROVE  /\ sent' \in Seq(Frames)
           /\ Len(sent') = Len(sent) + 1
           /\ \A i \in 1 .. Len(sent) : sent'[i] = sent[i]
           /\ sent'[Len(sent) + 1] = f
           /\ Len(sent) \in Nat
<1>1. sent \in Seq(Frames)
    BY DEF StreamInv, TypeOK, Frames
<1>2. QED
    BY <1>1

LEMMA ChunkRead ==
    ASSUME NEW s \in Nat, NEW o \in Nat, Least(ChunkSize, s - o) > 0
    PROVE  /\ Least(ChunkSize, s - o) \in 1 .. ChunkSize
           /\ o < s /\ o + Least(ChunkSize, s - o) <= s
           /\ Least(ChunkSize, s - o) < ChunkSize => o + Least(ChunkSize, s - o) = s
    BY DEF Least

LEMMA SenderTypes ==
    ASSUME StreamInv, Measure \/ BeginStream \/ ReadChunk \/ EndOfFile \/ SendFinal
                      \/ SendFails \/ UploadAnswer \/ Edit
    PROVE  TypeOK' /\ SentInv'
<1> USE DEF StreamInv, TypeOK, SentInv, Streaming, Whole
<1>0. sent \in Seq(Frames) /\ Len(sent) \in Nat /\ size \in Nat /\ offset \in Nat
    BY DEF Frames
<1>1. CASE Measure
    BY <1>1 DEF Measure, file, server, receiver
<1>2. CASE BeginStream
  <2>1. /\ UNCHANGED <<file, measured, offset, server, receiver>>
        /\ meta' = size /\ wire' = Preamble /\ sent' = <<FrameOf("meta", 1, 0)>>
        /\ spc = "measured" /\ spc' \in {"last", "reading"}
      BY <1>2 DEF BeginStream
  <2>2. /\ sent' \in Seq(Frames) /\ Len(sent') = 1
        /\ sent'[1] = [kind |-> "meta", pos |-> 1, len |-> 0]
      BY <2>1 DEF FrameOf, Frames
  <2>3. written = 0
      BY <2>1 DEF ServerInv, ReceiverInv
  <2>4. TypeOK'
      BY <1>0, <2>1, <2>2, <2>3 DEF file, server, receiver, Frames
  <2>5. SentInv'
      BY <2>1, <2>2 DEF IsData
  <2>6. QED
      BY <2>4, <2>5
<1>3. CASE ReadChunk
  <2> DEFINE n == Least(ChunkSize, size - offset)
             f == FrameOf("data", Len(sent) + 1, n)
  <2>1. /\ UNCHANGED <<file, spc, measured, meta, server, receiver>>
        /\ spc = "reading" /\ n > 0 /\ offset' = offset + n /\ wire' = wire + Frame + n
        /\ sent' = Append(sent, f)
      BY <1>3 DEF ReadChunk
  <2>2. n \in 1 .. ChunkSize
      BY <1>0, <2>1, ChunkRead
  <2>3. f \in Frames /\ f.kind = "data" /\ f.pos = Len(sent) + 1 /\ f.len = n
      BY <1>0, <2>2 DEF FrameOf, Frames
  <2> HIDE DEF n, f
  <2>4. /\ sent' \in Seq(Frames) /\ Len(sent') = Len(sent) + 1
        /\ \A i \in 1 .. Len(sent) : sent'[i] = sent[i]
        /\ sent'[Len(sent) + 1] = f
      BY <2>1, <2>3, AppendFrame
  <2>5. TypeOK'
    <3>1. wire \in Nat /\ n \in Nat
        BY <2>2
    <3>2. \A o, w, m \in Nat : o + m \in Nat /\ w + Frame + m \in Nat
        OBVIOUS
    <3>3. offset' \in Nat /\ wire' \in Nat
        BY <1>0, <2>1, <3>1, <3>2, Zenon
    <3>4. QED
        BY <2>1, <2>4, <3>3 DEF file, server, receiver, Frames
  <2>6. ASSUME NEW i \in 1 .. Len(sent')
        PROVE  /\ sent'[i].pos = i
               /\ sent'[i].kind = "meta" <=> i = 1
               /\ IsData(sent'[i]) => sent'[i].len \in 1 .. ChunkSize
               /\ sent'[i].kind # "final"
    <3>1. CASE i = Len(sent) + 1
      <4>1. sent'[i] = f
          BY <2>4, <3>1
      <4>2. Len(sent) >= 1
          BY <2>1
      <4>3. i # 1
          BY <1>0, <3>1, <4>2
      <4>4. QED
          BY <2>2, <2>3, <3>1, <4>1, <4>3 DEF IsData
    <3>2. CASE i \in 1 .. Len(sent)
      <4>1. sent'[i] = sent[i]
          BY <2>4, <3>2
      <4>2. /\ sent[i].pos = i
            /\ sent[i].kind = "meta" <=> i = 1
            /\ IsData(sent[i]) => sent[i].len \in 1 .. ChunkSize
            /\ sent[i].kind # "final"
          BY <2>1, <3>2
      <4>3. QED
          BY <4>1, <4>2 DEF IsData
    <3>3. QED
        BY <1>0, <2>4, <3>1, <3>2
  <2>7. SentInv'
    <3>1. spc' = "reading" /\ Len(sent') >= 1
        BY <1>0, <2>1, <2>4
    <3>2. QED
        BY <2>6, <3>1 DEF IsData
  <2>8. QED
      BY <2>5, <2>7
<1>4. CASE EndOfFile
    BY <1>4 DEF EndOfFile, file, server, receiver
<1>5. CASE SendFinal
  <2> DEFINE f == FrameOf("final", Len(sent) + 1, SigLen)
  <2>1. /\ UNCHANGED <<file, measured, meta, offset, server, receiver>>
        /\ spc = "last" /\ spc' \in {"waiting", "failed"}
        /\ wire' = wire + Frame + SigLen
        /\ sent' = Append(sent, f)
      BY <1>5 DEF SendFinal
  <2>2. f \in Frames /\ f.kind = "final" /\ f.pos = Len(sent) + 1
      BY <1>0 DEF FrameOf, Frames
  <2> HIDE DEF f
  <2>3. /\ sent' \in Seq(Frames) /\ Len(sent') = Len(sent) + 1
        /\ \A i \in 1 .. Len(sent) : sent'[i] = sent[i]
        /\ sent'[Len(sent) + 1] = f
      BY <2>1, <2>2, AppendFrame
  <2>4. TypeOK'
      BY <2>1, <2>3 DEF file, server, receiver, Frames
  <2>5. ASSUME NEW i \in 1 .. Len(sent')
        PROVE  /\ sent'[i].pos = i
               /\ sent'[i].kind = "meta" <=> i = 1
               /\ IsData(sent'[i]) => sent'[i].len \in 1 .. ChunkSize
               /\ sent'[i].kind = "final" => i = Len(sent')
    <3>1. CASE i = Len(sent) + 1
        BY <1>0, <2>1, <2>2, <2>3, <3>1 DEF IsData
    <3>2. CASE i \in 1 .. Len(sent)
        BY <2>1, <2>3, <3>2
    <3>3. QED
        BY <1>0, <2>3, <3>1, <3>2
  <2>6. SentInv'
    <3>1. spc' \in {"waiting", "failed"} /\ Len(sent') >= 2 /\ sent'[Len(sent')].kind = "final"
        BY <1>0, <2>1, <2>2, <2>3
    <3>2. QED
        BY <2>5, <3>1 DEF IsData
  <2>7. QED
      BY <2>4, <2>6
<1>6. CASE SendFails
    BY <1>6 DEF SendFails, file, server, receiver
<1>7. CASE UploadAnswer
    BY <1>7 DEF UploadAnswer, file, server, receiver
<1>8. CASE Edit
    BY <1>8 DEF Edit, sender, server, receiver
<1>9. QED
    BY <1>1, <1>2, <1>3, <1>4, <1>5, <1>6, <1>7, <1>8

LEMMA SenderStep ==
    ASSUME StreamInv, Measure \/ BeginStream \/ ReadChunk \/ EndOfFile \/ SendFinal
                      \/ SendFails \/ UploadAnswer \/ Edit
    PROVE  StreamInv'
<1>1. UNCHANGED <<server, receiver>>
    BY DEF Measure, BeginStream, ReadChunk, EndOfFile, SendFinal, SendFails, UploadAnswer, Edit
<1>2. CASE vpc # "stored"
  <2>1. body' = <<>> /\ tail' = "none" /\ vpc' = vpc /\ rpc = "idle" /\ spc # "ok"
      BY <1>1, <1>2 DEF StreamInv, ServerInv, ReceiverInv, server
  <2>2. vpc # "empty" => spc' \in {"waiting", "failed", "ok"}
      BY <1>2 DEF StreamInv, ServerInv, Measure, BeginStream, ReadChunk, EndOfFile, SendFinal,
                  SendFails, UploadAnswer, Edit, sender
  <2>3. spc' # "ok"
      BY <1>2, <2>1 DEF Measure, BeginStream, ReadChunk, EndOfFile, SendFinal, SendFails,
                        UploadAnswer, Edit, sender
  <2>4. Len(body') = 0
      BY <2>1
  <2>5. ServerInv'
      BY <1>2, <2>1, <2>2, <2>3, <2>4 DEF ServerInv
  <2>6. ReceiverInv'
      BY <1>1, <2>1 DEF StreamInv, ReceiverInv, receiver
  <2>7. QED
      BY <2>5, <2>6, SenderTypes DEF StreamInv
<1>3. CASE vpc = "stored"
  <2>1. UNCHANGED <<sent, meta>> /\ (spc' = spc \/ spc' = "failed" \/ spc' = "ok")
        /\ spc \in {"waiting", "failed", "ok"} /\ spc' \in {"waiting", "failed", "ok"}
        /\ (spc' = "ok" => Whole)
      BY <1>3 DEF StreamInv, ServerInv, Measure, BeginStream, ReadChunk, EndOfFile, SendFinal,
                  SendFails, UploadAnswer, Edit, sender, Whole
  <2>2. Whole' => Whole
      BY <2>1 DEF Whole
  <2>3. \A f : FromSent(f) => FromSent(f)'
      BY <2>1 DEF FromSent
  <2>4. ServerInv'
      BY <1>1, <1>3, <2>1, <2>2, <2>3 DEF StreamInv, ServerInv, server
  <2>5. ReceiverInv'
      BY <1>1, <2>1 DEF StreamInv, ReceiverInv, receiver, server, IsEnd, Authentic, Signed,
                        Chunks
  <2>6. QED
      BY <2>4, <2>5, SenderTypes DEF StreamInv
<1>4. QED
    BY <1>2, <1>3

\* The frames that may be stored.
Stored == {f \in Frames : FromSent(f)}

LEMMA BodyChanges ==
    ASSUME StreamInv, UNCHANGED <<file, sender, receiver>>, rpc = "idle",
           spc \in {"waiting", "failed", "ok"}, vpc' = "stored",
           body' \in Seq(Stored), tail' \in Tails, damage' \in 0 .. MaxDamage,
           Whole /\ damage' = 0 => body' = sent /\ tail' = "none"
    PROVE  StreamInv'
<1>1. body' \in Seq(Frames) /\ \A i \in 1 .. Len(body') : FromSent(body'[i])
    BY DEF Stored
<1>2. UNCHANGED <<size, edits, spc, measured, meta, offset, sent, wire, rpc, next, got, written>>
    BY DEF file, sender, receiver
<1>3. TypeOK'
    BY <1>1, <1>2 DEF StreamInv, TypeOK, Tails, Frames
<1>4. SentInv'
    BY <1>2 DEF StreamInv, SentInv, Streaming, Whole
<1>5. ServerInv'
    BY <1>1, <1>2 DEF ServerInv, FromSent, Whole
<1>6. ReceiverInv'
    BY <1>2 DEF StreamInv, ReceiverInv
<1>7. QED
    BY <1>3, <1>4, <1>5, <1>6 DEF StreamInv

LEMMA ServerStep ==
    ASSUME StreamInv, StoreWhole \/ StoreShort \/ RefuseUpload \/ Damage
    PROVE  StreamInv'
<1>0. /\ sent \in Seq(Frames) /\ body \in Seq(Frames) /\ damage \in 0 .. MaxDamage
      /\ tail \in Tails
    BY DEF StreamInv, TypeOK, Frames, Tails
<1>1. sent \in Seq(Stored)
  <2>1. \A i \in 1 .. Len(sent) : sent[i] \in Stored
      BY <1>0 DEF StreamInv, SentInv, FromSent, Stored
  <2>2. sent \in [1 .. Len(sent) -> Stored] /\ Len(sent) \in Nat
      BY <1>0, <2>1
  <2>3. QED
      BY <2>2
<1>2. body \in Seq(Stored)
  <2>1. \A i \in 1 .. Len(body) : body[i] \in Stored
      BY <1>0 DEF StreamInv, ServerInv, Stored
  <2>2. body \in [1 .. Len(body) -> Stored] /\ Len(body) \in Nat
      BY <1>0, <2>1
  <2>3. QED
      BY <2>2
<1>3. CASE StoreWhole
  <2>1. /\ UNCHANGED <<file, sender, tail, damage, receiver>>
        /\ vpc = "empty" /\ vpc' = "stored" /\ body' = sent
        /\ spc \in {"waiting", "failed"}
      BY <1>3 DEF StoreWhole
  <2>2. rpc = "idle" /\ tail = "none"
      BY <2>1 DEF StreamInv, ReceiverInv, ServerInv
  <2>3. QED
      BY <1>0, <1>1, <2>1, <2>2, BodyChanges
<1>4. CASE StoreShort
  <2>1. PICK n \in 0 .. Len(sent), t \in Tails : body' = SubSeq(sent, 1, n) /\ tail' = t
      BY <1>4 DEF StoreShort
  <2>2. /\ UNCHANGED <<file, sender, damage, receiver>>
        /\ vpc = "empty" /\ vpc' = "stored" /\ spc = "failed"
      BY <1>4 DEF StoreShort
  <2>3. rpc = "idle" /\ ~Whole
      BY <2>2 DEF StreamInv, ReceiverInv, Whole
  <2>4. body' \in Seq(Stored)
      BY <1>1, <2>1, SubSeqProperties
  <2>5. QED
      BY <1>0, <2>1, <2>2, <2>3, <2>4, BodyChanges
<1>5. CASE RefuseUpload
  <2>1. /\ UNCHANGED <<file, sender, body, tail, damage, receiver>>
        /\ vpc = "empty" /\ vpc' = "refused" /\ spc \in {"waiting", "failed"}
      BY <1>5 DEF RefuseUpload
  <2>2. rpc = "idle" /\ body = <<>> /\ tail = "none" /\ spc # "ok"
      BY <2>1 DEF StreamInv, ReceiverInv, ServerInv
  <2>3. TypeOK' /\ SentInv'
      BY <2>1 DEF StreamInv, TypeOK, SentInv, Streaming, Whole, file, sender, receiver
  <2>4. ServerInv'
    <3>1. Len(body') = 0
        BY <2>1, <2>2
    <3>2. QED
        BY <2>1, <2>2, <3>1 DEF ServerInv, sender
  <2>5. ReceiverInv'
      BY <2>1, <2>2 DEF StreamInv, ReceiverInv, receiver
  <2>6. QED
      BY <2>3, <2>4, <2>5 DEF StreamInv
<1>6. CASE Damage
  <2>1. /\ UNCHANGED <<file, sender, vpc, receiver>>
        /\ vpc = "stored" /\ rpc = "idle"
        /\ damage' = damage + 1 /\ damage < MaxDamage
      BY <1>6 DEF Damage
  <2>2. spc \in {"waiting", "failed", "ok"}
      BY <2>1 DEF StreamInv, ServerInv
  <2>3. damage' \in 0 .. MaxDamage /\ damage' # 0
      BY <1>0, <2>1
  <2>4. ASSUME NEW n \in 0 .. Len(body), NEW t \in Tails,
               body' = SubSeq(body, 1, n), tail' = t
        PROVE  body' \in Seq(Stored) /\ tail' \in Tails
      BY <1>2, <2>4, SubSeqProperties
  <2>5. ASSUME NEW n \in 1 .. Len(body), NEW m \in 1 .. Len(body) + 1,
               body' = SubSeq(body, 1, n - 1) \o SubSeq(body, m, Len(body))
        PROVE  body' \in Seq(Stored)
    <3>1. SubSeq(body, 1, n - 1) \in Seq(Stored) /\ SubSeq(body, m, Len(body)) \in Seq(Stored)
        BY <1>2, SubSeqProperties
    <3>2. QED
        BY <2>5, <3>1
  <2>6. ASSUME NEW n \in 1 .. Len(body) - 1,
               body' = [body EXCEPT ![n] = body[n + 1], ![n + 1] = body[n]]
        PROVE  body' \in Seq(Stored)
    <3>1. body[n] \in Stored /\ body[n + 1] \in Stored /\ n \in 1 .. Len(body)
          /\ n + 1 \in 1 .. Len(body)
        BY <1>2
    <3>2. QED
        BY <1>2, <2>6, <3>1
  <2>7. ASSUME NEW n \in 1 .. Len(body), body' = [body EXCEPT ![n].pos = 0]
        PROVE  body' \in Seq(Stored)
    <3>1. body[n] \in Frames
        BY <1>0
    <3>2. [body[n] EXCEPT !.pos = 0] \in Stored
        BY <3>1 DEF Stored, FromSent, Frames
    <3>3. body' = [body EXCEPT ![n] = [body[n] EXCEPT !.pos = 0]]
        BY <2>7
    <3>4. QED
        BY <1>2, <3>2, <3>3
  <2>8. body' \in Seq(Stored) /\ tail' \in Tails
    <3>1. \/ \E n \in 0 .. Len(body), t \in Tails : body' = SubSeq(body, 1, n) /\ tail' = t
          \/ /\ tail' = tail
             /\ \/ \E n \in 1 .. Len(body), m \in 1 .. Len(body) + 1 :
                      body' = SubSeq(body, 1, n - 1) \o SubSeq(body, m, Len(body))
                \/ \E n \in 1 .. Len(body) - 1 :
                      body' = [body EXCEPT ![n] = body[n + 1], ![n + 1] = body[n]]
                \/ \E n \in 1 .. Len(body) : body' = [body EXCEPT ![n].pos = 0]
        BY <1>6, Zenon DEF Damage
    <3>2. QED
        BY <1>0, <2>4, <2>5, <2>6, <2>7, <3>1
  <2>9. QED
      BY <2>1, <2>2, <2>3, <2>8, BodyChanges
<1>7. QED
    BY <1>3, <1>4, <1>5, <1>6

LEMMA ReceiverStep ==
    ASSUME StreamInv, ReceiveMeta \/ ReceiveData \/ Deliver \/ Reject
    PROVE  StreamInv'
<1>0. /\ sent \in Seq(Frames) /\ body \in Seq(Frames)
      /\ got \in Seq([kind : {"data"}, pos : Nat, len : 1 .. ChunkSize])
      /\ next \in Nat /\ written \in Nat /\ meta \in Nat /\ written <= meta
      /\ Len(sent) \in Nat /\ Len(body) \in Nat /\ Len(got) \in Nat
    BY DEF StreamInv, TypeOK, Frames
<1>1. UNCHANGED <<file, sender, server>>
    BY DEF ReceiveMeta, ReceiveData, Deliver, Reject
<1>2. SentInv' /\ ServerInv'
    BY <1>1 DEF StreamInv, SentInv, ServerInv, Streaming, Whole, FromSent, sender, server
<1>3. ASSUME NEW n \in 1 .. Len(body), Authentic(n)
      PROVE  n <= Len(sent) /\ body[n] = sent[n]
    BY <1>0, <1>3 DEF Authentic, StreamInv, ServerInv, FromSent
<1>4. CASE ReceiveMeta
  <2>1. /\ UNCHANGED <<got, written>> /\ vpc = "stored" /\ rpc = "idle"
        /\ Authentic(1) /\ rpc' = "reading" /\ next' = 2
      BY <1>4 DEF ReceiveMeta
  <2>2. 1 \in 1 .. Len(body)
      BY <1>0, <2>1 DEF Authentic
  <2>3. body[1] = sent[1] /\ 1 <= Len(sent)
      BY <1>3, <2>1, <2>2
  <2>4. got = <<>> /\ Len(got) = 0 /\ written = 0
      BY <2>1 DEF StreamInv, ReceiverInv
  <2>5. TypeOK'
      BY <1>1, <2>1 DEF StreamInv, TypeOK, file, sender, server
  <2>6. ReceiverInv'
      BY <1>0, <1>1, <2>1, <2>2, <2>3, <2>4 DEF ReceiverInv, sender, server
  <2>7. QED
      BY <1>2, <2>5, <2>6 DEF StreamInv
<1>5. CASE ReceiveData
  <2> DEFINE f == body[next]
  <2>1. /\ rpc = "reading" /\ rpc' = rpc
        /\ Authentic(next) /\ IsData(f) /\ f.len <= meta - written
        /\ got' = Append(got, f) /\ written' = written + f.len /\ next' = next + 1
      BY <1>5 DEF ReceiveData, IsDataFrame
  <2>2. /\ vpc = "stored" /\ next >= 2 /\ next <= Len(body) + 1
        /\ \A i \in 1 .. next - 1 : i <= Len(sent) /\ body[i] = sent[i]
        /\ Len(got) = next - 2
        /\ \A i \in 1 .. Len(got) : got[i] = body[i + 1]
      BY <2>1 DEF StreamInv, ReceiverInv
  <2>3. next \in 1 .. Len(body)
      BY <1>0, <2>1, <2>2 DEF Authentic
  <2>4. next <= Len(sent) /\ f = sent[next]
      BY <1>3, <2>1, <2>3
  <2>5. f \in [kind : {"data"}, pos : Nat, len : 1 .. ChunkSize]
    <3>1. f \in Frames /\ f.kind = "data"
        BY <1>0, <2>1, <2>3 DEF IsData
    <3>2. next \in 1 .. Len(sent)
        BY <1>0, <2>2, <2>4
    <3>3. f.len \in 1 .. ChunkSize
        BY <2>1, <2>4, <3>2 DEF StreamInv, SentInv
    <3>4. QED
        BY <3>1, <3>3 DEF Frames
  <2> HIDE DEF f
  <2>6. /\ got' \in Seq([kind : {"data"}, pos : Nat, len : 1 .. ChunkSize])
        /\ Len(got') = Len(got) + 1 /\ got'[Len(got) + 1] = f
        /\ \A i \in 1 .. Len(got) : got'[i] = got[i]
      BY <1>0, <2>1, <2>5
  <2>7. written' \in Nat /\ written' <= meta /\ next' \in Nat
    <3>1. f.len \in Nat
        BY <2>5
    <3>2. QED
        BY <1>0, <2>1, <3>1
  <2>8. TypeOK'
      BY <1>1, <2>1, <2>6, <2>7 DEF StreamInv, TypeOK, file, sender, server
  <2>9. ReceiverInv'
    <3>1. \A i \in 1 .. next : i <= Len(sent) /\ body[i] = sent[i]
        BY <1>0, <2>2, <2>4 DEF f
    <3>2. next' - 1 = next /\ next' >= 2 /\ next' <= Len(body) + 1 /\ Len(got') = next' - 2
      <4>1. next' = next + 1 /\ Len(got') = Len(got) + 1
          BY <2>1, <2>6
      <4>2. next <= Len(body)
          BY <2>3
      <4>3. QED
          BY <1>0, <2>2, <4>1, <4>2
    <3>3. \A i \in 1 .. Len(got') : got'[i] = body[i + 1]
      <4>1. Len(got) + 1 + 1 = next
          BY <1>0, <2>2
      <4>2. got'[Len(got) + 1] = body[Len(got) + 1 + 1]
          BY <2>6, <4>1 DEF f
      <4>3. \A i \in 1 .. Len(got) : got'[i] = body[i + 1]
          BY <2>2, <2>6
      <4>4. \A i \in 1 .. Len(got') : i \in 1 .. Len(got) \/ i = Len(got) + 1
          BY <1>0, <2>6
      <4>5. QED
          BY <4>2, <4>3, <4>4
    <3>4. QED
        BY <1>1, <2>1, <2>2, <3>1, <3>2, <3>3 DEF ReceiverInv, sender, server
  <2>10. QED
      BY <1>2, <2>8, <2>9 DEF StreamInv
<1>6. CASE Deliver
  <2>1. /\ rpc = "reading" /\ IsEnd(next) /\ rpc' = "delivered"
        /\ UNCHANGED <<next, got, written>>
      BY <1>6 DEF Deliver
  <2>2. TypeOK'
      BY <1>1, <2>1 DEF StreamInv, TypeOK, file, sender, server
  <2>3. ReceiverInv'
      BY <1>1, <2>1 DEF StreamInv, ReceiverInv, sender, server, IsEnd, Authentic, Signed, Chunks
  <2>4. QED
      BY <1>2, <2>2, <2>3 DEF StreamInv
<1>7. CASE Reject
  <2>1. vpc = "stored" /\ rpc' = "rejected" /\ UNCHANGED <<next, got, written>>
      BY <1>7 DEF Reject
  <2>2. TypeOK'
      BY <1>1, <2>1 DEF StreamInv, TypeOK, file, sender, server
  <2>3. ReceiverInv'
      BY <1>1, <2>1 DEF ReceiverInv, server
  <2>4. QED
      BY <1>2, <2>2, <2>3 DEF StreamInv
<1>8. QED
    BY <1>4, <1>5, <1>6, <1>7

LEMMA StreamStep ==
    ASSUME StreamInv, [Next]_vars
    PROVE  StreamInv'
<1>1. CASE UNCHANGED vars
  <2> USE <1>1 DEF vars, file, sender, server, receiver, Streaming, Whole
  <2>1. TypeOK'
      BY DEF StreamInv, TypeOK
  <2>2. SentInv'
      BY DEF StreamInv, SentInv, IsData
  <2>3. ServerInv'
      BY DEF StreamInv, ServerInv, FromSent
  <2>4. ReceiverInv'
      BY DEF StreamInv, ReceiverInv, IsEnd, Authentic, Signed, Chunks
  <2>5. QED
      BY <2>1, <2>2, <2>3, <2>4 DEF StreamInv
<1>2. QED
    BY <1>1, SenderStep, ServerStep, ReceiverStep DEF Next

-----------------------------------------------------------------------------
(* How many bytes were read, sent and written.                              *)

\* c[i] bytes of the file are in the first i frames.  A sum over a sequence is
\* said with a function of its partial sums, since nothing can be proved here
\* about a recursive one.
Sums(c) ==
    /\ c \in [Nat -> Nat] /\ c[1] = 0
    /\ \A i \in 2 .. Len(sent) : c[i] = c[i - 1] + (IF IsData(sent[i]) THEN sent[i].len ELSE 0)
    /\ \A i \in 1 .. Len(sent) : c[i] <= offset
    /\ Len(sent) > 0 => c[Len(sent)] = offset
    /\ rpc \in {"reading", "delivered"} => written = c[next - 1]

SumInv == \E c : Sums(c)

LEMMA InitSum == Init => SumInv
<1> SUFFICES ASSUME Init
             PROVE  SumInv
    OBVIOUS
<1> DEFINE c == [i \in Nat |-> 0]
<1>1. Len(sent) = 0 /\ rpc = "idle"
    BY DEF Init
<1>2. Sums(c)
    BY <1>1 DEF Sums
<1>3. QED
    BY <1>2 DEF SumInv

LEMMA SumStep ==
    ASSUME StreamInv, SumInv, [Next]_vars
    PROVE  SumInv'
<1>0. /\ sent \in Seq(Frames) /\ Len(sent) \in Nat /\ offset \in Nat /\ size \in Nat
      /\ next \in Nat /\ written \in Nat
    BY DEF StreamInv, TypeOK, Frames
<1>1. PICK c : Sums(c)
    BY DEF SumInv
<1>2. ASSUME UNCHANGED <<sent, offset>>,
             UNCHANGED <<rpc, next, written>> \/ rpc' = "rejected"
      PROVE  SumInv'
  <2>1. Sums(c)'
      BY <1>1, <1>2 DEF Sums
  <2>2. QED
      BY <2>1 DEF SumInv
<1>3. CASE BeginStream
  <2>1. /\ sent' = <<FrameOf("meta", 1, 0)>> /\ UNCHANGED <<offset, receiver>>
        /\ spc = "measured"
      BY <1>3 DEF BeginStream
  <2>2. Len(sent') = 1 /\ offset = 0 /\ rpc = "idle"
      BY <2>1 DEF StreamInv, SentInv, ServerInv, ReceiverInv
  <2>3. Sums(c)'
      BY <1>1, <2>1, <2>2 DEF Sums, receiver
  <2>4. QED
      BY <2>3 DEF SumInv
<1>4. ASSUME NEW f \in Frames, Streaming, sent' = Append(sent, f), UNCHANGED receiver,
             offset' = offset + (IF IsData(f) THEN f.len ELSE 0)
      PROVE  SumInv'
  <2> DEFINE n == Len(sent) + 1
  <2>1. /\ Len(sent') = n /\ sent'[n] = f /\ Len(sent) >= 1
        /\ \A i \in 1 .. Len(sent) : sent'[i] = sent[i]
      BY <1>4, AppendFrame DEF StreamInv, SentInv
  <2>2. rpc' = "idle"
      BY <1>4 DEF StreamInv, Streaming, ServerInv, ReceiverInv, receiver
  <2>3. f.len \in Nat
      BY DEF Frames
  <2>4. offset' \in Nat /\ offset <= offset'
      BY <1>0, <1>4, <2>3
  <2>5. PICK d : d \in [Nat -> Nat] /\ d[n] = offset' /\ \A i \in 1 .. Len(sent) : d[i] = c[i]
    <3>1. n \in Nat /\ n \notin 1 .. Len(sent) /\ 1 .. Len(sent) \subseteq Nat
        BY <1>0
    <3>2. WITNESS [c EXCEPT ![n] = offset']
    <3>3. QED
        BY <1>1, <2>4, <3>1 DEF Sums
  <2>6. d[1] = 0
      BY <1>0, <1>1, <2>1, <2>5 DEF Sums
  <2>7. ASSUME NEW i \in 2 .. Len(sent')
        PROVE  d[i] = d[i - 1] + (IF IsData(sent'[i]) THEN sent'[i].len ELSE 0)
    <3>1. CASE i = n
      <4>1. i - 1 = Len(sent) /\ Len(sent) \in 1 .. Len(sent)
          BY <1>0, <2>1, <3>1
      <4>2. d[i - 1] = offset
        <5>1. d[Len(sent)] = c[Len(sent)]
            BY <2>5, <4>1
        <5>2. Len(sent) > 0
            BY <1>0, <2>1
        <5>3. QED
            BY <1>1, <4>1, <5>1, <5>2 DEF Sums
      <4>3. QED
          BY <1>4, <2>1, <2>5, <3>1, <4>2
    <3>2. CASE i # n
      <4>1. i \in 2 .. Len(sent) /\ i \in 1 .. Len(sent) /\ i - 1 \in 1 .. Len(sent)
          BY <1>0, <2>1, <3>2
      <4>2. QED
          BY <1>1, <2>1, <2>5, <4>1 DEF Sums
    <3>3. QED
        BY <3>1, <3>2
  <2>8. ASSUME NEW i \in 1 .. Len(sent')
        PROVE  d[i] <= offset'
    <3>1. CASE i = n
        BY <2>4, <2>5, <3>1
    <3>2. CASE i # n
      <4>1. i \in 1 .. Len(sent)
          BY <1>0, <2>1, <3>2
      <4>2. d[i] <= offset /\ d[i] \in Nat
          BY <1>1, <2>5, <4>1 DEF Sums
      <4>3. QED
          BY <1>0, <2>4, <4>2
    <3>3. QED
        BY <3>1, <3>2
  <2>9. Sums(d)'
      BY <2>1, <2>2, <2>5, <2>6, <2>7, <2>8 DEF Sums
  <2>10. QED
      BY <2>9 DEF SumInv
<1>5. CASE ReadChunk
  <2> DEFINE n == Least(ChunkSize, size - offset)
             f == FrameOf("data", Len(sent) + 1, n)
  <2>1. Streaming /\ sent' = Append(sent, f) /\ UNCHANGED receiver /\ offset' = offset + n /\ n > 0
      BY <1>5 DEF ReadChunk, Streaming
  <2>2. n \in Nat
    <3>1. n \in 1 .. ChunkSize
        BY <1>0, <2>1, ChunkRead
    <3>2. QED
        BY <3>1
  <2>3. f \in Frames /\ IsData(f) /\ f.len = n
      BY <1>0, <2>2 DEF Frames, FrameOf, IsData
  <2> HIDE DEF f, n
  <2>4. QED
      BY <1>4, <2>1, <2>3
<1>6. CASE SendFinal
  <2> DEFINE f == FrameOf("final", Len(sent) + 1, SigLen)
  <2>1. Streaming /\ sent' = Append(sent, f) /\ UNCHANGED receiver /\ offset' = offset
      BY <1>6 DEF SendFinal, Streaming
  <2>2. f \in Frames /\ ~IsData(f)
      BY <1>0 DEF Frames, FrameOf, IsData
  <2> HIDE DEF f
  <2>3. QED
      BY <1>0, <1>4, <2>1, <2>2
<1>7. CASE ReceiveMeta
  <2>1. rpc = "idle" /\ next' = 2 /\ written' = written /\ UNCHANGED <<sent, offset>>
      BY <1>7 DEF ReceiveMeta, sender
  <2>2. written = 0
      BY <2>1 DEF StreamInv, ReceiverInv
  <2>3. next' - 1 = 1
      BY <2>1
  <2>4. Sums(c)'
      BY <1>1, <2>1, <2>2, <2>3 DEF Sums
  <2>5. QED
      BY <2>4 DEF SumInv
<1>8. CASE ReceiveData
  <2>1. /\ rpc = "reading" /\ rpc' = rpc /\ Authentic(next) /\ IsData(body[next])
        /\ written' = written + body[next].len /\ next' = next + 1
        /\ UNCHANGED <<sent, offset>>
      BY <1>8 DEF ReceiveData, IsDataFrame, sender
  <2>2. next >= 2 /\ next' - 1 = next
      BY <1>0, <2>1 DEF StreamInv, ReceiverInv
  <2>3. StreamInv' /\ rpc' = "reading"
      BY <2>1, StreamStep, <1>8 DEF Next
  <2>4. next <= Len(sent) /\ body[next] = sent[next]
    <3>1. next \in 1 .. next' - 1
        BY <1>0, <2>2
    <3>2. UNCHANGED <<sent, body>>
        BY <1>8 DEF ReceiveData, sender, server
    <3>3. QED
        BY <2>3, <3>1, <3>2 DEF StreamInv, ReceiverInv
  <2>5. written = c[next - 1]
      BY <1>1, <2>1 DEF Sums
  <2>6. next \in 2 .. Len(sent)
      BY <1>0, <2>2, <2>4
  <2>7. c[next] = c[next - 1] + body[next].len
      BY <1>1, <2>1, <2>4, <2>6 DEF Sums
  <2>8. Sums(c)'
      BY <1>1, <2>1, <2>2, <2>5, <2>7 DEF Sums
  <2>9. QED
      BY <2>8 DEF SumInv
<1>9. CASE Deliver
  <2>1. UNCHANGED <<sent, offset, next, written>> /\ rpc = "reading"
      BY <1>9 DEF Deliver, sender
  <2>2. Sums(c)'
      BY <1>1, <2>1 DEF Sums
  <2>3. QED
      BY <2>2 DEF SumInv
<1>10. CASE Reject
    BY <1>2, <1>10 DEF Reject, sender
<1>11. CASE \/ Edit \/ Measure \/ EndOfFile \/ SendFails \/ UploadAnswer \/ StoreWhole
            \/ StoreShort \/ RefuseUpload \/ Damage \/ UNCHANGED vars
  <2>1. UNCHANGED <<sent, offset>>
      BY <1>11 DEF Edit, Measure, EndOfFile, SendFails, UploadAnswer, StoreWhole,
                   StoreShort, RefuseUpload, Damage, vars, sender
  <2>2. UNCHANGED receiver
      BY <1>11 DEF Edit, Measure, EndOfFile, SendFails, UploadAnswer, StoreWhole,
                   StoreShort, RefuseUpload, Damage, vars
  <2>3. QED
      BY <1>2, <2>1, <2>2 DEF receiver
<1>12. QED
    BY <1>3, <1>5, <1>6, <1>7, <1>8, <1>9, <1>10, <1>11 DEF Next

\* The frames are as many as the bytes need, and the length on the wire is
\* that of so many frames; a file that nobody changed is read to its end.
LengthInv ==
    /\ Streaming =>
          /\ wire = Preamble + offset + Frame * (Len(sent) - 1)
          /\ EvenChunks =>
                /\ InChunks(offset, Len(sent) - 1)
                /\ \/ offset = ChunkSize * (Len(sent) - 1)
                   \/ IsData(sent[Len(sent)]) /\ sent[Len(sent)].len # ChunkSize
    /\ Whole =>
          /\ wire = Preamble + offset + Frame * (Len(sent) - 2) + Frame + SigLen
          /\ wire = PayloadSize(measured)
          /\ EvenChunks => InChunks(offset, Len(sent) - 2)
    /\ edits = 0 =>
          /\ spc # "idle" => measured = size
          /\ Streaming =>
                /\ InChunks(offset, Len(sent) - 1)
                /\ offset <= size
                /\ offset = ChunkSize * (Len(sent) - 1) \/ offset = size
          /\ spc = "last" => offset = size

LEMMA OneMoreChunk ==
    ASSUME NEW o \in Nat, NEW k \in Nat, NEW n \in 1 .. ChunkSize, o = ChunkSize * k
    PROVE  /\ InChunks(o + n, k + 1)
           /\ n = ChunkSize => o + n = ChunkSize * (k + 1)
<1>1. ChunkSize * (k + 1) = ChunkSize * k + ChunkSize /\ ChunkSize * k \in Nat
    OBVIOUS
<1>2. k + 1 # 0 /\ k + 1 - 1 = k
    OBVIOUS
<1>3. QED
    BY <1>1, <1>2 DEF InChunks

LEMMA LengthStep ==
    ASSUME StreamInv, LengthInv, [Next]_vars
    PROVE  LengthInv'
<1>0. /\ sent \in Seq(Frames) /\ Len(sent) \in Nat /\ offset \in Nat /\ size \in Nat
      /\ wire \in Nat /\ measured \in Nat /\ edits \in Nat
    BY DEF StreamInv, TypeOK, Frames
<1>1. ASSUME UNCHANGED <<file, measured, offset, sent, wire>>,
             spc' = spc \/ (spc' = "failed" /\ spc # "idle") \/ (Whole /\ Whole')
      PROVE  LengthInv'
    BY <1>1 DEF LengthInv, Streaming, Whole, EvenChunks, file
<1>2. CASE Edit
  <2>1. edits' = edits + 1 /\ UNCHANGED sender
      BY <1>2 DEF Edit
  <2>2. edits' # 0
      BY <1>0, <2>1
  <2>3. QED
      BY <2>1, <2>2 DEF LengthInv, sender, Streaming, Whole, EvenChunks
<1>3. CASE Measure
    BY <1>3 DEF Measure, LengthInv, Streaming, Whole, file
<1>4. CASE BeginStream
  <2>1. /\ UNCHANGED <<file, measured, offset>> /\ spc = "measured"
        /\ wire' = Preamble /\ sent' = <<FrameOf("meta", 1, 0)>>
        /\ spc' = IF size = 0 THEN "last" ELSE "reading"
      BY <1>4 DEF BeginStream
  <2>2. Len(sent') = 1 /\ offset' = 0 /\ Len(sent') - 1 = 0
      BY <2>1 DEF StreamInv, SentInv
  <2>3. InChunks(0, 0) /\ ChunkSize * 0 = 0 /\ Frame * 0 = 0
      BY DEF InChunks
  <2>4. edits' = 0 => measured' = size' /\ 0 <= size'
      BY <1>0, <2>1 DEF LengthInv, file
  <2>5. spc' = "last" => 0 = size'
      BY <2>1 DEF file
  <2>6. wire' = Preamble + offset' + Frame * (Len(sent') - 1)
      BY <2>1, <2>2, <2>3
  <2>7. Streaming' /\ ~Whole' /\ spc' # "idle"
      BY <2>1 DEF Streaming, Whole
  <2>8. QED
      BY <2>2, <2>3, <2>4, <2>5, <2>6, <2>7 DEF LengthInv
<1>5. CASE ReadChunk
  <2> DEFINE n == Least(ChunkSize, size - offset)
             f == FrameOf("data", Len(sent) + 1, n)
             k == Len(sent) - 1
  <2>1. /\ UNCHANGED <<file, spc, measured>> /\ spc = "reading"
        /\ sent' = Append(sent, f) /\ offset' = offset + n /\ wire' = wire + Frame + n /\ n > 0
      BY <1>5 DEF ReadChunk
  <2>2. /\ n \in 1 .. ChunkSize /\ offset < size /\ offset + n <= size
        /\ n < ChunkSize => offset + n = size
      BY <1>0, <2>1, ChunkRead
  <2>3. f \in Frames /\ IsData(f) /\ f.len = n
      BY <1>0, <2>2 DEF Frames, FrameOf, IsData
  <2> HIDE DEF f, n
  <2>4. /\ Len(sent') = Len(sent) + 1 /\ sent'[Len(sent) + 1] = f /\ Len(sent) >= 1
        /\ \A i \in 1 .. Len(sent) : sent'[i] = sent[i]
      BY <2>1, <2>3, AppendFrame DEF StreamInv, SentInv, Streaming
  <2>5. k \in Nat /\ Len(sent') - 1 = k + 1
      BY <1>0, <2>4
  <2>6. wire' = Preamble + offset' + Frame * (k + 1)
    <3>1. wire = Preamble + offset + Frame * k
        BY <2>1 DEF LengthInv, Streaming
    <3>2. Frame * (k + 1) = Frame * k + Frame /\ Frame * k \in Nat
        BY <2>5
    <3>3. n \in Nat
        BY <2>2
    <3> HIDE DEF k
    <3>4. QED
        BY <1>0, <2>1, <3>1, <3>2, <3>3
  <2>7. ASSUME EvenChunks'
        PROVE  offset = ChunkSize * k
    <3>1. \A i \in 2 .. Len(sent) : IsData(sent'[i + 1]) => sent'[i].len = ChunkSize
        BY <1>0, <2>4, <2>7 DEF EvenChunks
    <3>2. EvenChunks
      <4>1. ASSUME NEW i \in 2 .. Len(sent) - 1
            PROVE  sent'[i] = sent[i] /\ sent'[i + 1] = sent[i + 1] /\ i \in 2 .. Len(sent)
          BY <1>0, <2>4
      <4>2. QED
          BY <3>1, <4>1 DEF EvenChunks
    <3>3. Len(sent) >= 2 => sent[Len(sent)].len = ChunkSize
      <4>1. Len(sent) >= 2 => Len(sent) \in 2 .. Len(sent) /\ Len(sent) \in 1 .. Len(sent)
          BY <1>0
      <4>2. QED
          BY <2>3, <2>4, <3>1, <4>1
    <3>4. Len(sent) = 1 => ~IsData(sent[Len(sent)])
        BY DEF StreamInv, SentInv, IsData
    <3>5. Len(sent) = 1 \/ Len(sent) >= 2
      <4>1. Len(sent) >= 1
          BY <2>4
      <4>2. QED
          BY <1>0, <4>1
    <3>6. QED
        BY <2>1, <3>2, <3>3, <3>4, <3>5 DEF LengthInv, Streaming
  <2>8. edits = 0 => offset = ChunkSize * k
    <3>1. edits = 0 => offset = ChunkSize * k \/ offset = size
        BY <2>1 DEF LengthInv, Streaming
    <3>2. QED
        BY <1>0, <2>2, <3>1
  <2>9. offset = ChunkSize * k =>
            /\ InChunks(offset', k + 1)
            /\ n = ChunkSize => offset' = ChunkSize * (k + 1)
    <3>1. ASSUME offset = ChunkSize * k
          PROVE  /\ InChunks(offset + n, k + 1)
                 /\ n = ChunkSize => offset + n = ChunkSize * (k + 1)
      <4>1. n \in 1 .. ChunkSize
          BY <2>2
      <4>2. \A o \in Nat, j \in Nat, m \in 1 .. ChunkSize :
                o = ChunkSize * j =>
                    InChunks(o + m, j + 1) /\ (m = ChunkSize => o + m = ChunkSize * (j + 1))
          BY OneMoreChunk
      <4>3. k \in Nat /\ offset \in Nat
          BY <1>0, <2>5
      <4> HIDE DEF k, n
      <4>4. QED
          BY <3>1, <4>1, <4>2, <4>3, Zenon
    <3>2. QED
        BY <2>1, <3>1
  <2>10. n # ChunkSize => offset' = size
    <3>1. n # ChunkSize => n < ChunkSize
        BY <2>2
    <3>2. QED
        BY <2>1, <2>2, <3>1
  <2>11. offset' <= size'
      BY <2>1, <2>2 DEF file
  <2>12. Streaming' /\ ~Whole' /\ spc' = "reading" /\ size' = size /\ edits' = edits
      BY <2>1 DEF Streaming, Whole, file
  <2>13. sent'[Len(sent')] = f
      BY <2>4
  <2>14. EvenChunks' => /\ InChunks(offset', Len(sent') - 1)
                        /\ \/ offset' = ChunkSize * (Len(sent') - 1)
                           \/ IsData(sent'[Len(sent')]) /\ sent'[Len(sent')].len # ChunkSize
      BY <2>3, <2>5, <2>7, <2>9, <2>13
  <2>15. edits' = 0 => /\ InChunks(offset', Len(sent') - 1)
                       /\ offset' = ChunkSize * (Len(sent') - 1) \/ offset' = size'
                       /\ measured' = size'
    <3>1. edits' = 0 => measured' = size'
        BY <2>1, <2>12 DEF LengthInv
    <3>2. QED
        BY <2>5, <2>8, <2>9, <2>10, <2>12, <3>1
  <2>16. wire' = Preamble + offset' + Frame * (Len(sent') - 1)
      BY <2>5, <2>6
  <2>17. QED
      BY <2>11, <2>12, <2>14, <2>15, <2>16 DEF LengthInv
<1>6. CASE EndOfFile
  <2>1. /\ UNCHANGED <<file, measured, offset, sent, wire>> /\ spc = "reading"
        /\ size <= offset /\ spc' = "last"
      BY <1>6 DEF EndOfFile
  <2>2. edits = 0 => offset = size
      BY <1>0, <2>1 DEF LengthInv, Streaming
  <2>3. QED
      BY <2>1, <2>2 DEF LengthInv, Streaming, Whole, EvenChunks, file
<1>7. CASE SendFinal
  <2> DEFINE f == FrameOf("final", Len(sent) + 1, SigLen)
  <2>1. /\ UNCHANGED <<file, measured, offset>> /\ spc = "last"
        /\ sent' = Append(sent, f) /\ wire' = wire + Frame + SigLen
        /\ spc' = IF wire' = PayloadSize(measured) THEN "waiting" ELSE "failed"
      BY <1>7 DEF SendFinal
  <2>2. f \in Frames /\ ~IsData(f)
      BY <1>0 DEF Frames, FrameOf, IsData
  <2> HIDE DEF f
  <2>3. /\ Len(sent') = Len(sent) + 1 /\ sent'[Len(sent) + 1] = f /\ Len(sent) >= 1
        /\ \A i \in 1 .. Len(sent) : sent'[i] = sent[i]
      BY <2>1, <2>2, AppendFrame DEF StreamInv, SentInv, Streaming
  <2>4. Len(sent') - 2 = Len(sent) - 1
      BY <1>0, <2>3
  <2>5. wire' = Preamble + offset' + Frame * (Len(sent') - 2) + Frame + SigLen
    <3>1. wire = Preamble + offset + Frame * (Len(sent) - 1)
        BY <2>1 DEF LengthInv, Streaming
    <3>2. QED
        BY <2>1, <2>4, <3>1
  <2>6. EvenChunks' => InChunks(offset', Len(sent') - 2)
    <3>1. ASSUME NEW i \in 2 .. Len(sent) - 1
          PROVE  sent'[i] = sent[i] /\ sent'[i + 1] = sent[i + 1] /\ i \in 2 .. Len(sent') - 1
        BY <1>0, <2>3
    <3>2. EvenChunks' => EvenChunks
        BY <3>1 DEF EvenChunks
    <3>3. QED
        BY <2>1, <2>4, <3>2 DEF LengthInv, Streaming
  <2>7. ~Streaming' /\ (Whole' => wire' = PayloadSize(measured'))
      BY <2>1 DEF Streaming, Whole
  <2>8. edits' = 0 => measured' = size'
      BY <2>1 DEF LengthInv, file
  <2>9. spc' # "last"
      BY <2>1
  <2>10. QED
      BY <2>5, <2>6, <2>7, <2>8, <2>9 DEF LengthInv
<1>8. CASE SendFails \/ UploadAnswer
    BY <1>1, <1>8 DEF SendFails, UploadAnswer, Whole
<1>9. CASE \/ StoreWhole \/ StoreShort \/ RefuseUpload \/ Damage
           \/ ReceiveMeta \/ ReceiveData \/ Deliver \/ Reject \/ UNCHANGED vars
  <2>1. UNCHANGED <<file, sender>>
      BY <1>9 DEF StoreWhole, StoreShort, RefuseUpload, Damage, ReceiveMeta, ReceiveData,
                  Deliver, Reject, vars
  <2>2. UNCHANGED <<measured, offset, sent, wire, spc>>
      BY <2>1 DEF sender
  <2>3. QED
      BY <1>1, <2>1, <2>2
<1>10. QED
    BY <1>2, <1>3, <1>4, <1>5, <1>6, <1>7, <1>8, <1>9 DEF Next

-----------------------------------------------------------------------------
(* The theorems.                                                            *)

LEMMA Stream == Spec => [](StreamInv /\ SumInv /\ LengthInv)
<1>1. Init => LengthInv
    BY DEF Init, LengthInv, Streaming, Whole
<1>2. StreamInv /\ SumInv /\ LengthInv /\ [Next]_vars
      => (StreamInv /\ SumInv /\ LengthInv)'
    BY StreamStep, SumStep, LengthStep
<1>3. QED
    BY <1>1, <1>2, InitStream, InitSum, PTL DEF Spec

\* If nobody changes the file, the next chunk always fits into what the
\* Content-Length announces, and the trailer ends it exactly.
THEOREM AnnouncedLengthIsExact == Spec => []DeclaredExact
<1>1. ASSUME StreamInv, LengthInv
      PROVE  DeclaredExact
  <2>1. TypeOK
      BY <1>1 DEF StreamInv
  <2>2. /\ Len(sent) \in Nat /\ offset \in Nat /\ size \in Nat /\ wire \in Nat
      BY <2>1 DEF TypeOK
  <2> DEFINE k == Len(sent) - 1
  <2>3. ASSUME edits = 0, Streaming
        PROVE  /\ k \in Nat /\ wire = Preamble + offset + Frame * k /\ measured = size
               /\ InChunks(offset, k) /\ offset <= size
               /\ offset = ChunkSize * k \/ offset = size
               /\ spc = "last" => offset = size
    <3>1. Len(sent) >= 1
        BY <1>1, <2>3 DEF StreamInv, SentInv
    <3>2. k \in Nat
        BY <2>2, <3>1
    <3>3. spc # "idle"
        BY <2>3 DEF Streaming
    <3>4. QED
        BY <1>1, <2>3, <3>2, <3>3 DEF LengthInv
  <2> HIDE DEF k
  <2>4. ASSUME edits = 0, spc = "reading", offset < size
        PROVE  Fits(Frame + Least(ChunkSize, size - offset))
    <3> DEFINE n == Least(ChunkSize, size - offset)
    <3>1. n > 0
        BY <2>2, <2>4 DEF Least
    <3>2. n \in 1 .. ChunkSize /\ offset + n <= size
        BY <2>2, <3>1, ChunkRead
    <3> HIDE DEF n
    <3>3. k \in Nat /\ wire = Preamble + offset + Frame * k /\ measured = size
          /\ offset = ChunkSize * k
      <4>1. Streaming /\ offset # size
          BY <2>2, <2>4 DEF Streaming
      <4>2. QED
          BY <2>3, <2>4, <4>1
    <3>4. InChunks(offset + n, k + 1) /\ offset + n \in Nat
      <4>1. InChunks(offset + n, k + 1)
          BY <2>2, <3>2, <3>3, OneMoreChunk, Zenon
      <4>2. QED
          BY <2>2, <3>2, <4>1
    <3>5. PICK j \in Nat : InChunks(size, j)
        BY <2>2, ChunksExist
    <3>6. Frame * (k + 1) <= Frame * j
        BY <2>2, <3>2, <3>3, <3>4, <3>5, ChunksGrow
    <3>7. Frame * (k + 1) = Frame * k + Frame /\ Frame * k \in Nat /\ Frame * j \in Nat
        BY <3>3, <3>5
    <3>8. PayloadSize(size) = Preamble + size + Frame * j + Frame + SigLen
        BY <2>2, <3>5, PayloadOfChunks
    <3>9. n \in Nat
        BY <3>2
    <3>10. wire + (Frame + n) <= PayloadSize(size)
        BY <2>2, <3>2, <3>3, <3>6, <3>7, <3>8, <3>9
    <3>11. QED
        BY <3>3, <3>10 DEF Fits, n
  <2>5. ASSUME edits = 0, spc = "last"
        PROVE  wire + Frame + SigLen = PayloadSize(measured)
    <3>1. k \in Nat /\ wire = Preamble + offset + Frame * k /\ measured = size
          /\ InChunks(offset, k) /\ offset = size
        BY <2>3, <2>5 DEF Streaming
    <3>2. PayloadSize(size) = Preamble + size + Frame * k + Frame + SigLen
        BY <2>2, <3>1, PayloadOfChunks
    <3>3. QED
        BY <2>2, <3>1, <3>2
  <2>6. QED
      BY <2>1, <2>4, <2>5 DEF DeclaredExact
<1>2. QED
    BY <1>1, Stream, PTL

\* A stream of the announced length with full chunks before the last carries a
\* file of the size the announcement was made for.
LEMMA LengthTellsSize ==
    ASSUME StreamInv, LengthInv, Whole, EvenChunks
    PROVE  offset = measured
<1>1. offset \in Nat /\ measured \in Nat /\ Len(sent) - 2 \in Nat
    BY DEF StreamInv, TypeOK, SentInv
<1>2. /\ InChunks(offset, Len(sent) - 2)
      /\ wire = Preamble + offset + Frame * (Len(sent) - 2) + Frame + SigLen
      /\ wire = PayloadSize(measured)
    BY DEF LengthInv
<1>3. PayloadSize(offset) = PayloadSize(measured)
    BY <1>1, <1>2, PayloadOfChunks
<1>4. /\ PayloadSize(offset) \in Int
    BY <1>1, <1>2, PayloadOfChunks
<1>5. ~(offset < measured) /\ ~(measured < offset)
    BY <1>1, <1>3, <1>4, PayloadGrows
<1>6. QED
    BY <1>1, <1>5

\* What was delivered is the whole stream of the sender, with as many bytes as
\* the metadata declares and, unless chunks came short, as were announced.
THEOREM DeliveriesAreTheFile == Spec => []DeliveredIsSent
<1>1. ASSUME StreamInv, SumInv, LengthInv, rpc = "delivered"
      PROVE  DeliveredIsSent
  <2>1. /\ next >= 2 /\ next = Len(body) /\ tail = "none" /\ written = meta
        /\ \A i \in 1 .. next - 1 : i <= Len(sent) /\ body[i] = sent[i]
        /\ Authentic(next) /\ body[next].kind = "final" /\ got = Chunks
      BY <1>1 DEF StreamInv, ReceiverInv, IsEnd, Signed
  <2>2. /\ sent \in Seq(Frames) /\ body \in Seq(Frames) /\ next \in Nat
        /\ Len(sent) \in Nat /\ Len(body) \in Nat
      BY <1>1 DEF StreamInv, TypeOK, Frames
  <2>3. next \in 1 .. Len(sent) /\ body[next] = sent[next]
    <3>1. next \in 1 .. Len(body) /\ next # 0
        BY <2>1, <2>2
    <3>2. FromSent(body[next]) /\ body[next].pos = next
        BY <1>1, <2>1, <3>1 DEF StreamInv, ServerInv, Authentic
    <3>3. QED
        BY <3>1, <3>2 DEF FromSent
  <2>4. next = Len(sent) /\ ~Streaming
      BY <1>1, <2>1, <2>3 DEF StreamInv, SentInv
  <2>5. body = sent
    <3>1. \A i \in 1 .. Len(sent) : i \in 1 .. next - 1 \/ i = next
        BY <2>2, <2>4
    <3>2. \A i \in 1 .. Len(sent) : body[i] = sent[i]
        BY <2>1, <2>3, <3>1
    <3>3. Len(body) = Len(sent)
        BY <2>1, <2>4
    <3>4. \A i \in 1 .. Len(body) : body[i] = sent[i]
        BY <3>2, <3>3
    <3>5. QED
        BY <2>2, <3>3, <3>4, SeqEqual
  <2>6. offset = meta
    <3>1. PICK c : Sums(c)
        BY <1>1 DEF SumInv
    <3>2. next \in 2 .. Len(sent) /\ Len(sent) > 0
        BY <2>1, <2>2, <2>3
    <3>3. c[next] = c[next - 1] + 0 /\ c[next] = offset /\ written = c[next - 1]
        BY <1>1, <2>1, <2>3, <2>4, <3>1, <3>2 DEF Sums, IsData
    <3>4. written \in Nat
        BY <1>1 DEF StreamInv, TypeOK
    <3>5. QED
        BY <2>1, <3>3, <3>4
  <2>7. spc \in {"waiting", "ok"} /\ EvenChunks => measured = meta
      BY <1>1, <2>6, LengthTellsSize DEF Whole
  <2>8. QED
      BY <2>1, <2>3, <2>4, <2>5, <2>6, <2>7 DEF DeliveredIsSent
<1>2. StreamInv /\ SumInv /\ LengthInv => DeliveredIsSent
    BY <1>1 DEF DeliveredIsSent
<1>3. QED
    BY <1>2, Stream, PTL

\* A whole stream that was not damaged is not rejected while it is read, also
\* before its sender has the answer.
AcceptInv ==
    Whole /\ vpc = "stored" /\ damage = 0 /\ meta = measured /\ EvenChunks => rpc # "rejected"

LEMMA NothingToReject ==
    ASSUME StreamInv, SumInv, LengthInv, Whole, vpc = "stored", damage = 0,
           meta = measured, EvenChunks, Reject
    PROVE  FALSE
<1>0. /\ sent \in Seq(Frames) /\ Len(sent) \in Nat /\ next \in Nat /\ meta \in Nat
      /\ got \in Seq([kind : {"data"}, pos : Nat, len : 1 .. ChunkSize]) /\ written \in Nat
    BY DEF StreamInv, TypeOK, Frames
<1>1. body = sent /\ tail = "none" /\ Len(sent) >= 2 /\ sent[Len(sent)].kind = "final"
    BY DEF StreamInv, ServerInv, SentInv
<1>2. \A i \in 1 .. Len(sent) : Authentic(i)
    BY <1>0, <1>1 DEF StreamInv, SentInv, Authentic
<1>3. 1 \in 1 .. Len(sent)
    BY <1>0, <1>1
<1>4. Authentic(1) /\ body[1].kind = "meta"
    BY <1>1, <1>2, <1>3 DEF StreamInv, SentInv
<1>5. rpc = "reading" /\ ~IsDataFrame(next) /\ ~IsEnd(next)
    BY <1>4 DEF Reject
<1>6. /\ next >= 2 /\ next <= Len(sent) + 1 /\ Len(got) = next - 2
      /\ \A i \in 1 .. Len(got) : got[i] = sent[i + 1]
    BY <1>1, <1>5 DEF StreamInv, ReceiverInv
<1>7. next # Len(sent) + 1
  <2>1. SUFFICES ASSUME next = Len(sent) + 1
                 PROVE  FALSE
      OBVIOUS
  <2>2. /\ Len(sent) - 1 \in 1 .. Len(got) /\ Len(sent) - 1 + 1 = Len(sent)
      BY <1>0, <1>1, <1>6, <2>1
  <2>3. got[Len(sent) - 1] = sent[Len(sent)]
      BY <1>6, <2>2
  <2>4. \A i \in 1 .. Len(got) : got[i] \in [kind : {"data"}, pos : Nat, len : 1 .. ChunkSize]
      BY <1>0, ElementOfSeq
  <2>5. got[Len(sent) - 1].kind = "data"
    <3>1. \A i \in 1 .. Len(got) : got[i].kind = "data"
        BY <2>4
    <3>2. QED
        BY <2>2, <3>1
  <2>6. QED
      BY <1>1, <2>3, <2>5
<1>8. next \in 2 .. Len(sent) /\ next \in 1 .. Len(sent)
    BY <1>0, <1>6, <1>7
<1>9. PICK c : Sums(c)
    BY DEF SumInv
<1>10. c[next] = c[next - 1] + (IF IsData(sent[next]) THEN sent[next].len ELSE 0)
       /\ c[next] <= offset /\ written = c[next - 1] /\ c[Len(sent)] = offset
  <2>1. next \in 2 .. Len(sent) => c[next] = c[next - 1]
            + (IF IsData(sent[next]) THEN sent[next].len ELSE 0)
      BY <1>9 DEF Sums
  <2>2. c[next] <= offset
      BY <1>8, <1>9 DEF Sums
  <2>3. written = c[next - 1]
      BY <1>5, <1>9 DEF Sums
  <2>4. c[Len(sent)] = offset
      BY <1>0, <1>1, <1>9 DEF Sums
  <2>5. QED
      BY <1>8, <2>1, <2>2, <2>3, <2>4
<1>11. offset = meta
    BY LengthTellsSize
<1>12. sent[next].kind \in {"data", "final"}
  <2>1. sent[next] \in Frames
      BY <1>0, <1>8
  <2>2. next # 1
      BY <1>0, <1>6
  <2>3. QED
      BY <1>8, <2>1, <2>2 DEF Frames, StreamInv, SentInv
<1>13. CASE IsData(sent[next])
  <2>1. sent[next] \in Frames
      BY <1>0, <1>8
  <2>2. sent[next].len \in Nat
      BY <2>1 DEF Frames
  <2>3. sent[next].len <= meta - written
      BY <1>0, <1>10, <1>11, <1>13, <2>2
  <2>4. QED
      BY <1>1, <1>2, <1>5, <1>8, <1>13, <2>3 DEF IsDataFrame
<1>14. CASE sent[next].kind = "final"
  <2>1. next = Len(sent)
      BY <1>8, <1>14 DEF StreamInv, SentInv
  <2>2. written = meta
      BY <1>0, <1>10, <1>11, <1>14, <2>1 DEF IsData
  <2>3. Signed
    <3>1. /\ Chunks \in Seq(Frames) /\ Len(Chunks) = Len(sent) - 2
          /\ \A i \in 1 .. Len(sent) - 2 : Chunks[i] = sent[i + 1]
      <4>1. \A i \in 2 .. Len(sent) - 1 : sent[i] \in Frames
          BY <1>0
      <4>2. /\ Chunks \in Seq(Frames)
            /\ Len(Chunks) = IF 2 <= Len(sent) - 1 THEN Len(sent) - 1 - 2 + 1 ELSE 0
            /\ \A i \in 1 .. Len(sent) - 1 - 2 + 1 : Chunks[i] = sent[2 + i - 1]
          BY <1>0, <4>1, SubSeqProperties DEF Chunks
      <4>3. Len(Chunks) = Len(sent) - 2
        <5>1. \A n \in Nat :
                  n >= 2 => (IF 2 <= n - 1 THEN n - 1 - 2 + 1 ELSE 0) = n - 2
            OBVIOUS
        <5>2. Len(sent) \in Nat /\ Len(sent) >= 2
            BY <1>0, <1>1
        <5>3. QED
            BY <4>2, <5>1, <5>2
      <4>4. \A i \in 1 .. Len(sent) - 2 :
                i \in 1 .. Len(sent) - 1 - 2 + 1 /\ 2 + i - 1 = i + 1
          BY <1>0, <1>1
      <4>5. QED
          BY <4>2, <4>3, <4>4
    <3>2. got \in Seq(Frames)
      <4>1. [kind : {"data"}, pos : Nat, len : 1 .. ChunkSize] \subseteq Frames
          BY DEF Frames
      <4>2. QED
          BY <1>0, <4>1, SeqMonotonic
    <3>3. Len(got) = Len(Chunks) /\ \A i \in 1 .. Len(got) : got[i] = Chunks[i]
        BY <1>0, <1>6, <2>1, <3>1
    <3>4. QED
        BY <3>1, <3>2, <3>3, SeqEqual DEF Signed
  <2>4. QED
      BY <1>1, <1>2, <1>5, <1>8, <1>14, <2>1, <2>2, <2>3 DEF IsEnd
<1>15. QED
    BY <1>12, <1>13, <1>14 DEF IsData

LEMMA AcceptStep ==
    ASSUME StreamInv, SumInv, LengthInv, AcceptInv, [Next]_vars
    PROVE  AcceptInv'
<1> SUFFICES ASSUME Whole', vpc' = "stored", damage' = 0, meta' = measured', EvenChunks',
                    rpc' = "rejected"
             PROVE  FALSE
    BY DEF AcceptInv
<1>0. damage \in Nat
    BY DEF StreamInv, TypeOK
<1>1. rpc = "rejected" \/ Reject
    BY DEF Next, Edit, Measure, BeginStream, ReadChunk, EndOfFile, SendFinal, SendFails,
           UploadAnswer, StoreWhole, StoreShort, RefuseUpload, Damage, ReceiveMeta, ReceiveData,
           Deliver, vars, receiver
<1>2. CASE Reject
  <2>1. UNCHANGED <<sender, server>>
      BY <1>2 DEF Reject
  <2>2. Whole /\ vpc = "stored" /\ damage = 0 /\ meta = measured /\ EvenChunks
      BY <2>1 DEF sender, server, Whole, EvenChunks
  <2>3. QED
      BY <1>2, <2>2, NothingToReject
<1>3. CASE rpc = "rejected"
  <2>1. vpc = "stored"
      BY <1>3 DEF StreamInv, ReceiverInv
  <2>2. spc \in {"waiting", "failed", "ok"}
      BY <2>1 DEF StreamInv, ServerInv
  <2>3. damage' = damage \/ damage' = damage + 1
      BY DEF Next, Edit, Measure, BeginStream, ReadChunk, EndOfFile, SendFinal, SendFails,
             UploadAnswer, StoreWhole, StoreShort, RefuseUpload, Damage, ReceiveMeta,
             ReceiveData, Deliver, Reject, vars, server
  <2>4. damage = 0
      BY <1>0, <2>3
  <2>5. UNCHANGED <<sent, meta, measured>> /\ (spc' = spc \/ spc' = "failed" \/ Whole)
      BY <2>1, <2>2 DEF Next, Edit, Measure, BeginStream, ReadChunk, EndOfFile, SendFinal,
             SendFails, UploadAnswer, StoreWhole, StoreShort, RefuseUpload, Damage, ReceiveMeta,
             ReceiveData, Deliver, Reject, vars, sender, Whole
  <2>6. Whole /\ meta = measured /\ EvenChunks
      BY <2>5 DEF Whole, EvenChunks
  <2>7. QED
      BY <1>3, <2>1, <2>4, <2>6 DEF AcceptInv
<1>4. QED
    BY <1>1, <1>2, <1>3

\* A file that send reports as sent is stored whole, and the receiver takes it
\* unless the vault damages it or its size was another one in the metadata or,
\* with chunks that came short, in the stream.
THEOREM SentFilesAreReceivable == Spec => []SentIsReceivable
<1>1. Init => AcceptInv
    BY DEF Init, AcceptInv, Whole
<1>2. StreamInv /\ SumInv /\ LengthInv /\ AcceptInv /\ [Next]_vars => AcceptInv'
    BY AcceptStep
<1>3. StreamInv /\ AcceptInv => SentIsReceivable
    BY DEF StreamInv, ServerInv, AcceptInv, Whole, SentIsReceivable
<1>4. QED
    BY <1>1, <1>2, <1>3, Stream, PTL DEF Spec
=============================================================================
