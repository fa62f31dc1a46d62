----------------------------- MODULE FileStream -----------------------------
(***************************************************************************)
(* One file as a stream of frames: SecXferClient._payload_size and         *)
(* build_file_v2 on the sender's side, the body upload_view stores, and    *)
(* the loop of _decrypt_v2_stream on the receiver's                        *)
(* (src/secxfer/client.py, transfer.py, crypto.py).                        *)
(*                                                                         *)
(* The file is looked at three times: for the Content-Length, for the      *)
(* size in the metadata, and when it is read; another program may change   *)
(* it in between.  A frame is a length field and one secretstream message; *)
(* a message authenticates only at the position it was pushed at.  Which   *)
(* prekey the file is made with and when it may be stored is KdcPrekeys.   *)
(***************************************************************************)
EXTENDS Integers, Sequences

CONSTANTS Sizes,     \* sizes the file may have
          ChunkSize, \* CHUNK_SIZE
          Frame,     \* bytes of a frame besides its plaintext: 4 + 17
          SigLen,    \* bytes of the signature in the trailer
          Preamble,  \* bytes of version, preamble and metadata frame
          MaxEdits,  \* bound: how often the file is changed
          MaxDamage  \* bound: how often the stored stream is damaged

ASSUME SizesAssumption == Sizes \subseteq Nat /\ Sizes # {}
ASSUME LayoutAssumption ==
    /\ ChunkSize \in Nat \ {0}
    /\ Frame \in Nat /\ SigLen \in Nat /\ Preamble \in Nat
ASSUME BoundAssumption == MaxEdits \in Nat /\ MaxDamage \in Nat

VARIABLES
    size,     \* of the file now
    edits,    \* how often it was changed
    spc,      \* where the call of send stands
    measured, \* the size _payload_size saw
    meta,     \* the size build_file_v2 saw and put into the metadata
    offset,   \* how much of the file is read
    sent,     \* the frames given to httpx
    wire,     \* their bytes
    vpc,      \* "empty", "stored" or "refused": the body on the server
    body,     \* its whole frames
    tail,     \* the cut frame at its end: "none" or "part"
    damage,   \* how often it was damaged
    rpc,      \* where the receiver stands
    next,     \* the frame it reads next
    got,      \* the data frames it wrote to the part file
    written   \* bytes_written

file   == <<size, edits>>
sender == <<spc, measured, meta, offset, sent, wire>>
server == <<vpc, body, tail, damage>>
receiver == <<rpc, next, got, written>>
vars   == <<file, sender, server, receiver>>

Tails == {"none", "part"}

\* A frame: what it carries, the position of its message, its plaintext's size.
FrameOf(kind, pos, len) == [kind |-> kind, pos |-> pos, len |-> len]

IsData(f) == f.kind = "data"

\* The chunks of a whole stream: between the metadata frame and the trailer.
Chunks == SubSeq(sent, 2, Len(sent) - 1)

Least(m, n) == IF m <= n THEN m ELSE n

TypeOK ==
    /\ size \in Sizes
    /\ edits \in 0 .. MaxEdits
    /\ spc \in {"idle", "measured", "reading", "last", "waiting", "ok", "failed"}
    /\ measured \in Sizes
    /\ meta \in Sizes
    /\ offset \in Nat
    /\ sent \in Seq([kind : {"meta", "data", "final"}, pos : Nat, len : Nat])
    /\ wire \in Nat
    /\ vpc \in {"empty", "stored", "refused"}
    /\ body \in Seq([kind : {"meta", "data", "final"}, pos : Nat, len : Nat])
    /\ tail \in {"none", "part"}
    /\ damage \in 0 .. MaxDamage
    /\ rpc \in {"idle", "reading", "delivered", "rejected"}
    /\ next \in Nat
    /\ got \in Seq([kind : {"data"}, pos : Nat, len : 1 .. ChunkSize])
    /\ written \in Nat /\ written <= meta

Init ==
    /\ size \in Sizes
    /\ edits = 0
    /\ spc = "idle"
    /\ measured = size
    /\ meta = size
    /\ offset = 0
    /\ sent = <<>>
    /\ wire = 0
    /\ vpc = "empty"
    /\ body = <<>>
    /\ tail = "none"
    /\ damage = 0
    /\ rpc = "idle"
    /\ next = 1
    /\ got = <<>>
    /\ written = 0

\* Another program writes to the file.
Edit ==
    /\ edits < MaxEdits
    /\ edits' = edits + 1
    /\ \E n \in Sizes \ {size} : size' = n
    /\ UNCHANGED <<sender, server, receiver>>

-----------------------------------------------------------------------------
(* The sender. *)

\* Variant: the last chunk has a frame of its own even if it is empty.
PayloadSizeOneMore(n) ==
    Preamble + n + Frame * (n \div ChunkSize + 1) + Frame + SigLen

PayloadSize(n) ==
    LET fullChunks == n \div ChunkSize
        remainder  == n % ChunkSize
        data == fullChunks * (Frame + ChunkSize)
                + IF remainder = 0 THEN 0 ELSE Frame + remainder
        trailer == Frame + SigLen
    IN IF n = 0 THEN Preamble + trailer ELSE Preamble + data + trailer

\* _payload_size is evaluated for the headers of the request.
Measure ==
    /\ spc = "idle"
    /\ measured' = size
    /\ spc' = "measured"
    /\ UNCHANGED <<file, meta, offset, sent, wire, server, receiver>>

\* What httpx gives to the connection: it raises on more bytes than the
\* Content-Length says.
Fits(n) == wire + n <= PayloadSize(measured)

\* build_file_v2 begins when httpx asks for the first part of the body.
BeginStream ==
    /\ spc = "measured"
    /\ Fits(Preamble)
    /\ meta' = size
    /\ sent' = <<FrameOf("meta", 1, 0)>>
    /\ wire' = Preamble
    /\ spc' = IF size = 0 THEN "last" ELSE "reading"
    /\ UNCHANGED <<file, measured, offset, server, receiver>>

ReadChunk ==
    LET n == Least(ChunkSize, size - offset) IN
    /\ spc = "reading"
    /\ n > 0
    /\ Fits(Frame + n)
    /\ offset' = offset + n
    /\ sent' = Append(sent, FrameOf("data", Len(sent) + 1, n))
    /\ wire' = wire + Frame + n
    /\ UNCHANGED <<file, spc, measured, meta, server, receiver>>

EndOfFile ==
    /\ spc = "reading"
    /\ size <= offset
    /\ spc' = "last"
    /\ UNCHANGED <<file, measured, meta, offset, sent, wire, server, receiver>>

\* push_final; httpx raises if the body ends before its Content-Length.
SendFinal ==
    /\ spc = "last"
    /\ Fits(Frame + SigLen)
    /\ sent' = Append(sent, FrameOf("final", Len(sent) + 1, SigLen))
    /\ wire' = wire + Frame + SigLen
    /\ spc' = IF wire' = PayloadSize(measured) THEN "waiting" ELSE "failed"
    /\ UNCHANGED <<file, measured, meta, offset, server, receiver>>

\* A timeout, a lost connection, the file cannot be read, or more bytes than
\* the Content-Length.
SendFails ==
    /\ spc \in {"measured", "reading", "last", "waiting"}
    /\ spc' = "failed"
    /\ UNCHANGED <<file, measured, meta, offset, sent, wire, server, receiver>>

\* Variant: the answer is not looked at.
UploadAnswerIgnored ==
    /\ spc = "waiting"
    /\ vpc # "empty"
    /\ spc' = "ok"
    /\ UNCHANGED <<file, measured, meta, offset, sent, wire, server, receiver>>

\* The answer is 200.
UploadAnswer ==
    /\ spc = "waiting"
    /\ vpc = "stored"
    /\ spc' = "ok"
    /\ UNCHANGED <<file, measured, meta, offset, sent, wire, server, receiver>>

-----------------------------------------------------------------------------
(* The body on the server. *)

StoreWhole ==
    /\ spc \in {"waiting", "failed"}
    /\ wire = PayloadSize(measured)
    /\ vpc = "empty"
    /\ vpc' = "stored"
    /\ body' = sent
    /\ UNCHANGED <<file, sender, tail, damage, receiver>>

\* The connection ended early, which the loop over the request takes for the
\* end of the body: nobody compares the bytes with the Content-Length.
StoreShort ==
    /\ spc = "failed"
    /\ vpc = "empty"
    /\ vpc' = "stored"
    /\ \E n \in 0 .. Len(sent), t \in Tails :
          /\ n = Len(sent) => wire < PayloadSize(measured)
          /\ body' = SubSeq(sent, 1, n)
          /\ tail' = t
    /\ UNCHANGED <<file, sender, damage, receiver>>

\* The part file is removed, or the reservation was lost.
RefuseUpload ==
    /\ spc \in {"waiting", "failed"}
    /\ vpc = "empty"
    /\ vpc' = "refused"
    /\ UNCHANGED <<file, sender, body, tail, damage, receiver>>

\* The vault or the download damages the stored body: it is cut, loses a
\* frame, gets one twice, has two swapped, or has one altered, which is then
\* no message of any position.
Damage ==
    /\ vpc = "stored" /\ rpc = "idle"
    /\ damage < MaxDamage
    /\ damage' = damage + 1
    /\ \/ \E n \in 0 .. Len(body), t \in Tails :
             body' = SubSeq(body, 1, n) /\ tail' = t
       \/ /\ \E n \in 1 .. Len(body), m \in 1 .. Len(body) + 1 :
                body' = SubSeq(body, 1, n - 1) \o SubSeq(body, m, Len(body))
          /\ UNCHANGED tail
       \/ /\ \E n \in 1 .. Len(body) - 1 :
                body' = [body EXCEPT ![n] = body[n + 1], ![n + 1] = body[n]]
          /\ UNCHANGED tail
       \/ /\ \E n \in 1 .. Len(body) : body' = [body EXCEPT ![n].pos = 0]
          /\ UNCHANGED tail
    /\ UNCHANGED <<file, sender, vpc, receiver>>

-----------------------------------------------------------------------------
(* The receiver. *)

\* SecretstreamPuller.pull: the message of the frame is whole and in its place.
Authentic(n) == n <= Len(body) /\ body[n].pos = n

\* The preamble and the metadata frame.
ReceiveMeta ==
    /\ vpc = "stored" /\ rpc = "idle"
    /\ Authentic(1) /\ body[1].kind = "meta"
    /\ rpc' = "reading"
    /\ next' = 2
    /\ UNCHANGED <<file, sender, server, got, written>>

\* A data frame within what the metadata declares.
IsDataFrame(n) ==
    Authentic(n) /\ IsData(body[n]) /\ body[n].len <= meta - written

ReceiveData ==
    /\ rpc = "reading"
    /\ IsDataFrame(next)
    /\ got' = Append(got, body[next])
    /\ written' = written + body[next].len
    /\ next' = next + 1
    /\ UNCHANGED <<file, sender, server, rpc>>

\* sign_digest and verify_digest: the signature in the trailer is over the
\* hash of the chunks the sender read.
Signed == got = Chunks

\* Variant: bytes after the trailer are ignored.
IsEndSurplus(n) ==
    /\ Authentic(n) /\ body[n].kind = "final"
    /\ Signed
    /\ written = meta

\* The trailer, as many bytes written as declared, and nothing after it.
IsEnd(n) ==
    /\ Authentic(n) /\ body[n].kind = "final"
    /\ Signed
    /\ written = meta
    /\ n = Len(body) /\ tail = "none"

Deliver ==
    /\ rpc = "reading"
    /\ IsEnd(next)
    /\ rpc' = "delivered"
    /\ UNCHANGED <<file, sender, server, next, got, written>>

\* Whatever else is read raises, and the part file is removed.
Reject ==
    /\ vpc = "stored"
    /\ \/ rpc = "idle" /\ ~(Authentic(1) /\ body[1].kind = "meta")
       \/ rpc = "reading" /\ ~IsDataFrame(next) /\ ~IsEnd(next)
    /\ rpc' = "rejected"
    /\ UNCHANGED <<file, sender, server, next, got, written>>

Next ==
    \/ Edit
    \/ Measure \/ BeginStream \/ ReadChunk \/ EndOfFile \/ SendFinal
    \/ SendFails \/ UploadAnswer
    \/ StoreWhole \/ StoreShort \/ RefuseUpload \/ Damage
    \/ ReceiveMeta \/ ReceiveData \/ Deliver \/ Reject

Spec == Init /\ [][Next]_vars

-----------------------------------------------------------------------------
(* Properties. *)

\* _payload_size is "the exact wire size emitted by build_file_v2": if nobody
\* changes the file, the stream never has more bytes than the Content-Length
\* announces, and it can always be ended with exactly that many.  With the
\* types.
DeclaredExact ==
    /\ TypeOK
    /\ edits = 0 =>
          /\ spc = "reading" /\ offset < size => Fits(Frame + Least(ChunkSize, size - offset))
          /\ spc = "last" => wire + Frame + SigLen = PayloadSize(measured)

\* Every chunk before the last is a full one.  Not so if the file shrank and
\* grew again while it was read: then the missing bytes of the file can be made
\* up by the headers of the surplus frames, and the stream has the announced
\* length all the same.
EvenChunks ==
    \A i \in 2 .. Len(sent) - 1 : IsData(sent[i + 1]) => sent[i].len = ChunkSize

\* A file that send reports as sent can be received: what the server stored is
\* the whole stream, and unless it is damaged there, or the file had another
\* size when the metadata was made, the receiver never rejects it.
SentIsReceivable ==
    /\ spc = "ok" /\ damage = 0 => vpc = "stored" /\ body = sent /\ tail = "none"
    /\ spc = "ok" /\ damage = 0 /\ meta = measured /\ EvenChunks => rpc # "rejected"

\* What is delivered is what the sender read, all of it and in order, and the
\* stream it came in is the sender's, without anything left out or added.  And
\* a file that changed its size while it was sent is not delivered: as many
\* bytes were read and written as the metadata declares, and as many as the
\* Content-Length was made for if the call of send is still to succeed.
DeliveredIsSent ==
    rpc = "delivered" =>
        /\ got = Chunks
        /\ body = sent /\ tail = "none"
        /\ sent[Len(sent)].kind = "final"
        /\ written = meta /\ offset = meta
        /\ spc \in {"waiting", "ok"} /\ EvenChunks => measured = meta
=============================================================================
