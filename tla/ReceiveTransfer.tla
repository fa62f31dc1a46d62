-------------------------- MODULE ReceiveTransfer --------------------------
(***************************************************************************)
(* The receiver: decrypt_file_v2 and its streaming twin _decrypt_v2_stream *)
(* with the NonceCache (src/secxfer/transfer.py).  An attempt is one call  *)
(* on the ciphertext of one transfer.  The inbox never drops a file, so a  *)
(* user may call it again for the same transfer; several processes may do  *)
(* so at the same time on the same key directory, nonces.db and            *)
(* destination.                                                            *)
(*                                                                         *)
(* consume_prekey is LocalPrekeys, one call of it in every attempt.        *)
(* The cryptography is taken to work: what fails a check is a ciphertext   *)
(* cut short or an I/O error, which may happen wherever the code has a     *)
(* check.  The destination is a directory of names that point to inodes,   *)
(* since the code opens, renames and removes by name what it writes        *)
(* through a handle.  The two clock readings of the TTL check and of       *)
(* check_and_insert fall into one tick.                                    *)
(***************************************************************************)
EXTENDS Integers, Sequences, FiniteSets

CONSTANTS Transfer,  \* encrypted files
          Attempt,   \* calls of decrypt_file_v2
          Prekey,    \* ids of the receiver's prekeys
          Name,      \* file names in the destination
          None,
          PrekeyOf,  \* PrekeyOf[t]: the prekey t was made with
          OutNames,  \* OutNames[t]: the names tried in turn for its plaintext
          PartOf,    \* PartOf[n]: n with the suffix .part
          Ttl,       \* ttl of every transfer
          Tolerance, \* CLOCK_SKEW_TOLERANCE
          Skews,     \* sender's clock minus receiver's clock, when it stamps
          Chunks,    \* data chunks of every transfer
          MaxAtOnce, \* how many attempts are under way at the same time
          MaxTime    \* bound: length of a behaviour

ASSUME NoneAssumption == None \notin Transfer \cup Attempt \cup Name \cup Prekey \cup Int
ASSUME TransferAssumption ==
    /\ PrekeyOf \in [Transfer -> Prekey]
    /\ OutNames \in [Transfer -> Seq(Name)]
    /\ PartOf \in [Name -> Name]
ASSUME ClockAssumption == Ttl \in Nat /\ Tolerance \in Nat /\ Skews \subseteq Int
ASSUME BoundAssumption == Chunks \in Nat /\ MaxAtOnce \in Nat /\ MaxTime \in Nat

VARIABLES
    now,
    stamp,   \* metadata timestamp of each transfer, None before it is built
    keyFile, \* LocalPrekeys: the file of each prekey,
    keyPc,   \* where each attempt stands in consume_prekey,
    want,    \* the prekey it asked for,
    isLast,  \* and its is_last
    expiry,  \* of each transfer's row in nonces.db, None without a row
    pc,      \* where each attempt stands otherwise
    of,      \* its transfer
    out,     \* its out_file
    dir,     \* the destination: the inode of each name, or None
    content, \* who wrote each chunk of an inode; an inode is named by its maker
    fd,      \* the inode an attempt has open
    written, \* chunks it wrote
    overlap  \* two attempts were under way at the same time (history only)

prekeys == <<keyFile, keyPc, want, isLast>>
local == <<pc, of, out>>
disk  == <<dir, content, fd, written>>
vars  == <<now, stamp, prekeys, expiry, local, disk, overlap>>

Local == INSTANCE LocalPrekeys WITH Key <- Prekey, Call <- Attempt,
                                   disk <- keyFile, pc <- keyPc

Active(a) == pc[a] \in {"begun", "taking", "keyed", "fresh", "named", "writing", "verified"}
Empty == [i \in 1 .. Chunks |-> None]
Full(t) == [i \in 1 .. Chunks |-> t]
Part(a) == PartOf[out[a]]

TypeOK ==
    /\ now \in 0 .. MaxTime
    /\ stamp \in [Transfer -> Int \cup {None}]
    /\ Local!TypeOK
    /\ expiry \in [Transfer -> Int \cup {None}]
    /\ pc \in [Attempt -> {"idle", "begun", "taking", "keyed", "fresh", "named", "writing",
                           "verified", "accepted", "refused", "lost", "dead"}]
    /\ of \in [Attempt -> Transfer \cup {None}]
    /\ out \in [Attempt -> Name \cup {None}]
    /\ dir \in [Name -> Attempt \cup {None}]
    /\ content \in [Attempt -> [1 .. Chunks -> Transfer \cup {None}]]
    /\ fd \in [Attempt -> Attempt \cup {None}]
    /\ written \in [Attempt -> 0 .. Chunks]
    /\ overlap \in BOOLEAN

Init ==
    /\ now = 0
    /\ stamp = [t \in Transfer |-> None]
    /\ Local!Init
    /\ expiry = [t \in Transfer |-> None]
    /\ pc = [a \in Attempt |-> "idle"]
    /\ of = [a \in Attempt |-> None]
    /\ out = [a \in Attempt |-> None]
    /\ dir = [n \in Name |-> None]
    /\ content = [a \in Attempt |-> Empty]
    /\ fd = [a \in Attempt |-> None]
    /\ written = [a \in Attempt |-> 0]
    /\ overlap = FALSE

Tick ==
    /\ now < MaxTime
    /\ now' = now + 1
    /\ UNCHANGED <<overlap, stamp, prekeys, expiry, local, disk>>

\* build_file_v2 stamps the metadata with int(time.time()) of the sender.
Build(t) ==
    /\ stamp[t] = None
    /\ \E d \in Skews : stamp' = [stamp EXCEPT ![t] = now + d]
    /\ UNCHANGED <<overlap, now, prekeys, expiry, local, disk>>

-----------------------------------------------------------------------------
(* One attempt. *)

Begin(a, t) ==
    /\ pc[a] = "idle"
    /\ stamp[t] # None
    /\ Cardinality({b \in Attempt : Active(b)}) < MaxAtOnce
    /\ of' = [of EXCEPT ![a] = t]
    /\ pc' = [pc EXCEPT ![a] = "begun"]
    /\ overlap' = (overlap \/ \E b \in Attempt : Active(b))
    /\ UNCHANGED <<now, stamp, prekeys, expiry, out, disk>>

\* Variant: the prekey is consumed before the preamble is verified.
RefusePreambleBurning(a) ==
    /\ pc[a] = "begun"
    /\ keyFile' = [keyFile EXCEPT ![PrekeyOf[of[a]]] = "gone"]
    /\ pc' = [pc EXCEPT ![a] = "refused"]
    /\ UNCHANGED <<overlap, now, stamp, keyPc, want, isLast, expiry, of, out, disk>>

\* Truncated preamble, unknown sender or bad signature.
RefusePreamble(a) ==
    /\ pc[a] = "begun"
    /\ pc' = [pc EXCEPT ![a] = "refused"]
    /\ UNCHANGED <<overlap, now, stamp, prekeys, expiry, of, out, disk>>

\* The preamble is verified and consume_prekey called.
CallConsume(a) ==
    /\ pc[a] = "begun"
    /\ Local!Count(a, PrekeyOf[of[a]])
    /\ pc' = [pc EXCEPT ![a] = "taking"]
    /\ UNCHANGED <<overlap, now, stamp, expiry, of, out, disk>>

ConsumeStep(a) ==
    \/ Local!Decide(a) \/ Local!ReadLast(a) \/ Local!Rename(a)
    \/ Local!ReadRenamed(a) \/ Local!Remove(a)

\* consume_prekey goes on.  If it raises FileNotFoundError, the attempt ends
\* with PreKeyConsumedError.
Consume(a) ==
    /\ pc[a] = "taking"
    /\ ConsumeStep(a)
    /\ pc' = [pc EXCEPT ![a] =
                 CASE keyPc'[a] \in {"reused", "consumed"} -> "keyed"
                   [] keyPc'[a] = "raised"                 -> "refused"
                   [] OTHER                                -> "taking"]
    /\ UNCHANGED <<overlap, now, stamp, expiry, of, out, disk>>

InTime(t) == now <= stamp[t] + Ttl /\ now >= stamp[t] - Tolerance

\* Variant: rows are deleted a tick too early.
LiveOneShort(t) == expiry[t] # None /\ expiry[t] > now + 1

\* A nonce that survives "DELETE ... WHERE expiry <= now".
Live(t) == expiry[t] # None /\ expiry[t] > now

\* The TTL check, then check_and_insert in one transaction of nonces.db.
RecordNonce(a) ==
    LET t == of[a] IN
    /\ pc[a] = "keyed"
    /\ InTime(t)
    /\ ~Live(t)
    /\ expiry' = [u \in Transfer |-> IF u = t THEN now + Ttl
                                     ELSE IF Live(u) THEN expiry[u] ELSE None]
    /\ pc' = [pc EXCEPT ![a] = "fresh"]
    /\ UNCHANGED <<overlap, now, stamp, prekeys, of, out, disk>>

\* Truncated metadata, TTLError, ReplayError (the deletion is rolled back), a
\* locked nonces.db, or a destination that cannot be made.
RefuseMetadata(a) ==
    /\ pc[a] \in {"keyed", "fresh"}
    /\ pc' = [pc EXCEPT ![a] = "lost"]
    /\ UNCHANGED <<overlap, now, stamp, prekeys, expiry, of, out, disk>>

\* Variant: the first name, taken or not.
FreeAny(t, i) == i = 1

\* "while out_file.exists()"
Free(t, i) ==
    /\ dir[OutNames[t][i]] = None
    /\ \A j \in 1 .. i - 1 : dir[OutNames[t][j]] # None

ChooseName(a) ==
    LET t == of[a] IN
    /\ pc[a] = "fresh"
    /\ \E i \in 1 .. Len(OutNames[t]) :
          Free(t, i) /\ out' = [out EXCEPT ![a] = OutNames[t][i]]
    /\ pc' = [pc EXCEPT ![a] = "named"]
    /\ UNCHANGED <<overlap, now, stamp, prekeys, expiry, of, disk>>

\* open(part_file, 'wb'): a new inode, or the one of that name emptied.
OpenPart(a) ==
    LET inode == IF dir[Part(a)] = None THEN a ELSE dir[Part(a)] IN
    /\ pc[a] = "named"
    /\ dir' = [dir EXCEPT ![Part(a)] = inode]
    /\ content' = [content EXCEPT ![inode] = Empty]
    /\ fd' = [fd EXCEPT ![a] = inode]
    /\ pc' = [pc EXCEPT ![a] = "writing"]
    /\ UNCHANGED <<overlap, now, stamp, prekeys, expiry, of, out, written>>

WriteChunk(a) ==
    /\ pc[a] = "writing"
    /\ written[a] < Chunks
    /\ content' = [content EXCEPT ![fd[a]][written[a] + 1] = of[a]]
    /\ written' = [written EXCEPT ![a] = @ + 1]
    /\ UNCHANGED <<overlap, now, stamp, prekeys, expiry, local, dir, fd>>

\* The trailer signs the hash of the decrypted chunks (not of the file), and
\* as many bytes were written as the metadata declares.
TrailerVerified(a) == written[a] = Chunks

VerifyTrailer(a) ==
    /\ pc[a] = "writing"
    /\ TrailerVerified(a)
    /\ pc' = [pc EXCEPT ![a] = "verified"]
    /\ UNCHANGED <<overlap, now, stamp, prekeys, expiry, of, out, disk>>

\* part_file.replace(out_file); the part file may have been taken away.
Replace(a) ==
    /\ pc[a] = "verified"
    /\ \/ /\ dir[Part(a)] # None
          /\ dir' = IF Part(a) = out[a] THEN dir
                    ELSE [dir EXCEPT ![out[a]] = dir[Part(a)], ![Part(a)] = None]
          /\ pc' = [pc EXCEPT ![a] = "accepted"]
       \/ /\ dir[Part(a)] = None
          /\ pc' = [pc EXCEPT ![a] = "lost"]
          /\ UNCHANGED dir
    /\ UNCHANGED <<overlap, now, stamp, prekeys, expiry, of, out, content, fd, written>>

\* Variant: the exception leaves the part file.
AbandonKeeping(a) ==
    /\ pc[a] = "writing"
    /\ pc' = [pc EXCEPT ![a] = "lost"]
    /\ UNCHANGED <<overlap, now, stamp, prekeys, expiry, of, out, disk>>

\* Truncated or surplus data, a full disk: the exception removes the part
\* file by its name.
Abandon(a) ==
    /\ pc[a] = "writing"
    /\ dir' = [dir EXCEPT ![Part(a)] = None]
    /\ pc' = [pc EXCEPT ![a] = "lost"]
    /\ UNCHANGED <<overlap, now, stamp, prekeys, expiry, of, out, content, fd, written>>

\* The process is killed.
Die(a) ==
    /\ Active(a)
    /\ pc' = [pc EXCEPT ![a] = "dead"]
    /\ IF Local!Active(a) THEN Local!Die(a) ELSE UNCHANGED prekeys
    /\ UNCHANGED <<overlap, now, stamp, expiry, of, out, disk>>

Next ==
    \/ Tick
    \/ \E t \in Transfer : Build(t)
    \/ \E a \in Attempt, t \in Transfer : Begin(a, t)
    \/ \E a \in Attempt :
          \/ RefusePreamble(a) \/ CallConsume(a) \/ Consume(a)
          \/ RecordNonce(a) \/ RefuseMetadata(a)
          \/ ChooseName(a) \/ OpenPart(a) \/ WriteChunk(a) \/ VerifyTrailer(a)
          \/ Replace(a) \/ Abandon(a) \/ Die(a)

Spec == Init /\ [][Next]_vars

-----------------------------------------------------------------------------
(* Properties. *)

\* The plaintext of a transfer is delivered at most once, however often and
\* by however many processes it is decrypted: its prekey is gone, or, for the
\* last resort prekey that stays, its nonce is remembered for as long as its
\* TTL accepts it.
AcceptedOnce ==
    \A a, b \in Attempt :
        pc[a] = "accepted" /\ pc[b] = "accepted" /\ of[a] = of[b] => a = b

\* Two attempts never consume the same prekey file, they are given the same
\* prekey only as the last resort, and no private key is left behind but by an
\* attempt that is taking it or was killed there.
PrekeyTakenOnce ==
    Local!ConsumedOnce /\ Local!SharedOnlyAsLastResort /\ Local!ResidueAccounted

\* The last prekey file is lost only to attempts that overlap: one at a time,
\* killed or not, they leave a file to receive with.
LastKeyKept == ~overlap => Local!LastResortKept

\* As long as attempts are made one at a time, a delivered file is and remains
\* the whole plaintext of its transfer under the name it was delivered to.
DeliveredKept ==
    ~overlap => \A a \in Attempt : pc[a] = "accepted" =>
        dir[out[a]] # None /\ content[dir[out[a]]] = Full(of[a])

\* A transfer that cannot be decrypted any more, because its prekey or its
\* nonce is spent, was delivered, is being decrypted, or was lost in an attempt
\* that failed or was killed after it took the prekey.
LossAccounted ==
    \A t \in Transfer : keyFile[PrekeyOf[t]] # "key" \/ expiry[t] # None =>
        \E a \in Attempt :
            of[a] = t /\ pc[a] \notin {"idle", "begun", "refused"}

\* Every file in the destination was delivered, or is the part file of an
\* attempt that is still writing or was killed.
PartsAccounted ==
    TypeOK /\ \A n \in Name : dir[n] # None =>
        \E a \in Attempt :
            \/ pc[a] = "accepted" /\ out[a] = n
            \/ pc[a] \in {"writing", "verified", "dead"} /\ out[a] # None
               /\ Part(a) = n
=============================================================================
