----------------------- MODULE ReceiveTransferProofs -----------------------
(***************************************************************************)
(* Proofs about ReceiveTransfer and the LocalPrekeys in it, for every set  *)
(* of transfers, attempts and prekeys, any number of attempts at once, any *)
(* TTL and any length of a behaviour.                                      *)
(***************************************************************************)
EXTENDS ReceiveTransfer, TLAPS

USE NoneAssumption, TransferAssumption, ClockAssumption, BoundAssumption

\* How far an attempt is in consume_prekey when it stands where it does.
StageInv ==
    \A a \in Attempt :
        /\ pc[a] # "idle" => of[a] \in Transfer /\ stamp[of[a]] # None
        /\ pc[a] \in {"idle", "begun"} => keyPc[a] = "idle"
        /\ pc[a] = "taking" =>
              keyPc[a] \in {"counted", "reading", "renaming", "renamed", "read"}
        /\ pc[a] = "refused" => keyPc[a] \in {"idle", "raised"}
        /\ pc[a] \in {"keyed", "fresh", "named", "writing", "verified", "accepted",
                      "lost"} => keyPc[a] \in {"reused", "consumed"}
        /\ pc[a] = "dead" => keyPc[a] \in {"idle", "reused", "consumed", "dead"}
        /\ keyPc[a] # "idle" => want[a] = PrekeyOf[of[a]]
        /\ pc[a] \in {"named", "writing", "verified", "accepted"} => out[a] \in Name
        /\ pc[a] \in {"writing", "verified"} => fd[a] \in Attempt

Typed == TypeOK /\ StageInv

LEMMA InitTyped == Init => Typed
<1> SUFFICES ASSUME Init PROVE Typed
    OBVIOUS
<1>1. Local!TypeOK
  <2>1. isLast \in [Attempt -> BOOLEAN]
      BY Zenon DEF Init, Local!Init
  <2>2. QED
      BY <2>1 DEF Init, Local!Init, Local!TypeOK
<1>2. overlap \in BOOLEAN
    BY Zenon DEF Init
<1>3. Empty \in [1 .. Chunks -> Transfer \cup {None}]
    BY DEF Empty
<1>4. TypeOK
    BY <1>1, <1>2, <1>3 DEF Init, TypeOK
<1>5. StageInv
    BY DEF Init, StageInv, Local!Init
<1>6. QED
    BY <1>4, <1>5 DEF Typed

\* The types of consume_prekey's variables, in each of its steps.
LEMMA KeysTyped ==
    ASSUME Typed, NEW a \in Attempt, CallConsume(a) \/ ConsumeStep(a) \/ Local!Die(a)
    PROVE  Local!TypeOK'
<1> USE DEF Typed, TypeOK, Local!TypeOK
<1>1. CASE CallConsume(a)
  <2>1. PrekeyOf[of[a]] \in Prekey
      BY <1>1 DEF StageInv, CallConsume
  <2>2. isLast' \in [Attempt -> BOOLEAN]
      BY <1>1 DEF CallConsume, Local!Count, Local!AtMostOneOnDisk
  <2>3. QED
      BY <1>1, <2>1, <2>2 DEF CallConsume, Local!Count
<1>2. CASE Local!Decide(a)
    BY <1>2 DEF Local!Decide
<1>3. CASE Local!ReadLast(a)
    BY <1>3 DEF Local!ReadLast
<1>4. CASE Local!Rename(a)
    BY <1>4 DEF Local!Rename
<1>5. CASE Local!ReadRenamed(a)
    BY <1>5 DEF Local!ReadRenamed
<1>6. CASE Local!Remove(a)
    BY <1>6 DEF Local!Remove
<1>7. CASE Local!Die(a)
    BY <1>7 DEF Local!Die
<1>8. QED
    BY <1>1, <1>2, <1>3, <1>4, <1>5, <1>6, <1>7 DEF ConsumeStep

\* The types of what is on the destination.
LEMMA DiskTyped ==
    ASSUME Typed, NEW a \in Attempt,
           OpenPart(a) \/ WriteChunk(a) \/ Replace(a) \/ Abandon(a)
    PROVE  /\ dir' \in [Name -> Attempt \cup {None}]
           /\ content' \in [Attempt -> [1 .. Chunks -> Transfer \cup {None}]]
           /\ fd' \in [Attempt -> Attempt \cup {None}]
           /\ written' \in [Attempt -> 0 .. Chunks]
           /\ pc'[a] \in {"writing", "verified"} => fd'[a] \in Attempt
<1> USE DEF Typed, TypeOK
<1>0. out[a] \in Name /\ Part(a) \in Name /\ of[a] \in Transfer
    BY DEF StageInv, OpenPart, WriteChunk, Replace, Abandon, Part
<1>1. CASE OpenPart(a)
  <2>1. PICK i \in Attempt : /\ dir' = [dir EXCEPT ![Part(a)] = i]
                             /\ content' = [content EXCEPT ![i] = Empty]
                             /\ fd' = [fd EXCEPT ![a] = i]
      BY <1>0, <1>1 DEF OpenPart
  <2>2. Empty \in [1 .. Chunks -> Transfer \cup {None}]
      BY DEF Empty
  <2>3. QED
      BY <1>0, <1>1, <2>1, <2>2 DEF OpenPart
<1>2. CASE WriteChunk(a)
  <2>1. fd[a] \in Attempt /\ written[a] + 1 \in 1 .. Chunks
      BY <1>2 DEF WriteChunk, StageInv
  <2>2. QED
      BY <1>0, <1>2, <2>1 DEF WriteChunk
<1>3. CASE Replace(a)
    BY <1>0, <1>3 DEF Replace
<1>4. CASE Abandon(a)
    BY <1>0, <1>4 DEF Abandon
<1>5. QED
    BY <1>1, <1>2, <1>3, <1>4

LEMMA TypeStep ==
    ASSUME Typed, [Next]_vars
    PROVE  TypeOK'
<1> USE DEF TypeOK
<1>a. TypeOK
    BY DEF Typed
<1>b. UNCHANGED prekeys => Local!TypeOK'
    BY <1>a DEF prekeys, Local!TypeOK
<1>1. CASE Tick
    BY <1>a, <1>b, <1>1 DEF Tick, local, disk
<1>2. ASSUME NEW t \in Transfer, Build(t)
      PROVE  TypeOK'
  <2>1. PICK d \in Skews : stamp' = [stamp EXCEPT ![t] = now + d]
      BY <1>2 DEF Build
  <2>2. now + d \in Int
      BY <1>a, <2>1
  <2>3. QED
      BY <1>a, <1>b, <1>2, <2>1, <2>2 DEF Build, local, disk
<1>3. ASSUME NEW a \in Attempt, NEW t \in Transfer, Begin(a, t)
      PROVE  TypeOK'
  <2>1. overlap' \in BOOLEAN
      BY <1>3, Zenon DEF Begin
  <2>2. QED
      BY <1>a, <1>b, <1>3, <2>1 DEF Begin, disk
<1>4. ASSUME NEW a \in Attempt, RefusePreamble(a) \/ RefuseMetadata(a) \/ VerifyTrailer(a)
      PROVE  TypeOK'
    BY <1>a, <1>b, <1>4 DEF RefusePreamble, RefuseMetadata, VerifyTrailer, disk
<1>5. ASSUME NEW a \in Attempt, CallConsume(a) \/ Consume(a)
      PROVE  TypeOK'
  <2>1. Local!TypeOK'
      BY <1>5, KeysTyped DEF Consume
  <2>2. QED
      BY <1>a, <1>5, <2>1 DEF CallConsume, Consume, disk
<1>6. ASSUME NEW a \in Attempt, RecordNonce(a)
      PROVE  TypeOK'
  <2>1. now + Ttl \in Int
      BY <1>a
  <2>2. QED
      BY <1>a, <1>b, <1>6, <2>1 DEF RecordNonce, disk
<1>7. ASSUME NEW a \in Attempt, ChooseName(a)
      PROVE  TypeOK'
  <2>1. of[a] \in Transfer
      BY <1>7 DEF ChooseName, Typed, StageInv
  <2>2. PICK i \in 1 .. Len(OutNames[of[a]]) :
            out' = [out EXCEPT ![a] = OutNames[of[a]][i]]
      BY <1>7 DEF ChooseName
  <2>3. OutNames[of[a]][i] \in Name
      BY <2>1, <2>2
  <2>4. QED
      BY <1>a, <1>b, <1>7, <2>2, <2>3 DEF ChooseName, disk
<1>8. ASSUME NEW a \in Attempt,
             OpenPart(a) \/ WriteChunk(a) \/ Replace(a) \/ Abandon(a)
      PROVE  TypeOK'
  <2>1. /\ dir' \in [Name -> Attempt \cup {None}]
        /\ content' \in [Attempt -> [1 .. Chunks -> Transfer \cup {None}]]
        /\ fd' \in [Attempt -> Attempt \cup {None}]
        /\ written' \in [Attempt -> 0 .. Chunks]
      BY <1>8, DiskTyped
  <2>2. /\ UNCHANGED <<overlap, now, stamp, prekeys, expiry, of, out>>
        /\ \E q \in {"writing", "verified", "accepted", "lost"} :
               pc' = [pc EXCEPT ![a] = q] \/ pc' = pc
      BY <1>8 DEF OpenPart, WriteChunk, Replace, Abandon, local
  <2>3. QED
      BY <1>a, <1>b, <2>1, <2>2
<1>9. ASSUME NEW a \in Attempt, Die(a)
      PROVE  TypeOK'
  <2>1. Local!TypeOK'
      BY <1>b, <1>9, KeysTyped DEF Die
  <2>2. QED
      BY <1>a, <1>9, <2>1 DEF Die, disk
<1>10. CASE UNCHANGED vars
    BY <1>a, <1>b, <1>10 DEF vars, local, disk
<1>11. QED
    BY <1>1, <1>2, <1>3, <1>4, <1>5, <1>6, <1>7, <1>8, <1>9, <1>10 DEF Next

LEMMA StageStep ==
    ASSUME Typed, [Next]_vars
    PROVE  StageInv'
<1> USE DEF Typed, TypeOK, Local!TypeOK, StageInv
<1>1. CASE Tick
    BY <1>1 DEF Tick, prekeys, local, disk
<1>2. ASSUME NEW t \in Transfer, Build(t)
      PROVE  StageInv'
  <2>1. PICK d \in Skews : stamp' = [stamp EXCEPT ![t] = now + d]
      BY <1>2 DEF Build
  <2>2. now + d # None
      BY <2>1
  <2>3. QED
      BY <1>2, <2>1, <2>2 DEF Build, prekeys, local, disk
<1>3. ASSUME NEW a \in Attempt, NEW t \in Transfer, Begin(a, t)
      PROVE  StageInv'
    BY <1>3 DEF Begin, prekeys, disk
<1>4. ASSUME NEW a \in Attempt, RefusePreamble(a) \/ RefuseMetadata(a) \/ VerifyTrailer(a)
      PROVE  StageInv'
    BY <1>4 DEF RefusePreamble, RefuseMetadata, VerifyTrailer, prekeys, disk
<1>5. ASSUME NEW a \in Attempt, CallConsume(a)
      PROVE  StageInv'
    BY <1>5 DEF CallConsume, Local!Count, disk
<1>6. ASSUME NEW a \in Attempt, Consume(a)
      PROVE  StageInv'
  <2>1. /\ pc[a] = "taking" /\ want' = want
        /\ \E q \in {"reading", "renaming", "reused", "raised", "renamed", "read",
                     "consumed"} : keyPc' = [keyPc EXCEPT ![a] = q]
      BY <1>6 DEF Consume, ConsumeStep, Local!Decide, Local!ReadLast, Local!Rename,
                  Local!ReadRenamed, Local!Remove
  <2>2. QED
      BY <1>6, <2>1 DEF Consume, disk
<1>7. ASSUME NEW a \in Attempt, RecordNonce(a)
      PROVE  StageInv'
    BY <1>7 DEF RecordNonce, prekeys, disk
<1>8. ASSUME NEW a \in Attempt, ChooseName(a)
      PROVE  StageInv'
  <2>1. out'[a] \in Name
    <3>1. of[a] \in Transfer
        BY <1>8 DEF ChooseName
    <3>2. PICK i \in 1 .. Len(OutNames[of[a]]) :
              out' = [out EXCEPT ![a] = OutNames[of[a]][i]]
        BY <1>8 DEF ChooseName
    <3>3. OutNames[of[a]][i] \in Name
        BY <3>1, <3>2
    <3>4. QED
        BY <3>2, <3>3
  <2>2. QED
      BY <1>8, <2>1 DEF ChooseName, prekeys, disk
<1>9. ASSUME NEW a \in Attempt,
             OpenPart(a) \/ WriteChunk(a) \/ Replace(a) \/ Abandon(a)
      PROVE  StageInv'
  <2>1. pc'[a] \in {"writing", "verified"} => fd'[a] \in Attempt
      BY <1>9, DiskTyped
  <2>2. /\ UNCHANGED <<stamp, prekeys, of, out>>
        /\ pc[a] \in {"named", "writing", "verified"}
        /\ \A b \in Attempt \ {a} : fd'[b] = fd[b] /\ pc'[b] = pc[b]
        /\ pc'[a] \in {"writing", "accepted", "lost"}
      BY <1>9 DEF OpenPart, WriteChunk, Replace, Abandon, local
  <2>3. QED
      BY <2>1, <2>2 DEF prekeys
<1>10. ASSUME NEW a \in Attempt, Die(a)
      PROVE  StageInv'
  <2>1. CASE Local!Active(a)
      BY <1>10, <2>1 DEF Die, Active, Local!Active, Local!Die, disk
  <2>2. CASE ~Local!Active(a)
      BY <1>10, <2>2 DEF Die, Active, Local!Active, prekeys, disk
  <2>3. QED
      BY <2>1, <2>2
<1>11. CASE UNCHANGED vars
    BY <1>11 DEF vars, prekeys, local, disk
<1>12. QED
    BY <1>1, <1>2, <1>3, <1>4, <1>5, <1>6, <1>7, <1>8, <1>9, <1>10, <1>11 DEF Next

\* The variables keep their types, and every attempt is where its calls are.
LEMMA Typing == Spec => []Typed
<1>1. Typed /\ [Next]_vars => Typed'
    BY TypeStep, StageStep DEF Typed
<1>2. QED
    BY <1>1, InitTyped, PTL DEF Spec

-----------------------------------------------------------------------------
(* consume_prekey.                                                          *)

\* The prekey files are handled as LocalPrekeys says, for every behaviour of
\* the receiver.
LEMMA KeyStep ==
    ASSUME Typed, [Next]_vars
    PROVE  [Local!Next]_(Local!vars)
<1>1. ASSUME NEW a \in Attempt, CallConsume(a)
      PROVE  Local!Next
  <2>1. PrekeyOf[of[a]] \in Prekey
      BY <1>1 DEF CallConsume, Typed, StageInv
  <2>2. QED
      BY <1>1, <2>1 DEF CallConsume, Local!Next
<1>2. ASSUME NEW a \in Attempt, Consume(a)
      PROVE  Local!Next
    BY <1>2 DEF Consume, ConsumeStep, Local!Next
<1>3. ASSUME NEW a \in Attempt, Die(a)
      PROVE  Local!Next \/ UNCHANGED Local!vars
    BY <1>3 DEF Die, prekeys, Local!Next, Local!vars
<1>4. CASE UNCHANGED prekeys
    BY <1>4 DEF prekeys, Local!vars
<1>5. QED
    BY <1>1, <1>2, <1>3, <1>4
    DEF Next, vars, Tick, Build, Begin, RefusePreamble, RecordNonce, RefuseMetadata,
        ChooseName, OpenPart, WriteChunk, VerifyTrailer, Replace, Abandon

\* Where a call that asked for a prekey stands, and what became of the file.
KeyInv ==
    \A a \in Attempt :
        /\ keyPc[a] # "idle" => want[a] \in Prekey
        /\ keyPc[a] \in {"reading", "reused"} => isLast[a]
        /\ keyPc[a] \in {"renamed", "read"} => keyFile[want[a]] = "used"
        /\ keyPc[a] = "consumed" => keyFile[want[a]] = "gone"
        /\ keyPc[a] \in {"renamed", "read", "consumed"} =>
              \A b \in Attempt : b # a /\ want[b] = want[a] =>
                  keyPc[b] \notin {"renamed", "read", "consumed"}

\* A prekey file that is not there any more was renamed by a call for it.
TakenInv ==
    \A k \in Prekey :
        /\ keyFile[k] = "used" =>
              \E a \in Attempt : want[a] = k /\ keyPc[a] \in {"renamed", "read", "dead"}
        /\ keyFile[k] = "gone" =>
              \E a \in Attempt : want[a] = k /\ keyPc[a] = "consumed"

LEMMA KeyInvStep ==
    ASSUME Local!TypeOK, KeyInv, TakenInv, [Local!Next]_(Local!vars)
    PROVE  KeyInv' /\ TakenInv'
<1> USE DEF Local!TypeOK
<1>1. ASSUME NEW a \in Attempt, NEW k \in Prekey, Local!Count(a, k)
      PROVE  KeyInv' /\ TakenInv'
    BY <1>1 DEF KeyInv, TakenInv, Local!Count
<1>2. ASSUME NEW a \in Attempt, Local!Decide(a)
      PROVE  KeyInv' /\ TakenInv'
    BY <1>2 DEF KeyInv, TakenInv, Local!Decide
<1>3. ASSUME NEW a \in Attempt, Local!ReadLast(a)
      PROVE  KeyInv' /\ TakenInv'
    BY <1>3 DEF KeyInv, TakenInv, Local!ReadLast
<1>4. ASSUME NEW a \in Attempt, Local!Rename(a)
      PROVE  KeyInv' /\ TakenInv'
  <2>1. KeyInv'
      BY <1>4 DEF KeyInv, Local!Rename
  <2>2. TakenInv'
      BY <1>4 DEF KeyInv, TakenInv, Local!Rename
  <2>3. QED
      BY <2>1, <2>2
<1>5. ASSUME NEW a \in Attempt, Local!ReadRenamed(a)
      PROVE  KeyInv' /\ TakenInv'
    BY <1>5 DEF KeyInv, TakenInv, Local!ReadRenamed
<1>6. ASSUME NEW a \in Attempt, Local!Remove(a)
      PROVE  KeyInv' /\ TakenInv'
  <2>1. KeyInv'
      BY <1>6 DEF KeyInv, Local!Remove
  <2>2. TakenInv'
      BY <1>6 DEF KeyInv, TakenInv, Local!Remove
  <2>3. QED
      BY <2>1, <2>2
<1>7. ASSUME NEW a \in Attempt, Local!Die(a)
      PROVE  KeyInv' /\ TakenInv'
    BY <1>7 DEF KeyInv, TakenInv, Local!Die, Local!Active
<1>8. CASE UNCHANGED Local!vars
    BY <1>8 DEF KeyInv, TakenInv, Local!vars
<1>9. QED
    BY <1>1, <1>2, <1>3, <1>4, <1>5, <1>6, <1>7, <1>8 DEF Local!Next

LEMMA Keys == Spec => [](Typed /\ KeyInv /\ TakenInv)
<1>1. Init => KeyInv /\ TakenInv
    BY DEF Init, Local!Init, KeyInv, TakenInv
<1>2. Typed /\ KeyInv /\ TakenInv /\ [Next]_vars => (KeyInv /\ TakenInv)'
    BY KeyStep, KeyInvStep DEF Typed, TypeOK
<1>3. QED
    BY <1>1, <1>2, Typing, PTL DEF Spec

\* The attempts of any number of processes use the prekey directory as calls of
\* consume_prekey do: the receiver implements LocalPrekeys.
THEOREM PrekeysAreLocalPrekeys == Spec => Local!Spec
<1>1. Init => Local!Init
    BY DEF Init
<1>2. QED
    BY <1>1, KeyStep, Typing, PTL DEF Spec, Local!Spec

\* No two attempts consume one prekey file, a key is shared as the last resort
\* only, and key material is left by an attempt at work or killed there only.
THEOREM PrekeysAreTakenOnce == Spec => []PrekeyTakenOnce
<1>1. ASSUME Typed, KeyInv, TakenInv
      PROVE  PrekeyTakenOnce
  <2>1. Local!ConsumedOnce
      BY <1>1 DEF KeyInv, Local!ConsumedOnce
  <2>2. Local!SharedOnlyAsLastResort
      BY <1>1 DEF KeyInv, Local!SharedOnlyAsLastResort
  <2>3. Local!ResidueAccounted
      BY <1>1 DEF TakenInv, Local!ResidueAccounted
  <2>4. QED
      BY <2>1, <2>2, <2>3 DEF PrekeyTakenOnce
<1>2. QED
    BY <1>1, Keys, PTL

-----------------------------------------------------------------------------
(* One attempt at a time.                                                   *)

\* Of attempts that never overlap at most one is under way.
Solo == ~overlap => \A a, b \in Attempt : Active(a) /\ Active(b) => a = b

LEMMA SoloStep ==
    ASSUME Typed, Solo, [Next]_vars
    PROVE  Solo'
<1>0. pc \in [Attempt -> {"idle", "begun", "taking", "keyed", "fresh", "named", "writing",
                          "verified", "accepted", "refused", "lost", "dead"}]
    BY DEF Typed, TypeOK
<1>1. ASSUME NEW a \in Attempt, NEW t \in Transfer, Begin(a, t)
      PROVE  Solo'
  <2>1. ~overlap' => ~overlap /\ \A b \in Attempt : ~Active(b)
      BY <1>1, Zenon DEF Begin
  <2>2. pc' = [pc EXCEPT ![a] = "begun"]
      BY <1>1 DEF Begin
  <2>3. \A b \in Attempt : Active(b)' => b = a \/ Active(b)
      BY <1>0, <2>2 DEF Active
  <2>4. QED
      BY <2>1, <2>3 DEF Solo
<1>2. ASSUME overlap' = overlap,
             \A b \in Attempt : Active(b)' => Active(b)
      PROVE  Solo'
    BY <1>2 DEF Solo
<1>3. ASSUME NEW a \in Attempt,
             \/ RefusePreamble(a) \/ CallConsume(a) \/ Consume(a) \/ RecordNonce(a)
             \/ RefuseMetadata(a) \/ ChooseName(a) \/ OpenPart(a) \/ VerifyTrailer(a)
             \/ Replace(a) \/ Abandon(a) \/ Die(a)
      PROVE  Solo'
  <2>1. /\ overlap' = overlap /\ Active(a)
        /\ \A b \in Attempt \ {a} : pc'[b] = pc[b]
      BY <1>0, <1>3 DEF RefusePreamble, CallConsume, Consume, RecordNonce, RefuseMetadata,
                        ChooseName, OpenPart, VerifyTrailer, Replace, Abandon, Die, Active
  <2>2. QED
      BY <1>2, <2>1 DEF Active
<1>4. CASE UNCHANGED <<pc, overlap>>
    BY <1>2, <1>4 DEF Active
<1>5. ASSUME NEW a \in Attempt, WriteChunk(a)
      PROVE  Solo'
    BY <1>4, <1>5 DEF WriteChunk, local
<1>6. (Tick \/ (\E t \in Transfer : Build(t)) \/ UNCHANGED vars) => UNCHANGED <<pc, overlap>>
    BY DEF Tick, Build, vars, local
<1>7. QED
    BY <1>1, <1>3, <1>4, <1>5, <1>6, Zenon DEF Next

\* What an attempt that is alone counted in the directory is still so when it
\* renames: it renames the file it asked for only if another one is there.
CountInv ==
    ~overlap =>
        /\ Local!LastResortKept
        /\ \A a \in Attempt :
              /\ keyPc[a] \in {"counted", "renaming"} /\ ~isLast[a] => ~Local!AtMostOneOnDisk
              /\ keyPc[a] = "renaming" /\ keyFile[want[a]] = "key" => ~isLast[a]

LEMMA CountStep ==
    ASSUME Typed, KeyInv, Solo, CountInv, [Next]_vars
    PROVE  CountInv'
<1> SUFFICES ASSUME ~overlap'
             PROVE  CountInv'
    BY DEF CountInv
<1> USE DEF Local!OnDisk
<1>0. /\ keyPc \in [Attempt -> {"idle", "counted", "reading", "renaming", "renamed", "read",
                                "reused", "consumed", "raised", "dead"}]
      /\ keyFile \in [Prekey -> {"key", "used", "gone"}]
      /\ want \in [Attempt -> Prekey \cup {None}]
      /\ isLast \in [Attempt -> BOOLEAN]
    BY DEF Typed, TypeOK, Local!TypeOK
<1>1. ~overlap
    BY Zenon
    DEF Next, vars, Tick, Build, Begin, RefusePreamble, CallConsume, Consume, RecordNonce,
        RefuseMetadata, ChooseName, OpenPart, WriteChunk, VerifyTrailer, Replace, Abandon, Die
<1>2. \A a, b \in Attempt : /\ pc[a] = "taking" /\ keyPc[b] \in {"counted", "renaming"}
                            => a = b
  <2>1. \A b \in Attempt : keyPc[b] \in {"counted", "renaming"} => pc[b] = "taking"
      BY DEF Typed, TypeOK, StageInv
  <2>2. QED
      BY <1>1, <2>1 DEF Solo, Active
<1>3. CASE UNCHANGED prekeys
    BY <1>1, <1>3 DEF CountInv, prekeys, Local!LastResortKept, Local!AtMostOneOnDisk
<1>4. ASSUME NEW a \in Attempt, CallConsume(a)
      PROVE  CountInv'
    BY <1>0, <1>1, <1>4
    DEF CountInv, CallConsume, Local!Count, Local!LastResortKept, Local!AtMostOneOnDisk
<1>5. ASSUME NEW a \in Attempt, Consume(a)
      PROVE  CountInv'
  <2>1. pc[a] = "taking"
      BY <1>5 DEF Consume
  <2>2. CASE Local!Decide(a)
      BY <1>0, <1>1, <2>2
      DEF CountInv, Local!Decide, Local!LastResortKept, Local!AtMostOneOnDisk
  <2>3. CASE Local!ReadLast(a) \/ Local!ReadRenamed(a)
      BY <1>0, <1>1, <2>3
      DEF CountInv, Local!ReadLast, Local!ReadRenamed, Local!LastResortKept,
          Local!AtMostOneOnDisk
  <2>4. CASE Local!Rename(a)
    <3>1. keyPc[a] = "renaming" /\ want[a] \in Prekey
        BY <2>4 DEF Local!Rename, KeyInv
    <3>2. \A b \in Attempt : keyPc'[b] \notin {"counted", "renaming"}
        BY <1>0, <1>2, <2>1, <2>4 DEF Local!Rename
    <3>3. Local!LastResortKept'
      <4>1. CASE keyFile[want[a]] = "key"
        <5>1. ~Local!AtMostOneOnDisk
            BY <1>1, <3>1, <4>1 DEF CountInv
        <5>2. PICK k \in Prekey : k # want[a] /\ keyFile[k] = "key"
            BY <5>1 DEF Local!AtMostOneOnDisk
        <5>3. keyFile'[k] = "key"
            BY <1>0, <2>4, <5>2 DEF Local!Rename
        <5>4. QED
            BY <5>3 DEF Local!LastResortKept
      <4>2. CASE keyFile[want[a]] # "key"
          BY <1>1, <2>4, <4>2 DEF Local!Rename, CountInv, Local!LastResortKept
      <4>3. QED
          BY <4>1, <4>2
    <3>4. QED
        BY <3>2, <3>3 DEF CountInv
  <2>5. CASE Local!Remove(a)
    <3>1. keyPc[a] = "read" /\ want[a] \in Prekey /\ keyFile[want[a]] = "used"
        BY <2>5 DEF Local!Remove, KeyInv
    <3>2. Local!OnDisk' = Local!OnDisk
        BY <1>0, <2>5, <3>1 DEF Local!Remove
    <3>3. \A b \in Attempt : keyPc'[b] \notin {"counted", "renaming"}
        BY <1>0, <1>2, <2>1, <2>5 DEF Local!Remove
    <3>4. QED
        BY <1>1, <3>2, <3>3 DEF CountInv, Local!LastResortKept
  <2>6. QED
      BY <1>5, <2>2, <2>3, <2>4, <2>5 DEF Consume, ConsumeStep
<1>6. ASSUME NEW a \in Attempt, Die(a)
      PROVE  CountInv'
  <2>1. CASE Local!Die(a)
      BY <1>0, <1>1, <2>1
      DEF CountInv, Local!Die, Local!LastResortKept, Local!AtMostOneOnDisk
  <2>2. QED
      BY <1>3, <1>6, <2>1 DEF Die
<1>7. CASE UNCHANGED vars
    BY <1>3, <1>7 DEF vars
<1>8. QED
    BY <1>3, <1>4, <1>5, <1>6, <1>7
    DEF Next, Tick, Build, Begin, RefusePreamble, RecordNonce, RefuseMetadata, ChooseName,
        OpenPart, WriteChunk, VerifyTrailer, Replace, Abandon

LEMMA Solos == Spec => []Solo
<1>1. Init => Solo
    BY DEF Init, Solo, Active
<1>2. Typed /\ Solo /\ [Next]_vars => Solo'
    BY SoloStep
<1>3. QED
    BY <1>1, <1>2, Typing, PTL DEF Spec

\* A user whose decryptions never overlap keeps a prekey file to receive with,
\* whichever of them fail or are killed.
THEOREM LastKeysAreKept == Spec => []LastKeyKept
<1>1. Init => CountInv
    BY DEF Init, CountInv, Local!Init, Local!LastResortKept, Local!OnDisk
<1>2. Typed /\ KeyInv /\ Solo /\ CountInv /\ [Next]_vars => CountInv'
    BY CountStep
<1>3. CountInv => LastKeyKept
    BY DEF CountInv, LastKeyKept
<1>4. QED
    BY <1>1, <1>2, <1>3, Keys, Solos, PTL DEF Spec

-----------------------------------------------------------------------------
(* Nonces.                                                                  *)

\* The sender's clock is not so far ahead that the transfer is stamped with the
\* tick of its receipt or a later one.
ClocksBehind == \A d \in Skews : d < 0

\* Attempts that recorded the nonce of their transfer and are not refused since.
Recorded(a) == pc[a] \in {"fresh", "named", "writing", "verified", "accepted"}

\* A recorded nonce outlives the TTL of its transfer, and while it is there no
\* other attempt records it.
NonceInv ==
    /\ \A t \in Transfer : stamp[t] # None => stamp[t] < now
    /\ \A t \in Transfer : expiry[t] # None =>
          stamp[t] # None /\ expiry[t] > stamp[t] + Ttl
    /\ \A a \in Attempt : Recorded(a) =>
          expiry[of[a]] # None \/ now > stamp[of[a]] + Ttl
    /\ \A a, b \in Attempt : Recorded(a) /\ Recorded(b) /\ of[a] = of[b] => a = b

LEMMA NonceStep ==
    ASSUME ClocksBehind, Typed, NonceInv, [Next]_vars
    PROVE  NonceInv'
<1> USE DEF Typed, TypeOK, Recorded
<1>1. CASE Tick
  <2>1. now' = now + 1 /\ UNCHANGED <<stamp, expiry, pc, of>>
      BY <1>1 DEF Tick, local
  <2>2. \A t \in Transfer : stamp[t] # None => stamp[t] \in Int
      OBVIOUS
  <2>3. \A a \in Attempt : Recorded(a) => of[a] \in Transfer /\ stamp[of[a]] # None
      BY DEF StageInv
  <2>4. \A a \in Attempt : Recorded(a) /\ now > stamp[of[a]] + Ttl =>
            now' > stamp'[of'[a]] + Ttl
      BY <2>1, <2>2, <2>3
  <2>5. \A t \in Transfer : stamp'[t] # None => stamp'[t] < now'
      BY <2>1, <2>2 DEF NonceInv
  <2>6. QED
      BY <2>1, <2>4, <2>5 DEF NonceInv
<1>2. ASSUME NEW t \in Transfer, Build(t)
      PROVE  NonceInv'
  <2>1. PICK d \in Skews : stamp' = [stamp EXCEPT ![t] = now + d]
      BY <1>2 DEF Build
  <2>2. d \in Int /\ d < 0
      BY DEF ClocksBehind
  <2>3. expiry[t] = None
      BY <1>2 DEF Build, NonceInv
  <2>4. \A a \in Attempt : Recorded(a) => of[a] \in Transfer /\ of[a] # t
      BY <1>2 DEF Build, StageInv
  <2>5. QED
      BY <1>2, <2>1, <2>2, <2>3, <2>4 DEF Build, NonceInv, local
<1>3. ASSUME NEW a \in Attempt, NEW t \in Transfer, Begin(a, t)
      PROVE  NonceInv'
    BY <1>3 DEF Begin, NonceInv
<1>4. ASSUME NEW a \in Attempt, RecordNonce(a)
      PROVE  NonceInv'
  <2> DEFINE t == of[a]
  <2>1. /\ t \in Transfer /\ stamp[t] # None
        /\ now <= stamp[t] + Ttl /\ ~Live(t)
        /\ UNCHANGED <<now, stamp, of>>
        /\ pc' = [pc EXCEPT ![a] = "fresh"]
        /\ expiry' = [u \in Transfer |-> IF u = t THEN now + Ttl
                                         ELSE IF Live(u) THEN expiry[u] ELSE None]
      BY <1>4 DEF RecordNonce, InTime, StageInv
  <2>2. \A u \in Transfer : stamp[u] # None => stamp[u] \in Int
      OBVIOUS
  <2>3. \A u \in Transfer : expiry[u] # None => expiry[u] \in Int
      OBVIOUS
  <2>4. \A b \in Attempt : Recorded(b) => of[b] \in Transfer /\ stamp[of[b]] # None
      BY DEF StageInv
  <2>5. \A b \in Attempt : Recorded(b) => of[b] # t
    <3>1. ASSUME NEW b \in Attempt, Recorded(b), of[b] = t
          PROVE  FALSE
      <4>1. expiry[t] # None /\ expiry[t] > stamp[t] + Ttl
          BY <2>1, <2>2, <3>1 DEF NonceInv
      <4>2. expiry[t] <= now
          BY <2>1, <2>3, <4>1 DEF Live
      <4>3. QED
          BY <2>1, <2>2, <2>3, <4>1, <4>2
    <3>2. QED
        BY <3>1
  <2>6. \A u \in Transfer : stamp'[u] # None => stamp'[u] < now'
      BY <2>1 DEF NonceInv
  <2>7. \A u \in Transfer : expiry'[u] # None =>
            stamp'[u] # None /\ expiry'[u] > stamp'[u] + Ttl
      BY <2>1, <2>2 DEF NonceInv
  <2>8. ASSUME NEW b \in Attempt, Recorded(b)'
        PROVE  expiry'[of'[b]] # None \/ now' > stamp'[of'[b]] + Ttl
    <3>1. CASE b = a
        BY <2>1, <3>1
    <3>2. CASE b # a
      <4>1. Recorded(b) /\ of[b] \in Transfer /\ stamp[of[b]] \in Int
          BY <2>1, <2>2, <2>4, <2>8, <3>2
      <4>2. expiry[of[b]] # None => expiry[of[b]] \in Int /\ expiry[of[b]] > stamp[of[b]] + Ttl
          BY <4>1, <2>3 DEF NonceInv
      <4>3. expiry[of[b]] # None \/ now > stamp[of[b]] + Ttl
          BY <4>1 DEF NonceInv
      <4>4. CASE Live(of[b])
          BY <2>1, <2>5, <4>1, <4>4 DEF Live
      <4>5. CASE ~Live(of[b])
          BY <2>1, <4>1, <4>2, <4>3, <4>5 DEF Live
      <4>6. QED
          BY <4>4, <4>5
    <3>3. QED
        BY <3>1, <3>2
  <2>9. ASSUME NEW b \in Attempt, NEW c \in Attempt, Recorded(b)', Recorded(c)',
               of'[b] = of'[c]
        PROVE  b = c
      BY <2>1, <2>5, <2>9 DEF NonceInv
  <2>10. QED
      BY <2>6, <2>7, <2>8, <2>9 DEF NonceInv
<1>5. CASE /\ UNCHANGED <<now, stamp, expiry, of>>
           /\ \A a \in Attempt : Recorded(a)' => Recorded(a)
    BY <1>5 DEF NonceInv
<1>6. ASSUME NEW a \in Attempt, Consume(a)
      PROVE  /\ UNCHANGED <<now, stamp, expiry, of>>
             /\ \A b \in Attempt : Recorded(b)' => Recorded(b)
    BY <1>6 DEF Consume
<1>7. ASSUME NEW a \in Attempt,
             \/ RefusePreamble(a) \/ CallConsume(a) \/ RefuseMetadata(a) \/ ChooseName(a)
             \/ OpenPart(a) \/ WriteChunk(a) \/ VerifyTrailer(a) \/ Replace(a)
             \/ Abandon(a) \/ Die(a)
      PROVE  /\ UNCHANGED <<now, stamp, expiry, of>>
             /\ \A b \in Attempt : Recorded(b)' => Recorded(b)
    BY <1>7 DEF RefusePreamble, CallConsume, RefuseMetadata, ChooseName, OpenPart,
                WriteChunk, VerifyTrailer, Replace, Abandon, Die, local
<1>8. CASE UNCHANGED vars
    BY <1>5, <1>8 DEF vars, local
<1>9. QED
    BY <1>1, <1>2, <1>3, <1>4, <1>5, <1>6, <1>7, <1>8 DEF Next

\* A transfer is delivered once: the nonce is forgotten only when the TTL has
\* passed.  It takes a clock that is behind: the last tick at which the TTL
\* accepts a transfer is the first without the nonce of one received in the
\* tick of its stamp.
THEOREM TransfersAreAcceptedOnce ==
    ASSUME ClocksBehind
    PROVE  Spec => []AcceptedOnce
<1>1. Init => NonceInv
    BY DEF Init, NonceInv, Recorded
<1>2. Typed /\ NonceInv /\ [Next]_vars => NonceInv'
    BY NonceStep
<1>3. NonceInv => AcceptedOnce
    BY DEF NonceInv, AcceptedOnce, Recorded
<1>4. QED
    BY <1>1, <1>2, <1>3, Typing, PTL DEF Spec

-----------------------------------------------------------------------------
(* Losses.                                                                  *)

\* Of no two transfers the directory gave out the same prekey: OneFilePerPrekey
\* of KdcPrekeys.
PrekeysDiffer == \A t, u \in Transfer : PrekeyOf[t] = PrekeyOf[u] => t = u

\* A nonce was recorded by an attempt that had the prekey.
NonceAccounted ==
    \A t \in Transfer : expiry[t] # None =>
        \E a \in Attempt : of[a] = t /\ (Recorded(a) \/ pc[a] \in {"lost", "dead"})

LEMMA NonceAccountedStep ==
    ASSUME Typed, NonceAccounted, [Next]_vars
    PROVE  NonceAccounted'
<1> USE DEF Recorded
<1>0. pc \in [Attempt -> {"idle", "begun", "taking", "keyed", "fresh", "named", "writing",
                          "verified", "accepted", "refused", "lost", "dead"}]
    BY DEF Typed, TypeOK
<1>1. ASSUME NEW a \in Attempt, RecordNonce(a)
      PROVE  NonceAccounted'
  <2>1. \A t \in Transfer : expiry'[t] # None => t = of[a] \/ expiry[t] # None
      BY <1>1 DEF RecordNonce
  <2>2. of' = of /\ pc' = [pc EXCEPT ![a] = "fresh"]
      BY <1>1 DEF RecordNonce
  <2>3. QED
      BY <1>0, <2>1, <2>2 DEF NonceAccounted
<1>2. ASSUME NEW a \in Attempt, of'[a] = of[a] \/ pc[a] = "idle",
             pc[a] \in {"lost", "dead"} \/ Recorded(a) =>
                 pc'[a] \in {"lost", "dead"} \/ Recorded(a)',
             \A b \in Attempt \ {a} : of'[b] = of[b] /\ pc'[b] = pc[b],
             expiry' = expiry
      PROVE  NonceAccounted'
    BY <1>0, <1>2 DEF NonceAccounted
<1>3. ASSUME NEW a \in Attempt, NEW t \in Transfer, Begin(a, t)
      PROVE  NonceAccounted'
    BY <1>0, <1>2, <1>3 DEF Begin, Typed, TypeOK
<1>a. ASSUME NEW a \in Attempt, RefusePreamble(a) \/ CallConsume(a) \/ Consume(a)
      PROVE  NonceAccounted'
  <2>1. /\ pc[a] \in {"begun", "taking"} /\ of' = of /\ expiry' = expiry
        /\ \A b \in Attempt \ {a} : pc'[b] = pc[b]
      BY <1>0, <1>a DEF RefusePreamble, CallConsume, Consume
  <2>2. QED
      BY <1>2, <2>1
<1>b. ASSUME NEW a \in Attempt,
             \/ RefuseMetadata(a) \/ ChooseName(a) \/ OpenPart(a) \/ VerifyTrailer(a)
             \/ Replace(a) \/ Abandon(a) \/ Die(a)
      PROVE  NonceAccounted'
  <2>1. /\ of' = of /\ expiry' = expiry
        /\ pc[a] \notin {"lost", "dead"}
        /\ \E q \in {"lost", "named", "writing", "verified", "accepted", "dead"} :
               pc' = [pc EXCEPT ![a] = q]
      BY <1>b DEF RefuseMetadata, ChooseName, OpenPart, VerifyTrailer, Replace, Abandon,
                  Die, Active
  <2>2. QED
      BY <1>0, <1>2, <2>1
<1>c. ASSUME NEW a \in Attempt, WriteChunk(a)
      PROVE  NonceAccounted'
    BY <1>2, <1>c DEF WriteChunk, local
<1>4. CASE UNCHANGED <<expiry, pc, of>>
    BY <1>4 DEF NonceAccounted
<1>5. QED
    BY <1>1, <1>3, <1>4, <1>a, <1>b, <1>c DEF Next, vars, Tick, Build, local

\* A transfer whose prekey or nonce is spent was delivered, is being decrypted,
\* or was lost in an attempt that had taken the prekey.
THEOREM LossesAreAccounted ==
    ASSUME PrekeysDiffer
    PROVE  Spec => []LossAccounted
<1>1. Init => NonceAccounted
    BY DEF Init, NonceAccounted
<1>2. ASSUME Typed, KeyInv, TakenInv, NonceAccounted
      PROVE  LossAccounted
  <2>1. ASSUME NEW t \in Transfer, keyFile[PrekeyOf[t]] # "key"
        PROVE  \E a \in Attempt : of[a] = t /\ pc[a] \notin {"idle", "begun", "refused"}
    <3>1. PICK a \in Attempt : /\ want[a] = PrekeyOf[t]
                               /\ keyPc[a] \in {"renamed", "read", "dead", "consumed"}
      <4>1. PrekeyOf[t] \in Prekey /\ keyFile[PrekeyOf[t]] \in {"used", "gone"}
          BY <1>2, <2>1 DEF Typed, TypeOK, Local!TypeOK
      <4>2. QED
          BY <1>2, <4>1 DEF TakenInv
    <3>2. pc[a] \notin {"idle", "begun", "refused"} /\ of[a] \in Transfer
        BY <1>2, <3>1 DEF Typed, StageInv
    <3>3. of[a] = t
        BY <1>2, <3>1, <3>2 DEF Typed, StageInv, PrekeysDiffer
    <3>4. QED
        BY <3>2, <3>3
  <2>2. ASSUME NEW t \in Transfer, expiry[t] # None
        PROVE  \E a \in Attempt : of[a] = t /\ pc[a] \notin {"idle", "begun", "refused"}
      BY <1>2, <2>2 DEF NonceAccounted, Recorded
  <2>3. QED
      BY <2>1, <2>2 DEF LossAccounted
<1>3. Typed /\ NonceAccounted /\ [Next]_vars => NonceAccounted'
    BY NonceAccountedStep
<1>4. QED
    BY <1>1, <1>2, <1>3, Keys, PTL DEF Spec

-----------------------------------------------------------------------------
(* Files.                                                                   *)

\* The attempt a is why there is a file of name n.
Explains(a, n) ==
    \/ pc[a] = "accepted" /\ out[a] = n
    \/ pc[a] \in {"writing", "verified", "dead"} /\ out[a] # None /\ Part(a) = n

Explained == \A n \in Name : dir[n] # None => \E a \in Attempt : Explains(a, n)

LEMMA ExplainedStep ==
    ASSUME Typed, Explained, [Next]_vars
    PROVE  Explained'
<1> USE DEF Explains, Part
<1>0. /\ pc \in [Attempt -> {"idle", "begun", "taking", "keyed", "fresh", "named",
                             "writing", "verified", "accepted", "refused", "lost", "dead"}]
      /\ out \in [Attempt -> Name \cup {None}]
      /\ dir \in [Name -> Attempt \cup {None}]
      /\ \A a \in Attempt : pc[a] \in {"named", "writing", "verified"} =>
            out[a] \in Name /\ Part(a) \in Name
    BY DEF Typed, TypeOK, StageInv
<1>1. ASSUME NEW a \in Attempt, dir' = dir,
             \A n \in Name : dir[n] # None /\ Explains(a, n) => Explains(a, n)',
             \A b \in Attempt \ {a} : pc'[b] = pc[b] /\ out'[b] = out[b]
      PROVE  Explained'
  <2>1. \A b \in Attempt, n \in Name : dir[n] # None /\ Explains(b, n) => Explains(b, n)'
      BY <1>1
  <2>2. QED
      BY <1>1, <2>1 DEF Explained
<1>2. ASSUME NEW a \in Attempt,
             \/ \E t \in Transfer : Begin(a, t)
             \/ RefusePreamble(a) \/ CallConsume(a) \/ Consume(a) \/ RecordNonce(a)
             \/ RefuseMetadata(a)
      PROVE  Explained'
  <2>1. /\ pc[a] \in {"idle", "begun", "taking", "keyed", "fresh"}
        /\ \A b \in Attempt \ {a} : pc'[b] = pc[b]
        /\ out' = out /\ dir' = dir
      BY <1>0, <1>2 DEF Begin, RefusePreamble, CallConsume, Consume, RecordNonce,
                        RefuseMetadata, disk
  <2>2. QED
      BY <1>1, <2>1
<1>3. ASSUME NEW a \in Attempt, ChooseName(a)
      PROVE  Explained'
  <2>1. /\ pc[a] = "fresh" /\ dir' = dir
        /\ \A b \in Attempt \ {a} : pc'[b] = pc[b] /\ out'[b] = out[b]
      BY <1>0, <1>3 DEF ChooseName, disk
  <2>2. QED
      BY <1>1, <2>1
<1>4. ASSUME NEW a \in Attempt, OpenPart(a)
      PROVE  Explained'
  <2>1. /\ Part(a) \in Name /\ pc[a] = "named" /\ out[a] # None
        /\ out' = out /\ pc' = [pc EXCEPT ![a] = "writing"]
        /\ \A n \in Name \ {Part(a)} : dir'[n] = dir[n]
      BY <1>0, <1>4 DEF OpenPart
  <2>2. Explains(a, Part(a))'
      BY <1>0, <2>1
  <2>3. \A b \in Attempt, n \in Name : Explains(b, n) => Explains(b, n)'
      BY <1>0, <2>1
  <2>4. QED
      BY <2>1, <2>2, <2>3 DEF Explained
<1>5. ASSUME NEW a \in Attempt, WriteChunk(a) \/ VerifyTrailer(a) \/ Die(a)
      PROVE  Explained'
  <2>1. /\ dir' = dir /\ out' = out
        /\ \/ pc' = pc
           \/ pc' = [pc EXCEPT ![a] = "verified"] /\ pc[a] = "writing"
           \/ pc' = [pc EXCEPT ![a] = "dead"] /\ pc[a] # "accepted"
      BY <1>5 DEF WriteChunk, VerifyTrailer, Die, Active, local, disk
  <2>2. QED
      BY <1>0, <1>1, <2>1
<1>6. ASSUME NEW a \in Attempt, Replace(a)
      PROVE  Explained'
  <2>1. /\ pc[a] = "verified" /\ out' = out /\ out[a] \in Name /\ Part(a) \in Name
      BY <1>0, <1>6 DEF Replace
  <2>2. CASE dir[Part(a)] # None
    <3>1. /\ pc' = [pc EXCEPT ![a] = "accepted"]
          /\ dir' = IF Part(a) = out[a] THEN dir
                    ELSE [dir EXCEPT ![out[a]] = dir[Part(a)], ![Part(a)] = None]
        BY <1>6, <2>2 DEF Replace
    <3>2. Explains(a, out[a])'
        BY <1>0, <2>1, <3>1
    <3>3. \A n \in Name \ {out[a]} : dir'[n] # None => dir[n] # None /\ n # Part(a)
        BY <1>0, <2>1, <3>1
    <3>4. \A b \in Attempt, n \in Name : n # Part(a) /\ Explains(b, n) => Explains(b, n)'
        BY <1>0, <2>1, <3>1
    <3>5. ASSUME NEW n \in Name, dir'[n] # None
          PROVE  \E b \in Attempt : Explains(b, n)'
      <4>1. CASE n = out[a]
          BY <2>1, <3>2, <4>1
      <4>2. CASE n # out[a]
        <5>1. PICK b \in Attempt : Explains(b, n)
            BY <3>3, <3>5, <4>2 DEF Explained
        <5>2. QED
            BY <3>3, <3>4, <3>5, <4>2, <5>1
      <4>3. QED
          BY <4>1, <4>2
    <3>6. QED
        BY <3>5 DEF Explained
  <2>3. CASE dir[Part(a)] = None
    <3>1. pc' = [pc EXCEPT ![a] = "lost"] /\ dir' = dir
        BY <1>6, <2>3 DEF Replace
    <3>2. QED
        BY <1>0, <1>1, <2>1, <2>3, <3>1
  <2>4. QED
      BY <2>2, <2>3
<1>7. ASSUME NEW a \in Attempt, Abandon(a)
      PROVE  Explained'
  <2>1. /\ pc[a] = "writing" /\ out' = out
        /\ pc' = [pc EXCEPT ![a] = "lost"]
        /\ dir' = [dir EXCEPT ![Part(a)] = None]
      BY <1>7 DEF Abandon
  <2>2. \A n \in Name : dir'[n] # None => dir[n] # None /\ n # Part(a)
      BY <1>0, <2>1
  <2>3. \A b \in Attempt, n \in Name : n # Part(a) /\ Explains(b, n) => Explains(b, n)'
      BY <1>0, <2>1
  <2>4. QED
      BY <2>2, <2>3 DEF Explained
<1>8. CASE UNCHANGED <<pc, out, dir>>
    BY <1>8 DEF Explained
<1>9. QED
  <2>1. Tick \/ (\E t \in Transfer : Build(t)) \/ UNCHANGED vars => UNCHANGED <<pc, out, dir>>
      BY DEF Tick, Build, vars, local, disk
  <2>2. QED
      BY <1>2, <1>3, <1>4, <1>5, <1>6, <1>7, <1>8, <2>1, Zenon DEF Next

\* Every file in the destination was delivered, or is the part file of an
\* attempt that still writes it or was killed; a failed one leaves none.
THEOREM FilesAreAccounted == Spec => []PartsAccounted
<1>1. Init => Explained
    BY DEF Init, Explained
<1>2. Typed /\ Explained /\ [Next]_vars => Explained'
    BY ExplainedStep
<1>3. Typed /\ Explained => PartsAccounted
    BY DEF Typed, Explained, Explains, PartsAccounted
<1>4. QED
    BY <1>1, <1>2, <1>3, Typing, PTL DEF Spec

\* n is a name that the plaintext of some transfer may be delivered to.
IsOut(n) == \E t \in Transfer : \E i \in 1 .. Len(OutNames[t]) : n = OutNames[t][i]

\* No file is delivered to a name that is the part file of another.
NamesApart == \A m, n \in Name : IsOut(m) /\ IsOut(n) => PartOf[m] # n

\* What an attempt has chosen and written where it stands.
ProgressInv ==
    \A a \in Attempt :
        /\ pc[a] \in {"named", "writing", "verified", "accepted"} => IsOut(out[a])
        /\ pc[a] \in {"idle", "begun", "taking", "keyed", "fresh", "named"} =>
              written[a] = 0
        /\ pc[a] = "verified" => written[a] = Chunks

LEMMA ProgressStep ==
    ASSUME Typed, ProgressInv, [Next]_vars
    PROVE  ProgressInv'
<1> USE DEF ProgressInv
<1>0. /\ pc \in [Attempt -> {"idle", "begun", "taking", "keyed", "fresh", "named",
                             "writing", "verified", "accepted", "refused", "lost", "dead"}]
      /\ out \in [Attempt -> Name \cup {None}]
      /\ written \in [Attempt -> 0 .. Chunks]
    BY DEF Typed, TypeOK
<1>1. ASSUME NEW a \in Attempt,
             \/ \E t \in Transfer : Begin(a, t)
             \/ RefusePreamble(a) \/ CallConsume(a) \/ Consume(a) \/ RecordNonce(a)
      PROVE  ProgressInv'
  <2>1. /\ pc[a] \in {"idle", "begun", "taking", "keyed"}
        /\ pc'[a] \in {"begun", "taking", "keyed", "fresh", "refused"}
        /\ \A b \in Attempt \ {a} : pc'[b] = pc[b]
        /\ out' = out /\ written' = written
      BY <1>0, <1>1 DEF Begin, RefusePreamble, CallConsume, Consume, RecordNonce, disk
  <2>2. QED
      BY <1>0, <2>1
<1>2. ASSUME NEW a \in Attempt,
             RefuseMetadata(a) \/ OpenPart(a) \/ VerifyTrailer(a) \/ Replace(a)
             \/ Abandon(a) \/ Die(a)
      PROVE  ProgressInv'
  <2>1. /\ out' = out /\ written' = written
        /\ \/ pc' = [pc EXCEPT ![a] = "lost"] \/ pc' = [pc EXCEPT ![a] = "dead"]
           \/ pc' = [pc EXCEPT ![a] = "writing"] /\ pc[a] = "named"
           \/ pc' = [pc EXCEPT ![a] = "verified"] /\ pc[a] = "writing"
              /\ written[a] = Chunks
           \/ pc' = [pc EXCEPT ![a] = "accepted"] /\ pc[a] = "verified"
      BY <1>2 DEF RefuseMetadata, OpenPart, VerifyTrailer, TrailerVerified, Replace,
                  Abandon, Die, disk
  <2>2. QED
      BY <1>0, <2>1
<1>3. ASSUME NEW a \in Attempt, ChooseName(a)
      PROVE  ProgressInv'
  <2>1. of[a] \in Transfer
      BY <1>3 DEF ChooseName, Typed, StageInv
  <2>2. PICK i \in 1 .. Len(OutNames[of[a]]) :
            out' = [out EXCEPT ![a] = OutNames[of[a]][i]]
      BY <1>3 DEF ChooseName
  <2>3. IsOut(out'[a])
      BY <1>0, <2>1, <2>2 DEF IsOut
  <2>4. /\ pc' = [pc EXCEPT ![a] = "named"] /\ written' = written /\ pc[a] = "fresh"
        /\ \A b \in Attempt \ {a} : out'[b] = out[b]
      BY <1>0, <1>3, <2>2 DEF ChooseName, disk
  <2>5. QED
      BY <1>0, <2>3, <2>4
<1>4. ASSUME NEW a \in Attempt, WriteChunk(a)
      PROVE  ProgressInv'
    BY <1>0, <1>4 DEF WriteChunk, local
<1>5. CASE UNCHANGED <<pc, out, written>>
    BY <1>5
<1>6. (Tick \/ (\E t \in Transfer : Build(t)) \/ UNCHANGED vars) =>
          UNCHANGED <<pc, out, written>>
    BY DEF Tick, Build, vars, local, disk
<1>7. QED
    BY <1>1, <1>2, <1>3, <1>4, <1>5, <1>6, Zenon DEF Next

\* As long as no attempts overlap every file has an inode of its own, the part
\* file of the attempt under way is the one it has open, with the chunks it
\* wrote, and the files delivered are whole.
KeptInv ==
    /\ \A m, n \in Name : dir[m] # None /\ dir[m] = dir[n] => m = n
    /\ \A n \in Name : dir[n] # None =>
          pc[dir[n]] \in {"writing", "verified", "accepted", "lost", "dead"}
    /\ \A a \in Attempt :
          /\ pc[a] \in {"named", "writing", "verified"} => dir[out[a]] = None
          /\ pc[a] \in {"writing", "verified"} =>
                /\ dir[Part(a)] = fd[a]
                /\ \A i \in 1 .. written[a] : content[fd[a]][i] = of[a]
          /\ pc[a] = "accepted" =>
                dir[out[a]] # None /\ content[dir[out[a]]] = Full(of[a])

\* The steps that leave the destination alone and choose no name.
LEMMA KeptElsewhere ==
    ASSUME Typed, KeptInv, NEW a \in Attempt,
           UNCHANGED <<dir, content, fd, written, out>>,
           \A b \in Attempt \ {a} : pc'[b] = pc[b] /\ of'[b] = of[b],
           of'[a] = of[a] \/ pc[a] = "idle",
           \/ /\ pc[a] \in {"idle", "begun", "taking", "keyed", "fresh"}
              /\ pc'[a] \in {"begun", "taking", "keyed", "fresh", "refused", "lost", "dead"}
           \/ pc[a] = "writing" /\ pc'[a] = "verified"
           \/ pc[a] # "accepted" /\ pc'[a] = "dead"
    PROVE  KeptInv'
<1>0. /\ pc \in [Attempt -> {"idle", "begun", "taking", "keyed", "fresh", "named",
                             "writing", "verified", "accepted", "refused", "lost", "dead"}]
      /\ dir \in [Name -> Attempt \cup {None}]
    BY DEF Typed, TypeOK
<1>1. \A m, n \in Name : dir'[m] # None /\ dir'[m] = dir'[n] => m = n
    BY DEF KeptInv
<1>2. \A n \in Name : dir'[n] # None =>
          pc'[dir'[n]] \in {"writing", "verified", "accepted", "lost", "dead"}
    BY <1>0 DEF KeptInv
<1>3. ASSUME NEW b \in Attempt
      PROVE  /\ pc'[b] \in {"named", "writing", "verified"} => dir'[out'[b]] = None
             /\ pc'[b] \in {"writing", "verified"} =>
                   /\ dir'[Part(b)'] = fd'[b]
                   /\ \A i \in 1 .. written'[b] : content'[fd'[b]][i] = of'[b]
             /\ pc'[b] = "accepted" =>
                   dir'[out'[b]] # None /\ content'[dir'[out'[b]]] = Full(of'[b])
  <2>1. CASE b = a
      BY <1>0, <2>1 DEF KeptInv, Part
  <2>2. CASE b # a
      BY <1>0, <2>2 DEF KeptInv, Part
  <2>3. QED
      BY <2>1, <2>2
<1>4. QED
    BY <1>1, <1>2, <1>3 DEF KeptInv, Full

LEMMA KeptStep ==
    ASSUME NamesApart, Typed, ProgressInv, Solo, ~overlap, KeptInv, [Next]_vars
    PROVE  KeptInv'
<1>0. /\ pc \in [Attempt -> {"idle", "begun", "taking", "keyed", "fresh", "named",
                             "writing", "verified", "accepted", "refused", "lost", "dead"}]
      /\ out \in [Attempt -> Name \cup {None}]
      /\ dir \in [Name -> Attempt \cup {None}]
      /\ content \in [Attempt -> [1 .. Chunks -> Transfer \cup {None}]]
      /\ fd \in [Attempt -> Attempt \cup {None}]
      /\ written \in [Attempt -> 0 .. Chunks]
    BY DEF Typed, TypeOK
<1>s. \A a, b \in Attempt : Active(a) /\ Active(b) => a = b
    BY DEF Solo
<1>p. ASSUME NEW a \in Attempt, pc[a] \in {"named", "writing", "verified"}
      PROVE  /\ out[a] \in Name /\ Part(a) \in Name /\ Part(a) # out[a]
             /\ \A b \in Attempt : pc[b] = "accepted" =>
                    out[b] \in Name /\ out[b] # Part(a) /\ out[b] # out[a]
  <2>1. out[a] \in Name /\ IsOut(out[a])
      BY <1>p DEF Typed, StageInv, ProgressInv
  <2>2. \A b \in Attempt : pc[b] = "accepted" => out[b] \in Name /\ IsOut(out[b])
      BY DEF Typed, StageInv, ProgressInv
  <2>3. QED
      BY <1>p, <2>1, <2>2 DEF NamesApart, Part, KeptInv
<1>q. ASSUME NEW a \in Attempt, NEW b \in Attempt, b # a, Active(a)
      PROVE  pc[b] \notin {"named", "writing", "verified"}
    BY <1>s, <1>q DEF Active
<1>1. ASSUME NEW a \in Attempt,
             \/ \E t \in Transfer : Begin(a, t)
             \/ RefusePreamble(a) \/ CallConsume(a) \/ Consume(a) \/ RecordNonce(a)
             \/ RefuseMetadata(a)
      PROVE  KeptInv'
  <2>1. /\ UNCHANGED <<dir, content, fd, written, out>>
        /\ \A b \in Attempt \ {a} : pc'[b] = pc[b] /\ of'[b] = of[b]
        /\ of'[a] = of[a] \/ pc[a] = "idle"
        /\ pc[a] \in {"idle", "begun", "taking", "keyed", "fresh"}
        /\ pc'[a] \in {"begun", "taking", "keyed", "fresh", "refused", "lost"}
    <3>1. of \in [Attempt -> Transfer \cup {None}]
        BY DEF Typed, TypeOK
    <3>2. QED
        BY <1>0, <1>1, <3>1 DEF Begin, RefusePreamble, CallConsume, Consume, RecordNonce,
                                RefuseMetadata, disk
  <2>2. QED
      BY <2>1, KeptElsewhere
<1>2. ASSUME NEW a \in Attempt, VerifyTrailer(a) \/ Die(a)
      PROVE  KeptInv'
  <2>1. /\ UNCHANGED <<dir, content, fd, written, out, of>>
        /\ \/ pc[a] = "writing" /\ pc' = [pc EXCEPT ![a] = "verified"]
           \/ pc[a] # "accepted" /\ pc' = [pc EXCEPT ![a] = "dead"]
      BY <1>2 DEF VerifyTrailer, Die, Active, disk
  <2>2. QED
      BY <1>0, <2>1, KeptElsewhere
<1>3. ASSUME NEW a \in Attempt, ChooseName(a)
      PROVE  KeptInv'
  <2>1. PICK i \in 1 .. Len(OutNames[of[a]]) :
            Free(of[a], i) /\ out' = [out EXCEPT ![a] = OutNames[of[a]][i]]
      BY <1>3 DEF ChooseName
  <2>2. /\ pc[a] = "fresh" /\ pc' = [pc EXCEPT ![a] = "named"]
        /\ UNCHANGED <<dir, content, fd, written, of>>
      BY <1>3 DEF ChooseName, disk
  <2>3. dir'[out'[a]] = None
      BY <1>0, <2>1, <2>2 DEF Free
  <2>4. \A b \in Attempt \ {a} : out'[b] = out[b] /\ pc'[b] = pc[b]
      BY <1>0, <2>1, <2>2
  <2>5. \A n \in Name : dir'[n] # None =>
            pc'[dir'[n]] \in {"writing", "verified", "accepted", "lost", "dead"}
      BY <1>0, <2>2 DEF KeptInv
  <2>6. pc'[a] = "named"
      BY <1>0, <2>2
  <2>7. ASSUME NEW b \in Attempt
        PROVE  /\ pc'[b] \in {"named", "writing", "verified"} => dir'[out'[b]] = None
               /\ pc'[b] \in {"writing", "verified"} =>
                     /\ dir'[Part(b)'] = fd'[b]
                     /\ \A j \in 1 .. written'[b] : content'[fd'[b]][j] = of'[b]
               /\ pc'[b] = "accepted" =>
                     dir'[out'[b]] # None /\ content'[dir'[out'[b]]] = Full(of'[b])
    <3>1. CASE b = a
        BY <2>3, <2>6, <3>1
    <3>2. CASE b # a
      <4>1. Part(b)' = Part(b)
          BY <2>4, <3>2 DEF Part
      <4>2. QED
          BY <2>2, <2>4, <3>2, <4>1 DEF KeptInv
    <3>3. QED
        BY <3>1, <3>2
  <2>8. \A m, n \in Name : dir'[m] # None /\ dir'[m] = dir'[n] => m = n
      BY <2>2 DEF KeptInv
  <2>9. QED
      BY <2>5, <2>7, <2>8 DEF KeptInv, Full
<1>4. ASSUME NEW a \in Attempt, OpenPart(a)
      PROVE  KeptInv'
  <2> DEFINE inode == IF dir[Part(a)] = None THEN a ELSE dir[Part(a)]
  <2>1. /\ pc[a] = "named" /\ pc' = [pc EXCEPT ![a] = "writing"]
        /\ dir' = [dir EXCEPT ![Part(a)] = inode]
        /\ content' = [content EXCEPT ![inode] = Empty]
        /\ fd' = [fd EXCEPT ![a] = inode]
        /\ UNCHANGED <<of, out, written>>
      BY <1>4 DEF OpenPart
  <2>2. /\ out[a] \in Name /\ Part(a) \in Name /\ Part(a) # out[a]
        /\ \A b \in Attempt : pc[b] = "accepted" => out[b] \in Name /\ out[b] # Part(a)
      BY <1>p, <2>1
  <2>3. inode \in Attempt /\ \A n \in Name : n # Part(a) => dir[n] # inode
    <3>1. CASE dir[Part(a)] = None
      <4>1. \A n \in Name : dir[n] # a
          BY <1>0, <2>1 DEF KeptInv
      <4>2. QED
          BY <3>1, <4>1
    <3>2. CASE dir[Part(a)] # None
      <4>1. inode = dir[Part(a)] /\ inode \in Attempt
          BY <1>0, <2>2, <3>2
      <4>2. QED
          BY <2>2, <3>2, <4>1 DEF KeptInv
    <3>3. QED
        BY <3>1, <3>2
  <2> HIDE DEF inode
  <2>4. \A m, n \in Name : dir'[m] # None /\ dir'[m] = dir'[n] => m = n
      BY <1>0, <2>1, <2>2, <2>3 DEF KeptInv
  <2>5. \A n \in Name : dir'[n] # None =>
            pc'[dir'[n]] \in {"writing", "verified", "accepted", "lost", "dead"}
    <3>1. pc'[inode] \in {"writing", "verified", "accepted", "lost", "dead"}
        BY <1>0, <2>1, <2>2, <2>3 DEF KeptInv, inode
    <3>2. QED
        BY <1>0, <2>1, <2>2, <2>3, <3>1 DEF KeptInv
  <2>6. /\ pc'[a] = "writing" /\ dir'[out'[a]] = None /\ dir'[Part(a)] = fd'[a]
        /\ written'[a] = 0
      BY <1>0, <2>1, <2>2 DEF KeptInv, ProgressInv
  <2>7. ASSUME NEW b \in Attempt, b # a
        PROVE  /\ pc'[b] \notin {"named", "writing", "verified"}
               /\ pc'[b] = "accepted" =>
                     dir'[out'[b]] # None /\ content'[dir'[out'[b]]] = Full(of'[b])
    <3>1. pc'[b] = pc[b] /\ pc[b] \notin {"named", "writing", "verified"}
        BY <1>0, <1>q, <2>1, <2>7 DEF Active
    <3>2. ASSUME pc[b] = "accepted"
          PROVE  dir'[out[b]] = dir[out[b]] /\ content'[dir[out[b]]] = content[dir[out[b]]]
      <4>1. out[b] \in Name /\ out[b] # Part(a) /\ dir[out[b]] # None
          BY <2>2, <3>2 DEF KeptInv
      <4>2. dir[out[b]] \in Attempt /\ dir[out[b]] # inode
          BY <1>0, <2>3, <4>1
      <4>3. QED
          BY <1>0, <2>1, <2>2, <2>3, <4>1, <4>2
    <3>3. ASSUME pc[b] = "accepted"
          PROVE  dir'[out'[b]] # None /\ content'[dir'[out'[b]]] = Full(of'[b])
      <4>1. dir[out[b]] # None /\ content[dir[out[b]]] = Full(of[b])
          BY <3>3 DEF KeptInv
      <4>2. out'[b] = out[b] /\ of'[b] = of[b]
          BY <2>1
      <4>3. QED
          BY <3>2, <3>3, <4>1, <4>2
    <3>4. QED
        BY <3>1, <3>3
  <2>8. QED
    <3>1. \A b \in Attempt : Part(b)' = Part(b)
        BY <2>1 DEF Part
    <3>2. ASSUME NEW b \in Attempt
          PROVE  /\ pc'[b] \in {"named", "writing", "verified"} => dir'[out'[b]] = None
                 /\ pc'[b] \in {"writing", "verified"} =>
                       /\ dir'[Part(b)'] = fd'[b]
                       /\ \A i \in 1 .. written'[b] : content'[fd'[b]][i] = of'[b]
                 /\ pc'[b] = "accepted" =>
                       dir'[out'[b]] # None /\ content'[dir'[out'[b]]] = Full(of'[b])
        BY <2>6, <2>7, <3>1
    <3>3. QED
        BY <2>4, <2>5, <3>2 DEF KeptInv, Full
<1>5. ASSUME NEW a \in Attempt, WriteChunk(a)
      PROVE  KeptInv'
  <2>1. /\ pc[a] = "writing" /\ UNCHANGED <<pc, of, out, dir, fd>>
        /\ content' = [content EXCEPT ![fd[a]][written[a] + 1] = of[a]]
        /\ written' = [written EXCEPT ![a] = @ + 1]
        /\ written[a] < Chunks
      BY <1>5 DEF WriteChunk, local
  <2>2. /\ Part(a) \in Name /\ Part(a) # out[a]
        /\ \A b \in Attempt : pc[b] = "accepted" => out[b] \in Name /\ out[b] # Part(a)
      BY <1>p, <2>1
  <2>3. fd[a] \in Attempt /\ dir[Part(a)] = fd[a] /\ of[a] \in Transfer
      BY <2>1 DEF KeptInv, Typed, StageInv
  <2>4. written'[a] = written[a] + 1 /\ written[a] + 1 \in 1 .. Chunks
      BY <1>0, <2>1
  <2>5. \A i \in 1 .. written'[a] : content'[fd'[a]][i] = of'[a]
    <3>1. \A i \in 1 .. written[a] : content[fd[a]][i] = of[a]
        BY <2>1 DEF KeptInv
    <3>2. content'[fd[a]] = [content[fd[a]] EXCEPT ![written[a] + 1] = of[a]]
        BY <1>0, <2>1, <2>3
    <3>3. \A i \in 1 .. Chunks : content'[fd[a]][i] =
              IF i = written[a] + 1 THEN of[a] ELSE content[fd[a]][i]
        BY <1>0, <2>3, <2>4, <3>2
    <3>4. QED
        BY <1>0, <2>1, <2>4, <3>1, <3>3
  <2>6. ASSUME NEW b \in Attempt, pc[b] = "accepted"
        PROVE  content'[dir[out[b]]] = content[dir[out[b]]]
    <3>1. /\ dir[out[b]] \in Attempt
          /\ out[b] \in Name /\ out[b] # Part(a)
        BY <1>0, <2>2, <2>6 DEF KeptInv
    <3>2. dir[out[b]] # fd[a]
        BY <2>2, <2>3, <3>1 DEF KeptInv
    <3>3. QED
        BY <1>0, <2>1, <3>1, <3>2
  <2>7. \A b \in Attempt : Part(b)' = Part(b)
      BY <2>1 DEF Part
  <2>8. ASSUME NEW b \in Attempt
        PROVE  /\ pc'[b] \in {"named", "writing", "verified"} => dir'[out'[b]] = None
               /\ pc'[b] \in {"writing", "verified"} =>
                     /\ dir'[Part(b)'] = fd'[b]
                     /\ \A i \in 1 .. written'[b] : content'[fd'[b]][i] = of'[b]
               /\ pc'[b] = "accepted" =>
                     dir'[out'[b]] # None /\ content'[dir'[out'[b]]] = Full(of'[b])
    <3>1. CASE b = a
        BY <2>1, <2>3, <2>5, <2>7, <3>1 DEF KeptInv
    <3>2. CASE b # a
      <4>1. pc[b] \notin {"named", "writing", "verified"}
          BY <1>q, <2>1, <3>2 DEF Active
      <4>2. QED
          BY <2>1, <2>6, <4>1 DEF KeptInv
    <3>3. QED
        BY <3>1, <3>2
  <2>9. QED
    <3>1. /\ \A m, n \in Name : dir'[m] # None /\ dir'[m] = dir'[n] => m = n
          /\ \A n \in Name : dir'[n] # None =>
                pc'[dir'[n]] \in {"writing", "verified", "accepted", "lost", "dead"}
        BY <2>1 DEF KeptInv
    <3>2. QED
        BY <2>8, <3>1 DEF KeptInv, Full
<1>6. ASSUME NEW a \in Attempt, Replace(a)
      PROVE  KeptInv'
  <2>1. /\ pc[a] = "verified" /\ UNCHANGED <<of, out, content, fd, written>>
        /\ written[a] = Chunks /\ fd[a] \in Attempt /\ of[a] \in Transfer
      BY <1>6 DEF Replace, ProgressInv, Typed, StageInv
  <2>2. /\ out[a] \in Name /\ Part(a) \in Name /\ Part(a) # out[a]
        /\ \A b \in Attempt : pc[b] = "accepted" =>
               out[b] \in Name /\ out[b] # Part(a) /\ out[b] # out[a]
      BY <1>p, <2>1
  <2>3. /\ dir[out[a]] = None /\ dir[Part(a)] = fd[a]
        /\ \A i \in 1 .. Chunks : content[fd[a]][i] = of[a]
      BY <2>1 DEF KeptInv
  <2>4. /\ pc' = [pc EXCEPT ![a] = "accepted"]
        /\ dir' = [dir EXCEPT ![out[a]] = fd[a], ![Part(a)] = None]
      BY <1>6, <2>1, <2>2, <2>3 DEF Replace
  <2>5. content[fd[a]] = Full(of[a])
    <3>1. content[fd[a]] \in [1 .. Chunks -> Transfer \cup {None}]
        BY <1>0, <2>1
    <3>2. QED
        BY <2>3, <3>1 DEF Full
  <2>6. \A m, n \in Name : dir'[m] # None /\ dir'[m] = dir'[n] => m = n
      BY <1>0, <2>2, <2>3, <2>4 DEF KeptInv
  <2>7. \A n \in Name : dir'[n] # None =>
            pc'[dir'[n]] \in {"writing", "verified", "accepted", "lost", "dead"}
    <3>1. \A n \in Name : dir'[n] # None => \E m \in Name : dir[m] # None /\ dir'[n] = dir[m]
        BY <1>0, <2>1, <2>2, <2>3, <2>4
    <3>2. \A m \in Name : dir[m] # None =>
              pc'[dir[m]] \in {"writing", "verified", "accepted", "lost", "dead"}
        BY <1>0, <2>4 DEF KeptInv
    <3>3. QED
        BY <3>1, <3>2
  <2>8. ASSUME NEW b \in Attempt
        PROVE  /\ pc'[b] \notin {"named", "writing", "verified"}
               /\ pc'[b] = "accepted" =>
                     dir'[out'[b]] # None /\ content'[dir'[out'[b]]] = Full(of'[b])
    <3>1. CASE b = a
        BY <1>0, <2>1, <2>2, <2>4, <2>5, <3>1
    <3>2. CASE b # a
      <4>1. pc'[b] = pc[b] /\ pc[b] \notin {"named", "writing", "verified"}
          BY <1>0, <1>q, <2>1, <2>4, <3>2 DEF Active
      <4>2. pc[b] = "accepted" => dir'[out[b]] = dir[out[b]]
          BY <1>0, <2>2, <2>4
      <4>3. QED
          BY <2>1, <4>1, <4>2 DEF KeptInv
    <3>3. QED
        BY <3>1, <3>2
  <2>9. QED
      BY <2>6, <2>7, <2>8 DEF KeptInv, Full
<1>7. ASSUME NEW a \in Attempt, Abandon(a)
      PROVE  KeptInv'
  <2>1. /\ pc[a] = "writing" /\ UNCHANGED <<of, out, content, fd, written>>
        /\ pc' = [pc EXCEPT ![a] = "lost"]
        /\ dir' = [dir EXCEPT ![Part(a)] = None]
      BY <1>7 DEF Abandon
  <2>2. /\ Part(a) \in Name
        /\ \A b \in Attempt : pc[b] = "accepted" => out[b] \in Name /\ out[b] # Part(a)
      BY <1>p, <2>1
  <2>3. \A n \in Name : dir'[n] # None => dir'[n] = dir[n] /\ dir[n] \in Attempt
      BY <1>0, <2>1, <2>2
  <2>4. ASSUME NEW b \in Attempt
        PROVE  /\ pc'[b] \notin {"named", "writing", "verified"}
               /\ pc'[b] = "accepted" =>
                     dir'[out'[b]] # None /\ content'[dir'[out'[b]]] = Full(of'[b])
    <3>1. CASE b = a
        BY <1>0, <2>1, <3>1
    <3>2. CASE b # a
      <4>1. pc'[b] = pc[b] /\ pc[b] \notin {"named", "writing", "verified"}
          BY <1>0, <1>q, <2>1, <3>2 DEF Active
      <4>2. pc[b] = "accepted" => dir'[out[b]] = dir[out[b]]
          BY <1>0, <2>1, <2>2
      <4>3. QED
          BY <2>1, <4>1, <4>2 DEF KeptInv
    <3>3. QED
        BY <3>1, <3>2
  <2>5. \A m, n \in Name : dir'[m] # None /\ dir'[m] = dir'[n] => m = n
      BY <2>3 DEF KeptInv
  <2>6. \A n \in Name : dir'[n] # None =>
            pc'[dir'[n]] \in {"writing", "verified", "accepted", "lost", "dead"}
      BY <1>0, <2>1, <2>3 DEF KeptInv
  <2>7. QED
      BY <2>4, <2>5, <2>6 DEF KeptInv, Full
<1>8. CASE UNCHANGED <<pc, of, out, dir, content, fd, written>>
    BY <1>8 DEF KeptInv, Part, Full
<1>9. (Tick \/ (\E t \in Transfer : Build(t)) \/ UNCHANGED vars) =>
          UNCHANGED <<pc, of, out, dir, content, fd, written>>
    BY DEF Tick, Build, vars, local, disk
<1>10. QED
    BY <1>1, <1>2, <1>3, <1>4, <1>5, <1>6, <1>7, <1>8, <1>9, Zenon DEF Next

LEMMA OverlapStays == ASSUME [Next]_vars, overlap PROVE overlap'
    BY Zenon
    DEF Next, vars, Tick, Build, Begin, RefusePreamble, CallConsume, Consume, RecordNonce,
        RefuseMetadata, ChooseName, OpenPart, WriteChunk, VerifyTrailer, Replace, Abandon, Die

\* While attempts are made one at a time a delivered file is, and remains, the
\* whole plaintext of its transfer.  It takes a sender who names no file
\* x.part: that of a transfer x.pdf truncates it.
THEOREM DeliveriesAreKept ==
    ASSUME NamesApart
    PROVE  Spec => []DeliveredKept
<1>1. Init => ProgressInv /\ KeptInv
    BY DEF Init, ProgressInv, KeptInv
<1>2. Typed /\ ProgressInv /\ [Next]_vars => ProgressInv'
    BY ProgressStep
<1>3. Typed /\ ProgressInv /\ Solo /\ (~overlap => KeptInv) /\ [Next]_vars
      => (~overlap => KeptInv)'
    BY KeptStep, OverlapStays
<1>4. (~overlap => KeptInv) => DeliveredKept
    BY DEF KeptInv, DeliveredKept
<1>5. QED
    BY <1>1, <1>2, <1>3, <1>4, Typing, Solos, PTL DEF Spec
=============================================================================
