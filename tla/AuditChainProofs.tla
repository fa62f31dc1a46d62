-------------------------- MODULE AuditChainProofs --------------------------
(***************************************************************************)
(* Proofs about AuditChain, for any number of appends, any page size, any  *)
(* damage and any length of the log.                                       *)
(***************************************************************************)
EXTENDS AuditChain, FiniteSetTheorems, SequenceTheorems, TLAPS

USE WriterAssumption, StampsAssumption, PageAssumption, DamageAssumption

Row(H) == [event : Writer \cup {"altered"}, timestamp : Stamps, previous_hash : H,
           current_hash : H, bad : BOOLEAN]

\* The log is a sequence of rows, with whatever values as hashes.
IsLog == \E H : log \in Seq(Row(H))

Rows == 1 .. Len(log)

\* The hash before row i of a log.
Before(s, i) == IF i = 1 THEN Genesis ELSE s[i - 1].current_hash

-----------------------------------------------------------------------------
(* What the actions on the log do to it, row by row.                        *)

LEMMA LogIsSequence ==
    ASSUME IsLog
    PROVE  /\ Len(log) \in Nat
           /\ log = [i \in Rows |-> log[i]]
           /\ \A i \in Rows : log[i].event \in Writer \cup {"altered"}
                              /\ log[i].timestamp \in Stamps /\ log[i].bad \in BOOLEAN
           /\ log = <<>> <=> Len(log) = 0
<1>1. PICK H : log \in Seq(Row(H))
    BY DEF IsLog
<1>2. \A i \in Rows : log[i] \in Row(H)
    BY <1>1 DEF Rows
<1>3. \A i \in Rows : log[i].bad \in BOOLEAN
    BY <1>2 DEF Row
<1>4. QED
    BY <1>1, <1>2, <1>3 DEF Row, Rows

LEMMA CommitRows ==
    ASSUME IsLog, NEW w \in Writer, NEW t \in Stamps, CommitBlock(w, t)
    PROVE  /\ IsLog'
           /\ Len(log') = Len(log) + 1
           /\ \A i \in Rows : log'[i] = log[i]
           /\ log'[Len(log) + 1] =
                 [event |-> w, timestamp |-> t, previous_hash |-> snap[w],
                  current_hash |-> Hash(w, PythonText(t), snap[w]), bad |-> FALSE]
<1> DEFINE hash == Hash(w, PythonText(t), snap[w])
<1> DEFINE row == [event |-> w, timestamp |-> t, previous_hash |-> snap[w],
                   current_hash |-> hash, bad |-> FALSE]
<1>1. log' = Append(log, row)
    BY DEF CommitBlock
<1>2. PICK H : log \in Seq(Row(H))
    BY DEF IsLog
<1>3. row \in Row(H \cup {snap[w], hash})
    BY DEF Row
<1>4. Row(H) \subseteq Row(H \cup {snap[w], hash})
    BY DEF Row
<1> HIDE DEF row, hash
<1>5. log \in Seq(Row(H \cup {snap[w], hash}))
    BY <1>2, <1>4, SeqMonotonic
<1>6. log' \in Seq(Row(H \cup {snap[w], hash}))
    BY <1>1, <1>3, <1>5
<1>7. /\ Len(log') = Len(log) + 1
      /\ \A i \in Rows : log'[i] = log[i]
      /\ log'[Len(log) + 1] = row
    BY <1>1, <1>3, <1>5 DEF Rows
<1>8. IsLog'
    BY <1>6 DEF IsLog
<1>9. QED
    BY <1>7, <1>8 DEF row, hash

LEMMA AlterRows ==
    ASSUME IsLog, NEW i \in Rows, AlterRow(i)
    PROVE  /\ IsLog'
           /\ Len(log') = Len(log)
           /\ \A j \in Rows :
                 /\ log'[j].timestamp = log[j].timestamp
                 /\ log'[j].previous_hash = log[j].previous_hash
                 /\ log'[j].current_hash = log[j].current_hash
                 /\ log'[j].event = IF j = i THEN "altered" ELSE log[j].event
                 /\ j # i => log'[j] = log[j]
<1>1. PICK H : log \in Seq(Row(H))
    BY DEF IsLog
<1>2. log' = [log EXCEPT ![i] = [log[i] EXCEPT !.event = "altered", !.bad = TRUE]]
    BY <1>1 DEF AlterRow, Rows, Row
<1>3. [log[i] EXCEPT !.event = "altered", !.bad = TRUE] \in Row(H)
  <2>1. log[i] \in Row(H)
      BY <1>1 DEF Rows
  <2>2. [log[i] EXCEPT !.event = "altered"] \in Row(H)
      BY <2>1 DEF Row
  <2>3. [[log[i] EXCEPT !.event = "altered"] EXCEPT !.bad = TRUE] \in Row(H)
      BY <2>2 DEF Row
  <2>4. QED
      BY <2>3
<1>4. log' \in Seq(Row(H)) /\ Len(log') = Len(log)
    BY <1>1, <1>2, <1>3 DEF Rows
<1>5. ASSUME NEW j \in Rows
      PROVE  /\ log'[j].timestamp = log[j].timestamp
             /\ log'[j].previous_hash = log[j].previous_hash
             /\ log'[j].current_hash = log[j].current_hash
             /\ log'[j].event = IF j = i THEN "altered" ELSE log[j].event
             /\ j # i => log'[j] = log[j]
  <2>1. log[j] \in Row(H)
      BY <1>1 DEF Rows
  <2>2. log'[j] = IF j = i THEN [log[i] EXCEPT !.event = "altered", !.bad = TRUE] ELSE log[j]
      BY <1>1, <1>2 DEF Rows
  <2>3. QED
      BY <2>1, <2>2 DEF Row
<1>6. QED
    BY <1>4, <1>5 DEF IsLog

LEMMA DeleteRows ==
    ASSUME IsLog, NEW i \in Rows, DeleteRow(i)
    PROVE  /\ IsLog' /\ i < Len(log)
           /\ Len(log') = Len(log) - 1
           /\ \A j \in 1 .. Len(log) - 1 :
                 LET k == IF j < i THEN j ELSE j + 1 IN
                 /\ log'[j].event = log[k].event
                 /\ log'[j].timestamp = log[k].timestamp
                 /\ log'[j].previous_hash = log[k].previous_hash
                 /\ log'[j].current_hash = log[k].current_hash
                 /\ j # i => log'[j] = log[k]
<1>1. PICK H : log \in Seq(Row(H))
    BY DEF IsLog
<1>2. /\ i < Len(log)
      /\ log' = [j \in 1 .. Len(log) - 1 |->
                    IF j < i THEN log[j]
                    ELSE IF j = i THEN [log[i + 1] EXCEPT !.bad = TRUE]
                    ELSE log[j + 1]]
    BY DEF DeleteRow
<1>3. i + 1 \in Rows /\ log[i + 1] \in Row(H)
    BY <1>1, <1>2 DEF Rows
<1>4. [log[i + 1] EXCEPT !.bad = TRUE] \in Row(H)
    BY <1>3 DEF Row
<1>5. \A j \in 1 .. Len(log) - 1 : log'[j] \in Row(H)
    BY <1>1, <1>2, <1>4 DEF Rows
<1>6. log' \in Seq(Row(H)) /\ Len(log') = Len(log) - 1
  <2>1. Len(log) - 1 \in Nat
      BY <1>1, <1>2 DEF Rows
  <2>2. log' \in [1 .. Len(log) - 1 -> Row(H)]
      BY <1>2, <1>5
  <2>3. QED
      BY <2>1, <2>2
<1>7. ASSUME NEW j \in 1 .. Len(log) - 1
      PROVE  LET k == IF j < i THEN j ELSE j + 1 IN
             /\ log'[j].event = log[k].event
             /\ log'[j].timestamp = log[k].timestamp
             /\ log'[j].previous_hash = log[k].previous_hash
             /\ log'[j].current_hash = log[k].current_hash
             /\ j # i => log'[j] = log[k]
  <2>1. CASE j = i
    <3>1. log'[j] = [log[i + 1] EXCEPT !.bad = TRUE]
        BY <1>2, <2>1
    <3>2. QED
        BY <1>3, <2>1, <3>1 DEF Row, Rows
  <2>2. CASE j # i
      BY <1>2, <2>2 DEF Rows
  <2>3. QED
      BY <2>1, <2>2
<1>8. QED
    BY <1>2, <1>6, <1>7 DEF IsLog

-----------------------------------------------------------------------------
(* Types.                                                                   *)

LEMMA NextMultiple ==
    ASSUME NEW o \in Nat, o % PageSize = 0
    PROVE  (o + PageSize) % PageSize = 0
<1> DEFINE k == o \div PageSize
<1>1. k \in Nat /\ o = PageSize * k
    OBVIOUS
<1>2. o + PageSize = PageSize * (k + 1)
    BY <1>1
<1>3. \A n \in Nat : (PageSize * n) % PageSize = 0
    OBVIOUS
<1>4. k + 1 \in Nat
    BY <1>1
<1> HIDE DEF k
<1>5. (PageSize * (k + 1)) % PageSize = 0
    BY <1>3, <1>4
<1>6. QED
    BY <1>2, <1>5

Typed == TypeOK /\ IsLog /\ offset \in Nat

LEMMA InitTyped == Init => Typed
<1> SUFFICES ASSUME Init
             PROVE  Typed
    OBVIOUS
<1>1. log = <<>> /\ Len(log) = 0
    BY DEF Init
<1>2. IsLog
  <2>1. <<>> \in Seq(Row({}))
      OBVIOUS
  <2>2. QED
      BY <1>1, <2>1 DEF IsLog
<1>3. offset = 0 /\ 0 % PageSize = 0
    BY DEF Init
<1>4. readBad \in BOOLEAN
    BY Zenon DEF Init
<1>5. TypeOK
    BY <1>1, <1>3, <1>4 DEF Init, TypeOK
<1>6. QED
    BY <1>2, <1>3, <1>5 DEF Typed

\* What is served of the log.
LEMMA PageRows ==
    ASSUME Typed, NEW o \in Nat
    PROVE  /\ Len(PageAt(o)) \in 0 .. PageSize
           /\ Len(PageAt(o)) = IF o >= Len(log) THEN 0
                               ELSE IF o + PageSize < Len(log) THEN PageSize
                               ELSE Len(log) - o
           /\ PageAt(o) = <<>> <=> o >= Len(log)
           /\ \A i \in 1 .. Len(PageAt(o)) : o + i \in Rows /\ PageAt(o)[i] = log[o + i]
<1> DEFINE m == IF o + PageSize < Len(log) THEN o + PageSize ELSE Len(log)
<1>1. PICK H : log \in Seq(Row(H))
    BY DEF Typed, IsLog
<1>2. Len(log) \in Nat /\ m \in Nat /\ m <= Len(log) /\ m <= o + PageSize
    BY <1>1
<1>3. \A i \in o + 1 .. m : log[i] \in Row(H)
    BY <1>1, <1>2
<1>4. /\ PageAt(o) \in Seq(Row(H))
      /\ Len(PageAt(o)) = IF o + 1 <= m THEN m - o ELSE 0
      /\ \A i \in 1 .. m - (o + 1) + 1 : PageAt(o)[i] = log[o + 1 + i - 1]
  <2>1. PageAt(o) = SubSeq(log, o + 1, m)
      BY DEF PageAt
  <2>2. o + 1 \in Int /\ m \in Int /\ m - (o + 1) + 1 = m - o
      BY <1>2
  <2> HIDE DEF m
  <2>3. /\ SubSeq(log, o + 1, m) \in Seq(Row(H))
        /\ Len(SubSeq(log, o + 1, m)) = IF o + 1 <= m THEN m - (o + 1) + 1 ELSE 0
        /\ \A i \in 1 .. m - (o + 1) + 1 : SubSeq(log, o + 1, m)[i] = log[o + 1 + i - 1]
      BY <1>3, <2>2, SubSeqProperties
  <2>4. QED
      BY <2>1, <2>2, <2>3
<1>5. \A i \in 1 .. Len(PageAt(o)) : o + i \in Rows /\ PageAt(o)[i] = log[o + i]
  <2> HIDE DEF m
  <2>1. TAKE i \in 1 .. Len(PageAt(o))
  <2>2. i \in Int /\ i >= 1 /\ o + 1 <= m /\ i <= m - o
      BY <1>2, <1>4
  <2>3. i \in 1 .. m - (o + 1) + 1 /\ o + 1 + i - 1 = o + i
      BY <1>2, <2>2
  <2>4. PageAt(o)[i] = log[o + 1 + i - 1]
      BY <1>4, <2>3
  <2>5. o + i \in Rows
      BY <1>2, <2>2 DEF Rows
  <2>6. QED
      BY <2>3, <2>4, <2>5
<1>6. PageAt(o) = <<>> <=> Len(PageAt(o)) = 0
    BY <1>4, EmptySeq
<1>7. QED
    BY <1>2, <1>4, <1>5, <1>6

LEMMA TypeStep ==
    ASSUME Typed, [Next]_vars
    PROVE  Typed'
<1> USE DEF Typed
<1>1. \A i \in Rows : log[i].event \in Writer \cup {"altered"}
                      /\ log[i].timestamp \in Stamps /\ log[i].bad \in BOOLEAN
    BY LogIsSequence
<1>2. IsLog' => \A i \in Rows' : log'[i].event \in Writer \cup {"altered"}
                      /\ log'[i].timestamp \in Stamps /\ log'[i].bad \in BOOLEAN
  <2>1. SUFFICES ASSUME NEW H, log' \in Seq(Row(H))
                 PROVE  \A i \in Rows' : log'[i].event \in Writer \cup {"altered"}
                            /\ log'[i].timestamp \in Stamps /\ log'[i].bad \in BOOLEAN
      BY DEF IsLog
  <2>2. \A i \in Rows' : log'[i] \in Row(H)
      BY <2>1 DEF Rows
  <2>3. \A i \in Rows' : log'[i].bad \in BOOLEAN
      BY <2>2 DEF Row
  <2>4. QED
      BY <2>2, <2>3 DEF Row
<1>3. ASSUME NEW w \in Writer, ReadHead(w) \/ AppendFails(w)
      PROVE  Typed'
    BY <1>3 DEF ReadHead, AppendFails, TypeOK, IsLog, page
<1>4. ASSUME NEW w \in Writer, NEW t \in Stamps, CommitBlock(w, t)
      PROVE  Typed'
  <2>1. IsLog'
      BY <1>4, CommitRows
  <2>2. UNCHANGED <<damage, page, dash>> /\ wpc' = [wpc EXCEPT ![w] = "done"]
      BY <1>4 DEF CommitBlock
  <2>3. QED
      BY <1>2, <2>1, <2>2 DEF TypeOK, page, Rows
<1>5. ASSUME NEW i \in 1 .. Len(log), AlterRow(i) \/ DeleteRow(i)
      PROVE  Typed'
  <2>1. IsLog'
      BY <1>5, AlterRows, DeleteRows DEF Rows
  <2>2. UNCHANGED <<writers, page, dash>> /\ damage' \in 0 .. MaxDamage
      BY <1>5 DEF AlterRow, DeleteRow, TypeOK
  <2>3. QED
      BY <1>2, <2>1, <2>2 DEF TypeOK, writers, page, Rows
<1>6. CASE StartVerifying
  <2>1. UNCHANGED <<log, wpc, damage, readBad, dash, report>>
        /\ status' = "checking" /\ offset' = 0 /\ seen' = 0 /\ atStart' = Len(log)
      BY <1>6 DEF StartVerifying, writers
  <2>2. Len(log) \in Nat /\ 0 % PageSize = 0
      BY LogIsSequence
  <2>3. QED
      BY <2>1, <2>2 DEF TypeOK, IsLog
<1>7. CASE FetchPage
  <2>1. UNCHANGED <<log, wpc, damage, atStart, dash>> /\ seen' \in Nat
      BY <1>7, PageRows DEF FetchPage, writers, TypeOK
  <2>2. offset' \in {offset, offset + PageSize} /\ offset' \in Nat
      BY <1>7 DEF FetchPage, NextOffset
  <2>3. /\ status' \in {"idle", "checking", "ok", "fail"}
        /\ report' \in {"none", "verified", "tampered", "error"}
      BY <1>7 DEF FetchPage, TypeOK
  <2>4. readBad' \in BOOLEAN
      BY <1>7, Zenon DEF FetchPage
  <2>5. offset' % PageSize = 0
      BY <2>2, NextMultiple DEF TypeOK
  <2>6. QED
      BY <2>1, <2>2, <2>3, <2>4, <2>5 DEF TypeOK, IsLog
<1>8. CASE FinishVerifying \/ FetchFails
    BY <1>8 DEF FinishVerifying, FetchFails, TypeOK, IsLog, writers
<1>9. CASE DashboardVerifies
  <2>1. UNCHANGED <<log, wpc, damage, page>> /\ dash'.said \in {"verified", "tampered"}
      BY <1>9 DEF DashboardVerifies, writers
  <2>2. QED
      BY <2>1 DEF TypeOK, IsLog, page
<1>10. CASE UNCHANGED vars
    BY <1>10 DEF vars, writers, page, TypeOK, IsLog
<1>11. QED
    BY <1>3, <1>4, <1>5, <1>6, <1>7, <1>8, <1>9, <1>10 DEF Next

-----------------------------------------------------------------------------
(* The chain, whatever was altered or deleted.                              *)

Done == {w \in Writer : wpc[w] = "done"}

\* The row is the block that w wrote, but perhaps for its event.
WrittenBy(row, w) ==
    /\ row.current_hash = Hash(w, PythonText(row.timestamp), row.previous_hash)
    /\ row.event \in {w, "altered"}

\* Every row is the block of a call of its own; the head is the hash of the
\* last one.  A row never names a row before its predecessor, so that the
\* deletion of rows in between shows; a row that is marked as damaged does not
\* hash to what is stored or does not name its predecessor.
ChainInv ==
    /\ \A i \in Rows : \E w \in Done : WrittenBy(log[i], w)
    /\ \A i, j \in Rows : log[i].current_hash[1] = log[j].current_hash[1] => i = j
    /\ head = Before(log, Len(log) + 1)
    /\ \A j \in Rows : j > 1 => log[j].previous_hash # Genesis
    /\ \A j, k \in Rows : k + 1 < j => log[j].previous_hash # log[k].current_hash
    /\ \A j \in Rows : log[j].bad =>
          log[j].event = "altered" \/ log[j].previous_hash # Before(log, j)

\* Nothing is altered without damage, and nothing is lost.
SoundInv ==
    damage = 0 =>
        /\ \A j \in Rows : log[j].event # "altered" /\ log[j].previous_hash = Before(log, j)
        /\ Len(log) = Cardinality(Done)

LEMMA HashShape ==
    ASSUME NEW e, NEW t, NEW p
    PROVE  Hash(e, t, p)[1] = e /\ Hash(e, t, p) # Genesis
    BY DEF Hash, Genesis

LEMMA InitChain == Init => ChainInv /\ SoundInv /\ IsFiniteSet(Done)
<1> SUFFICES ASSUME Init
             PROVE  ChainInv /\ SoundInv /\ IsFiniteSet(Done)
    OBVIOUS
<1>1. Len(log) = 0 /\ Done = {} /\ head = Genesis
    BY DEF Init, Done
<1>2. Rows = {}
    BY <1>1 DEF Rows
<1>3. Cardinality(Done) = 0 /\ IsFiniteSet(Done)
    BY <1>1, FS_EmptySet
<1>4. QED
    BY <1>1, <1>2, <1>3 DEF ChainInv, SoundInv, Before

\* What a commit adds.
LEMMA CommitFacts ==
    ASSUME Typed, ChainInv, NEW w \in Writer, NEW t \in Stamps, CommitBlock(w, t)
    PROVE  LET n == Len(log) + 1 IN
           /\ Rows' = Rows \cup {n} /\ n \notin Rows
           /\ \A i \in Rows : log'[i] = log[i] /\ Before(log', i) = Before(log, i)
           /\ Before(log', n) = head
           /\ log'[n].event = w /\ log'[n].timestamp = t
           /\ log'[n].previous_hash = head /\ ~log'[n].bad
           /\ log'[n].current_hash = Hash(w, PythonText(t), head)
           /\ head' = Hash(w, PythonText(t), head)
           /\ Done' = Done \cup {w} /\ w \notin Done
<1> DEFINE n == Len(log) + 1
<1>1. /\ Len(log') = n
      /\ \A i \in Rows : log'[i] = log[i]
      /\ log'[n] = [event |-> w, timestamp |-> t, previous_hash |-> snap[w],
                    current_hash |-> Hash(w, PythonText(t), snap[w]), bad |-> FALSE]
    BY CommitRows DEF Typed
<1>2. /\ snap[w] = head /\ wpc[w] = "read" /\ wpc' = [wpc EXCEPT ![w] = "done"]
      /\ head' = Hash(w, PythonText(t), snap[w])
    BY DEF CommitBlock, MayCommit
<1>3. Len(log) \in Nat
    BY LogIsSequence DEF Typed
<1>4. Rows' = Rows \cup {n} /\ n \notin Rows
    BY <1>1, <1>3 DEF Rows
<1>5. \A i \in Rows \cup {n} : Before(log', i) = Before(log, i)
    BY <1>1, <1>3 DEF Before, Rows
<1>6. Before(log, n) = head
    BY DEF ChainInv
<1>7. Done' = Done \cup {w} /\ w \notin Done
    BY <1>2 DEF Done, Typed, TypeOK
<1>8. /\ log'[n].event = w /\ log'[n].timestamp = t /\ ~log'[n].bad
      /\ log'[n].previous_hash = head
      /\ log'[n].current_hash = Hash(w, PythonText(t), head)
    BY <1>1, <1>2
<1>9. head' = Hash(w, PythonText(t), head)
    BY <1>2
<1>10. Before(log', n) = head
    BY <1>5, <1>6
<1>11. QED
    BY <1>1, <1>4, <1>5, <1>7, <1>8, <1>9, <1>10, Zenon

LEMMA CommitChain ==
    ASSUME Typed, ChainInv, NEW w \in Writer, NEW t \in Stamps, CommitBlock(w, t)
    PROVE  ChainInv'
<1> DEFINE n == Len(log) + 1
<1>1. /\ Rows' = Rows \cup {n} /\ n \notin Rows
      /\ \A i \in Rows : log'[i] = log[i] /\ Before(log', i) = Before(log, i)
      /\ log'[n].event = w /\ log'[n].timestamp = t
      /\ log'[n].previous_hash = head /\ ~log'[n].bad
      /\ log'[n].current_hash = Hash(w, PythonText(t), head)
      /\ head' = Hash(w, PythonText(t), head)
      /\ Done' = Done \cup {w} /\ w \notin Done
    BY CommitFacts
<1>2. Len(log) \in Nat /\ Len(log') = n
    BY LogIsSequence, CommitRows DEF Typed
<1>3. \A i \in Rows : /\ \E v \in Done : log[i].current_hash[1] = v
                      /\ log[i].current_hash # Genesis
    BY HashShape DEF ChainInv, WrittenBy
<1>4. \A i \in Rows' : \E v \in Done' : WrittenBy(log'[i], v)
  <2>1. ASSUME NEW i \in Rows
        PROVE  \E v \in Done' : WrittenBy(log'[i], v)
      BY <1>1 DEF ChainInv, WrittenBy
  <2>2. WrittenBy(log'[n], w)
      BY <1>1 DEF WrittenBy
  <2>3. QED
      BY <1>1, <2>1, <2>2
<1>5. \A i, j \in Rows' : log'[i].current_hash[1] = log'[j].current_hash[1] => i = j
  <2>1. log'[n].current_hash[1] = w
      BY <1>1, HashShape
  <2>2. \A i \in Rows : log'[i].current_hash[1] # w
      BY <1>1, <1>3
  <2>3. QED
      BY <1>1, <2>1, <2>2 DEF ChainInv
<1>6. head' = Before(log', Len(log') + 1)
  <2>1. log'[n].current_hash = head' /\ n \in Nat /\ n # 0
      BY <1>1, <1>2
  <2>2. Before(log', Len(log') + 1) = log'[n].current_hash
      BY <1>2 DEF Before
  <2>3. QED
      BY <2>1, <2>2
<1>7. head = IF Len(log) = 0 THEN Genesis ELSE log[Len(log)].current_hash
    BY <1>2 DEF ChainInv, Before
<1>8. \A j \in Rows' : j > 1 => log'[j].previous_hash # Genesis
  <2>1. n > 1 => head # Genesis
      BY <1>2, <1>3, <1>7 DEF Rows
  <2>2. QED
      BY <1>1, <2>1 DEF ChainInv
<1>9. \A j, k \in Rows' : k + 1 < j => log'[j].previous_hash # log'[k].current_hash
  <2>1. ASSUME NEW k \in Rows, k + 1 < n
        PROVE  head # log[k].current_hash
    <3>1. k < Len(log) /\ Len(log) \in Rows /\ k # Len(log)
        BY <1>2, <2>1 DEF Rows
    <3>2. log[k].current_hash[1] # log[Len(log)].current_hash[1]
        BY <3>1 DEF ChainInv
    <3>3. head = log[Len(log)].current_hash
        BY <1>2, <1>7, <3>1 DEF Rows
    <3>4. QED
        BY <3>2, <3>3
  <2>2. \A k \in Rows : ~(n + 1 < k)
      BY <1>2 DEF Rows
  <2>3. ~(n + 1 < n)
      BY <1>2
  <2>4. QED
      BY <1>1, <2>1, <2>2, <2>3 DEF ChainInv
<1>10. \A j \in Rows' : log'[j].bad =>
           log'[j].event = "altered" \/ log'[j].previous_hash # Before(log', j)
    BY <1>1 DEF ChainInv
<1>11. QED
    BY <1>4, <1>5, <1>6, <1>8, <1>9, <1>10 DEF ChainInv

LEMMA AlterChain ==
    ASSUME Typed, ChainInv, NEW i \in Rows, AlterRow(i)
    PROVE  ChainInv'
<1>1. /\ Len(log') = Len(log)
      /\ \A j \in Rows :
            /\ log'[j].timestamp = log[j].timestamp
            /\ log'[j].previous_hash = log[j].previous_hash
            /\ log'[j].current_hash = log[j].current_hash
            /\ log'[j].event = IF j = i THEN "altered" ELSE log[j].event
            /\ j # i => log'[j] = log[j]
      /\ head' = head /\ wpc' = wpc /\ Len(log) \in Nat
    BY AlterRows, LogIsSequence DEF Typed, AlterRow, writers
<1>2. Rows' = Rows /\ Done' = Done
    BY <1>1 DEF Rows, Done
<1>3. \A j \in Nat : j >= 1 /\ j <= Len(log) + 1 => Before(log', j) = Before(log, j)
    BY <1>1 DEF Before, Rows
<1>4. \A j \in Rows' : \E w \in Done' : WrittenBy(log'[j], w)
    BY <1>1, <1>2 DEF ChainInv, WrittenBy
<1>5. head' = Before(log', Len(log') + 1)
    BY <1>1, <1>3 DEF ChainInv, Before, Rows
<1>6. \A j \in Rows' : log'[j].bad =>
           log'[j].event = "altered" \/ log'[j].previous_hash # Before(log', j)
  <2>1. \A j \in Rows : j \in Nat /\ j >= 1 /\ j <= Len(log) + 1
      BY <1>1 DEF Rows
  <2>2. QED
      BY <1>1, <1>2, <1>3, <2>1 DEF ChainInv
<1>7. QED
    BY <1>1, <1>2, <1>4, <1>5, <1>6 DEF ChainInv

LEMMA DeleteChain ==
    ASSUME Typed, ChainInv, NEW i \in Rows, DeleteRow(i)
    PROVE  ChainInv'
<1> DEFINE Old(j) == IF j < i THEN j ELSE j + 1
<1>0. Len(log) \in Nat /\ i \in Nat /\ i >= 1 /\ i < Len(log)
  <2>1. Len(log) \in Nat
      BY LogIsSequence DEF Typed
  <2>2. QED
      BY <2>1 DEF DeleteRow, Rows
<1>1. /\ Len(log') = Len(log) - 1
      /\ head' = head /\ wpc' = wpc
      /\ \A j \in 1 .. Len(log) - 1 :
            /\ log'[j].event = log[Old(j)].event
            /\ log'[j].timestamp = log[Old(j)].timestamp
            /\ log'[j].previous_hash = log[Old(j)].previous_hash
            /\ log'[j].current_hash = log[Old(j)].current_hash
            /\ j # i => log'[j] = log[Old(j)]
    BY DeleteRows DEF Typed, DeleteRow, writers
<1>2. Rows' = 1 .. Len(log) - 1 /\ Done' = Done
    BY <1>1 DEF Rows, Done
<1>3. /\ \A j \in Rows' : /\ j \in Nat /\ j >= 1 /\ Old(j) \in Rows
                          /\ Old(j) \in {j, j + 1} /\ (j > 1 => Old(j) > 1)
      /\ \A j, k \in Rows' : /\ Old(j) = Old(k) => j = k
                             /\ k + 1 < j => Old(k) + 1 < Old(j)
    BY <1>0, <1>2 DEF Rows
<1> HIDE DEF Old
<1>4. ASSUME NEW j \in Rows'
      PROVE  \E w \in Done' : WrittenBy(log'[j], w)
  <2>1. j \in 1 .. Len(log) - 1 /\ Old(j) \in Rows
      BY <1>2, <1>3
  <2>2. PICK w \in Done : WrittenBy(log[Old(j)], w)
      BY <2>1 DEF ChainInv
  <2>3. WrittenBy(log'[j], w)
      BY <1>1, <2>1, <2>2 DEF WrittenBy
  <2>4. QED
      BY <1>2, <2>3
<1>5. ASSUME NEW j \in Rows', NEW k \in Rows',
             log'[j].current_hash[1] = log'[k].current_hash[1]
      PROVE  j = k
  <2>1. Old(j) \in Rows /\ Old(k) \in Rows /\ (Old(j) = Old(k) => j = k)
      BY <1>3
  <2>2. /\ log'[j].current_hash = log[Old(j)].current_hash
        /\ log'[k].current_hash = log[Old(k)].current_hash
      BY <1>1, <1>2
  <2>3. QED
      BY <1>5, <2>1, <2>2 DEF ChainInv
<1>6. head' = Before(log', Len(log') + 1)
  <2>1. head = log[Len(log)].current_hash
      BY <1>0 DEF ChainInv, Before
  <2>2. Len(log') \in Rows' /\ Old(Len(log')) = Len(log)
      BY <1>0, <1>1, <1>2 DEF Old
  <2>3. log'[Len(log')].current_hash = log[Len(log)].current_hash
      BY <1>1, <1>2, <2>2
  <2>4. Before(log', Len(log') + 1) = log'[Len(log')].current_hash
    <3>1. Len(log') + 1 # 1 /\ Len(log') + 1 - 1 = Len(log')
        BY <1>0, <1>1
    <3>2. QED
        BY <3>1 DEF Before
  <2>5. QED
      BY <1>1, <2>1, <2>3, <2>4
<1>7. \A j \in Rows' : j > 1 => log'[j].previous_hash # Genesis
    BY <1>1, <1>2, <1>3 DEF ChainInv
<1>8. ASSUME NEW j \in Rows', NEW k \in Rows', k + 1 < j
      PROVE  log'[j].previous_hash # log'[k].current_hash
  <2>1. Old(j) \in Rows /\ Old(k) \in Rows /\ Old(k) + 1 < Old(j)
      BY <1>3, <1>8
  <2>2. log[Old(j)].previous_hash # log[Old(k)].current_hash
      BY <2>1 DEF ChainInv
  <2>3. QED
      BY <1>1, <1>2, <2>2
<1>9. ASSUME NEW j \in Rows', log'[j].bad
      PROVE  log'[j].event = "altered" \/ log'[j].previous_hash # Before(log', j)
  <2>1. CASE j = i
    <3>1. Old(j) = i + 1 /\ i + 1 \in Rows /\ i + 1 > 1
        BY <1>0, <2>1 DEF Old, Rows
    <3>2. log'[j].previous_hash = log[i + 1].previous_hash
        BY <1>1, <1>2, <3>1
    <3>3. CASE i = 1
        BY <2>1, <3>1, <3>2, <3>3 DEF ChainInv, Before
    <3>4. CASE i # 1
      <4>1. i - 1 \in Rows /\ i - 1 \in Rows' /\ Old(i - 1) = i - 1 /\ (i - 1) + 1 < i + 1
          BY <1>0, <1>2, <3>4 DEF Old, Rows
      <4>2. Before(log', j) = log[i - 1].current_hash
          BY <1>1, <1>2, <2>1, <3>4, <4>1 DEF Before
      <4>3. QED
          BY <3>1, <3>2, <4>1, <4>2 DEF ChainInv
    <3>5. QED
        BY <3>3, <3>4
  <2>2. CASE j < i
    <3>1. Old(j) = j /\ log'[j] = log[j] /\ j \in Rows
        BY <1>1, <1>2, <1>3, <2>2 DEF Old
    <3>2. Before(log', j) = Before(log, j)
      <4>1. j > 1 => j - 1 \in Rows' /\ Old(j - 1) = j - 1
          BY <1>0, <1>2, <1>9, <2>2 DEF Old
      <4>2. QED
          BY <1>1, <1>2, <1>3, <4>1 DEF Before
    <3>3. QED
        BY <1>9, <3>1, <3>2 DEF ChainInv
  <2>3. CASE j > i
    <3>1. /\ Old(j) = j + 1 /\ log'[j] = log[j + 1] /\ j + 1 \in Rows
          /\ j - 1 \in Rows' /\ Old(j - 1) = j /\ j # 1 /\ j + 1 # 1
      <4>1. j \in Nat /\ j \in 1 .. Len(log) - 1 /\ j # i /\ ~(j < i) /\ ~(j - 1 < i)
          BY <1>0, <1>2, <2>3
      <4>2. Old(j) = j + 1 /\ Old(j - 1) = j
          BY <4>1 DEF Old
      <4>3. log'[j] = log[j + 1]
          BY <1>1, <4>1, <4>2
      <4>4. j + 1 \in Rows /\ j - 1 \in Rows' /\ j # 1 /\ j + 1 # 1
          BY <1>0, <1>2, <2>3, <4>1 DEF Rows
      <4>5. QED
          BY <4>2, <4>3, <4>4
    <3>2. Before(log', j) = log[j].current_hash /\ Before(log, j + 1) = log[j].current_hash
        BY <1>1, <1>2, <3>1 DEF Before
    <3>3. QED
        BY <1>9, <3>1, <3>2 DEF ChainInv
  <2>4. QED
      BY <1>0, <1>3, <2>1, <2>2, <2>3
<1>10. QED
    BY <1>4, <1>5, <1>6, <1>7, <1>8, <1>9 DEF ChainInv

LEMMA ChainStep ==
    ASSUME Typed, ChainInv, [Next]_vars
    PROVE  ChainInv'
<1>1. CASE UNCHANGED <<log, head>> /\ Done' = Done
    BY <1>1 DEF ChainInv, Rows
<1>2. ASSUME NEW w \in Writer, ReadHead(w) \/ AppendFails(w)
      PROVE  ChainInv'
    BY <1>1, <1>2 DEF ReadHead, AppendFails, Done, Typed, TypeOK
<1>3. \/ StartVerifying \/ FetchPage \/ FinishVerifying \/ FetchFails \/ DashboardVerifies
      \/ UNCHANGED vars
      => UNCHANGED <<log, head>> /\ Done' = Done
    BY DEF StartVerifying, FetchPage, FinishVerifying, FetchFails, DashboardVerifies, vars,
           writers, Done
<1>4. QED
    BY <1>1, <1>2, <1>3, CommitChain, AlterChain, DeleteChain DEF Next, Rows

LEMMA SoundStep ==
    ASSUME Typed, ChainInv, SoundInv, IsFiniteSet(Done), [Next]_vars
    PROVE  SoundInv' /\ IsFiniteSet(Done)'
<1>1. CASE UNCHANGED <<log, damage>> /\ Done' = Done
    BY <1>1 DEF SoundInv, Rows
<1>2. ASSUME NEW w \in Writer, ReadHead(w) \/ AppendFails(w)
      PROVE  SoundInv' /\ IsFiniteSet(Done)'
    BY <1>1, <1>2 DEF ReadHead, AppendFails, Done, Typed, TypeOK
<1>3. ASSUME NEW i \in Rows, AlterRow(i) \/ DeleteRow(i)
      PROVE  SoundInv' /\ IsFiniteSet(Done)'
  <2>1. damage' # 0 /\ Done' = Done
      BY <1>3 DEF AlterRow, DeleteRow, Done, writers, Typed, TypeOK
  <2>2. QED
      BY <2>1 DEF SoundInv
<1>4. ASSUME NEW w \in Writer, NEW t \in Stamps, CommitBlock(w, t)
      PROVE  SoundInv' /\ IsFiniteSet(Done)'
  <2> DEFINE n == Len(log) + 1
  <2>1. /\ Rows' = Rows \cup {n}
        /\ \A i \in Rows : log'[i] = log[i] /\ Before(log', i) = Before(log, i)
        /\ Before(log', n) = head
        /\ log'[n].event = w /\ log'[n].previous_hash = head
        /\ Done' = Done \cup {w} /\ w \notin Done
      BY <1>4, CommitFacts
  <2>2. damage' = damage /\ Len(log') = n
      BY <1>4, CommitRows DEF CommitBlock, Typed
  <2>3. IsFiniteSet(Done') /\ Cardinality(Done') = Cardinality(Done) + 1
      BY <2>1, FS_AddElement
  <2>4. QED
      BY <2>1, <2>2, <2>3 DEF SoundInv
<1>5. \/ StartVerifying \/ FetchPage \/ FinishVerifying \/ FetchFails \/ DashboardVerifies
      \/ UNCHANGED vars
      => UNCHANGED <<log, damage>> /\ Done' = Done
    BY DEF StartVerifying, FetchPage, FinishVerifying, FetchFails, DashboardVerifies, vars,
           writers, Done
<1>6. QED
    BY <1>1, <1>2, <1>3, <1>4, <1>5 DEF Next, Rows

LEMMA Chain == Spec => [](Typed /\ ChainInv /\ SoundInv /\ IsFiniteSet(Done))
<1>1. Typed /\ ChainInv /\ SoundInv /\ IsFiniteSet(Done) /\ [Next]_vars
      => (Typed /\ ChainInv /\ SoundInv /\ IsFiniteSet(Done))'
    BY TypeStep, ChainStep, SoundStep
<1>2. QED
    BY <1>1, InitTyped, InitChain, PTL DEF Spec

\* The appends of any number of requests make one chain from the genesis value
\* to the head, with the block of every call that was answered.
THEOREM AppendsAreChained == Spec => []OneChain
<1>1. ASSUME Typed, ChainInv, SoundInv
      PROVE  OneChain
  <2>1. log = <<>> <=> Len(log) = 0
      BY <1>1, LogIsSequence DEF Typed
  <2>2. Len(log) \in Nat
      BY <1>1, LogIsSequence DEF Typed
  <2>3. head = IF log = <<>> THEN Genesis ELSE log[Len(log)].current_hash
      BY <1>1, <2>1, <2>2 DEF ChainInv, Before
  <2>4. QED
      BY <1>1, <2>3 DEF Typed, SoundInv, OneChain, Before, Rows, Done
<1>2. QED
    BY <1>1, Chain, PTL

-----------------------------------------------------------------------------
(* What the viewers say.                                                    *)

\* A viewer accepts a damaged row only if the row names the hash the viewer
\* has, and that is not the hash before the row.
LEMMA AcceptedRows ==
    ASSUME Typed, ChainInv, NEW o \in Nat, NEW p,
           \A j \in Rows : log[j].previous_hash = p /\ j = o + 1 => Before(log, j) = p,
           Accepts(PageAt(o), p)
    PROVE  \A i \in 1 .. Len(PageAt(o)) : ~PageAt(o)[i].bad
<1> SUFFICES ASSUME NEW i \in 1 .. Len(PageAt(o)), PageAt(o)[i].bad
             PROVE  FALSE
    OBVIOUS
<1> DEFINE row  == log[o + i]
           hash == IF i = 1 THEN p ELSE PageAt(o)[i - 1].current_hash
<1>1. Len(PageAt(o)) \in Nat /\ o + i \in Rows /\ PageAt(o)[i] = row
    BY PageRows
<1>2. row.previous_hash = hash /\ row.current_hash = Recomputed(row, hash)
    BY <1>1 DEF Accepts
<1>3. row.event # "altered"
  <2>1. row.current_hash[1] = row.event
      BY <1>2, HashShape DEF Recomputed
  <2>2. \E w \in Writer : row.current_hash[1] = w
      BY <1>1, HashShape DEF ChainInv, WrittenBy, Done
  <2>3. QED
      BY <2>1, <2>2
<1>4. row.previous_hash # Before(log, o + i)
    BY <1>1, <1>3 DEF ChainInv
<1>5. CASE i = 1
    BY <1>1, <1>2, <1>4, <1>5
<1>6. CASE i # 1
  <2>1. i - 1 \in 1 .. Len(PageAt(o)) /\ o + (i - 1) = o + i - 1 /\ o + i # 1
      BY <1>1, <1>6
  <2>2. PageAt(o)[i - 1] = log[o + i - 1]
      BY <2>1, PageRows
  <2>3. QED
      BY <1>2, <1>4, <1>6, <2>1, <2>2 DEF Before
<1>7. QED
    BY <1>5, <1>6

\* The hash that the page carries from one fetch to the next: the row that
\* names it is not behind the offset, and is the successor of the last row read
\* if it is at the offset.
PageInv ==
    /\ prev = Genesis \/ \E w \in Done : prev[1] = w
    /\ head = prev => Len(log) <= offset
    /\ \A j \in Rows : log[j].previous_hash = prev =>
          j <= offset + 1 /\ (j = offset + 1 => Before(log, j) = prev)

LEMMA Successor ==
    ASSUME NEW q \in Nat, NEW o \in Nat, NEW j \in Nat, q # 0, q <= o, ~(q + 1 < j)
    PROVE  j <= o + 1 /\ (j = o + 1 => j # 1 /\ j - 1 = q)
OBVIOUS

LEMMA PageStep ==
    ASSUME Typed, ChainInv, PageInv, [Next]_vars
    PROVE  PageInv'
<1>0. Len(log) \in Nat /\ offset \in Nat
    BY LogIsSequence DEF Typed
<1>h. head = IF Len(log) = 0 THEN Genesis ELSE log[Len(log)].current_hash
    BY <1>0 DEF ChainInv, Before
<1>c. \A i \in Rows : /\ log[i].current_hash # Genesis
                      /\ \E w \in Done : log[i].current_hash[1] = w
    BY HashShape DEF ChainInv, WrittenBy
<1>1. CASE UNCHANGED <<log, head, prev, offset>> /\ Done' = Done
    BY <1>1 DEF PageInv, Rows
<1>2. ASSUME NEW w \in Writer, ReadHead(w) \/ AppendFails(w)
      PROVE  PageInv'
    BY <1>1, <1>2 DEF ReadHead, AppendFails, Done, Typed, TypeOK, page
<1>3. ASSUME NEW w \in Writer, NEW t \in Stamps, CommitBlock(w, t)
      PROVE  PageInv'
  <2> DEFINE n == Len(log) + 1
  <2>1. /\ Rows' = Rows \cup {n}
        /\ \A i \in Rows : log'[i] = log[i] /\ Before(log', i) = Before(log, i)
        /\ Before(log', n) = head /\ log'[n].previous_hash = head
        /\ head' = Hash(w, PythonText(t), head)
        /\ Done' = Done \cup {w} /\ w \notin Done
      BY <1>3, CommitFacts
  <2>2. prev' = prev /\ offset' = offset
      BY <1>3 DEF CommitBlock, page
  <2>3. head' # prev
      BY <2>1, HashShape DEF PageInv
  <2>4. \A j \in Rows : log'[j].previous_hash = prev =>
            j <= offset + 1 /\ (j = offset + 1 => Before(log', j) = prev)
      BY <2>1 DEF PageInv
  <2>5. log'[n].previous_hash = prev =>
            n <= offset + 1 /\ (n = offset + 1 => Before(log', n) = prev)
      BY <1>0, <2>1 DEF PageInv
  <2>6. prev = Genesis \/ \E v \in Done' : prev[1] = v
      BY <2>1 DEF PageInv
  <2>7. \A j \in Rows' : log'[j].previous_hash = prev =>
            j <= offset + 1 /\ (j = offset + 1 => Before(log', j) = prev)
      BY <2>1, <2>4, <2>5
  <2>8. QED
      BY <2>2, <2>3, <2>6, <2>7 DEF PageInv
<1>4. ASSUME NEW i \in Rows, AlterRow(i)
      PROVE  PageInv'
  <2>1. /\ Len(log') = Len(log)
        /\ \A j \in Rows : /\ log'[j].previous_hash = log[j].previous_hash
                           /\ log'[j].current_hash = log[j].current_hash
      BY <1>4, AlterRows DEF Typed
  <2>2. UNCHANGED <<head, prev, offset>> /\ Done' = Done /\ Rows' = Rows
      BY <1>4, <2>1 DEF AlterRow, writers, page, Done, Rows
  <2>3. \A j \in Rows : Before(log', j) = Before(log, j)
      BY <1>0, <2>1 DEF Before, Rows
  <2>4. QED
      BY <2>1, <2>2, <2>3 DEF PageInv
<1>5. ASSUME NEW i \in Rows, DeleteRow(i)
      PROVE  PageInv'
  <2> DEFINE Old(j) == IF j < i THEN j ELSE j + 1
  <2>0. i \in Nat /\ i >= 1 /\ i < Len(log)
      BY <1>0, <1>5 DEF DeleteRow, Rows
  <2>1. /\ Len(log') = Len(log) - 1
        /\ \A j \in 1 .. Len(log) - 1 :
              /\ log'[j].previous_hash = log[Old(j)].previous_hash
              /\ log'[j].current_hash = log[Old(j)].current_hash
      BY <1>5, DeleteRows DEF Typed
  <2>2. UNCHANGED <<head, prev, offset>> /\ Done' = Done /\ Rows' = 1 .. Len(log) - 1
      BY <1>5, <2>1 DEF DeleteRow, writers, page, Done, Rows
  <2>3. ASSUME NEW j \in Rows', log'[j].previous_hash = prev
        PROVE  j <= offset + 1 /\ (j = offset + 1 => Before(log', j) = prev)
    <3>1. /\ j \in Int /\ j >= 1 /\ Old(j) \in Rows /\ j <= Old(j)
          /\ log[Old(j)].previous_hash = prev
        BY <1>0, <2>0, <2>1, <2>2, <2>3 DEF Rows
    <3>2. Old(j) <= offset + 1 /\ (Old(j) = offset + 1 => Before(log, Old(j)) = prev)
        BY <3>1 DEF PageInv
    <3>3. j <= offset + 1
        BY <1>0, <3>1, <3>2 DEF Rows
    <3>4. ASSUME j = offset + 1
          PROVE  Before(log', j) = prev
      <4>1. j < i /\ Old(j) = j
          BY <1>0, <2>0, <3>1, <3>2, <3>4
      <4>2. Before(log, j) = prev
          BY <3>2, <3>4, <4>1
      <4>3. j > 1 => j - 1 \in 1 .. Len(log) - 1 /\ Old(j - 1) = j - 1
          BY <1>0, <2>0, <3>1, <4>1
      <4>4. Before(log', j) = Before(log, j)
          BY <2>1, <3>1, <4>3 DEF Before
      <4>5. QED
          BY <4>2, <4>4
    <3>5. QED
        BY <3>3, <3>4
  <2>4. head' = prev' => Len(log') <= offset'
      BY <1>0, <2>1, <2>2 DEF PageInv
  <2>5. QED
      BY <2>2, <2>3, <2>4 DEF PageInv
<1>6. CASE StartVerifying
  <2>1. /\ UNCHANGED <<log, head>> /\ Done' = Done /\ Rows' = Rows
        /\ prev' = Genesis /\ offset' = 0
      BY <1>6 DEF StartVerifying, writers, Done, Rows
  <2>2. head = Genesis => Len(log) = 0
      BY <1>0, <1>c, <1>h DEF Rows
  <2>3. \A j \in Rows : log[j].previous_hash = Genesis => j = 1
      BY <1>0 DEF ChainInv, Rows
  <2>4. QED
      BY <2>1, <2>2, <2>3 DEF PageInv, Before
<1>7. CASE FetchPage
  <2>1. /\ UNCHANGED <<log, head>> /\ Done' = Done /\ Rows' = Rows
        /\ PageAt(offset) # <<>>
        /\ \/ /\ prev' = PageAt(offset)[Len(PageAt(offset))].current_hash
              /\ offset' = offset + PageSize
           \/ UNCHANGED <<prev, offset>>
      BY <1>7 DEF FetchPage, NextOffset, writers, Done, Rows
  <2>2. CASE UNCHANGED <<prev, offset>>
      BY <1>1, <2>1, <2>2
  <2>3. CASE /\ prev' = PageAt(offset)[Len(PageAt(offset))].current_hash
             /\ offset' = offset + PageSize
    <3>1. PICK q \in Rows : /\ Len(PageAt(offset)) \in 1 .. PageSize
                            /\ q = offset + Len(PageAt(offset))
                            /\ PageAt(offset)[Len(PageAt(offset))] = log[q]
      <4>1. Len(PageAt(offset)) \in 1 .. PageSize
          BY <1>0, <2>1, PageRows
      <4>2. Len(PageAt(offset)) \in 1 .. Len(PageAt(offset))
          BY <4>1
      <4>3. QED
          BY <1>0, <4>1, <4>2, PageRows
    <3>0. q \in Nat /\ q # 0 /\ offset' \in Nat
        BY <1>0, <2>3, <3>1 DEF Rows
    <3>2. prev' = log[q].current_hash /\ q <= offset'
        BY <1>0, <2>3, <3>1
    <3>3. \E w \in Done' : prev'[1] = w
        BY <1>c, <2>1, <3>1, <3>2
    <3>4. head' = prev' => Len(log') <= offset'
      <4>1. Len(log) \in Rows /\ Len(log) # 0
          BY <1>0, <3>1 DEF Rows
      <4>2. head = log[Len(log)].current_hash
          BY <1>h, <4>1
      <4>3. head = log[q].current_hash => q = Len(log)
          BY <3>1, <4>1, <4>2 DEF ChainInv
      <4>4. QED
          BY <2>1, <3>2, <4>3
    <3>5. ASSUME NEW j \in Rows, log[j].previous_hash = log[q].current_hash
          PROVE  j <= offset' + 1 /\ (j = offset' + 1 => Before(log, j) = log[q].current_hash)
      <4>0. j \in Nat
          BY <1>0 DEF Rows
      <4>1. ~(q + 1 < j)
          BY <3>1, <3>5 DEF ChainInv
      <4>2. j <= offset' + 1 /\ (j = offset' + 1 => j # 1 /\ j - 1 = q)
          BY <3>0, <3>2, <4>0, <4>1, Successor
      <4>3. QED
          BY <4>2 DEF Before
    <3>6. QED
        BY <2>1, <3>2, <3>3, <3>4, <3>5 DEF PageInv
  <2>4. QED
      BY <2>1, <2>2, <2>3
<1>8. FinishVerifying \/ FetchFails \/ DashboardVerifies \/ UNCHANGED vars
      => UNCHANGED <<log, head, prev, offset>> /\ Done' = Done
    BY DEF FinishVerifying, FetchFails, DashboardVerifies, vars, writers, page, Done
<1>9. QED
    BY <1>1, <1>2, <1>3, <1>4, <1>5, <1>6, <1>7, <1>8 DEF Next, Rows

\* Behind a verdict: no damaged row was accepted, and the rows counted reach as
\* far as the offset or to the end the log had when the page started.
VerdictInv ==
    /\ report \in {"none", "verified"} => ~readBad
    /\ status = "checking" => report = "none"
    /\ status = "checking" /\ damage = 0 =>
          atStart <= Len(log) /\ (seen >= atStart \/ seen = offset)
    /\ report = "verified" /\ damage = 0 => seen >= atStart
    /\ dash.said = "verified" => ~dash.bad

LEMMA VerdictStep ==
    ASSUME Typed, ChainInv, PageInv, VerdictInv, [Next]_vars
    PROVE  VerdictInv'
<1>0. Len(log) \in Nat /\ offset \in Nat
    BY LogIsSequence DEF Typed
<1>t. seen \in Nat
    BY DEF Typed, TypeOK
<1>a. atStart \in Nat
    BY DEF Typed, TypeOK
<1>1. ASSUME UNCHANGED <<page, dash, damage>>, Len(log') \in Nat, Len(log) <= Len(log')
      PROVE  VerdictInv'
  <2>1. atStart <= Len(log) => atStart <= Len(log')
      BY <1>0, <1>a, <1>1
  <2>2. QED
      BY <1>1, <2>1 DEF VerdictInv, page
<1>2. ASSUME NEW w \in Writer, ReadHead(w) \/ AppendFails(w)
      PROVE  VerdictInv'
    BY <1>0, <1>1, <1>2 DEF ReadHead, AppendFails
<1>3. ASSUME NEW w \in Writer, NEW t \in Stamps, CommitBlock(w, t)
      PROVE  VerdictInv'
  <2>1. Len(log') = Len(log) + 1
      BY <1>3, CommitRows DEF Typed
  <2>2. QED
      BY <1>0, <1>1, <1>3, <2>1 DEF CommitBlock
<1>4. ASSUME NEW i \in Rows, AlterRow(i) \/ DeleteRow(i)
      PROVE  VerdictInv'
  <2>1. UNCHANGED <<page, dash>> /\ damage' = damage + 1 /\ damage \in Nat
      BY <1>4 DEF AlterRow, DeleteRow, Typed, TypeOK
  <2>2. damage' # 0
      BY <2>1
  <2>3. QED
      BY <2>1, <2>2 DEF VerdictInv, page
<1>5. CASE StartVerifying
  <2>1. /\ UNCHANGED <<log, damage, report, readBad, dash>> /\ report = "none"
        /\ offset' = 0 /\ seen' = 0 /\ atStart' = Len(log)
      BY <1>5 DEF StartVerifying
  <2>2. QED
      BY <1>0, <2>1 DEF VerdictInv
<1>6. CASE FetchPage
  <2> DEFINE rows == PageAt(offset)
  <2>1. /\ status = "checking" /\ rows # <<>>
        /\ seen' = seen + Len(rows)
        /\ readBad' = (readBad \/ \E i \in 1 .. Len(rows) : rows[i].bad)
        /\ UNCHANGED <<log, damage, atStart, dash>>
      BY <1>6 DEF FetchPage
  <2>2. CASE /\ Accepts(rows, prev)
             /\ offset' = offset + PageSize
             /\ UNCHANGED <<status, report>>
    <3>1. report' = "none" /\ status' = "checking"
        BY <2>1, <2>2 DEF VerdictInv
    <3>2. ~readBad
        BY <2>1, Zenon DEF VerdictInv
    <3>3. \A i \in 1 .. Len(rows) : ~rows[i].bad
        BY <1>0, <2>2, AcceptedRows DEF PageInv
    <3>4. ~readBad'
        BY <2>1, <3>2, <3>3, Zenon
    <3>5. ASSUME damage = 0
          PROVE  atStart <= Len(log) /\ (seen' >= atStart \/ seen' = offset')
      <4>1. atStart <= Len(log) /\ (seen >= atStart \/ seen = offset)
          BY <2>1, <3>5 DEF VerdictInv
      <4>2. Len(rows) = IF offset + PageSize < Len(log) THEN PageSize ELSE Len(log) - offset
          BY <1>0, <2>1, PageRows
      <4>3. Len(rows) \in Nat /\ offset < Len(log)
          BY <1>0, <2>1, PageRows
      <4> HIDE DEF rows
      <4>4. seen' \in Nat
          BY <1>t, <2>1, <4>3
      <4>5. CASE seen >= atStart
          BY <1>t, <1>a, <2>1, <4>1, <4>3, <4>5
      <4>6. CASE seen = offset
          BY <1>0, <1>t, <1>a, <2>1, <2>2, <4>1, <4>2, <4>3, <4>6
      <4>7. QED
          BY <4>1, <4>5, <4>6
    <3>6. dash'.said = "verified" => ~dash'.bad
        BY <2>1 DEF VerdictInv
    <3>7. QED
        BY <2>1, <3>1, <3>4, <3>5, <3>6 DEF VerdictInv
  <2>3. CASE status' = "fail" /\ report' = "tampered"
      BY <2>1, <2>3 DEF VerdictInv
  <2>4. QED
      BY <1>6, <2>2, <2>3 DEF FetchPage, NextOffset
<1>7. CASE FinishVerifying
  <2>1. /\ status = "checking" /\ PageAt(offset) = <<>> /\ status' = "ok"
        /\ UNCHANGED <<log, damage, seen, atStart, readBad, dash>>
      BY <1>7 DEF FinishVerifying, LastPage
  <2>2. offset >= Len(log)
      BY <1>0, <2>1, PageRows
  <2>3. damage = 0 => seen >= atStart
      BY <1>0, <1>t, <1>a, <2>1, <2>2 DEF VerdictInv
  <2>4. ~readBad
      BY <2>1, Zenon DEF VerdictInv
  <2>5. QED
      BY <2>1, <2>3, <2>4 DEF VerdictInv
<1>8. CASE FetchFails
    BY <1>8 DEF FetchFails, VerdictInv
<1>9. CASE DashboardVerifies
  <2> DEFINE rows == PageAt(0)
  <2>1. /\ UNCHANGED <<log, damage, page>>
        /\ dash' = [said |-> IF Accepts(rows, Genesis) THEN "verified" ELSE "tampered",
                    bad  |-> \E i \in 1 .. Len(rows) : rows[i].bad]
      BY <1>9 DEF DashboardVerifies
  <2>2. \A j \in Rows : j = 0 + 1 => Before(log, j) = Genesis
      BY DEF Before
  <2>3. Accepts(rows, Genesis) => \A i \in 1 .. Len(rows) : ~rows[i].bad
      BY <2>2, AcceptedRows
  <2> HIDE DEF rows
  <2>4. /\ dash'.said = "verified" => Accepts(rows, Genesis)
        /\ dash'.bad = (\E i \in 1 .. Len(rows) : rows[i].bad)
      BY <2>1
  <2>5. dash'.said = "verified" => ~dash'.bad
      BY <2>3, <2>4, Zenon
  <2>6. QED
      BY <2>1, <2>5 DEF VerdictInv, page
<1>10. CASE UNCHANGED vars
    BY <1>0, <1>1, <1>10 DEF vars
<1>11. QED
    BY <1>2, <1>3, <1>4, <1>5, <1>6, <1>7, <1>8, <1>9, <1>10 DEF Next, Rows

LEMMA InitVerdict == Init => PageInv /\ VerdictInv
<1> SUFFICES ASSUME Init
             PROVE  PageInv /\ VerdictInv
    OBVIOUS
<1>1. readBad = FALSE
    BY Zenon DEF Init
<1>2. log = <<>> /\ Len(log) = 0 /\ Rows = {} /\ prev = Genesis /\ offset = 0
    BY DEF Init, Rows
<1>3. PageInv
    BY <1>2 DEF PageInv
<1>4. VerdictInv
    BY <1>1, <1>2 DEF Init, VerdictInv
<1>5. QED
    BY <1>3, <1>4

\* "Verified" of either viewer: no row it was served is damaged, and those of
\* the page reach to the end the log had when it started.
THEOREM VerdictsAreSound == Spec => []VerdictSound
<1>1. PageInv /\ VerdictInv /\ Typed /\ ChainInv /\ [Next]_vars
      => (PageInv /\ VerdictInv)'
    BY PageStep, VerdictStep
<1>2. VerdictInv => VerdictSound
    BY DEF VerdictInv, VerdictSound
<1>3. QED
    BY <1>1, <1>2, InitVerdict, Chain, PTL DEF Spec

-----------------------------------------------------------------------------
(* When tampering is reported.  Both languages write a number with a        *)
(* fraction alike, which time.time() all but always has; a whole number     *)
(* would be reported as tampering.                                          *)

Fractional == \A t \in Stamps : t % 2 # 0

LEMMA UndamagedAccepted ==
    ASSUME Fractional, Typed, ChainInv, SoundInv, damage = 0, NEW o \in Nat, NEW p,
           o < Len(log) => p = Before(log, o + 1)
    PROVE  Accepts(PageAt(o), p)
<1> DEFINE rows == PageAt(o)
<1> SUFFICES ASSUME NEW i \in 1 .. Len(rows)
             PROVE  LET h == IF i = 1 THEN p ELSE rows[i - 1].current_hash IN
                    /\ rows[i].previous_hash = h
                    /\ rows[i].current_hash = Recomputed(rows[i], h)
    BY DEF Accepts
<1> DEFINE row == log[o + i]
<1>1. Len(rows) \in Nat /\ Len(log) \in Nat /\ o + i \in Rows /\ rows[i] = row
    BY PageRows, LogIsSequence DEF Typed
<1>2. o < Len(log)
    BY <1>1 DEF Rows
<1>3. row.event # "altered" /\ row.previous_hash = Before(log, o + i)
    BY <1>1 DEF SoundInv
<1>4. row.timestamp \in Stamps
    BY <1>1, LogIsSequence DEF Typed
<1>5. row.current_hash = Recomputed(row, row.previous_hash)
  <2>1. PICK w \in Done : WrittenBy(row, w)
      BY <1>1 DEF ChainInv
  <2>2. row.event = w
      BY <1>3, <2>1 DEF WrittenBy
  <2>3. row.timestamp % 2 # 0
      BY <1>4, Zenon DEF Fractional
  <2>4. PythonText(row.timestamp) = BrowserText(row.timestamp)
      BY <2>3 DEF PythonText, BrowserText
  <2>5. QED
      BY <2>1, <2>2, <2>4 DEF WrittenBy, Recomputed
<1>6. CASE i = 1
    BY <1>1, <1>2, <1>3, <1>5, <1>6
<1>7. CASE i # 1
  <2>1. i - 1 \in 1 .. Len(rows) /\ o + (i - 1) = o + i - 1 /\ o + i # 1
      BY <1>1, <1>7
  <2>2. rows[i - 1] = log[o + i - 1]
      BY <2>1, PageRows
  <2>3. QED
      BY <1>1, <1>3, <1>5, <1>7, <2>1, <2>2 DEF Before
<1>8. QED
    BY <1>6, <1>7

\* While the log stands still, the page carries the hash before its offset.
AlarmInv ==
    /\ status = "checking" /\ damage = 0 /\ Len(log) = atStart /\ offset < Len(log) =>
          prev = Before(log, offset + 1)
    /\ AlarmExplained

LEMMA AlarmStep ==
    ASSUME Fractional, Typed, ChainInv, SoundInv, VerdictInv, AlarmInv, [Next]_vars
    PROVE  AlarmInv'
<1> USE DEF AlarmInv, AlarmExplained
<1>0. Len(log) \in Nat /\ offset \in Nat
    BY LogIsSequence DEF Typed
<1>a. atStart \in Nat
    BY DEF Typed, TypeOK
<1>d. damage \in Nat
    BY DEF Typed, TypeOK
<1>1. CASE UNCHANGED <<log, page, dash, damage>>
    BY <1>1 DEF page
<1>2. ASSUME NEW w \in Writer, ReadHead(w) \/ AppendFails(w)
      PROVE  AlarmInv'
    BY <1>1, <1>2 DEF ReadHead, AppendFails
<1>3. ASSUME NEW w \in Writer, NEW t \in Stamps, CommitBlock(w, t)
      PROVE  AlarmInv'
  <2>1. Len(log') = Len(log) + 1 /\ UNCHANGED <<page, dash, damage>>
      BY <1>3, CommitRows DEF Typed, CommitBlock
  <2>2. status = "checking" /\ damage = 0 => Len(log') # atStart
      BY <1>0, <1>a, <2>1 DEF VerdictInv
  <2>3. Len(log) > atStart => Len(log') > atStart
      BY <1>0, <1>a, <2>1
  <2>4. QED
      BY <2>1, <2>2, <2>3 DEF page
<1>4. ASSUME NEW i \in Rows, AlterRow(i) \/ DeleteRow(i)
      PROVE  AlarmInv'
  <2>1. damage' = damage + 1
      BY <1>4 DEF AlterRow, DeleteRow
  <2>2. damage' > 0 /\ damage' # 0
      BY <1>d, <2>1
  <2>3. QED
      BY <2>2
<1>5. CASE StartVerifying
  <2>1. /\ UNCHANGED <<log, damage, report, dash>> /\ report = "none"
        /\ prev' = Genesis /\ offset' = 0
      BY <1>5 DEF StartVerifying
  <2>2. QED
      BY <2>1 DEF Before
<1>6. CASE FetchPage
  <2> DEFINE rows == PageAt(offset)
  <2>1. /\ status = "checking" /\ rows # <<>> /\ report = "none"
        /\ UNCHANGED <<log, damage, atStart, dash>>
      BY <1>6 DEF FetchPage, VerdictInv
  <2>2. CASE /\ Accepts(rows, prev)
             /\ prev' = rows[Len(rows)].current_hash
             /\ offset' = offset + PageSize
             /\ UNCHANGED <<status, report>>
    <3>1. ASSUME offset' < Len(log)
          PROVE  prev' = Before(log', offset' + 1)
      <4>1. Len(rows) = PageSize
          BY <1>0, <2>2, <3>1, PageRows
      <4>2. PageSize \in 1 .. Len(rows)
          BY <4>1
      <4>3. rows[PageSize] = log[offset + PageSize]
          BY <1>0, <4>2, PageRows
      <4>4. offset' + 1 # 1 /\ offset' + 1 - 1 = offset + PageSize
          BY <1>0, <2>2
      <4>5. QED
          BY <2>1, <2>2, <4>1, <4>3, <4>4 DEF Before
    <3>2. QED
        BY <2>1, <2>2, <3>1
  <2>3. CASE ~Accepts(rows, prev) /\ status' = "fail" /\ report' = "tampered"
    <3>1. ~(damage = 0 /\ (offset < Len(log) => prev = Before(log, offset + 1)))
        BY <1>0, <2>3, UndamagedAccepted
    <3>2. ~(damage = 0 /\ Len(log) = atStart)
        BY <2>1, <3>1
    <3>3. damage = 0 => atStart <= Len(log)
        BY <2>1 DEF VerdictInv
    <3>4. damage > 0 \/ Len(log) > atStart
        BY <1>0, <1>a, <1>d, <3>2, <3>3
    <3>5. QED
        BY <2>1, <2>3, <3>4
  <2>4. QED
      BY <1>6, <2>2, <2>3 DEF FetchPage, NextOffset
<1>7. CASE FinishVerifying \/ FetchFails
    BY <1>7 DEF FinishVerifying, FetchFails
<1>8. CASE DashboardVerifies
  <2>1. /\ UNCHANGED <<log, damage, page>>
        /\ dash'.said = IF Accepts(PageAt(0), Genesis) THEN "verified" ELSE "tampered"
      BY <1>8 DEF DashboardVerifies
  <2>2. Genesis = Before(log, 0 + 1)
      BY DEF Before
  <2>3. damage = 0 => Accepts(PageAt(0), Genesis)
      BY <2>2, UndamagedAccepted
  <2>4. dash'.said = "tampered" => damage > 0
      BY <1>d, <2>1, <2>3
  <2>5. QED
      BY <2>1, <2>4 DEF page
<1>9. QED
    BY <1>1, <1>2, <1>3, <1>4, <1>5, <1>6, <1>7, <1>8 DEF Next, Rows, vars

\* Tampering is reported only after a change behind the program's back or, by
\* the page, after the log grew while it was fetching.
THEOREM AlarmsAreExplained ==
    ASSUME Fractional
    PROVE  Spec => []AlarmExplained
<1>1. Init => AlarmInv
    BY DEF Init, AlarmInv, AlarmExplained
<1>2. /\ PageInv /\ VerdictInv /\ Typed /\ ChainInv /\ SoundInv /\ AlarmInv /\ [Next]_vars
      => (PageInv /\ VerdictInv /\ AlarmInv)'
    BY PageStep, VerdictStep, AlarmStep
<1>3. AlarmInv => AlarmExplained
    BY DEF AlarmInv
<1>4. QED
    BY <1>1, <1>2, <1>3, InitVerdict, Chain, PTL DEF Spec
=============================================================================
