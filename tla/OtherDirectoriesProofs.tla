----------------------- MODULE OtherDirectoriesProofs -----------------------
(***************************************************************************)
(* Theorems about the two directories besides the Django one.  LegacyKdc:  *)
(* any finite number of prekeys, any number of calls of upload_keys and    *)
(* send, any number of restarts.  FastApiDirectory: any number of users,   *)
(* prekeys, uploads and requests for keys.                                 *)
(***************************************************************************)
EXTENDS LegacyKdc, FastApiDirectory, FiniteSetTheorems, SequenceTheorems, TLAPS

-----------------------------------------------------------------------------
(* LegacyKdc.                                                              *)

\* A call of upload_keys that began read at least one prekey file.
BundleInv == \A c \in Call : reg[c] # "idle" => bundle[c] # {}

\* What a call of send may still do, and what it has done.
SessionInv ==
    \A s \in Session :
        /\ req[s] = "keys" => cpc[s] \in {"asking", "failed"}
        /\ req[s] = "upload" => cpc[s] \in {"uploading", "failed"}
        /\ \/ cpc[s] \in {"holding", "uploading", "sent"}
           \/ req[s] = "upload"
           \/ s \in files
           => offer[s] \in Key
        /\ cpc[s] \in {"idle", "asking", "holding"} \/ req[s] = "upload"
           => s \notin files \cup audited

\* A call of upload_keys the server did not answer yet left nothing behind.
CallInv ==
    \A c \in Call : reg[c] \in {"idle", "asking", "challenged", "posting", "late"} =>
        c \notin stored \cup audited

\* A prekey is off the disk because a file that was opened was made with it.
GoneInv == \A k \in Key \ disk : \E t \in opened : offer[t] = k

Twice(k) == \E i, j \in DOMAIN rows : i # j /\ rows[i].id = k /\ rows[j].id = k

\* The row a prekey was given from was marked used, unless it was the last.
SpentInv ==
    \A s \in Session : offer[s] # None =>
        \/ s \in lone
        \/ \E i \in DOMAIN rows : rows[i].id = offer[s] /\ rows[i].used

\* A prekey given twice is in two rows, or was the last unused row.
SharedInv ==
    \A s, t \in Session : s # t /\ offer[s] # None /\ offer[s] = offer[t] =>
        s \in lone \/ t \in lone \/ Twice(offer[s])

Inv ==
    /\ AuditAccounted
    /\ BundleInv /\ NeverExhausted
    /\ SessionInv /\ CallInv
    /\ GoneInv /\ SpentInv /\ SharedInv

-----------------------------------------------------------------------------
(* The table.                                                              *)

Row == [id : Key, used : BOOLEAN]

LEMMA FunctionIsSeq ==
    ASSUME NEW S, NEW n \in Nat, NEW f \in [1 .. n -> S]
    PROVE  f \in Seq(S) /\ Len(f) = n
<1>1. f \in Seq(S)
    BY SeqDef, Zenon
<1>2. Len(f) \in Nat /\ DOMAIN f = 1 .. Len(f)
    BY <1>1, LenProperties
<1>3. 1 .. n = 1 .. Len(f)
    BY <1>2
<1>4. \A m, k \in Nat : 1 .. m = 1 .. k => m = k
  <2> SUFFICES ASSUME NEW m \in Nat, NEW k \in Nat, 1 .. m = 1 .. k
               PROVE  m <= k /\ k <= m
      OBVIOUS
  <2>1. m >= 1 => m \in 1 .. k
      OBVIOUS
  <2>2. k >= 1 => k \in 1 .. m
      OBVIOUS
  <2> QED
      BY <2>1, <2>2
<1> QED
    BY <1>1, <1>2, <1>3, <1>4

\* A bundle becomes at least one row, and all its rows are unused.
LEMMA InsertsRows ==
    ASSUME NEW B \in SUBSET Key, B # {}, NEW new \in Inserts(B)
    PROVE  /\ new \in Seq(Row) /\ Len(new) >= 1
           /\ \A i \in 1 .. Len(new) : ~new[i].used
<1>1. IsFiniteSet(B)
    BY KeyAssumption, FS_Subset
<1>2. Cardinality(B) \in Nat
    BY <1>1, FS_CardinalityType
<1>3. Cardinality(B) # 0
    BY <1>1, FS_EmptySet
<1>4. new \in [1 .. Cardinality(B) -> [id : B, used : {FALSE}]]
    BY DEF Inserts
<1>5. \A i \in 1 .. Cardinality(B) : new[i] \in [id : B, used : {FALSE}]
    BY <1>4
<1>6. \A i \in 1 .. Cardinality(B) : new[i] \in Row /\ ~new[i].used
    BY <1>5 DEF Row
<1>7. new \in [1 .. Cardinality(B) -> Row]
    BY <1>4, <1>6
<1>8. new \in Seq(Row) /\ Len(new) = Cardinality(B)
    BY <1>2, <1>7, FunctionIsSeq
<1> QED
    BY <1>2, <1>3, <1>6, <1>8

\* Rows are appended and marked used, and nothing else.
RowsKept ==
    /\ rows' \in Seq(Row)
    /\ Len(rows') >= Len(rows)
    /\ \A i \in 1 .. Len(rows) : /\ rows'[i].id = rows[i].id
                                 /\ rows[i].used => rows'[i].used

LEMMA RegisterRows ==
    ASSUME TypeOK, BundleInv, NEW c \in Call, Register(c)
    PROVE  /\ RowsKept
           /\ Unused' # {}
<1> USE DEF Row
<1>1. reg[c] # "idle" /\ bundle[c] # {}
    BY DEF Register, Posted, BundleInv
<1>2. bundle[c] \in SUBSET Key /\ rows \in Seq(Row)
    BY DEF TypeOK
<1>3. PICK new \in Inserts(bundle[c]) : rows' = rows \o new
    BY DEF Register
<1>4. /\ new \in Seq(Row) /\ Len(new) >= 1
      /\ \A i \in 1 .. Len(new) : ~new[i].used
    BY <1>1, <1>2, InsertsRows
<1>5. rows' \in Seq(Row) /\ Len(rows') = Len(rows) + Len(new)
    BY <1>2, <1>3, <1>4
<1>6. \A i \in 1 .. Len(rows) : rows'[i] = rows[i]
    BY <1>2, <1>3, <1>4
<1>7. rows'[Len(rows) + 1] = new[1]
    BY <1>2, <1>3, <1>4
<1>8. Len(rows) + 1 \in DOMAIN rows' /\ ~rows'[Len(rows) + 1].used
    BY <1>2, <1>4, <1>5, <1>7
<1>9. Unused' # {}
    BY <1>8 DEF Unused
<1> QED
    BY <1>2, <1>4, <1>5, <1>6, <1>9 DEF RowsKept

LEMMA RowId ==
    ASSUME TypeOK, NEW i \in 1 .. Len(rows)
    PROVE  rows[i].id \in Key
<1>1. rows \in Seq(Row)
    BY DEF TypeOK, Row
<1>2. rows[i] \in Row
    BY <1>1, ElementOfSeq
<1> QED
    BY <1>2 DEF Row

LEMMA UnusedFinite ==
    ASSUME rows \in Seq(Row)
    PROVE  IsFiniteSet(Unused) /\ Cardinality(Unused) \in Nat
<1>1. Len(rows) \in Nat /\ DOMAIN rows = 1 .. Len(rows)
    OBVIOUS
<1>2. IsFiniteSet(1 .. Len(rows))
    BY <1>1, FS_Interval
<1>3. Unused \in SUBSET (1 .. Len(rows))
    BY <1>1 DEF Unused
<1>4. IsFiniteSet(Unused)
    BY <1>2, <1>3, FS_Subset
<1> QED
    BY <1>4, FS_CardinalityType

\* The row a key is given from; it stays unused only if it is the last.
LEMMA GiveKeyRows ==
    ASSUME TypeOK, NEW s \in Session, GiveKey(s)
    PROVE  \E i \in Unused :
              /\ i \in 1 .. Len(rows) /\ ~rows[i].used
              /\ Len(rows') = Len(rows)
              /\ \A j \in 1 .. Len(rows) :
                    /\ rows'[j].id = rows[j].id
                    /\ j # i => rows'[j].used = rows[j].used
              /\ rows'[i].used \/ Cardinality(Unused) = 1
              /\ Cardinality(Unused) = 1 => ~rows'[i].used
              /\ RowsKept
              /\ \/ /\ cpc[s] = "asking"
                    /\ cpc' = [cpc EXCEPT ![s] = "holding"]
                    /\ offer' = [offer EXCEPT ![s] = rows[i].id]
                    /\ lone' = IF Cardinality(Unused) = 1 THEN lone \cup {s} ELSE lone
                 \/ cpc[s] = "failed" /\ UNCHANGED <<cpc, offer, lone>>
<1>1. PICK i \in Unused :
          /\ rows' = [rows EXCEPT ![i].used = Spends(Cardinality(Unused))]
          /\ \/ /\ cpc[s] = "asking"
                /\ cpc' = [cpc EXCEPT ![s] = "holding"]
                /\ offer' = [offer EXCEPT ![s] = rows[i].id]
                /\ lone' = IF Cardinality(Unused) = 1 THEN lone \cup {s} ELSE lone
             \/ cpc[s] = "failed" /\ UNCHANGED <<cpc, offer, lone>>
    BY DEF GiveKey
<1>2. rows \in Seq(Row)
    BY DEF TypeOK, Row
<1>3. i \in 1 .. Len(rows) /\ ~rows[i].used
    BY <1>2 DEF Unused
<1>4. Cardinality(Unused) \in Nat \ {0}
    BY <1>2, UnusedFinite, FS_EmptySet
<1>5. Spends(Cardinality(Unused)) <=> Cardinality(Unused) # 1
    BY <1>4 DEF Spends
<1>6. Spends(Cardinality(Unused)) \in BOOLEAN
    BY <1>4 DEF Spends
<1>7. /\ rows' \in Seq(Row) /\ Len(rows') = Len(rows)
      /\ \A j \in 1 .. Len(rows) : j # i => rows'[j] = rows[j]
  <2>1. PICK e : e = [rows[i] EXCEPT !.used = Spends(Cardinality(Unused))]
      OBVIOUS
  <2>2. rows[i] \in Row
      BY <1>2, <1>3, ElementOfSeq
  <2>3. e \in Row
      BY <1>6, <2>1, <2>2 DEF Row
  <2>4. rows' = [rows EXCEPT ![i] = e]
      BY <1>1, <2>1
  <2> QED
      BY <1>2, <1>3, <2>3, <2>4, ExceptSeq
<1>8. rows'[i].id = rows[i].id /\ rows'[i].used = Spends(Cardinality(Unused))
    BY <1>1, <1>2, <1>3 DEF Row
<1>9. RowsKept
    BY <1>2, <1>3, <1>7, <1>8 DEF RowsKept
<1> QED
    BY <1>1, <1>3, <1>5, <1>7, <1>8, <1>9

\* Every other step leaves the table alone.
LEMMA OtherRows ==
    ASSUME [Next]_vars,
           ~ \E c \in Call : Register(c), ~ \E s \in Session : GiveKey(s)
    PROVE  rows' = rows
BY DEF Next, ForgetChallenge, ReadBundle, IssueChallenge, Post, CallFails, RefuseRegister,
       RegisterFails, Ask, RefuseKey, ClientFails, StartUpload, Store, Open, vars

LEMMA NextRows ==
    ASSUME TypeOK, BundleInv, [Next]_vars
    PROVE  RowsKept
<1>1. CASE \E c \in Call : Register(c)
    BY <1>1, RegisterRows
<1>2. CASE \E s \in Session : GiveKey(s)
    BY <1>2, GiveKeyRows
<1>3. CASE rows' = rows
    BY <1>3 DEF RowsKept, TypeOK, Row
<1> QED
    BY <1>1, <1>2, <1>3, OtherRows

\* One row always stays unused.
LEMMA NeverExhaustedStep ==
    ASSUME TypeOK, BundleInv, NeverExhausted, [Next]_vars
    PROVE  NeverExhausted'
<1>1. CASE \E c \in Call : Register(c)
    BY <1>1, RegisterRows DEF NeverExhausted
<1>2. ASSUME NEW s \in Session, GiveKey(s)
      PROVE  Unused' # {}
  <2>1. PICK i \in Unused :
            /\ i \in 1 .. Len(rows) /\ ~rows[i].used
            /\ Len(rows') = Len(rows)
            /\ \A j \in 1 .. Len(rows) :
                  /\ rows'[j].id = rows[j].id
                  /\ j # i => rows'[j].used = rows[j].used
            /\ Cardinality(Unused) = 1 => ~rows'[i].used
            /\ RowsKept
      BY <1>2, GiveKeyRows
  <2>2. rows \in Seq(Row) /\ rows' \in Seq(Row)
      BY <2>1 DEF TypeOK, Row, RowsKept
  <2>3. DOMAIN rows = 1 .. Len(rows) /\ DOMAIN rows' = 1 .. Len(rows)
      BY <2>1, <2>2
  <2>4. CASE Cardinality(Unused) = 1
      BY <2>1, <2>3, <2>4 DEF Unused
  <2>5. CASE Cardinality(Unused) # 1
    <3>1. Unused # {i}
        BY <2>5, FS_Singleton
    <3>2. PICK j \in Unused : j # i
        BY <2>1, <3>1
    <3>3. j \in DOMAIN rows' /\ ~rows'[j].used
        BY <2>1, <2>3, <3>2 DEF Unused
    <3> QED
        BY <3>3 DEF Unused
  <2> QED
      BY <2>4, <2>5
<1>3. CASE rows' = rows
    BY <1>3 DEF NeverExhausted, Unused
<1> QED
    BY <1>1, <1>2, <1>3, OtherRows DEF NeverExhausted

-----------------------------------------------------------------------------
(* Types, and what each step leaves behind.                                *)

LEMMA InitInv == Init => Inv
<1> SUFFICES ASSUME Init PROVE Inv
    OBVIOUS
<1> USE NoneAssumption, BoundAssumption DEF Init
<1>1. TypeOK
    BY EmptySeq DEF TypeOK
<1>2. AuditAccounted
    BY <1>1 DEF AuditAccounted
<1>3. BundleInv /\ NeverExhausted /\ SessionInv /\ CallInv
    BY DEF BundleInv, NeverExhausted, SessionInv, CallInv
<1>4. GoneInv /\ SpentInv /\ SharedInv
    BY DEF GoneInv, SpentInv, SharedInv
<1> QED
    BY <1>2, <1>3, <1>4 DEF Inv

LEMMA TypeStep ==
    ASSUME TypeOK, BundleInv, [Next]_vars
    PROVE  TypeOK'
<1> USE NoneAssumption, BoundAssumption
<1>1. rows' \in Seq(Row)
    BY NextRows DEF RowsKept
<1> USE <1>1 DEF TypeOK, Row, registry, sending, reader
<1>2. CASE ForgetChallenge
    BY <1>2 DEF ForgetChallenge
<1>3. ASSUME NEW c \in Call,
             \/ ReadBundle(c) \/ IssueChallenge(c) \/ Post(c) \/ CallFails(c)
             \/ RefuseRegister(c)
      PROVE  TypeOK'
    BY <1>3 DEF ReadBundle, IssueChallenge, Post, CallFails, RefuseRegister, Answered
<1>4. ASSUME NEW c \in Call, Register(c)
      PROVE  TypeOK'
  <2>1. /\ reg' \in [Call -> {"idle", "asking", "challenged", "posting", "registered",
                              "failed", "late", "ended"}]
        /\ stored' \subseteq Call
      BY <1>4 DEF Register, Answered
  <2>2. audited' \subseteq Call \cup Session
      BY <1>4 DEF Register, Log
  <2>3. /\ challenge' \in Call \cup {None} /\ kills' \in 0 .. MaxKills
        /\ broken' \subseteq Call \cup Session
      BY <1>4 DEF Register, Killed
  <2> QED
      BY <1>4, <2>1, <2>2, <2>3 DEF Register
<1>5. ASSUME NEW c \in Call, RegisterFails(c)
      PROVE  TypeOK'
    BY <1>5 DEF RegisterFails, Answered, Log
<1>6. ASSUME NEW s \in Session, Ask(s) \/ ClientFails(s) \/ StartUpload(s) \/ Open(s)
      PROVE  TypeOK'
    BY <1>6 DEF Ask, ClientFails, StartUpload, Open, Inbox
<1>7. ASSUME NEW s \in Session, GiveKey(s)
      PROVE  TypeOK'
  <2>1. PICK i \in Unused :
            /\ i \in 1 .. Len(rows)
            /\ \/ /\ cpc[s] = "asking"
                  /\ cpc' = [cpc EXCEPT ![s] = "holding"]
                  /\ offer' = [offer EXCEPT ![s] = rows[i].id]
                  /\ lone' = IF Cardinality(Unused) = 1 THEN lone \cup {s} ELSE lone
               \/ cpc[s] = "failed" /\ UNCHANGED <<cpc, offer, lone>>
      BY <1>7, GiveKeyRows
  <2>2. rows[i].id \in Key
      BY <2>1, RowId
  <2>3. /\ cpc' \in [Session -> {"idle", "asking", "holding", "uploading", "sent", "failed"}]
        /\ offer' \in [Session -> Key \cup {None}]
        /\ lone' \subseteq Session
      BY <2>1, <2>2
  <2> QED
      BY <1>7, <2>3 DEF GiveKey
<1>8. ASSUME NEW s \in Session, RefuseKey(s)
      PROVE  TypeOK'
    BY <1>8 DEF RefuseKey, DbError
<1>9. ASSUME NEW s \in Session, Store(s)
      PROVE  TypeOK'
  <2>1. blob' \in [Session -> {"none", "whole", "short"}]
      BY <1>9 DEF Store, Body
  <2>2. cpc' \in [Session -> {"idle", "asking", "holding", "uploading", "sent", "failed"}]
      BY <1>9 DEF Store
  <2>3. files' \subseteq Session /\ files \subseteq files' /\ audited' \subseteq Call \cup Session
      BY <1>9 DEF Store, Log
  <2>4. /\ challenge' \in Call \cup {None} /\ kills' \in 0 .. MaxKills
        /\ broken' \subseteq Call \cup Session
      BY <1>9 DEF Store, Killed, DbError
  <2> QED
      BY <1>9, <2>1, <2>2, <2>3, <2>4 DEF Store
<1>10. CASE UNCHANGED vars
    BY <1>10 DEF vars
<1> QED
    BY <1>2, <1>3, <1>4, <1>5, <1>6, <1>7, <1>8, <1>9, <1>10 DEF Next

LEMMA BundleStep ==
    ASSUME TypeOK, BundleInv, [Next]_vars
    PROVE  BundleInv'
BY DEF TypeOK, BundleInv, Next, ForgetChallenge, ReadBundle, IssueChallenge, Post, CallFails,
       RefuseRegister, Register, RegisterFails, Answered, Posted, Ask, GiveKey, RefuseKey,
       ClientFails, StartUpload, Store, Open, vars, registry

\* A call of send at work, by the steps of its own.
LEMMA SessionStep ==
    ASSUME TypeOK, CallInv, SessionInv, [Next]_vars
    PROVE  SessionInv'
<1> USE DEF SessionInv, TypeOK
<1>1. CASE UNCHANGED vars \/ ForgetChallenge
    BY <1>1 DEF ForgetChallenge, vars, sending
<1>2. ASSUME NEW c \in Call,
             \/ ReadBundle(c) \/ IssueChallenge(c) \/ Post(c) \/ CallFails(c)
             \/ RefuseRegister(c)
      PROVE  SessionInv'
    BY <1>2 DEF ReadBundle, IssueChallenge, Post, CallFails, RefuseRegister, sending
<1>3. ASSUME NEW c \in Call, Register(c) \/ RegisterFails(c)
      PROVE  SessionInv'
  <2>1. UNCHANGED sending /\ audited' \subseteq audited \cup {c}
      BY <1>3 DEF Register, RegisterFails, Log
  <2> QED
      BY <2>1, KindAssumption DEF sending
<1>4. ASSUME NEW s \in Session, Ask(s) \/ ClientFails(s) \/ StartUpload(s) \/ Open(s)
      PROVE  SessionInv'
    BY <1>4 DEF Ask, ClientFails, StartUpload, Open, sending
<1>5. ASSUME NEW s \in Session, GiveKey(s)
      PROVE  SessionInv'
  <2>1. PICK i \in Unused :
            /\ i \in 1 .. Len(rows)
            /\ \/ /\ cpc[s] = "asking"
                  /\ cpc' = [cpc EXCEPT ![s] = "holding"]
                  /\ offer' = [offer EXCEPT ![s] = rows[i].id]
               \/ cpc[s] = "failed" /\ UNCHANGED <<cpc, offer>>
      BY <1>5, GiveKeyRows
  <2>2. rows[i].id \in Key
      BY <2>1, RowId
  <2>3. /\ req[s] = "keys" /\ req' = [req EXCEPT ![s] = "none"]
        /\ files' = files /\ audited' = audited
      BY <1>5 DEF GiveKey
  <2> QED
      BY <2>1, <2>2, <2>3
<1>6. ASSUME NEW s \in Session, RefuseKey(s)
      PROVE  SessionInv'
    BY <1>6 DEF RefuseKey
<1>7. ASSUME NEW s \in Session, Store(s)
      PROVE  SessionInv'
  <2>1. /\ req[s] = "upload" /\ req' = [req EXCEPT ![s] = "none"]
        /\ offer' = offer
        /\ files' \subseteq files \cup {s} /\ audited' \subseteq audited \cup {s}
        /\ \A t \in Session \ {s} : cpc'[t] = cpc[t]
        /\ cpc'[s] \in {"sent", "failed"}
      BY <1>7 DEF Store, Log
  <2> QED
      BY <2>1
<1> QED
    BY <1>1, <1>2, <1>3, <1>4, <1>5, <1>6, <1>7 DEF Next

LEMMA CallStep ==
    ASSUME TypeOK, CallInv, [Next]_vars
    PROVE  CallInv'
<1> USE DEF CallInv, TypeOK
<1>1. CASE UNCHANGED vars \/ ForgetChallenge
    BY <1>1 DEF ForgetChallenge, vars, registry
<1>2. ASSUME NEW c \in Call,
             \/ ReadBundle(c) \/ IssueChallenge(c) \/ Post(c) \/ CallFails(c)
             \/ RefuseRegister(c)
      PROVE  CallInv'
    BY <1>2 DEF ReadBundle, IssueChallenge, Post, CallFails, RefuseRegister, Answered, Posted
<1>3. ASSUME NEW c \in Call, Register(c) \/ RegisterFails(c)
      PROVE  CallInv'
  <2>1. /\ stored' \subseteq stored \cup {c} /\ audited' \subseteq audited \cup {c}
        /\ reg'[c] \in {"registered", "failed", "ended"}
        /\ \A d \in Call \ {c} : reg'[d] = reg[d]
      BY <1>3 DEF Register, RegisterFails, Log, Answered
  <2> QED
      BY <2>1
<1>4. ASSUME NEW s \in Session, \/ Ask(s) \/ GiveKey(s) \/ RefuseKey(s) \/ ClientFails(s)
                                \/ StartUpload(s) \/ Store(s) \/ Open(s)
      PROVE  CallInv'
  <2>1. reg' = reg /\ stored' = stored /\ audited' \subseteq audited \cup {s}
      BY <1>4 DEF Ask, GiveKey, RefuseKey, ClientFails, StartUpload, Store, Open, Log, registry
  <2> QED
      BY <2>1, KindAssumption
<1> QED
    BY <1>1, <1>2, <1>3, <1>4 DEF Next

-----------------------------------------------------------------------------
(* The audit log.                                                          *)

Accounted ==
    /\ \A c \in Call : (c \in stored) # (c \in audited) =>
           c \in broken \/ reg[c] = "ended"
    /\ \A s \in Session : (s \in files) # (s \in audited) => s \in broken
    /\ \A s \in Session : cpc[s] = "sent" =>
           s \in files \cap audited /\ blob[s] = "whole"

\* A request of a call of upload_keys leaves a row and an entry, or neither,
\* or was broken off.
LEMMA CallAccounted ==
    ASSUME TypeOK, Accounted, CallInv, NEW c \in Call,
           RefuseRegister(c) \/ Register(c) \/ RegisterFails(c)
    PROVE  Accounted'
<1> USE DEF TypeOK
<1>1. /\ UNCHANGED <<cpc, files, blob>> /\ broken \subseteq broken'
      /\ audited \subseteq audited' /\ audited' \subseteq audited \cup {c}
      /\ stored \subseteq stored' /\ stored' \subseteq stored \cup {c}
      /\ \A d \in Call \ {c} : reg'[d] = reg[d]
    BY DEF RefuseRegister, Register, RegisterFails, Log, Answered, Killed, sending
<1>2. c \notin stored \cup audited
    BY DEF CallInv, RefuseRegister, Register, RegisterFails, Posted
<1>3. (c \in stored') # (c \in audited') => c \in broken' \/ reg'[c] = "ended"
  <2>1. CASE RefuseRegister(c)
      BY <1>2, <2>1 DEF RefuseRegister
  <2>2. CASE RegisterFails(c)
      BY <2>2 DEF RegisterFails
  <2>3. CASE Register(c)
    <3>1. CASE Killed(c)
        BY <3>1 DEF Killed
    <3>2. CASE Log(c)
        BY <2>3, <3>2 DEF Register, Log
    <3>3. CASE reg[c] = "late" /\ \E answer \in {"registered", "failed"} : Answered(c, answer)
        BY <3>3 DEF Answered
    <3> QED
        BY <2>3, <3>1, <3>2, <3>3 DEF Register
  <2> QED
      BY <2>1, <2>2, <2>3
<1>4. \A d \in Call : (d \in stored') # (d \in audited') => d \in broken' \/ reg'[d] = "ended"
    BY <1>1, <1>3 DEF Accounted
<1>5. \A s \in Session : (s \in files') # (s \in audited') => s \in broken'
    BY <1>1, KindAssumption DEF Accounted
<1>6. \A s \in Session : cpc'[s] = "sent" => s \in files' \cap audited' /\ blob'[s] = "whole"
    BY <1>1 DEF Accounted
<1> QED
    BY <1>4, <1>5, <1>6 DEF Accounted

\* So does a POST /upload, and one that was answered left all of its body.
LEMMA StoreAccounted ==
    ASSUME TypeOK, Accounted, SessionInv, NEW s \in Session, Store(s)
    PROVE  Accounted'
<1> USE DEF TypeOK
<1>1. /\ UNCHANGED <<stored, reg>> /\ broken \subseteq broken'
      /\ audited \subseteq audited' /\ audited' \subseteq audited \cup {s}
      /\ files \subseteq files' /\ files' \subseteq files \cup {s}
      /\ \A t \in Session \ {s} : cpc'[t] = cpc[t] /\ blob'[t] = blob[t]
    BY DEF Store, Log, Killed, DbError
<1>2. s \notin files \cup audited /\ cpc[s] \in {"uploading", "failed"}
    BY DEF SessionInv, Store
<1>3. /\ (s \in files') # (s \in audited') => s \in broken'
      /\ cpc'[s] = "sent" => s \in files' \cap audited' /\ blob'[s] = "whole"
  <2>1. CASE Killed(s) \/ DbError(s)
    <3>1. s \in broken'
        BY <2>1 DEF Killed, DbError
    <3>2. CASE cpc'[s] = "sent"
      <4>1. Log(s) /\ files' = files \cup {s} /\ cpc[s] = "uploading"
          BY <1>2, <3>2 DEF Store
      <4>2. blob'[s] = "whole"
          BY <3>2, <4>1 DEF Store, Body
      <4> QED
          BY <4>1, <4>2 DEF Log
    <3> QED
        BY <3>1, <3>2
  <2>2. CASE ~(Killed(s) \/ DbError(s))
    <3>1. Log(s) /\ files' = files \cup {s} /\ (cpc'[s] = "sent" => cpc[s] = "uploading")
        BY <1>2, <2>2 DEF Store
    <3>2. cpc[s] = "uploading" => blob'[s] = "whole"
        BY <2>2 DEF Store, Body
    <3> QED
        BY <3>1, <3>2 DEF Log
  <2> QED
      BY <2>1, <2>2
<1>4. \A c \in Call : (c \in stored') # (c \in audited') => c \in broken' \/ reg'[c] = "ended"
    BY <1>1, KindAssumption DEF Accounted
<1>5. \A t \in Session : (t \in files') # (t \in audited') => t \in broken'
    BY <1>1, <1>3 DEF Accounted
<1>6. \A t \in Session : cpc'[t] = "sent" => t \in files' \cap audited' /\ blob'[t] = "whole"
    BY <1>1, <1>3 DEF Accounted
<1> QED
    BY <1>4, <1>5, <1>6 DEF Accounted

LEMMA AccountedStep ==
    ASSUME TypeOK, Accounted, SessionInv, CallInv, [Next]_vars
    PROVE  Accounted'
<1>1. CASE \E c \in Call : RefuseRegister(c) \/ Register(c) \/ RegisterFails(c)
    BY <1>1, CallAccounted
<1>2. CASE \E s \in Session : Store(s)
    BY <1>2, StoreAccounted
<1>3. CASE \/ ForgetChallenge \/ UNCHANGED vars
           \/ \E c \in Call : ReadBundle(c) \/ IssueChallenge(c) \/ Post(c) \/ CallFails(c)
  <2>1. /\ UNCHANGED <<stored, audited, broken, files, cpc, blob>>
        /\ \A c \in Call : reg[c] = "ended" => reg'[c] = "ended"
      BY <1>3 DEF ForgetChallenge, ReadBundle, IssueChallenge, Post, CallFails, vars, registry,
                  sending, TypeOK
  <2> QED
      BY <2>1 DEF Accounted
<1>4. CASE \E s \in Session : \/ Ask(s) \/ GiveKey(s) \/ RefuseKey(s) \/ ClientFails(s)
                              \/ StartUpload(s) \/ Open(s)
  <2>1. /\ UNCHANGED <<stored, reg, audited, files, blob>> /\ broken \subseteq broken'
        /\ \A s \in Session : cpc'[s] = "sent" => cpc[s] = "sent"
      BY <1>4 DEF Ask, GiveKey, RefuseKey, ClientFails, StartUpload, Open, DbError, registry,
                  sending, TypeOK
  <2> QED
      BY <2>1 DEF Accounted
<1> QED
    BY <1>1, <1>2, <1>3, <1>4 DEF Next

-----------------------------------------------------------------------------
(* The Reader's disk, and what the table says of the prekeys it gave.      *)

LEMMA OtherOffers ==
    ASSUME [Next]_vars, ~ \E s \in Session : GiveKey(s)
    PROVE  offer' = offer /\ lone' = lone
BY DEF Next, ForgetChallenge, ReadBundle, IssueChallenge, Post, CallFails, RefuseRegister,
       Register, RegisterFails, Ask, RefuseKey, ClientFails, StartUpload, Store, Open, vars,
       sending

LEMMA OtherDisk ==
    ASSUME [Next]_vars, ~ \E s \in Session : Open(s)
    PROVE  disk' = disk /\ opened' = opened
BY DEF Next, ForgetChallenge, ReadBundle, IssueChallenge, Post, CallFails, RefuseRegister,
       Register, RegisterFails, Ask, GiveKey, RefuseKey, ClientFails, StartUpload, Store, vars,
       reader

LEMMA GoneStep ==
    ASSUME TypeOK, SessionInv, GoneInv, [Next]_vars
    PROVE  GoneInv'
<1>1. ASSUME NEW s \in Session, Open(s)
      PROVE  GoneInv'
  <2>1. /\ offer' = offer /\ opened' = opened \cup {s}
        /\ disk' = disk \ Consumed(s)
      BY <1>1 DEF Open, sending
  <2>2. Consumed(s) \subseteq {offer[s]}
      BY DEF Consumed
  <2> QED
      BY <2>1, <2>2 DEF GoneInv
<1>2. ASSUME NEW s \in Session, GiveKey(s)
      PROVE  GoneInv'
  <2>1. disk' = disk /\ opened' = opened /\ req[s] = "keys"
      BY <1>2 DEF GiveKey, reader
  <2>2. \A t \in Session \ {s} : offer'[t] = offer[t]
      BY <1>2 DEF GiveKey, TypeOK
  <2>3. cpc[s] = "asking" \/ offer' = offer
      BY <1>2 DEF GiveKey
  <2>4. cpc[s] = "asking" => s \notin opened
      BY DEF SessionInv, TypeOK
  <2>5. opened \subseteq Session
      BY DEF TypeOK
  <2> QED
      BY <2>1, <2>2, <2>3, <2>4, <2>5 DEF GoneInv
<1>3. CASE offer' = offer /\ disk' = disk /\ opened' = opened
    BY <1>3 DEF GoneInv
<1> QED
    BY <1>1, <1>2, <1>3, OtherOffers, OtherDisk

\* A prekey in two rows, or in a used row, stays there.
LEMMA RowsStay ==
    ASSUME TypeOK, RowsKept, NEW k
    PROVE  /\ Twice(k) => Twice(k)'
           /\ (\E i \in DOMAIN rows : rows[i].id = k /\ rows[i].used)
              => \E i \in DOMAIN rows' : rows'[i].id = k /\ rows'[i].used
<1>1. rows \in Seq(Row) /\ rows' \in Seq(Row)
    BY DEF TypeOK, RowsKept, Row
<1>2. /\ DOMAIN rows = 1 .. Len(rows) /\ DOMAIN rows' = 1 .. Len(rows')
      /\ DOMAIN rows \subseteq DOMAIN rows'
    BY <1>1 DEF RowsKept
<1> QED
    BY <1>2 DEF RowsKept, Twice

LEMMA GiveKeySpent ==
    ASSUME TypeOK, SpentInv, NEW s \in Session, GiveKey(s)
    PROVE  SpentInv'
<1>1. PICK i \in Unused :
          /\ i \in 1 .. Len(rows)
          /\ Len(rows') = Len(rows)
          /\ rows'[i].id = rows[i].id
          /\ rows'[i].used \/ Cardinality(Unused) = 1
          /\ RowsKept
          /\ \/ /\ offer' = [offer EXCEPT ![s] = rows[i].id]
                /\ lone' = IF Cardinality(Unused) = 1 THEN lone \cup {s} ELSE lone
             \/ UNCHANGED <<offer, lone>>
    BY GiveKeyRows
<1>2. i \in DOMAIN rows'
    BY <1>1 DEF RowsKept
<1>3. SUFFICES ASSUME NEW t \in Session, offer'[t] # None
               PROVE  \/ t \in lone'
                      \/ \E j \in DOMAIN rows' : rows'[j].id = offer'[t] /\ rows'[j].used
    BY DEF SpentInv
<1>4. CASE offer'[t] = offer[t]
  <2>1. t \in lone \/ \E j \in DOMAIN rows : rows[j].id = offer[t] /\ rows[j].used
      BY <1>3, <1>4 DEF SpentInv
  <2>2. lone \subseteq lone'
      BY <1>1
  <2> QED
      BY <1>1, <1>4, <2>1, <2>2, RowsStay
<1>5. CASE offer'[t] # offer[t]
  <2>1. /\ t = s /\ offer'[t] = rows[i].id
        /\ lone' = IF Cardinality(Unused) = 1 THEN lone \cup {s} ELSE lone
      BY <1>1, <1>5 DEF TypeOK
  <2> QED
      BY <1>1, <1>2, <2>1
<1> QED
    BY <1>4, <1>5

\* The row a prekey is given from was unused: if it was given before, and not
\* from the last unused row, it is in a second row.
LEMMA GiveKeyShared ==
    ASSUME TypeOK, SpentInv, SharedInv, NEW s \in Session, GiveKey(s)
    PROVE  SharedInv'
<1>1. PICK i \in Unused :
          /\ i \in 1 .. Len(rows) /\ ~rows[i].used
          /\ RowsKept
          /\ \/ /\ offer' = [offer EXCEPT ![s] = rows[i].id]
                /\ lone' = IF Cardinality(Unused) = 1 THEN lone \cup {s} ELSE lone
             \/ UNCHANGED <<offer, lone>>
    BY GiveKeyRows
<1>2. lone \subseteq lone'
    BY <1>1
<1>3. CASE UNCHANGED <<offer, lone>>
    BY <1>1, <1>3, RowsStay DEF SharedInv
<1>4. CASE offer' = [offer EXCEPT ![s] = rows[i].id]
  <2>1. offer'[s] = rows[i].id /\ \A t \in Session \ {s} : offer'[t] = offer[t]
      BY <1>4 DEF TypeOK
  <2>2. i \in DOMAIN rows
      BY DEF Unused
  <2>3. ASSUME NEW t \in Session \ {s}, offer[t] = rows[i].id
        PROVE  t \in lone \/ Twice(rows[i].id)
    <3>1. offer[t] # None
        BY <1>1, <2>3, RowId, NoneAssumption
    <3>2. t \in lone \/ \E j \in DOMAIN rows : rows[j].id = offer[t] /\ rows[j].used
        BY <3>1 DEF SpentInv
    <3> QED
        BY <1>1, <2>2, <2>3, <3>2 DEF Twice
  <2>4. SUFFICES ASSUME NEW a \in Session, NEW b \in Session, a # b, NEW k, k # None,
                        offer'[a] = k, offer'[b] = k
                 PROVE  a \in lone' \/ b \in lone' \/ Twice(k)'
      BY DEF SharedInv
  <2>5. CASE a # s /\ b # s
    <3>1. offer[a] = k /\ offer[b] = k
        BY <2>1, <2>4, <2>5
    <3>2. a \in lone \/ b \in lone \/ Twice(k)
        BY <2>4, <3>1 DEF SharedInv
    <3> QED
        BY <1>1, <1>2, <3>2, RowsStay
  <2>6. CASE a = s \/ b = s
    <3>1. PICK t \in {a, b} : t # s /\ offer[t] = k
        BY <2>1, <2>4, <2>6
    <3>2. k = rows[i].id
        BY <2>1, <2>4, <2>6
    <3>3. t \in lone \/ Twice(k)
        BY <2>3, <2>4, <3>1, <3>2
    <3> QED
        BY <1>1, <1>2, <3>1, <3>3, RowsStay
  <2> QED
      BY <2>5, <2>6
<1> QED
    BY <1>1, <1>3, <1>4

LEMMA OffersStep ==
    ASSUME TypeOK, BundleInv, SpentInv, SharedInv, [Next]_vars
    PROVE  SpentInv' /\ SharedInv'
<1>1. CASE \E s \in Session : GiveKey(s)
    BY <1>1, GiveKeySpent, GiveKeyShared
<1>2. CASE offer' = offer /\ lone' = lone
    BY <1>2, NextRows, RowsStay DEF SpentInv, SharedInv
<1> QED
    BY <1>1, <1>2, OtherOffers

-----------------------------------------------------------------------------
LEMMA StepInv == Inv /\ [Next]_vars => Inv'
<1> SUFFICES ASSUME Inv, [Next]_vars
             PROVE  Inv'
    OBVIOUS
<1>1. TypeOK /\ Accounted
    BY DEF Inv, AuditAccounted, Accounted
<1>2. TypeOK' /\ BundleInv' /\ NeverExhausted'
    BY <1>1, TypeStep, BundleStep, NeverExhaustedStep DEF Inv
<1>3. SessionInv' /\ CallInv' /\ Accounted'
    BY <1>1, SessionStep, CallStep, AccountedStep DEF Inv
<1>4. GoneInv' /\ SpentInv' /\ SharedInv'
    BY <1>1, GoneStep, OffersStep DEF Inv
<1>5. AuditAccounted'
    BY <1>2, <1>3 DEF AuditAccounted, Accounted
<1> QED
    BY <1>2, <1>3, <1>4, <1>5 DEF Inv

LEMMA Invariance == Spec => []Inv
BY InitInv, StepInv, PTL DEF Spec

\* Once a bundle was registered one prekey row stays unused: server.py always
\* has a key to give, because the last row is given without being spent.
THEOREM AlwaysAKey == Spec => []NeverExhausted
<1>1. Inv => NeverExhausted
    BY DEF Inv
<1> QED
    BY <1>1, Invariance, PTL

\* Every request of the legacy directory is in its audit log if and only if it
\* took effect, but for those broken off by a kill, a database error or a
\* caller who was gone.
THEOREM EveryEffectIsLogged == Spec => []AuditAccounted
<1>1. Inv => AuditAccounted
    BY DEF Inv
<1> QED
    BY <1>1, Invariance, PTL

\* Two rows of a prekey are counted as two.
LEMMA TwiceCounted ==
    ASSUME TypeOK, NEW k, Twice(k)
    PROVE  Cardinality(RowsOf(k)) > 1
<1>1. Len(rows) \in Nat /\ DOMAIN rows = 1 .. Len(rows)
    BY DEF TypeOK
<1>2. IsFiniteSet(1 .. Len(rows))
    BY <1>1, FS_Interval
<1>3. RowsOf(k) \in SUBSET (1 .. Len(rows))
    BY <1>1 DEF RowsOf
<1>4. IsFiniteSet(RowsOf(k))
    BY <1>2, <1>3, FS_Subset
<1>5. PICK i, j \in RowsOf(k) : i # j
    BY DEF Twice, RowsOf
<1>6. Cardinality(RowsOf(k)) # 0 /\ Cardinality(RowsOf(k)) # 1
    BY <1>4, <1>5, FS_EmptySet, FS_Singleton
<1> QED
    BY <1>4, <1>6, FS_CardinalityType

\* A file nobody tried to decrypt and nobody can decrypt any more shares its
\* prekey with one that was decrypted, because the prekey was inserted twice or
\* was the last unused one when it was given.
THEOREM EveryLossIsExplained == Spec => []LossExplained
<1>1. Inv => LossExplained
  <2>1. SUFFICES ASSUME Inv, NEW s \in files \ opened, ~Readable(s)
                 PROVE  \E t \in opened :
                            /\ offer[t] = offer[s]
                            /\ \/ Cardinality(RowsOf(offer[s])) > 1
                               \/ s \in lone \/ t \in lone
      BY DEF LossExplained
  <2>2. TypeOK
      BY <2>1 DEF Inv, AuditAccounted
  <2>3. s \in Session /\ opened \subseteq Session
      BY <2>2 DEF TypeOK
  <2>4. offer[s] \in Key \ disk
      BY <2>1, <2>3 DEF Inv, SessionInv, Readable
  <2>5. PICK t \in opened : offer[t] = offer[s]
      BY <2>1, <2>4 DEF Inv, GoneInv
  <2>6. t # s /\ offer[s] # None
      BY <2>1, <2>4, NoneAssumption
  <2>7. s \in lone \/ t \in lone \/ Twice(offer[s])
      BY <2>1, <2>3, <2>5, <2>6 DEF Inv, SharedInv
  <2> QED
      BY <2>2, <2>5, <2>7, TwiceCounted
<1> QED
    BY <1>1, Invariance, PTL

-----------------------------------------------------------------------------
(* FastApiDirectory.                                                       *)

\* An upload that found its user found the identity key it has itself.
Compared ==
    \A u \in Upload : pc[u] = "reading" /\ u \notin isNew =>
        identity[UserOf[u]] = IdentityOf[u]

\* A request that selected a prekey names one that was inserted; if its DELETE
\* matched and the prekey is in the table, it was inserted again.
Counted ==
    /\ \A p \in Prekey : owner[p] # Absent => inserted[p] > 0
    /\ \A g \in Get : pc[g] \in {"selected", "ok"} =>
          given[g] \in Prekey /\ inserted[given[g]] > 0
    /\ \A g \in Get : pc[g] = "ok" /\ g \notin missed /\ owner[given[g]] # Absent =>
          inserted[given[g]] > 1

DirInv == OneIdentity /\ Compared /\ Counted /\ RepeatExplained

LEMMA DirInit == FInit => DirInv
  <1> SUFFICES ASSUME FInit PROVE DirInv
    OBVIOUS
  <1> USE AbsentAssumption, RequestAssumption DEF FInit
  <1>1. OneIdentity
    BY DEF OneIdentity, FTypeOK
  <1>2. Compared
    BY DEF Compared
  <1>3. Counted
    BY DEF Counted
  <1>4. RepeatExplained
    BY DEF RepeatExplained
  <1> QED
    BY <1>1, <1>2, <1>3, <1>4 DEF DirInv

\* The types.
LEMMA DirTyped == FTypeOK /\ [FNext]_fvars => FTypeOK'
  <1> SUFFICES ASSUME FTypeOK, [FNext]_fvars PROVE FTypeOK'
    OBVIOUS
  <1> USE AbsentAssumption, RequestAssumption DEF FTypeOK
  <1>1. CASE \E u \in Upload : ReadUser(u)
    BY <1>1 DEF ReadUser
  <1>2. CASE \E u \in Upload : CommitUpload(u)
    BY <1>2 DEF CommitUpload
  <1>3. CASE \E u \in Upload, p \in Prekey : LookUp(u, p)
    BY <1>3 DEF LookUp
  <1>4. CASE \E g \in Get : NotFound(g)
    BY <1>4 DEF NotFound
  <1>5. CASE \E g \in Get : CommitDelete(g)
    BY <1>5 DEF CommitDelete
  <1>6. CASE \E g \in Get, p \in Prekey : Select(g, p)
    BY <1>6 DEF Select
  <1>7. CASE \E r \in Upload \cup Get : Fails(r)
    BY <1>7 DEF Fails
  <1>8. CASE UNCHANGED fvars
    BY <1>8 DEF fvars
  <1> QED
    BY <1>1, <1>2, <1>3, <1>4, <1>5, <1>6, <1>7, <1>8 DEF FNext

\* An upload that commits keeps the invariant: what it inserts was free, and
\* the identity key it writes or has compared is the one of its bundle.
LEMMA CommitUploadInv ==
  ASSUME DirInv, FTypeOK', NEW u \in Upload, CommitUpload(u)
  PROVE DirInv'
  <1> USE AbsentAssumption, RequestAssumption DEF CommitUpload, Insertable, FTypeOK
  <1> FTypeOK
    BY DEF DirInv, OneIdentity
  <1>1. OneIdentity'
    <2> SUFFICES ASSUME NEW p \in Prekey, owner'[p] # Absent
                 PROVE \E v \in Upload : /\ pc'[v] = "ok" /\ p \in adds'[v]
                                         /\ UserOf[v] = owner'[p]
                                         /\ IdentityOf[v] = identity'[owner'[p]]
      BY DEF OneIdentity
    <2>1. CASE p \in adds[u]
      <3>1. owner'[p] = UserOf[u] /\ pc'[u] = "ok" /\ adds' = adds
        BY <2>1
      <3>2. identity'[UserOf[u]] = IdentityOf[u]
        BY DEF DirInv, Compared
      <3> QED
        BY <2>1, <3>1, <3>2
    <2>2. CASE p \notin adds[u]
      <3>1. owner'[p] = owner[p] /\ adds' = adds
        BY <2>2
      <3>2. PICK v \in Upload : /\ pc[v] = "ok" /\ p \in adds[v]
                                /\ UserOf[v] = owner[p]
                                /\ IdentityOf[v] = identity[owner[p]]
        BY <3>1 DEF DirInv, OneIdentity
      <3>3. identity'[owner[p]] = identity[owner[p]]
        BY <3>2
      <3>4. pc'[v] = "ok"
        BY <3>2
      <3> QED
        BY <3>1, <3>2, <3>3, <3>4
    <2> QED
      BY <2>1, <2>2
  <1>2. Compared'
    BY DEF DirInv, Compared
  <1>3. Counted'
    <2>1. \A p \in Prekey : /\ inserted'[p] >= inserted[p]
                            /\ inserted[p] \in Nat
                            /\ p \in adds[u] => owner[p] = Absent /\ inserted'[p] = inserted[p] + 1
                            /\ p \notin adds[u] => owner'[p] = owner[p]
      OBVIOUS
    <2>2. \A p \in Prekey : owner'[p] # Absent => inserted'[p] > 0
      BY <2>1 DEF DirInv, Counted
    <2>3. \A g \in Get : pc'[g] = pc[g] /\ given' = given /\ missed' = missed
      OBVIOUS
    <2>4. \A g \in Get : pc'[g] \in {"selected", "ok"} =>
              given'[g] \in Prekey /\ inserted'[given'[g]] > 0
      BY <2>1, <2>3 DEF DirInv, Counted
    <2>5. ASSUME NEW g \in Get, pc'[g] = "ok", g \notin missed', owner'[given'[g]] # Absent
          PROVE inserted'[given'[g]] > 1
      BY <2>1, <2>3, <2>5 DEF DirInv, Counted
    <2> QED
      BY <2>2, <2>4, <2>5 DEF Counted
  <1>4. RepeatExplained'
    <2> SUFFICES ASSUME NEW f \in Get, NEW g \in Get, f # g, pc'[f] = "ok", pc'[g] = "ok",
                        given'[f] = given'[g], f \notin missed', g \notin missed'
                 PROVE inserted'[given'[f]] > 1
      BY DEF RepeatExplained
    <2>1. pc[f] = "ok" /\ pc[g] = "ok" /\ given' = given /\ missed' = missed
      OBVIOUS
    <2>2. given[f] \in Prekey /\ inserted[given[f]] > 1
      BY <2>1 DEF DirInv, RepeatExplained, Counted
    <2> QED
      BY <2>1, <2>2
  <1> QED
    BY <1>1, <1>2, <1>3, <1>4 DEF DirInv

\* A request that commits its DELETE keeps the invariant: if the row was there
\* although another request had deleted it, it was inserted again.
LEMMA CommitDeleteInv ==
  ASSUME DirInv, FTypeOK', NEW g \in Get, CommitDelete(g)
  PROVE DirInv'
  <1> USE AbsentAssumption, RequestAssumption DEF CommitDelete, FTypeOK
  <1> FTypeOK
    BY DEF DirInv, OneIdentity
  <1>1. OneIdentity'
    BY DEF DirInv, OneIdentity
  <1>2. Compared'
    BY DEF DirInv, Compared
  <1>3. Counted'
    BY DEF DirInv, Counted
  <1>4. RepeatExplained'
    <2> SUFFICES ASSUME NEW e \in Get, NEW f \in Get, e # f, pc'[e] = "ok", pc'[f] = "ok",
                        given'[e] = given'[f], e \notin missed', f \notin missed'
                 PROVE inserted'[given'[e]] > 1
      BY DEF RepeatExplained
    <2>1. given' = given /\ inserted' = inserted /\ missed \subseteq missed'
      OBVIOUS
    <2>2. \A h \in Get \ {g} : pc'[h] = pc[h]
      OBVIOUS
    <2>3. g \notin missed' => owner[given[g]] # Absent
      OBVIOUS
    <2>4. ASSUME NEW h \in Get \ {g}, pc[h] = "ok", h \notin missed, given[h] = given[g],
                 g \notin missed'
          PROVE inserted[given[g]] > 1
      BY <2>3, <2>4 DEF DirInv, Counted
    <2>5. CASE e # g /\ f # g
      BY <2>1, <2>2, <2>5 DEF DirInv, RepeatExplained
    <2>6. CASE e = g \/ f = g
      BY <2>1, <2>2, <2>4, <2>6
    <2> QED
      BY <2>5, <2>6
  <1> QED
    BY <1>1, <1>2, <1>3, <1>4 DEF DirInv

\* The other steps touch neither table.
LEMMA OtherInv ==
  ASSUME DirInv, FTypeOK',
         \/ \E u \in Upload : ReadUser(u) \/ \E p \in Prekey : LookUp(u, p)
         \/ \E h \in Get : NotFound(h) \/ \E p \in Prekey : Select(h, p)
         \/ \E r \in Upload \cup Get : Fails(r)
         \/ UNCHANGED fvars
  PROVE DirInv'
  <1> USE AbsentAssumption, RequestAssumption DEF FTypeOK
  <1> FTypeOK
    BY DEF DirInv, OneIdentity
  <1>1. /\ identity' = identity /\ owner' = owner /\ inserted' = inserted /\ missed' = missed
        /\ \A u \in Upload : pc[u] = "ok" => pc'[u] = "ok" /\ adds'[u] = adds[u]
        /\ \A h \in Get : pc'[h] = "ok" => pc[h] = "ok" /\ given'[h] = given[h]
    BY DEF ReadUser, LookUp, NotFound, Select, Fails, fvars
  <1>2. OneIdentity'
    BY <1>1 DEF DirInv, OneIdentity
  <1>3. Compared'
    <2>1. ASSUME NEW u \in Upload, ReadUser(u)
          PROVE Compared'
      BY <2>1 DEF DirInv, Compared, ReadUser, Mismatch
    <2>2. ASSUME ~ \E u \in Upload : ReadUser(u)
          PROVE Compared'
      BY <2>2 DEF DirInv, Compared, LookUp, NotFound, Select, Fails, fvars
    <2> QED
      BY <2>1, <2>2
  <1>4. Counted'
    <2>1. \A h \in Get : pc'[h] \in {"selected", "ok"} =>
              \/ pc[h] \in {"selected", "ok"} /\ given'[h] = given[h]
              \/ \E p \in Prekey : given'[h] = p /\ owner[p] \in User
      BY DEF ReadUser, LookUp, NotFound, Select, Fails, fvars
    <2> QED
      BY <1>1, <2>1 DEF DirInv, Counted
  <1>5. RepeatExplained'
    BY <1>1 DEF DirInv, RepeatExplained
  <1> QED
    BY <1>2, <1>3, <1>4, <1>5 DEF DirInv

LEMMA DirStep == DirInv /\ [FNext]_fvars => DirInv'
  <1> SUFFICES ASSUME DirInv, [FNext]_fvars PROVE DirInv'
    OBVIOUS
  <1>1. FTypeOK'
    BY DirTyped DEF DirInv, OneIdentity
  <1>2. CASE \E u \in Upload : CommitUpload(u)
    BY <1>1, <1>2, CommitUploadInv
  <1>3. CASE \E g \in Get : CommitDelete(g)
    BY <1>1, <1>3, CommitDeleteInv
  <1>4. CASE \/ \E u \in Upload : ReadUser(u) \/ \E p \in Prekey : LookUp(u, p)
             \/ \E h \in Get : NotFound(h) \/ \E p \in Prekey : Select(h, p)
             \/ \E r \in Upload \cup Get : Fails(r)
             \/ UNCHANGED fvars
    BY <1>1, <1>4, OtherInv
  <1> QED
    BY <1>2, <1>3, <1>4 DEF FNext

LEMMA DirInvariance == FSpec => []DirInv
  BY DirInit, DirStep, PTL DEF FSpec

\* Uploads that race never mix two users or two identity keys: what is in the
\* prekeys table came from an upload under the identity key of its user.
THEOREM IdentitiesDoNotMix == FSpec => []OneIdentity
  <1>1. DirInv => OneIdentity
    BY DEF DirInv
  <1> QED
    BY <1>1, DirInvariance, PTL

\* get_keys answers a prekey twice only if it was inserted twice, or to
\* requests that had both selected it before either deleted it.
THEOREM RepeatsAreExplained == FSpec => []RepeatExplained
  <1>1. DirInv => RepeatExplained
    BY DEF DirInv
  <1> QED
    BY <1>1, DirInvariance, PTL
=============================================================================
