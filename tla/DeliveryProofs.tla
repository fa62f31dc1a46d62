--------------------------- MODULE DeliveryProofs ---------------------------
(***************************************************************************)
(* Proofs about KdcPrekeys, and about Delivery, which composes it with the *)
(* Reader: for every set of users, prekeys and calls, every reservation    *)
(* timeout, any number of restarts and of decryptions at once, any Reader. *)
(***************************************************************************)
EXTENDS Delivery, TLAPS

-----------------------------------------------------------------------------
(* The directory, KdcPrekeys.                                              *)

LEMMA LaterType ==
    ASSUME NEW t \in Ticks
    PROVE  Later(t) \in Ticks
BY BoundAssumption DEF Ticks, Later

\* Every action keeps every variable in its type.
LEMMA TypeStep ==
    ASSUME TypeOK, [Next]_vars
    PROVE  TypeOK'
<1> USE NoneAssumption, OwnerAssumption, SessionAssumption, BoundAssumption
<1>1. CASE Tick
    BY <1>1, LaterType DEF TypeOK, Tick, storage
<1>2. CASE Crash
    BY <1>2 DEF TypeOK, Crash, table, client, storage
<1>3. ASSUME NEW u \in User, NEW B \in SUBSET Prekey, Register(u, B)
      PROVE  TypeOK'
    BY <1>3 DEF TypeOK, Register, client, storage
<1>4. ASSUME NEW s \in Session, KeysHandler(s)
      PROVE  TypeOK'
  <2>1. ASSUME NEW p \in Prekey, Reserve(s, p)
        PROVE  TypeOK'
    <3>1. 0 \in Ticks
        BY DEF Ticks
    <3>2. QED
        BY <2>1, <3>1 DEF TypeOK, Reserve, storage
  <2>2. CASE Exhausted(s)
      BY <2>2 DEF TypeOK, Exhausted, table, client, storage
  <2>3. CASE KeysRefused(s)
      BY <2>3 DEF TypeOK, KeysRefused, table, client, storage
  <2>4. QED
      BY <1>4, <2>1, <2>2, <2>3 DEF KeysHandler
<1>5. ASSUME NEW s \in Session, UploadHandler(s)
      PROVE  TypeOK'
  <2>1. CASE CheckUpload(s)
      BY <2>1 DEF TypeOK, CheckUpload, table, client
  <2>2. CASE StoreBlob(s)
      BY <2>2 DEF TypeOK, StoreBlob, table, client
  <2>3. CASE WriteFails(s)
      BY <2>3 DEF TypeOK, WriteFails, table, client
  <2>4. CASE Commit(s)
    <3>1. offer[s] \in Prekey
        BY <2>4 DEF TypeOK, Commit, MaySpend, RowsOf
    <3>2. QED
        BY <2>4, <3>1 DEF TypeOK, Commit, client
  <2>5. CASE NotReserved(s)
      BY <2>5 DEF TypeOK, NotReserved, table, client, storage
  <2>6. CASE Discard(s)
      BY <2>6 DEF TypeOK, Discard, table, client
  <2>7. CASE CommitFails(s)
      BY <2>7 DEF TypeOK, CommitFails, table, client, storage
  <2>8. CASE AppendAudit(s)
      BY <2>8 DEF TypeOK, AppendAudit, table, client
  <2>9. QED
      BY <1>5, <2>1, <2>2, <2>3, <2>4, <2>5, <2>6, <2>7, <2>8 DEF UploadHandler
<1>6. ASSUME NEW s \in Session, ClientStep(s)
      PROVE  TypeOK'
  <2>1. CASE Ask(s)
      BY <2>1 DEF TypeOK, Ask, table, storage
  <2>2. CASE GetAnswer(s)
      BY <2>2 DEF TypeOK, GetAnswer, table, storage
  <2>3. CASE ClientFails(s)
      BY <2>3 DEF TypeOK, ClientFails, table, storage
  <2>4. CASE StartUpload(s)
      BY <2>4 DEF TypeOK, StartUpload, table, storage
  <2>5. CASE UploadAnswer(s)
      BY <2>5 DEF TypeOK, UploadAnswer, table, storage
  <2>6. QED
      BY <1>6, <2>1, <2>2, <2>3, <2>4, <2>5 DEF ClientStep
<1>7. CASE UNCHANGED vars
    BY <1>7 DEF TypeOK, vars, table, client, storage
<1>8. QED
    BY <1>1, <1>2, <1>3, <1>4, <1>5, <1>6, <1>7 DEF Next

\* Every variable of the directory and of its clients keeps its type.
THEOREM Typing == Spec => []TypeOK
<1>1. Init => TypeOK
    BY BoundAssumption DEF Init, TypeOK, Ticks
<1>2. QED
    BY <1>1, TypeStep, PTL DEF Spec

-----------------------------------------------------------------------------
(* The inductive invariant. *)

\* Flags and holder of a row stay in agreement.
LEMMA RowStep ==
    ASSUME TypeOK, RowInv, [Next]_vars
    PROVE  RowInv'
<1> USE NoneAssumption, OwnerAssumption, SessionAssumption
<1>1. ASSUME NEW u \in User, NEW B \in SUBSET Prekey, Register(u, B)
      PROVE  RowInv'
    BY <1>1 DEF RowInv, Register
<1>2. ASSUME NEW s \in Session, NEW p \in Prekey, Reserve(s, p)
      PROVE  RowInv'
    BY <1>2 DEF TypeOK, RowInv, Reserve, Available, Lapsed, RowsOf
<1>3. ASSUME NEW s \in Session, Commit(s)
      PROVE  RowInv'
    BY <1>3 DEF TypeOK, RowInv, Commit, MaySpend, RowsOf
<1>4. CASE UNCHANGED <<registered, used, reserved, reservedBy>>
    BY <1>4 DEF RowInv
<1>5. QED
    BY <1>1, <1>2, <1>3, <1>4
    DEF Next, vars, table, client, storage, KeysHandler, UploadHandler, ClientStep,
        Tick, Crash, Exhausted, KeysRefused, CheckUpload, StoreBlob, WriteFails,
        NotReserved, Discard, CommitFails, AppendAudit, Ask, GetAnswer,
        ClientFails, StartUpload, UploadAnswer

\* An offer is a row of the receiver, and is made once.
LEMMA OfferStep ==
    ASSUME TypeOK, OfferInv, ProgressInv, [Next]_vars
    PROVE  OfferInv'
<1> USE NoneAssumption, OwnerAssumption, SessionAssumption
<1>1. ASSUME NEW u \in User, NEW B \in SUBSET Prekey, Register(u, B)
      PROVE  OfferInv'
    BY <1>1 DEF OfferInv, Register, client
<1>2. ASSUME NEW s \in Session, NEW p \in Prekey, Reserve(s, p)
      PROVE  OfferInv'
    BY <1>2 DEF TypeOK, OfferInv, Reserve, Available, RowsOf
<1>3. ASSUME NEW s \in Session, Exhausted(s) \/ KeysRefused(s)
      PROVE  OfferInv'
    BY <1>3 DEF TypeOK, OfferInv, Exhausted, KeysRefused, table, client
<1>4. ASSUME NEW s \in Session, Ask(s)
      PROVE  OfferInv'
    BY <1>4 DEF TypeOK, OfferInv, ProgressInv, Ask, table
<1>5. CASE Crash
    BY <1>5 DEF TypeOK, OfferInv, Crash, KeysActive, table, client
<1>6. CASE UNCHANGED <<registered, offer, kpc>>
    BY <1>6 DEF OfferInv
<1>7. QED
    BY <1>1, <1>2, <1>3, <1>4, <1>5, <1>6
    DEF Next, vars, table, client, storage, KeysHandler, UploadHandler, ClientStep,
        Tick, CheckUpload, StoreBlob, WriteFails, Commit, NotReserved, Discard,
        CommitFails, AppendAudit, GetAnswer, ClientFails, StartUpload, UploadAnswer

\* The handlers are as far as the call that started them.
LEMMA ProgressStep ==
    ASSUME TypeOK, ProgressInv, [Next]_vars
    PROVE  ProgressInv'
<1>1. ASSUME NEW s \in Session, KeysHandler(s)
      PROVE  ProgressInv'
    BY <1>1 DEF TypeOK, ProgressInv, KeysHandler, Reserve, Exhausted, KeysRefused,
                client
<1>2. ASSUME NEW s \in Session, UploadHandler(s)
      PROVE  ProgressInv'
    BY <1>2 DEF TypeOK, ProgressInv, UploadHandler, CheckUpload, StoreBlob,
                WriteFails, Commit, NotReserved, Discard, CommitFails, AppendAudit,
                client
<1>3. ASSUME NEW s \in Session, ClientStep(s)
      PROVE  ProgressInv'
    BY <1>3 DEF TypeOK, ProgressInv, ClientStep, Ask, GetAnswer, ClientFails,
                StartUpload, UploadAnswer
<1>4. CASE Crash
    BY <1>4 DEF TypeOK, ProgressInv, Crash, KeysActive, UploadActive, client
<1>5. CASE UNCHANGED <<cpc, kpc, upc>>
    BY <1>5 DEF ProgressInv
<1>6. QED
    BY <1>1, <1>2, <1>3, <1>4, <1>5 DEF Next, vars, Tick, Register, client

\* The vault and the tables are as the upload handlers left them.
LEMMA UploadStep ==
    ASSUME TypeOK, ProgressInv, UploadInv, [Next]_vars
    PROVE  UploadInv'
<1>1. ASSUME NEW s \in Session, UploadHandler(s)
      PROVE  UploadInv'
  <2>1. CASE CheckUpload(s)
      BY <2>1 DEF TypeOK, UploadInv, CheckUpload, client
  <2>2. CASE StoreBlob(s)
      BY <2>2 DEF TypeOK, UploadInv, StoreBlob, client
  <2>3. CASE WriteFails(s)
      BY <2>3 DEF TypeOK, UploadInv, WriteFails, client
  <2>4. CASE Commit(s)
      BY <2>4 DEF TypeOK, UploadInv, Commit, client
  <2>5. CASE NotReserved(s)
      BY <2>5 DEF TypeOK, UploadInv, NotReserved, client, storage
  <2>6. CASE Discard(s)
      BY <2>6 DEF TypeOK, UploadInv, Discard, client
  <2>7. CASE CommitFails(s)
      BY <2>7 DEF TypeOK, UploadInv, CommitFails, client, storage
  <2>8. CASE AppendAudit(s)
      BY <2>8 DEF TypeOK, UploadInv, AppendAudit, client
  <2>9. QED
      BY <1>1, <2>1, <2>2, <2>3, <2>4, <2>5, <2>6, <2>7, <2>8 DEF UploadHandler
<1>2. ASSUME NEW s \in Session, ClientStep(s)
      PROVE  UploadInv'
    BY <1>2 DEF TypeOK, ProgressInv, UploadInv, ClientStep, Ask, GetAnswer,
                ClientFails, StartUpload, UploadAnswer, storage
<1>3. CASE Crash
    BY <1>3 DEF TypeOK, UploadInv, Crash, UploadActive, client, storage
<1>4. CASE UNCHANGED <<cpc, upc, storage>>
    BY <1>4 DEF UploadInv, storage
<1>5. QED
    BY <1>1, <1>2, <1>3, <1>4
    DEF Next, vars, Tick, Register, KeysHandler, Reserve, Exhausted, KeysRefused,
        client

\* A call that has an offer keeps it, and one that stored a file has one.
LEMMA OfferKept ==
    ASSUME TypeOK, OfferInv, [Next]_vars, NEW s \in Session, offer[s] # None
    PROVE  offer'[s] = offer[s]
<1>1. ASSUME NEW t \in Session, NEW p \in Prekey, Reserve(t, p)
      PROVE  offer'[s] = offer[s]
    BY <1>1 DEF TypeOK, OfferInv, Reserve
<1>2. QED
    BY <1>1
    DEF Next, vars, table, client, storage, KeysHandler, UploadHandler, ClientStep,
        Tick, Crash, Register, Exhausted, KeysRefused, CheckUpload, StoreBlob,
        WriteFails, Commit, NotReserved, Discard, CommitFails, AppendAudit, Ask,
        GetAnswer, ClientFails, StartUpload, UploadAnswer

LEMMA FileHasOffer ==
    ASSUME TypeOK, OfferInv, ProgressInv, UploadInv, NEW s \in files
    PROVE  offer[s] # None
BY DEF TypeOK, OfferInv, ProgressInv, UploadInv

\* A prekey is spent exactly when a file made with it is stored, and by one
\* file only.
LEMMA FileStep ==
    ASSUME TypeOK, RowInv, OfferInv, ProgressInv, UploadInv,
           UsedIffFile, OneFilePerPrekey, [Next]_vars
    PROVE  UsedIffFile' /\ OneFilePerPrekey'
<1>1. \A s \in files : offer'[s] = offer[s]
    BY OfferKept, FileHasOffer DEF TypeOK
<1>2. ASSUME NEW s \in Session, Commit(s)
      PROVE  UsedIffFile' /\ OneFilePerPrekey'
  <2>1. /\ offer[s] \notin used
        /\ used' = used \cup {offer[s]}
        /\ files' = files \cup {s}
        /\ offer' = offer
      BY <1>2 DEF Commit, MaySpend, client
  <2>2. UsedIffFile'
      BY <2>1 DEF UsedIffFile
  <2>3. OneFilePerPrekey'
      BY <2>1 DEF UsedIffFile, OneFilePerPrekey
  <2>4. QED
      BY <2>2, <2>3
<1>3. ASSUME used' = used, files' = files
      PROVE  UsedIffFile' /\ OneFilePerPrekey'
    BY <1>1, <1>3 DEF UsedIffFile, OneFilePerPrekey
<1>4. ASSUME NEW u \in User, NEW B \in SUBSET Prekey, Register(u, B)
      PROVE  used' = used /\ files' = files
    BY <1>4 DEF Register, RowInv, storage
<1>5. QED
    BY <1>2, <1>3, <1>4
    DEF Next, vars, table, client, storage, KeysHandler, UploadHandler, ClientStep,
        Tick, Crash, Reserve, Exhausted, KeysRefused, CheckUpload, StoreBlob,
        WriteFails, NotReserved, Discard, CommitFails, AppendAudit, Ask, GetAnswer,
        ClientFails, StartUpload, UploadAnswer

\* A reservation is kept for the call it was made for until its timeout.
LEMMA HolderStep ==
    ASSUME TypeOK, RowInv, OfferInv, ProgressInv, UploadInv, HolderInv, [Next]_vars
    PROVE  HolderInv'
<1> USE NoneAssumption, OwnerAssumption, SessionAssumption, BoundAssumption
<1> DEFINE Held(s) == /\ offer[s] \in reserved
                      /\ reservedBy[offer[s]] = SenderOf[s]
                      /\ age[offer[s]] = heldFor[s]
           Spent(s) == \E t \in files : /\ offer[t] = offer[s]
                                        /\ SenderOf[t] = SenderOf[s]
<1> SUFFICES ASSUME NEW s \in Session, offer'[s] # None,
                    heldFor'[s] <= ReservationTTL
             PROVE  Held(s)' \/ Spent(s)'
    BY DEF HolderInv
<1>0. /\ offer[s] \in Prekey \cup {None} /\ heldFor[s] \in Ticks
      /\ \A p \in Prekey : age[p] \in Ticks
    BY DEF TypeOK
<1>1. \A t \in files : offer'[t] = offer[t]
    BY OfferKept, FileHasOffer DEF TypeOK
<1>2. CASE Tick
  <2>1. offer[s] # None /\ heldFor'[s] = Later(heldFor[s]) /\ offer' = offer
      BY <1>2 DEF Tick, TypeOK
  <2>2. heldFor[s] <= ReservationTTL
      BY <2>1, <1>0 DEF Later, Ticks
  <2>3. CASE Held(s)
      BY <1>2, <2>1, <2>3 DEF Tick, TypeOK
  <2>4. CASE Spent(s)
      BY <1>2, <2>4 DEF Tick, storage
  <2>5. QED
      BY <2>1, <2>2, <2>3, <2>4 DEF HolderInv
<1>3. ASSUME NEW u \in User, NEW B \in SUBSET Prekey, Register(u, B)
      PROVE  Held(s)' \/ Spent(s)'
    BY <1>3 DEF Register, RowInv, HolderInv, client, storage
<1>4. ASSUME NEW t \in Session, NEW p \in Prekey, Reserve(t, p)
      PROVE  Held(s)' \/ Spent(s)'
  <2>1. CASE t = s
      BY <1>4, <2>1 DEF Reserve, TypeOK
  <2>2. CASE t # s
    <3>1. offer'[s] = offer[s] /\ heldFor'[s] = heldFor[s] /\ offer[s] \in Prekey
        BY <1>4, <2>2, <1>0 DEF Reserve, TypeOK
    <3>2. ASSUME Held(s)
          PROVE  offer[s] # p /\ offer[s] \notin Lapsed(ReceiverOf[t])
        BY <1>4, <3>1, <3>2, <1>0 DEF Reserve, Available, Lapsed, Ticks
    <3>3. CASE Held(s)
        BY <1>4, <3>1, <3>2, <3>3 DEF Reserve, TypeOK
    <3>4. CASE Spent(s)
        BY <1>1, <1>4, <3>1, <3>4 DEF Reserve, storage
    <3>5. QED
        BY <3>1, <3>3, <3>4 DEF HolderInv
  <2>3. QED
      BY <2>1, <2>2
<1>5. ASSUME NEW t \in Session, Commit(t)
      PROVE  Held(s)' \/ Spent(s)'
  <2>1. CASE offer[t] = offer[s]
      BY <1>5, <2>1 DEF Commit, MaySpend, HolderInv, client
  <2>2. CASE offer[t] # offer[s]
      BY <1>5, <2>2 DEF Commit, TypeOK, HolderInv, client
  <2>3. QED
      BY <2>1, <2>2
<1>6. CASE UNCHANGED <<reserved, reservedBy, age, offer, heldFor, files>>
    BY <1>6 DEF HolderInv
<1>7. QED
    BY <1>2, <1>3, <1>4, <1>5, <1>6
    DEF Next, vars, table, client, storage, KeysHandler, UploadHandler, ClientStep,
        Crash, Exhausted, KeysRefused, CheckUpload, StoreBlob, WriteFails,
        NotReserved, Discard, CommitFails, AppendAudit, Ask, GetAnswer,
        ClientFails, StartUpload, UploadAnswer

IInv == TypeOK /\ Inv

LEMMA InitInv == Init => IInv
<1> SUFFICES ASSUME Init PROVE IInv
    OBVIOUS
<1>1. TypeOK
    BY BoundAssumption DEF Init, TypeOK, Ticks
<1>2. RowInv /\ OfferInv /\ ProgressInv
    BY DEF Init, RowInv, OfferInv, ProgressInv
<1>3. UploadInv /\ HolderInv
    BY DEF Init, UploadInv, HolderInv
<1>4. UsedIffFile /\ OneFilePerPrekey
    BY DEF Init, UsedIffFile, OneFilePerPrekey
<1>5. QED
    BY <1>1, <1>2, <1>3, <1>4 DEF IInv, Inv

LEMMA StepInv == IInv /\ [Next]_vars => IInv'
BY TypeStep, RowStep, OfferStep, ProgressStep, UploadStep, FileStep, HolderStep
DEF IInv, Inv

\* The invariant the other theorems rest on.
THEOREM Inductive == Spec => []IInv
BY InitInv, StepInv, PTL DEF Spec

-----------------------------------------------------------------------------
(* The properties of the directory. *)

\* Two uploads never commit under one prekey, and a prekey is spent exactly
\* when a file made with it was stored.
THEOREM PrekeysAreOneTime == Spec => [](OneFilePerPrekey /\ UsedIffFile)
<1>1. IInv => OneFilePerPrekey /\ UsedIffFile
    BY DEF IInv, Inv
<1>2. QED
    BY <1>1, Inductive, PTL

\* No failed or crashed upload burns a prekey, and none is on offer after its
\* file was stored.
THEOREM SpentMeansStored == Spec => []UsedIffFile
BY PrekeysAreOneTime, PTL

\* What is in the inbox was made with the receiver's prekey and is on disk.
THEOREM FilesAreDeliverable == Spec => []FileIsDeliverable
<1>1. ASSUME IInv, NEW s \in files
      PROVE  OwnerOf[offer[s]] = ReceiverOf[s] /\ blob[s] \in {"whole", "short"}
  <2>1. s \in Session /\ offer[s] # None
      BY <1>1, FileHasOffer DEF IInv, Inv, TypeOK
  <2>2. QED
      BY <1>1, <2>1 DEF IInv, Inv, OfferInv, UploadInv
<1>2. IInv => FileIsDeliverable
    BY <1>1 DEF FileIsDeliverable
<1>3. QED
    BY <1>2, Inductive, PTL

\* A normal return of send means: stored whole, listed, audited, prekey spent.
THEOREM SentIsStored == Spec => []SentMeansStored
<1>1. ASSUME IInv, NEW s \in Session, cpc[s] = "sent"
      PROVE  /\ s \in files \cap audited
             /\ blob[s] = "whole"
             /\ offer[s] \in used
  <2>1. upc[s] = "done"
      BY <1>1 DEF IInv, Inv, ProgressInv
  <2>2. s \in files \cap audited /\ blob[s] = "whole"
      BY <1>1, <2>1 DEF IInv, Inv, UploadInv
  <2>3. offer[s] \in used
      BY <1>1, <2>2 DEF IInv, Inv, UsedIffFile
  <2>4. QED
      BY <2>2, <2>3
<1>2. IInv => SentMeansStored
    BY <1>1 DEF SentMeansStored
<1>3. QED
    BY <1>2, Inductive, PTL

\* An upload the view refused left nothing in the vault.
THEOREM OrphansAreAccounted == Spec => []OrphansAccounted
<1>1. IInv => OrphansAccounted
    BY DEF IInv, Inv, TypeOK, UploadInv, OrphansAccounted, UploadActive
<1>2. QED
    BY <1>1, Inductive, PTL

\* Within the timeout the row is still reserved for the caller, or the same
\* sender used it.
THEOREM TimelyUploadsAreHonoured == Spec => []TimelyUploadHonoured
<1>1. IInv => TimelyUploadHonoured
    BY DEF IInv, Inv, HolderInv, TimelyUploadHonoured
<1>2. QED
    BY <1>1, Inductive, PTL

\* A reservation ends by use or by its timeout only.
THEOREM ReservationsAreKept == Spec => ReservationKept
<1> USE NoneAssumption, OwnerAssumption, SessionAssumption, BoundAssumption
<1>1. ASSUME IInv, [Next]_vars, NEW p \in reserved,
             p \notin reserved' \/ reservedBy'[p] # reservedBy[p] \/ age'[p] < age[p]
      PROVE  p \in used' \/ age[p] > ReservationTTL
  <2>1. p \in Prekey /\ p \in registered /\ age[p] \in Ticks
      BY <1>1 DEF IInv, Inv, TypeOK, RowInv
  <2>2. ASSUME NEW u \in User, NEW B \in SUBSET Prekey, Register(u, B)
        PROVE  FALSE
      BY <1>1, <2>1, <2>2 DEF Register, Ticks
  <2>3. ASSUME NEW s \in Session, NEW q \in Prekey, Reserve(s, q)
        PROVE  age[p] > ReservationTTL
    <3>1. CASE p \in Lapsed(ReceiverOf[s])
        BY <3>1 DEF Lapsed
    <3>2. CASE p \notin Lapsed(ReceiverOf[s])
      <4>1. p # q
          BY <2>3, <3>2 DEF Reserve, Available
      <4>2. p \in reserved' /\ reservedBy'[p] = reservedBy[p] /\ age'[p] = age[p]
          BY <2>1, <2>3, <3>2, <4>1 DEF Reserve, IInv, TypeOK
      <4>3. QED
          BY <1>1, <2>1, <4>2 DEF Ticks
    <3>3. QED
        BY <3>1, <3>2
  <2>4. ASSUME NEW s \in Session, Commit(s)
        PROVE  p \in used'
    <3>1. CASE p = offer[s]
        BY <2>4, <3>1 DEF Commit
    <3>2. CASE p # offer[s]
      <4>1. p \in reserved' /\ reservedBy'[p] = reservedBy[p] /\ age' = age
          BY <2>1, <2>4, <3>2 DEF Commit, IInv, TypeOK
      <4>2. QED
          BY <1>1, <2>1, <4>1 DEF Ticks
    <3>3. QED
        BY <3>1, <3>2
  <2>5. ASSUME Tick
        PROVE  FALSE
    <3>1. p \in reserved' /\ reservedBy' = reservedBy /\ age'[p] = Later(age[p])
        BY <2>1, <2>5 DEF Tick
    <3>2. age'[p] >= age[p]
        BY <2>1, <3>1 DEF Later, Ticks
    <3>3. QED
        BY <1>1, <2>1, <3>1, <3>2, LaterType DEF Ticks
  <2>6. ASSUME UNCHANGED <<reserved, reservedBy, age>>
        PROVE  FALSE
      BY <1>1, <2>1, <2>6 DEF Ticks
  <2>7. QED
      BY <1>1, <2>2, <2>3, <2>4, <2>5, <2>6
      DEF Next, vars, table, KeysHandler, UploadHandler, ClientStep, Crash,
          Exhausted, KeysRefused, CheckUpload, StoreBlob, WriteFails,
          NotReserved, Discard, CommitFails, AppendAudit, Ask, GetAnswer,
          ClientFails, StartUpload, UploadAnswer
<1>2. IInv /\ [Next]_vars =>
        [\A p \in reserved :
            (p \notin reserved' \/ reservedBy'[p] # reservedBy[p] \/ age'[p] < age[p])
                => p \in used' \/ age[p] > ReservationTTL]_vars
    BY <1>1
<1>3. QED
    BY <1>2, Inductive, PTL DEF Spec, ReservationKept

\* A used prekey stays used and is not handed out again.
THEOREM UsedPrekeysStayUsed == Spec => UsedForever
<1>1. ASSUME IInv, [Next]_vars
      PROVE  used \subseteq used'
  <2>1. ASSUME NEW u \in User, NEW B \in SUBSET Prekey, Register(u, B)
        PROVE  used' = used
      BY <1>1, <2>1 DEF Register, IInv, Inv, RowInv
  <2>2. ASSUME NEW s \in Session, Commit(s)
        PROVE  used \subseteq used'
      BY <2>2 DEF Commit
  <2>3. QED
      BY <1>1, <2>1, <2>2
      DEF Next, vars, table, KeysHandler, UploadHandler, ClientStep, Tick, Crash,
          Reserve, Exhausted, KeysRefused, CheckUpload, StoreBlob, WriteFails,
          NotReserved, Discard, CommitFails, AppendAudit, Ask, GetAnswer,
          ClientFails, StartUpload, UploadAnswer
<1>2. ASSUME IInv, [Next]_vars, NEW s \in Session, offer'[s] # offer[s]
      PROVE  offer'[s] \notin used
  <2>1. ASSUME NEW t \in Session, NEW p \in Prekey, Reserve(t, p)
        PROVE  offer'[s] \notin used
      BY <1>2, <2>1 DEF Reserve, Available, IInv, TypeOK
  <2>2. QED
      BY <1>2, <2>1
      DEF Next, vars, client, KeysHandler, UploadHandler, ClientStep, Tick, Crash,
          Register, Exhausted, KeysRefused, CheckUpload, StoreBlob, WriteFails,
          Commit, NotReserved, Discard, CommitFails, AppendAudit, Ask, GetAnswer,
          ClientFails, StartUpload, UploadAnswer
<1>3. IInv /\ [Next]_vars =>
        [/\ used \subseteq used'
         /\ \A s \in Session : offer'[s] # offer[s] => offer'[s] \notin used]_vars
    BY <1>1, <1>2
<1>4. QED
    BY <1>3, Inductive, PTL DEF Spec, UsedForever

-----------------------------------------------------------------------------
(* Refinement. *)

Lease == [p \in Prekey |-> IF p \in reserved THEN reservedBy[p] ELSE None]
Delivered == {<<offer[s], SenderOf[s]>> : s \in files}

\* What was delivered stays what it was: the offers of stored files are kept.
LEMMA DeliveredKept ==
    ASSUME IInv, [Next]_vars, files' = files
    PROVE  Delivered' = Delivered
<1>1. \A s \in files : offer'[s] = offer[s]
    BY OfferKept, FileHasOffer DEF IInv, Inv, TypeOK
<1>2. QED
    BY <1>1 DEF Delivered

\* Only prekeys with the used flag are spent in the abstract directory.
LEMMA SpentIsUsed ==
    ASSUME IInv
    PROVE  OTP!Spent \subseteq used
BY DEF IInv, Inv, UsedIffFile, OTP!Spent

\* A reservation is a lease; the reclaimed rows are the leases taken back.
LEMMA ReserveIsLease ==
    ASSUME IInv, [Next]_vars, NEW s \in Session, NEW p \in Prekey, Reserve(s, p)
    PROVE  OTP!Lease(SenderOf[s], p, Lapsed(ReceiverOf[s]))
<1>1. p \in registered \ OTP!Spent
    BY SpentIsUsed DEF Reserve, Available, RowsOf
<1>2. Lease[p] = None \/ p \in Lapsed(ReceiverOf[s])
    BY DEF Lease, Reserve, Available
<1>3. Lease' = [q \in Prekey |-> IF q = p THEN SenderOf[s]
                                ELSE IF q \in Lapsed(ReceiverOf[s]) THEN None
                                ELSE Lease[q]]
    BY DEF Lease, Reserve
<1>4. registered' = registered /\ Delivered' = Delivered
    BY DeliveredKept DEF Reserve, storage
<1>5. QED
    BY <1>1, <1>2, <1>3, <1>4 DEF OTP!Lease, Lease, Delivered

\* A committed upload is a delivery by the user the prekey is leased to.
LEMMA CommitIsDelivery ==
    ASSUME IInv, [Next]_vars, NEW s \in Session, Commit(s)
    PROVE  OTP!Deliver(SenderOf[s], offer[s])
<1>1. /\ offer[s] \in Prekey /\ offer[s] \in registered
      /\ offer[s] \in reserved /\ offer[s] \notin used
      /\ reservedBy[offer[s]] = SenderOf[s]
    BY DEF Commit, MaySpend, RowsOf, IInv, TypeOK
<1>2. offer[s] \in registered \ OTP!Spent
    BY <1>1, SpentIsUsed
<1>3. Lease[offer[s]] = SenderOf[s]
    BY <1>1 DEF Lease
<1>4. Lease' = [Lease EXCEPT ![offer[s]] = None]
    BY <1>1 DEF Lease, Commit, IInv, TypeOK
<1>5. Delivered' = Delivered \cup {<<offer[s], SenderOf[s]>>}
    BY DEF Delivered, Commit, client
<1>6. registered' = registered
    BY DEF Commit
<1>7. QED
    BY <1>2, <1>3, <1>4, <1>5, <1>6 DEF OTP!Deliver, Lease, Delivered

\* The directory implements OneTimePrekeys.
THEOREM Refinement == Spec => Refines
<1>1. Init => OTP!Init
    BY DEF Init, OTP!Init
<1>2. IInv /\ [Next]_vars => [OTP!Next]_(OTP!vars)
  <2> SUFFICES ASSUME IInv, [Next]_vars
               PROVE  [OTP!Next]_(OTP!vars)
      OBVIOUS
  <2>1. ASSUME NEW u \in User, NEW B \in SUBSET Prekey, Register(u, B)
        PROVE  OTP!Next
    <3>1. /\ registered' = registered \cup (B \ registered)
          /\ Lease' = Lease /\ files' = files
        BY <2>1 DEF Register, Lease, storage, IInv, Inv, RowInv
    <3>2. OTP!Publish(B \ registered)
        BY <3>1, DeliveredKept DEF OTP!Publish, Lease, Delivered
    <3>3. QED
        BY <3>2 DEF OTP!Next
  <2>2. ASSUME NEW s \in Session, NEW p \in Prekey, Reserve(s, p)
        PROVE  OTP!Next
    <3>1. Lapsed(ReceiverOf[s]) \in SUBSET Prekey /\ SenderOf[s] \in User
        BY SessionAssumption DEF Lapsed, RowsOf, IInv, TypeOK
    <3>2. OTP!Lease(SenderOf[s], p, Lapsed(ReceiverOf[s]))
        BY <2>2, ReserveIsLease
    <3>3. QED
        BY <3>1, <3>2 DEF OTP!Next, OTP!Lease, OTP!Deliver
  <2>3. ASSUME NEW s \in Session, Commit(s)
        PROVE  OTP!Next
    <3>1. offer[s] \in Prekey /\ SenderOf[s] \in User
        BY <2>3, SessionAssumption DEF Commit, MaySpend, RowsOf, IInv, TypeOK
    <3>2. OTP!Deliver(SenderOf[s], offer[s])
        BY <2>3, CommitIsDelivery
    <3>3. QED
        BY <3>1, <3>2 DEF OTP!Next, OTP!Lease, OTP!Deliver
  <2>4. ASSUME UNCHANGED <<registered, reserved, reservedBy, files>>
        PROVE  UNCHANGED OTP!vars
      BY <2>4, DeliveredKept DEF OTP!vars, Lease, Delivered
  <2>5. QED
      BY <2>1, <2>2, <2>3, <2>4
      DEF Next, vars, table, storage, KeysHandler, UploadHandler, ClientStep, Tick,
          Crash, Exhausted, KeysRefused, CheckUpload, StoreBlob, WriteFails,
          NotReserved, Discard, CommitFails, AppendAudit, Ask, GetAnswer,
          ClientFails, StartUpload, UploadAnswer
<1>3. QED
    BY <1>1, <1>2, Inductive, PTL DEF Spec, Refines, OTP!Spec

-----------------------------------------------------------------------------
(* The directory and the Reader, Delivery.                                 *)

\* What a decryption asked for, and what a file the Reader no longer has says
\* about the decryptions.
LocalInv ==
    /\ bundle \in SUBSET Prekey
    /\ disk \in [OwnKeys -> {"key", "used", "gone"}]
    /\ tries \in [Session -> {"idle", "counted", "reading", "renaming", "renamed",
                              "read", "reused", "consumed", "raised", "dead"}]
    /\ want \in [Session -> Prekey \cup {None}]

\* A decryption that began is of a file stored for the Reader and asked for the
\* prekey the file was made with.
AskedInv ==
    \A s \in Session : tries[s] # "idle" =>
        s \in files /\ ReceiverOf[s] = Reader /\ want[s] = offer[s]

\* The Reader's prekey files change by decryptions only.
TakenInv ==
    \A p \in OwnKeys : disk[p] # "key" =>
        \E s \in Session : tries[s] # "idle" /\ want[s] = p

DInv == LocalInv /\ AskedInv /\ TakenInv

-----------------------------------------------------------------------------
(* The directory in it is KdcPrekeys.                                      *)

LEMMA DirectoryStep ==
    ASSUME LocalInv, [DNext]_dvars
    PROVE  [Next]_vars
<1>1. CASE Directory
    BY <1>1 DEF Directory, Next
<1>2. CASE Publish
    BY <1>2, ReaderAssumption DEF Publish, Next, LocalInv
<1>3. CASE UNCHANGED vars
    BY <1>3
<1>4. QED
    BY <1>1, <1>2, <1>3 DEF DNext, dvars, ReadBundle, Decrypt, ConsumeStep

\* A step of consume_prekey of the file of s touches no other decryption, and
\* no prekey file but the one s asked for.
LEMMA ConsumeStepLocal ==
    ASSUME LocalInv, NEW s \in Session, ConsumeStep(s)
    PROVE  /\ tries[s] # "idle" /\ want' = want
           /\ \A t \in Session : tries'[t] # tries[t] => t = s /\ tries'[t] # "idle"
           /\ \A p \in OwnKeys : disk'[p] # disk[p] => want[s] = p
           /\ LocalInv'
<1> USE DEF LocalInv
<1>1. CASE Local!Decide(s)
    BY <1>1 DEF ConsumeStep, Local!Decide
<1>2. CASE Local!ReadLast(s)
    BY <1>2 DEF ConsumeStep, Local!ReadLast
<1>3. CASE Local!Rename(s)
    BY <1>3 DEF ConsumeStep, Local!Rename
<1>4. CASE Local!ReadRenamed(s)
    BY <1>4 DEF ConsumeStep, Local!ReadRenamed
<1>5. CASE Local!Remove(s)
    BY <1>5 DEF ConsumeStep, Local!Remove
<1>6. CASE Local!Die(s)
    BY <1>6 DEF ConsumeStep, Local!Die, Local!Active
<1>7. QED
    BY <1>1, <1>2, <1>3, <1>4, <1>5, <1>6 DEF ConsumeStep

\* Decrypt begins one decryption, with the prekey the file was made with.
LEMMA DecryptLocal ==
    ASSUME LocalInv, TypeOK, NEW s \in Session, Decrypt(s)
    PROVE  /\ s \in files /\ ReceiverOf[s] = Reader
           /\ tries[s] = "idle"
           /\ tries' = [tries EXCEPT ![s] = "counted"]
           /\ want' = [want EXCEPT ![s] = offer[s]]
           /\ UNCHANGED <<vars, disk>>
           /\ LocalInv'
<1>1. /\ s \in files /\ ReceiverOf[s] = Reader
      /\ tries[s] = "idle"
      /\ tries' = [tries EXCEPT ![s] = "counted"]
      /\ want' = [want EXCEPT ![s] = offer[s]]
      /\ UNCHANGED <<vars, disk, bundle>>
    BY DEF Decrypt, Local!Count
<1>2. LocalInv'
    BY <1>1 DEF LocalInv, TypeOK
<1>3. QED
    BY <1>1, <1>2

\* Everything else leaves the Reader's disk and decryptions alone.
LEMMA ElsewhereLocal ==
    ASSUME LocalInv, [DNext]_dvars,
           ~ \E s \in Session : Decrypt(s) \/ ConsumeStep(s)
    PROVE  LocalInv' /\ UNCHANGED local
<1>1. CASE Directory
    BY <1>1 DEF Directory, LocalInv, local
<1>2. CASE ReadBundle
    BY <1>2 DEF ReadBundle, LocalInv, local, Local!OnDisk, OwnKeys
<1>3. CASE Publish
    BY <1>3 DEF Publish, LocalInv, local
<1>4. CASE UNCHANGED dvars
    BY <1>4 DEF dvars, LocalInv, local
<1>5. QED
    BY <1>1, <1>2, <1>3, <1>4 DEF DNext

-----------------------------------------------------------------------------
(* The inductive invariant.                                                *)

\* Stored files stay stored, under the prekey they were made with.
LEMMA FilesKept ==
    ASSUME IInv, [Next]_vars, NEW s \in files
    PROVE  s \in files' /\ offer'[s] = offer[s]
<1>1. offer'[s] = offer[s]
    BY OfferKept, FileHasOffer DEF IInv, Inv, TypeOK
<1>2. files \subseteq files'
    BY DEF Next, vars, table, client, storage, KeysHandler, UploadHandler, ClientStep,
           Tick, Crash, Register, Reserve, Exhausted, KeysRefused, CheckUpload,
           StoreBlob, WriteFails, Commit, NotReserved, Discard, CommitFails,
           AppendAudit, Ask, GetAnswer, ClientFails, StartUpload, UploadAnswer
<1>3. QED
    BY <1>1, <1>2

LEMMA DInvStep ==
    ASSUME IInv, DInv, [DNext]_dvars
    PROVE  DInv'
<1> USE DEF DInv
<1>0. TypeOK /\ [Next]_vars
    BY DirectoryStep DEF IInv
<1>1. ASSUME NEW s \in Session, Decrypt(s)
      PROVE  DInv'
  <2>1. /\ s \in files /\ ReceiverOf[s] = Reader /\ tries[s] = "idle"
        /\ tries' = [tries EXCEPT ![s] = "counted"]
        /\ want' = [want EXCEPT ![s] = offer[s]]
        /\ UNCHANGED <<vars, disk>> /\ LocalInv'
      BY <1>0, <1>1, DecryptLocal
  <2>2. files' = files /\ offer' = offer
      BY <2>1 DEF vars, client, storage
  <2>3. AskedInv'
      BY <2>1, <2>2 DEF AskedInv, LocalInv
  <2>4. ASSUME NEW p \in OwnKeys, disk'[p] # "key"
        PROVE  \E t \in Session : tries'[t] # "idle" /\ want'[t] = p
    <3>1. PICK t \in Session : tries[t] # "idle" /\ want[t] = p
        BY <2>1, <2>4 DEF TakenInv
    <3>2. t # s
        BY <2>1, <3>1
    <3>3. QED
        BY <2>1, <3>1, <3>2 DEF LocalInv
  <2>5. QED
      BY <2>1, <2>3, <2>4 DEF TakenInv
<1>2. ASSUME NEW s \in Session, ConsumeStep(s)
      PROVE  DInv'
  <2>1. /\ tries[s] # "idle" /\ want' = want
        /\ \A t \in Session : tries'[t] # tries[t] => t = s /\ tries'[t] # "idle"
        /\ \A p \in OwnKeys : disk'[p] # disk[p] => want[s] = p
        /\ LocalInv'
      BY <1>2, ConsumeStepLocal
  <2>2. files' = files /\ offer' = offer
      BY <1>2 DEF ConsumeStep, vars, client, storage
  <2>3. \A t \in Session : tries'[t] # "idle" <=> tries[t] # "idle"
      BY <2>1
  <2>4. AskedInv'
      BY <2>1, <2>2, <2>3 DEF AskedInv
  <2>5. TakenInv'
      BY <2>1, <2>3 DEF TakenInv
  <2>6. QED
      BY <2>1, <2>4, <2>5
<1>3. CASE ~ \E s \in Session : Decrypt(s) \/ ConsumeStep(s)
  <2>1. LocalInv' /\ UNCHANGED <<disk, tries, want>>
      BY <1>3, ElsewhereLocal DEF local
  <2>2. AskedInv'
      BY <1>0, <2>1, FilesKept DEF AskedInv
  <2>3. TakenInv'
      BY <2>1 DEF TakenInv
  <2>4. QED
      BY <2>1, <2>2, <2>3
<1>4. QED
    BY <1>1, <1>2, <1>3

LEMMA DInvInit == DInit => IInv /\ DInv
<1> SUFFICES ASSUME DInit PROVE IInv /\ DInv
    OBVIOUS
<1>1. IInv
    BY InitInv DEF DInit
<1>2. LocalInv /\ AskedInv /\ TakenInv
    BY DEF DInit, Local!Init, LocalInv, AskedInv, TakenInv
<1>3. QED
    BY <1>1, <1>2 DEF DInv

LEMMA DInductive == DSpec => [](IInv /\ DInv)
<1>1. IInv /\ DInv /\ [DNext]_dvars => (IInv /\ DInv)'
    BY DirectoryStep, StepInv, DInvStep DEF DInv
<1>2. QED
    BY <1>1, DInvInit, PTL DEF DSpec

-----------------------------------------------------------------------------
(* The theorems.                                                           *)

\* The directory of the composition does nothing KdcPrekeys does not do, though
\* its Reader registers what upload_keys read from the disk: all that is proved
\* of KdcPrekeys holds of it.
THEOREM DirectoryIsKdcPrekeys == DSpec => Spec
<1>1. IInv /\ DInv /\ [DNext]_dvars => [Next]_vars
    BY DirectoryStep DEF DInv
<1>2. DInit => Init
    BY DEF DInit
<1>3. QED
    BY <1>1, <1>2, DInductive, PTL DEF DSpec, Spec

\* A file in the inbox was made with the receiver's prekey and is on the
\* server's disk.
THEOREM StoredFilesAreDeliverable == DSpec => []FileIsDeliverable
BY DirectoryIsKdcPrekeys, FilesAreDeliverable, PTL

\* A prekey the Reader's disk no longer has was used by a stored file.
LEMMA GoneIsUsed ==
    ASSUME IInv, DInv, NEW p \in OwnKeys, disk[p] # "key"
    PROVE  \E s \in files : offer[s] = p /\ tries[s] # "idle"
BY DEF DInv, TakenInv, AskedInv

\* GET /keys never answers with a prekey whose private half the Reader consumed,
\* also when upload_keys published it after it was consumed.
THEOREM OffersCanBeDecrypted == DSpec => []OfferedIsOnDisk
<1>1. ASSUME IInv, DInv, NEW p \in RowsOf(Reader) \ used, disk[p] # "key"
      PROVE  FALSE
  <2>1. p \in OwnKeys
      BY <1>1 DEF RowsOf, OwnKeys, IInv, TypeOK
  <2>2. p \in used
      BY <1>1, <2>1, GoneIsUsed DEF IInv, Inv, UsedIffFile
  <2>3. QED
      BY <1>1, <2>2
<1>2. IInv /\ DInv => OfferedIsOnDisk
    BY <1>1 DEF OfferedIsOnDisk
<1>3. QED
    BY <1>2, DInductive, PTL

\* The first decryption of a stored file finds its prekey on the Reader's disk.
THEOREM FirstTriesSucceed == DSpec => []FirstTryHasKey
<1>1. ASSUME IInv, DInv, NEW s \in files, ReceiverOf[s] = Reader, tries[s] = "idle",
             disk[offer[s]] # "key"
      PROVE  FALSE
  <2>1. s \in Session /\ offer[s] # None
      BY <1>1, FileHasOffer DEF IInv, Inv, TypeOK
  <2>2. offer[s] \in OwnKeys
      BY <1>1, <2>1 DEF IInv, Inv, TypeOK, OfferInv, OwnKeys
  <2>3. PICK t \in files : offer[t] = offer[s] /\ tries[t] # "idle"
      BY <1>1, <2>2, GoneIsUsed
  <2>4. t = s
      BY <1>1, <2>3 DEF IInv, Inv, OneFilePerPrekey
  <2>5. QED
      BY <1>1, <2>3, <2>4
<1>2. IInv /\ DInv => FirstTryHasKey
    BY <1>1 DEF FirstTryHasKey
<1>3. QED
    BY <1>2, DInductive, PTL
=============================================================================
