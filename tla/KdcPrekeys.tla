----------------------------- MODULE KdcPrekeys -----------------------------
(***************************************************************************)
(* The life of a prekey row in the Django directory                        *)
(* (secxfer_django/kdc/views.py) together with the client calls that use   *)
(* it (src/secxfer/client.py, send): GET /keys reserves a row, POST        *)
(* /upload stores the encrypted file in the vault and then spends the row  *)
(* and creates the EncryptedFile row in one database transaction.          *)
(*                                                                         *)
(* A session is one call of send.  Each session has at most one /keys      *)
(* handler and one /upload handler on the server; handlers of different    *)
(* sessions interleave at every database transaction and every operation   *)
(* on the vault.  Every transaction.atomic() block runs on SQLite, which   *)
(* either serialises it with every other writer or fails it with "database *)
(* is locked": a block is one step, or a failure that changes nothing.     *)
(*                                                                         *)
(* Time enters only as the age of a reservation, in ticks, saturating one  *)
(* tick after ReservationTTL (the 300 seconds of keys_view): the code asks *)
(* nothing of reserved_at but whether that much time has passed.           *)
(***************************************************************************)
EXTENDS Integers, FiniteSets

CONSTANTS User,            \* registered identities, by key_id
          Prekey,          \* prekey rows, by primary key
          Session,         \* calls of SecXferClient.send
          None,            \* SQL NULL, and "no prekey yet"
          OwnerOf,         \* OwnerOf[p]: the user whose prekey p is
          SenderOf,        \* SenderOf[s]: who makes the call s
          ReceiverOf,      \* ReceiverOf[s]: whom s sends to
          ReservationTTL,  \* the reservation timeout, in ticks
          MaxCrashes       \* bound: server restarts in a behaviour

ASSUME PrekeyAssumption == Prekey \subseteq Nat
ASSUME NoneAssumption == None \notin User /\ None \notin Prekey
ASSUME OwnerAssumption == OwnerOf \in [Prekey -> User]
ASSUME SessionAssumption ==
    SenderOf \in [Session -> User] /\ ReceiverOf \in [Session -> User]
ASSUME BoundAssumption == ReservationTTL \in Nat /\ MaxCrashes \in Nat

VARIABLES
    \* the PreKey table
    registered,  \* rows that exist
    used,        \* rows with used = True
    reserved,    \* rows with reserved = True
    reservedBy,  \* reserved_by_key_id
    age,         \* ticks since reserved_at
    \* the calls of send
    cpc,         \* where each call stands
    offer,       \* the prekey the directory handed to the call, or None
    heldFor,     \* ticks since it did
    \* the server's handlers
    kpc,         \* the /keys handler of each call
    upc,         \* the /upload handler of each call
    \* what the server keeps of uploads
    blob,        \* server_vault/<file_id>.bin of each call
    files,       \* calls with an EncryptedFile row
    audited,     \* calls with an UPLOAD entry in the audit log
    crashes      \* server restarts so far

table   == <<registered, used, reserved, reservedBy, age>>
client  == <<cpc, offer, heldFor>>
storage == <<blob, files, audited>>
vars    == <<table, client, kpc, upc, storage, crashes>>

Ticks == 0 .. ReservationTTL + 1

Later(t) == IF t > ReservationTTL THEN t ELSE t + 1

TypeOK ==
    /\ registered \subseteq Prekey
    /\ used \subseteq Prekey
    /\ reserved \subseteq Prekey
    /\ reservedBy \in [Prekey -> User \cup {None}]
    /\ age \in [Prekey -> Ticks]
    /\ cpc \in [Session -> {"idle", "asking", "holding", "uploading",
                            "sent", "failed"}]
    /\ offer \in [Session -> Prekey \cup {None}]
    /\ heldFor \in [Session -> Ticks]
    /\ kpc \in [Session -> {"none", "pending", "ok", "exhausted", "refused",
                            "dead"}]
    /\ upc \in [Session -> {"none", "checking", "writing", "stored", "missed",
                            "committed", "done", "refused", "error", "dead"}]
    /\ blob \in [Session -> {"none", "part", "whole", "short"}]
    /\ files \subseteq Session
    /\ audited \subseteq Session
    /\ crashes \in 0 .. MaxCrashes

Init ==
    /\ registered = {} /\ used = {} /\ reserved = {}
    /\ reservedBy = [p \in Prekey |-> None]
    /\ age = [p \in Prekey |-> 0]
    /\ cpc = [s \in Session |-> "idle"]
    /\ offer = [s \in Session |-> None]
    /\ heldFor = [s \in Session |-> 0]
    /\ kpc = [s \in Session |-> "none"]
    /\ upc = [s \in Session |-> "none"]
    /\ blob = [s \in Session |-> "none"]
    /\ files = {} /\ audited = {}
    /\ crashes = 0

-----------------------------------------------------------------------------
(* The clock. *)

Tick ==
    /\ \E p \in reserved : age[p] <= ReservationTTL
    /\ age' = [p \in Prekey |-> IF p \in reserved THEN Later(age[p]) ELSE age[p]]
    /\ heldFor' = [s \in Session |-> IF offer[s] # None THEN Later(heldFor[s])
                                     ELSE heldFor[s]]
    /\ UNCHANGED <<registered, used, reserved, reservedBy, cpc, offer, kpc, upc,
                   storage, crashes>>

-----------------------------------------------------------------------------
(* POST /register, the table part: get_or_create of every prekey of the    *)
(* bundle B.  A row that exists keeps its flags; a new row gets the next   *)
(* primary keys.  The view's early return on conflicting key material      *)
(* commits the rows created before it, which is this step for a smaller B. *)

\* Variant: update_or_create, which writes the defaults into existing rows.
RegisterResetting(u, B) ==
    /\ \A p \in B : OwnerOf[p] = u
    /\ \A p \in B \ registered, q \in registered : q < p
    /\ registered' = registered \cup B
    /\ used' = used \ B
    /\ reserved' = reserved \ B
    /\ UNCHANGED <<reservedBy, age, client, kpc, upc, storage, crashes>>

Register(u, B) ==
    LET new == B \ registered IN
    /\ \A p \in B : OwnerOf[p] = u
    /\ \A p \in new, q \in registered : q < p
    /\ registered' = registered \cup new
    /\ used' = used \ new
    /\ reserved' = reserved \ new
    /\ UNCHANGED <<reservedBy, age, client, kpc, upc, storage, crashes>>

-----------------------------------------------------------------------------
(* GET /keys/<receiver>. *)

Ask(s) ==
    /\ cpc[s] = "idle"
    /\ cpc' = [cpc EXCEPT ![s] = "asking"]
    /\ kpc' = [kpc EXCEPT ![s] = "pending"]
    /\ UNCHANGED <<table, offer, heldFor, upc, storage, crashes>>

RowsOf(u) == {p \in registered : OwnerOf[p] = u}

\* Variants: reserved_at__lte; an update that picks the used rows.
LapsedAtTimeout(u) == {p \in RowsOf(u) \cap reserved :
                           p \notin used /\ age[p] >= ReservationTTL}
LapsedOfUsed(u) == {p \in RowsOf(u) \cap reserved :
                        p \in used /\ age[p] > ReservationTTL}

\* Reservations the update of line 156 takes back.
Lapsed(u) == {p \in RowsOf(u) \cap reserved :
                  p \notin used /\ age[p] > ReservationTTL}

\* Variant: the query without its reserved=False.
AvailableReservedToo(u) == RowsOf(u) \ used

\* What the query of line 157 selects from, after that update.
Available(u) == RowsOf(u) \ (used \cup (reserved \ Lapsed(u)))

Reserve(s, p) ==
    LET u == ReceiverOf[s]
        lapsed == Lapsed(u) IN
    /\ kpc[s] = "pending"
    /\ p \in Available(u)
    /\ \A q \in Available(u) : p <= q
    /\ reserved' = (reserved \ lapsed) \cup {p}
    /\ reservedBy' = [q \in Prekey |->
                        IF q = p THEN SenderOf[s]
                        ELSE IF q \in lapsed THEN None ELSE reservedBy[q]]
    /\ age' = [age EXCEPT ![p] = 0]
    /\ offer' = [offer EXCEPT ![s] = p]
    /\ heldFor' = [heldFor EXCEPT ![s] = 0]
    /\ kpc' = [kpc EXCEPT ![s] = "ok"]
    /\ UNCHANGED <<registered, used, cpc, upc, storage, crashes>>

\* Nothing to reclaim either: a reclaimed row would be available.
Exhausted(s) ==
    /\ kpc[s] = "pending"
    /\ RowsOf(ReceiverOf[s]) # {}
    /\ Available(ReceiverOf[s]) = {}
    /\ kpc' = [kpc EXCEPT ![s] = "exhausted"]
    /\ UNCHANGED <<table, client, upc, storage, crashes>>

\* Not authenticated, over the rate limit, unknown user, database locked.
KeysRefused(s) ==
    /\ kpc[s] = "pending"
    /\ kpc' = [kpc EXCEPT ![s] = "refused"]
    /\ UNCHANGED <<table, client, upc, storage, crashes>>

GetAnswer(s) ==
    /\ cpc[s] = "asking"
    /\ \/ kpc[s] = "ok" /\ cpc' = [cpc EXCEPT ![s] = "holding"]
       \/ kpc[s] \in {"exhausted", "refused"} /\ cpc' = [cpc EXCEPT ![s] = "failed"]
    /\ UNCHANGED <<table, offer, heldFor, kpc, upc, storage, crashes>>

\* A timeout, a connection error, a keystore that does not hold the peer or
\* holds another key for it, or a caller that wanted the identity only (pin).
ClientFails(s) ==
    /\ cpc[s] \in {"asking", "holding", "uploading"}
    /\ cpc' = [cpc EXCEPT ![s] = "failed"]
    /\ UNCHANGED <<table, offer, heldFor, kpc, upc, storage, crashes>>

-----------------------------------------------------------------------------
(* POST /upload. *)

StartUpload(s) ==
    /\ cpc[s] = "holding"
    /\ cpc' = [cpc EXCEPT ![s] = "uploading"]
    /\ upc' = [upc EXCEPT ![s] = "checking"]
    /\ UNCHANGED <<table, offer, heldFor, kpc, storage, crashes>>

\* Headers, request signature and declared size: refused, or the .part file
\* is opened.
CheckUpload(s) ==
    /\ upc[s] = "checking"
    /\ \/ /\ upc' = [upc EXCEPT ![s] = "refused"]
          /\ UNCHANGED blob
       \/ /\ upc' = [upc EXCEPT ![s] = "writing"]
          /\ blob' = [blob EXCEPT ![s] = "part"]
    /\ UNCHANGED <<table, client, kpc, files, audited, crashes>>

\* The body is read to its end and the .part renamed.  A client that gave up
\* may leave a body shorter than its Content-Length; the loop over the
\* request does not compare the two.
StoreBlob(s) ==
    /\ upc[s] = "writing"
    /\ \/ blob' = [blob EXCEPT ![s] = "whole"]
       \/ cpc[s] = "failed" /\ blob' = [blob EXCEPT ![s] = "short"]
    /\ upc' = [upc EXCEPT ![s] = "stored"]
    /\ UNCHANGED <<table, client, kpc, files, audited, crashes>>

\* Variant: the exception branch does not return.
WriteFailsGoesOn(s) ==
    /\ upc[s] = "writing"
    /\ blob' = [blob EXCEPT ![s] = "none"]
    /\ upc' = [upc EXCEPT ![s] = "stored"]
    /\ UNCHANGED <<table, client, kpc, files, audited, crashes>>

\* The exception branch removes the .part file.
WriteFails(s) ==
    /\ upc[s] = "writing"
    /\ blob' = [blob EXCEPT ![s] = "none"]
    /\ upc' = [upc EXCEPT ![s] = "refused"]
    /\ UNCHANGED <<table, client, kpc, files, audited, crashes>>

\* Variants: the get asks for the row only; it does not ask who reserved it.
MaySpendAnyRow(s) == offer[s] \in RowsOf(ReceiverOf[s])
MaySpendOfOthers(s) ==
    /\ offer[s] \in RowsOf(ReceiverOf[s]) \cap reserved
    /\ offer[s] \notin used

\* The row the get of line 213 looks for.
MaySpend(s) ==
    /\ offer[s] \in RowsOf(ReceiverOf[s]) \cap reserved
    /\ offer[s] \notin used
    /\ reservedBy[offer[s]] = SenderOf[s]

Commit(s) ==
    LET p == offer[s] IN
    /\ upc[s] = "stored"
    /\ MaySpend(s)
    /\ used' = used \cup {p}
    /\ reserved' = reserved \ {p}
    /\ reservedBy' = [reservedBy EXCEPT ![p] = None]
    /\ files' = files \cup {s}
    /\ upc' = [upc EXCEPT ![s] = "committed"]
    /\ UNCHANGED <<registered, age, client, kpc, blob, audited, crashes>>

\* PreKey.DoesNotExist ...
NotReserved(s) ==
    /\ upc[s] = "stored"
    /\ ~MaySpend(s)
    /\ upc' = [upc EXCEPT ![s] = "missed"]
    /\ UNCHANGED <<table, client, kpc, storage, crashes>>

\* Variant: the handler only answers.
DiscardNothing(s) ==
    /\ upc[s] = "missed"
    /\ upc' = [upc EXCEPT ![s] = "refused"]
    /\ UNCHANGED <<table, client, kpc, storage, crashes>>

\* ... whose handler removes the blob and answers 409.
Discard(s) ==
    /\ upc[s] = "missed"
    /\ blob' = [blob EXCEPT ![s] = "none"]
    /\ upc' = [upc EXCEPT ![s] = "refused"]
    /\ UNCHANGED <<table, client, kpc, files, audited, crashes>>

\* Variant: without transaction.atomic() the row is spent when the second
\* write fails.
CommitFailsHalfway(s) ==
    /\ upc[s] = "stored"
    /\ MaySpend(s)
    /\ used' = used \cup {offer[s]}
    /\ reserved' = reserved \ {offer[s]}
    /\ upc' = [upc EXCEPT ![s] = "error"]
    /\ UNCHANGED <<registered, reservedBy, age, client, kpc, storage, crashes>>

\* Any other database error is caught nowhere: the transaction rolls back,
\* the answer is a 500 and the blob stays.
CommitFails(s) ==
    /\ upc[s] = "stored"
    /\ upc' = [upc EXCEPT ![s] = "error"]
    /\ UNCHANGED <<table, client, kpc, storage, crashes>>

\* Variant: the view answers "uploaded" although the append failed.
AppendAuditSwallowed(s) ==
    /\ upc[s] = "committed"
    /\ audited' \in {audited, audited \cup {s}}
    /\ upc' = [upc EXCEPT ![s] = "done"]
    /\ UNCHANGED <<table, client, kpc, blob, files, crashes>>

\* append_audit_log is a transaction of its own; it may fail too.
AppendAudit(s) ==
    /\ upc[s] = "committed"
    /\ \/ audited' = audited \cup {s} /\ upc' = [upc EXCEPT ![s] = "done"]
       \/ audited' = audited /\ upc' = [upc EXCEPT ![s] = "error"]
    /\ UNCHANGED <<table, client, kpc, blob, files, crashes>>

UploadAnswer(s) ==
    /\ cpc[s] = "uploading"
    /\ \/ upc[s] = "done" /\ cpc' = [cpc EXCEPT ![s] = "sent"]
       \/ upc[s] \in {"refused", "error"} /\ cpc' = [cpc EXCEPT ![s] = "failed"]
    /\ UNCHANGED <<table, offer, heldFor, kpc, upc, storage, crashes>>

-----------------------------------------------------------------------------
(* The server process dies and is started again: the handlers are gone, the *)
(* database and the vault are as they were.                                 *)

KeysActive(s) == kpc[s] = "pending"
UploadActive(s) ==
    upc[s] \in {"checking", "writing", "stored", "missed", "committed"}

Crash ==
    /\ crashes < MaxCrashes
    /\ crashes' = crashes + 1
    /\ kpc' = [s \in Session |-> IF KeysActive(s) THEN "dead" ELSE kpc[s]]
    /\ upc' = [s \in Session |-> IF UploadActive(s) THEN "dead" ELSE upc[s]]
    /\ UNCHANGED <<table, client, storage>>

-----------------------------------------------------------------------------
KeysHandler(s) == \/ \E p \in Prekey : Reserve(s, p)
                  \/ Exhausted(s)
                  \/ KeysRefused(s)

UploadHandler(s) == \/ CheckUpload(s) \/ StoreBlob(s) \/ WriteFails(s)
                    \/ Commit(s) \/ NotReserved(s) \/ Discard(s)
                    \/ CommitFails(s) \/ AppendAudit(s)

ClientStep(s) == \/ Ask(s) \/ GetAnswer(s) \/ ClientFails(s)
                 \/ StartUpload(s) \/ UploadAnswer(s)

Next == \/ Tick
        \/ Crash
        \/ \E u \in User, B \in SUBSET Prekey : Register(u, B)
        \/ \E s \in Session : KeysHandler(s) \/ UploadHandler(s) \/ ClientStep(s)

Spec == Init /\ [][Next]_vars

(* Time passes, a request the server accepted is worked on until it is      *)
(* answered, and a call of send ends: httpx gives up after 10 or 30 seconds.*)
(* Nothing obliges a client to make a call, or a user to register.          *)
Fairness ==
    /\ WF_vars(Tick)
    /\ \A s \in Session :
          /\ WF_vars(KeysHandler(s))
          /\ WF_vars(UploadHandler(s))
          /\ WF_vars(GetAnswer(s) \/ ClientFails(s) \/ StartUpload(s)
                     \/ UploadAnswer(s))

FairSpec == Spec /\ Fairness

-----------------------------------------------------------------------------
(* Properties. *)

\* Two uploads never commit under the same one-time prekey, whatever the
\* order of reservations, reclaims, late uploads and restarts.
OneFilePerPrekey ==
    \A s, t \in files : s # t => offer[s] # offer[t]

\* The used flag and the EncryptedFile row go together: a prekey is spent
\* exactly when a file made with it was stored, so no crash or failed upload
\* burns a prekey and no stored file leaves its prekey on offer.
UsedIffFile == used = {offer[s] : s \in files}

\* A stored file was made with a prekey of its receiver, and the receiver's
\* inbox never leads to "File not found on disk": the blob is there.
FileIsDeliverable ==
    \A s \in files : /\ OwnerOf[offer[s]] = ReceiverOf[s]
                     /\ blob[s] \in {"whole", "short"}

\* When send returns normally the whole file is in the vault and in the
\* receiver's inbox, its prekey is spent, and the audit log has its entry.
SentMeansStored ==
    \A s \in Session : cpc[s] = "sent" =>
        /\ s \in files \cap audited
        /\ blob[s] = "whole"
        /\ offer[s] \in used

\* Every blob or .part without an inbox entry belongs to a handler that is
\* still running, was killed, or met a database error; an upload the view
\* itself refused leaves nothing behind.  With the types.
OrphansAccounted ==
    /\ TypeOK
    /\ \A s \in Session : s \notin files /\ blob[s] # "none" =>
          UploadActive(s) \/ upc[s] \in {"dead", "error"}

\* A caller that comes back within the reservation timeout is served: the row
\* is still reserved for it, unless another call of the same sender already
\* used it.
TimelyUploadHonoured ==
    \A s \in Session :
        offer[s] # None /\ heldFor[s] <= ReservationTTL =>
            \/ offer[s] \in reserved /\ reservedBy[offer[s]] = SenderOf[s]
            \/ \E t \in files : offer[t] = offer[s] /\ SenderOf[t] = SenderOf[s]

-----------------------------------------------------------------------------
(* Why the invariants hold: what a step relies on beyond them. *)

\* Flags and holder of a row agree, and only rows that exist carry them.
RowInv ==
    /\ used \cup reserved \subseteq registered
    /\ used \cap reserved = {}
    /\ \A p \in reserved : reservedBy[p] \in User

\* A call has an offer exactly when the /keys handler succeeded, and the offer
\* is a row of the receiver.
OfferInv ==
    \A s \in Session :
        /\ offer[s] # None <=> kpc[s] = "ok"
        /\ offer[s] # None => /\ offer[s] \in registered
                              /\ OwnerOf[offer[s]] = ReceiverOf[s]

\* How far the handlers may be when the call stands where it does.
ProgressInv ==
    \A s \in Session :
        /\ cpc[s] = "idle" => kpc[s] = "none"
        /\ cpc[s] \in {"holding", "uploading", "sent"} => kpc[s] = "ok"
        /\ cpc[s] \in {"idle", "asking", "holding"} => upc[s] = "none"
        /\ upc[s] # "none" => kpc[s] = "ok"
        /\ cpc[s] = "sent" => upc[s] = "done"

\* What an upload handler has made of the vault and the tables so far.
UploadInv ==
    \A s \in Session :
        /\ upc[s] \in {"none", "checking", "refused"} => blob[s] = "none"
        /\ upc[s] \in {"stored", "missed"} => blob[s] \in {"whole", "short"}
        /\ upc[s] \in {"committed", "done"} => s \in files
        /\ s \in files => /\ upc[s] \in {"committed", "done", "error", "dead"}
                          /\ blob[s] \in {"whole", "short"}
        /\ upc[s] = "done" => s \in audited
        /\ blob[s] = "short" => cpc[s] = "failed"

\* The age of a reservation is the time since the call it was made for got
\* its answer, for as long as that call is within the timeout.
HolderInv ==
    \A s \in Session :
        offer[s] # None /\ heldFor[s] <= ReservationTTL =>
            \/ /\ offer[s] \in reserved
               /\ reservedBy[offer[s]] = SenderOf[s]
               /\ age[offer[s]] = heldFor[s]
            \/ \E t \in files : offer[t] = offer[s] /\ SenderOf[t] = SenderOf[s]

Inv == /\ RowInv /\ OfferInv /\ ProgressInv /\ UploadInv /\ HolderInv
       /\ UsedIffFile /\ OneFilePerPrekey

-----------------------------------------------------------------------------
(* What a step may not do, what must happen, and the abstract directory. *)

\* A reservation ends only because its prekey is used or its timeout passed.
ReservationKept ==
    [][\A p \in reserved :
          (p \notin reserved' \/ reservedBy'[p] # reservedBy[p] \/ age'[p] < age[p])
              => p \in used' \/ age[p] > ReservationTTL]_vars

\* A used prekey stays used and is not handed out again, even if its owner
\* publishes it again (upload_keys sends every prekey file still on disk).
UsedForever ==
    [][/\ used \subseteq used'
       /\ \A s \in Session : offer'[s] # offer[s] => offer'[s] \notin used]_vars

\* No reservation is held for ever by a call that ended: it is used, or it
\* becomes one that the next GET /keys takes back.
ReservationLapses ==
    \A p \in Prekey : p \in reserved ~> p \in used \cup Lapsed(OwnerOf[p])

\* The directory does what OneTimePrekeys promises.
OTP == INSTANCE OneTimePrekeys WITH
           published <- registered,
           lease     <- [p \in Prekey |-> IF p \in reserved THEN reservedBy[p]
                                          ELSE None],
           delivered <- {<<offer[s], SenderOf[s]>> : s \in files}

Refines == OTP!Spec
=============================================================================
