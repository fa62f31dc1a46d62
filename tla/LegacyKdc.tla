------------------------------ MODULE LegacyKdc ------------------------------
(***************************************************************************)
(* The first directory, src/secxfer/server.py, which the clients' default  *)
(* address still names: the prekeys of one user, the Reader, who publishes *)
(* them with upload_keys, the calls of send that ask for them, and the     *)
(* Reader's disk, where decrypting a file consumes its private half.       *)
(*                                                                         *)
(* HTTPServer has one thread and closes the connection after each request: *)
(* requests are served one at a time, in any order, and one may be served  *)
(* after its client gave up.  So an action is a whole request, ended early *)
(* where the process may be killed or the database may refuse.  What the   *)
(* server keeps in memory, its challenges, dies with it.                   *)
(*                                                                         *)
(* Unlike the Django directory it has no reservations: GET /keys spends    *)
(* the row at once, unless it is the last unused one, and POST /register   *)
(* inserts the whole bundle again each time.                               *)
(***************************************************************************)
EXTENDS Integers, Sequences, FiniteSets

CONSTANTS Key,      \* prekeys the Reader's keygen made
          Call,     \* calls of upload_keys
          Session,  \* calls of send
          None,
          MaxKills  \* bound: restarts of the server

ASSUME NoneAssumption == None \notin Key \cup Call
ASSUME KeyAssumption == IsFiniteSet(Key)
ASSUME KindAssumption == Call \cap Session = {}
ASSUME BoundAssumption == MaxKills \in Nat

VARIABLES
    rows,      \* the prekeys table, by rowid: [id, used]
    challenge, \* _CHALLENGES[key_id]: the call it was issued to, or None
    reg,       \* where each call of upload_keys stands
    bundle,    \* the prekeys it read from the disk
    stored,    \* calls whose bundle is in the table
    cpc,       \* where each call of send stands
    req,       \* its request the server has yet to serve
    offer,     \* the prekey it was given, or None
    lone,      \* calls that were given the last unused row
    blob,      \* server_vault/<file_id>.bin of each call
    files,     \* calls with a row in encrypted_files
    audited,   \* calls, of both kinds, with an entry in the audit log
    broken,    \* calls in whose request the server was killed or the database failed
    disk,      \* prekey files of the Reader
    opened,    \* files the Reader took the key of, or tried to
    kills

registry == <<challenge, reg, bundle, stored>>
sending  == <<cpc, req, offer, lone, blob, files>>
reader   == <<disk, opened>>
vars     == <<rows, registry, sending, audited, broken, reader, kills>>

TypeOK ==
    /\ rows \in Seq([id : Key, used : BOOLEAN])
    /\ challenge \in Call \cup {None}
    /\ reg \in [Call -> {"idle", "asking", "challenged", "posting", "registered",
                         "failed", "late", "ended"}]
    /\ bundle \in [Call -> SUBSET Key]
    /\ stored \subseteq Call
    /\ cpc \in [Session -> {"idle", "asking", "holding", "uploading", "sent", "failed"}]
    /\ req \in [Session -> {"none", "keys", "upload"}]
    /\ offer \in [Session -> Key \cup {None}]
    /\ lone \subseteq Session
    /\ blob \in [Session -> {"none", "whole", "short"}]
    /\ files \subseteq Session
    /\ audited \cup broken \subseteq Call \cup Session
    /\ disk \subseteq Key
    /\ opened \subseteq files
    /\ kills \in 0 .. MaxKills

\* init_db, and keygen on the Reader's side.
Init ==
    /\ rows = <<>>
    /\ challenge = None
    /\ reg = [c \in Call |-> "idle"]
    /\ bundle = [c \in Call |-> {}]
    /\ stored = {}
    /\ cpc = [s \in Session |-> "idle"]
    /\ req = [s \in Session |-> "none"]
    /\ offer = [s \in Session |-> None]
    /\ lone = {}
    /\ blob = [s \in Session |-> "none"]
    /\ files = {} /\ audited = {} /\ broken = {}
    /\ disk = Key
    /\ opened = {}
    /\ kills = 0

\* The process is killed while it serves the request of x, or the database
\* fails there.
Killed(x) ==
    /\ kills < MaxKills
    /\ kills' = kills + 1
    /\ challenge' = None
    /\ broken' = broken \cup {x}

\* append_audit_log, for the request of x.
Log(x) == audited' = audited \cup {x}

DbError(x) == broken' = broken \cup {x} /\ UNCHANGED <<kills, challenge>>

-----------------------------------------------------------------------------
(* GET /challenge and POST /register. *)

\* upload_keys: get_unused_prekeys, then GET /challenge.
ReadBundle(c) ==
    /\ reg[c] = "idle"
    /\ disk # {}
    /\ bundle' = [bundle EXCEPT ![c] = disk]
    /\ reg' = [reg EXCEPT ![c] = "asking"]
    /\ UNCHANGED <<rows, challenge, stored, sending, audited, broken, reader, kills>>

\* _issue_challenge replaces the challenge of an earlier call.
IssueChallenge(c) ==
    /\ reg[c] = "asking"
    /\ challenge' = c
    /\ reg' = [reg EXCEPT ![c] = "challenged"]
    /\ UNCHANGED <<rows, bundle, stored, sending, audited, broken, reader, kills>>

Post(c) ==
    /\ reg[c] = "challenged"
    /\ reg' = [reg EXCEPT ![c] = "posting"]
    /\ UNCHANGED <<rows, challenge, bundle, stored, sending, audited, broken, reader, kills>>

\* A timeout or a lost connection; a POST already sent is served all the same.
CallFails(c) ==
    /\ reg[c] \in {"asking", "challenged", "posting"}
    /\ reg' = [reg EXCEPT ![c] = IF reg[c] = "posting" THEN "late" ELSE "failed"]
    /\ UNCHANGED <<rows, challenge, bundle, stored, sending, audited, broken, reader, kills>>

\* A restart between requests clears _CHALLENGES, the entry expires, or the
\* challenge of a call that gave up replaces it.
ForgetChallenge ==
    /\ challenge # None
    /\ challenge' = None
    /\ UNCHANGED <<rows, reg, bundle, stored, sending, audited, broken, reader, kills>>

Posted(c) == reg[c] \in {"posting", "late"}

Answered(c, answer) ==
    reg' = [reg EXCEPT ![c] = IF reg[c] = "posting" THEN answer ELSE "ended"]

\* Variant: the entry is appended whether or not the challenge was right.
RefuseRegisterLogging(c) ==
    /\ Posted(c)
    /\ challenge # c
    /\ challenge' = None
    /\ Answered(c, "failed")
    /\ Log(c)
    /\ UNCHANGED <<rows, bundle, stored, sending, broken, reader, kills>>

\* _consume_challenge pops whatever is there; none, or another call's, is a 401.
RefuseRegister(c) ==
    /\ Posted(c)
    /\ challenge # c
    /\ challenge' = None
    /\ Answered(c, "failed")
    /\ UNCHANGED <<rows, bundle, stored, sending, audited, broken, reader, kills>>

\* The rows a bundle becomes, in the order glob lists the directory.
Inserts(B) == {f \in [1 .. Cardinality(B) -> [id : B, used : {FALSE}]] :
                   \A i, j \in DOMAIN f : f[i] = f[j] => i = j}

\* The user row and the prekey rows are committed, the answer is sent and the
\* entry appended.  A client that is gone may make the answer raise, which
\* skips the entry; a kill comes before it or before the answer as well.
Register(c) ==
    /\ Posted(c)
    /\ challenge = c
    /\ \E new \in Inserts(bundle[c]) : rows' = rows \o new
    /\ stored' = stored \cup {c}
    /\ \/ /\ Answered(c, "registered")
          /\ Log(c) \/ (reg[c] = "late" /\ UNCHANGED audited)
          /\ challenge' = None
          /\ UNCHANGED <<broken, kills>>
       \/ /\ Killed(c)
          /\ \E answer \in {"registered", "failed"} : Answered(c, answer)
          /\ UNCHANGED audited
    /\ UNCHANGED <<bundle, sending, reader>>

\* sqlite3.Error: rolled back and answered 500, but append_audit_log follows
\* for every outcome (unless the answer raises).  A kill before the commit
\* leaves the same state without the entry.
RegisterFails(c) ==
    /\ Posted(c)
    /\ challenge = c
    /\ challenge' = None
    /\ Answered(c, "failed")
    /\ Log(c) \/ UNCHANGED audited
    /\ broken' = broken \cup {c}
    /\ UNCHANGED <<rows, bundle, stored, sending, reader, kills>>

-----------------------------------------------------------------------------
(* GET /keys/<key_id>. *)

Ask(s) ==
    /\ cpc[s] = "idle"
    /\ cpc' = [cpc EXCEPT ![s] = "asking"]
    /\ req' = [req EXCEPT ![s] = "keys"]
    /\ UNCHANGED <<rows, registry, offer, lone, blob, files, audited, broken, reader, kills>>

Unused == {i \in DOMAIN rows : ~rows[i].used}

\* Variants: count > 0; count > 2.
SpendsAlways(n) == n > 0
SpendsOfThree(n) == n > 2

\* count > 1: the last unused row is given to everybody who asks.
Spends(n) == n > 1

\* The row is spent whether or not the client still waits for the answer; it
\* also fails when the server is killed before the answer is out.
GiveKey(s) ==
    /\ req[s] = "keys"
    /\ \E i \in Unused :
          /\ \A j \in Unused : i <= j
          /\ rows' = [rows EXCEPT ![i].used = Spends(Cardinality(Unused))]
          /\ \/ /\ cpc[s] = "asking"
                /\ cpc' = [cpc EXCEPT ![s] = "holding"]
                /\ offer' = [offer EXCEPT ![s] = rows[i].id]
                /\ lone' = IF Cardinality(Unused) = 1 THEN lone \cup {s} ELSE lone
             \/ cpc[s] = "failed" /\ UNCHANGED <<cpc, offer, lone>>
    /\ req' = [req EXCEPT ![s] = "none"]
    /\ UNCHANGED <<registry, blob, files, audited, broken, reader, kills>>

\* User not found, prekeys exhausted, or a database error.
RefuseKey(s) ==
    /\ req[s] = "keys"
    /\ \/ Unused = {} /\ UNCHANGED <<challenge, broken, kills>>
       \/ DbError(s)
    /\ cpc' = [cpc EXCEPT ![s] = "failed"]
    /\ req' = [req EXCEPT ![s] = "none"]
    /\ UNCHANGED <<rows, reg, bundle, stored, offer, lone, blob, files, audited, reader>>

\* A timeout or a lost connection: the request stays with the server.
ClientFails(s) ==
    /\ cpc[s] \in {"asking", "holding", "uploading"}
    /\ cpc' = [cpc EXCEPT ![s] = "failed"]
    /\ UNCHANGED <<rows, registry, req, offer, lone, blob, files, audited, broken, reader, kills>>

-----------------------------------------------------------------------------
(* POST /upload. *)

StartUpload(s) ==
    /\ cpc[s] = "holding"
    /\ cpc' = [cpc EXCEPT ![s] = "uploading"]
    /\ req' = [req EXCEPT ![s] = "upload"]
    /\ UNCHANGED <<rows, registry, offer, lone, blob, files, audited, broken, reader, kills>>

\* The body goes straight into <file_id>.bin; that of a client that is gone
\* may be short.
Body(s) == {"whole"} \cup (IF cpc[s] = "failed" THEN {"short"} ELSE {})

\* Body, row, entry, answer: all of them, or the first few if the server is
\* killed or the database fails (no handler: the connection is dropped).
Store(s) ==
    /\ req[s] = "upload"
    /\ \/ /\ \E b \in Body(s) : blob' = [blob EXCEPT ![s] = b]
          /\ files' = files \cup {s}
          /\ \/ /\ Log(s)
                /\ cpc' = [cpc EXCEPT ![s] = IF @ = "uploading" THEN "sent" ELSE @]
                /\ UNCHANGED <<challenge, broken, kills>>
             \/ /\ cpc' = [cpc EXCEPT ![s] = "failed"]
                /\ Killed(s) \/ DbError(s)
                /\ UNCHANGED audited
       \/ /\ \E b \in {"short"} \cup Body(s) : blob' = [blob EXCEPT ![s] = b]
          /\ cpc' = [cpc EXCEPT ![s] = "failed"]
          /\ Killed(s) \/ DbError(s)
          /\ UNCHANGED <<files, audited>>
    /\ req' = [req EXCEPT ![s] = "none"]
    /\ UNCHANGED <<rows, reg, bundle, stored, offer, lone, reader>>

-----------------------------------------------------------------------------
(* The Reader: GET /inbox, GET /download, and consume_prekey in one step    *)
(* (LocalPrekeys has its file operations and their interleavings).          *)

Inbox == files

Readable(s) == offer[s] \in disk

\* The key a file takes with it: none, if it is the last on the disk.
Consumed(s) == IF disk = {offer[s]} THEN {} ELSE {offer[s]}

\* A download and a decryption that comes to consume_prekey, the first or a
\* later one; one that is refused before changes nothing.  The DOWNLOAD entry is
\* not followed up here.
Open(s) ==
    /\ s \in Inbox
    /\ opened' = opened \cup {s}
    /\ disk' = disk \ Consumed(s)
    /\ UNCHANGED <<rows, registry, sending, audited, broken, kills>>

-----------------------------------------------------------------------------
Next ==
    \/ ForgetChallenge
    \/ \E c \in Call : \/ ReadBundle(c) \/ IssueChallenge(c) \/ Post(c) \/ CallFails(c)
                       \/ RefuseRegister(c) \/ Register(c) \/ RegisterFails(c)
    \/ \E s \in Session : \/ Ask(s) \/ GiveKey(s) \/ RefuseKey(s) \/ ClientFails(s)
                          \/ StartUpload(s) \/ Store(s) \/ Open(s)

Spec == Init /\ [][Next]_vars

-----------------------------------------------------------------------------
(* Properties. *)

RowsOf(k) == {i \in DOMAIN rows : rows[i].id = k}

\* Once a bundle was registered, nobody is told "Pre-keys exhausted. User must
\* re-register.": one row always stays unused.
NeverExhausted == rows # <<>> => Unused # {}

\* A stored file that nobody tried to decrypt and that cannot be decrypted any
\* more shares its prekey with a file that was, and the directory had given the
\* prekey twice for one of two reasons: a second registration inserted it
\* again, or it was the last unused row.
LossExplained ==
    \A s \in files \ opened : ~Readable(s) =>
        \E t \in opened :
            /\ offer[t] = offer[s]
            /\ Cardinality(RowsOf(offer[s])) > 1 \/ s \in lone \/ t \in lone

\* The audit log and the tables disagree about a request only if the server was
\* killed or its database failed in it, or the caller of register was gone.
AuditAccounted ==
    /\ TypeOK
    /\ \A c \in Call : (c \in stored) # (c \in audited) =>
           c \in broken \/ reg[c] = "ended"
    /\ \A s \in Session : (s \in files) # (s \in audited) => s \in broken
    /\ \A s \in Session : cpc[s] = "sent" =>
           s \in files \cap audited /\ blob[s] = "whole"
=============================================================================
