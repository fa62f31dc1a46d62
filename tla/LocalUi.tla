------------------------------ MODULE LocalUi ------------------------------
(***************************************************************************)
(* The local backend (src/secxfer/ui/app.py): one process with an event    *)
(* loop, the SecXferClient it keeps in app.state.client, and the requests  *)
(* of its pages.  A request runs from one await to the next; in between    *)
(* the other requests run, and so do other processes: secxfer keygen, pin, *)
(* which writes .pub files (one of a receiver's name), and decryptions.    *)
(*                                                                         *)
(* A client is named by the unlock that made it.  Its keystore is what     *)
(* Keystore.from_directory found then.  The servers answer anything; what  *)
(* they do is the business of the Kdc modules, what becomes of the stream  *)
(* of FileStream, and what a decryption does of ReceiveTransfer: download  *)
(* never comes to it, since decrypt_file_v2_from_path takes one argument   *)
(* less than download gives it.                                            *)
(***************************************************************************)
EXTENDS Integers, FiniteSets

CONSTANTS Req,      \* requests of the pages
          Identity, \* public identities of other users
          File,     \* file ids on the server
          None,     \* no identity, no file, no client
          Torn,     \* a .pub file that is being written
          MaxPins,  \* bound: how often pin writes the file
          MaxKills  \* bound: how often the backend is killed

ASSUME NoneAssumption ==
    /\ None \notin Req \cup Identity \cup File
    /\ Torn \notin Identity \cup {None}
ASSUME BoundAssumption == MaxPins \in Nat /\ MaxKills \in Nat

VARIABLES
    identity, \* the user's own on disk: "none", "partial" (no whole .pub file),
              \* "bare" (no prekey yet), "ready", "spent" (no prekey any more)
    pin,      \* <receiver>.pub
    pins,     \* how often pin wrote it
    current,  \* app.state.client
    http,     \* the httpx client of each client: "unborn", "open", "closed"
    peers,    \* the keystore of each client
    kind,     \* what each request is
    pc,       \* where it stands
    client,   \* the client it got from get_client, or is closing
    to,       \* send: the identity it read from <receiver>.pub
    found,    \* send: the identity the directory answered
    item,     \* download: the file id
    temp,     \* files in keystore_dir/tmp
    kills,    \* how often the backend was killed
    overlap,  \* two unlocks were under way at once (history only)
    failed,   \* the last unlock failed (history only)
    served,   \* requests that ended with a server's success (history only)
    dry       \* registers that found no prekey to upload (history only)

disk     == <<identity, pin, pins>>
backend  == <<current, http, peers>>
requests == <<kind, pc, client, to, found, item>>
outcomes == <<served, dry>>
history  == <<kills, overlap, failed, outcomes>>
vars     == <<disk, backend, requests, temp, history>>

Calls == {"register", "query"}  \* query: inbox or audit
Kinds == Calls \cup {"unlock", "send", "download"}

\* How a request ends: "ok" and "error" are answers with status 200, "denied"
\* is 401, "invalid" 422, "crashed" 500; "dead" is no answer.
Ended == {"ok", "error", "denied", "invalid", "crashed", "dead"}
Places == {"idle", "closing", "calling", "spooled", "reserving", "uploading",
           "fetching", "writing"} \cup Ended

InFlight(r) == pc[r] \notin {"idle"} \cup Ended
Born(c) == http[c] # "unborn"

\* The temporary file of a request: download_<file_id>.bin is shared by all
\* downloads of the file, <uuid>.upload is the request's own.
TempOf(r) == IF kind[r] = "download" THEN item[r] ELSE r

TypeOK ==
    /\ identity \in {"none", "partial", "bare", "ready", "spent"}
    /\ pin \in Identity \cup {None, Torn}
    /\ pins \in 0 .. MaxPins
    /\ current \in {c \in Req : Born(c)} \cup {None}
    /\ http \in [Req -> {"unborn", "open", "closed"}]
    /\ peers \in [Req -> SUBSET Identity]
    /\ kind \in [Req -> Kinds \cup {None}]
    /\ pc \in [Req -> Places]
    /\ client \in [Req -> Req \cup {None}]
    /\ to \in [Req -> Identity \cup {None, Torn}]
    /\ found \in [Req -> Identity \cup {None}]
    /\ item \in [Req -> File \cup {None}]
    /\ temp \subseteq Req \cup File
    /\ kills \in 0 .. MaxKills
    /\ overlap \in BOOLEAN
    /\ failed \in BOOLEAN
    /\ served \subseteq Req
    /\ dry \subseteq Req

Init ==
    /\ identity = "none"
    /\ pin = None
    /\ pins = 0
    /\ current = None
    /\ http = [r \in Req |-> "unborn"]
    /\ peers = [r \in Req |-> {}]
    /\ kind = [r \in Req |-> None]
    /\ pc = [r \in Req |-> "idle"]
    /\ client = [r \in Req |-> None]
    /\ to = [r \in Req |-> None]
    /\ found = [r \in Req |-> None]
    /\ item = [r \in Req |-> None]
    /\ temp = {}
    /\ kills = 0
    /\ overlap = FALSE
    /\ failed = FALSE
    /\ served = {}
    /\ dry = {}

-----------------------------------------------------------------------------
(* Outside the backend. *)

\* generate_keypair writes the .key file, the .pub file and the prekeys, beside
\* the backend or in it (there, without an await).  It stops where it is killed,
\* and refuses to begin again.
Keygen ==
    /\ \/ identity = "none" /\ identity' = "partial"
       \/ identity = "partial" /\ identity' = "bare"
       \/ identity = "bare" /\ identity' = "ready"
    /\ UNCHANGED <<pin, pins, backend, requests, temp, history>>

\* Decryptions of other processes that overlap consume the last prekeys too.
PrekeysRunOut ==
    /\ identity = "ready"
    /\ identity' = "spent"
    /\ UNCHANGED <<pin, pins, backend, requests, temp, history>>

\* secxfer pin, with --force if the identity changed: the file is emptied and
\* written.
PinBegins ==
    /\ pin # Torn
    /\ pins < MaxPins
    /\ pins' = pins + 1
    /\ pin' = Torn
    /\ UNCHANGED <<identity, backend, requests, temp, history>>

PinEnds ==
    /\ pin = Torn
    /\ \E i \in Identity : pin' = i
    /\ UNCHANGED <<identity, pins, backend, requests, temp, history>>

\* The backend is killed and started again.
Kill ==
    /\ kills < MaxKills
    /\ kills' = kills + 1
    /\ current' = None
    /\ http' = [c \in Req |-> IF Born(c) THEN "closed" ELSE "unborn"]
    /\ pc' = [r \in Req |-> IF InFlight(r) THEN "dead" ELSE pc[r]]
    /\ UNCHANGED <<disk, peers, kind, client, to, found, item, temp, overlap,
                   failed, outcomes>>

-----------------------------------------------------------------------------
(* unlock *)

\* load_identity finds both files whole and in accord; it asks for no prekeys.
Loadable == identity \in {"bare", "ready", "spent"}

\* Keystore.from_directory: .pub files of another size are skipped.
LoadedPeers == {pin} \cap Identity

\* Variant: a client that is there is kept.
CreateFirstOnly(r) ==
    \/ /\ Loadable
       /\ http' = [http EXCEPT ![r] = "open"]
       /\ peers' = [peers EXCEPT ![r] = LoadedPeers]
       /\ current' = IF current = None THEN r ELSE current
       /\ pc' = [pc EXCEPT ![r] = "ok"]
       /\ failed' = FALSE
    \/ /\ pc' = [pc EXCEPT ![r] = "error"]
       /\ failed' = TRUE
       /\ UNCHANGED backend

\* SecXferClient(...); or it raises (password, missing files), and
\* app.state.client stays.
Create(r) ==
    \/ /\ Loadable
       /\ http' = [http EXCEPT ![r] = "open"]
       /\ peers' = [peers EXCEPT ![r] = LoadedPeers]
       /\ current' = r
       /\ pc' = [pc EXCEPT ![r] = "ok"]
       /\ failed' = FALSE
    \/ /\ pc' = [pc EXCEPT ![r] = "error"]
       /\ failed' = TRUE
       /\ UNCHANGED backend

\* Without a client that has connections to close, unlock has no await.
UnlockAtOnce(r) ==
    /\ pc[r] = "idle"
    /\ IF current = None THEN TRUE ELSE http[current] = "closed"
    /\ kind' = [kind EXCEPT ![r] = "unlock"]
    /\ Create(r)
    /\ overlap' = (overlap \/ \E q \in Req : pc[q] = "closing")
    /\ UNCHANGED <<disk, client, to, found, item, temp, kills, outcomes>>

\* Variant: the old client is not closed.
UnlockClosesKeeping(r) ==
    /\ pc[r] = "idle"
    /\ current # None /\ http[current] = "open"
    /\ kind' = [kind EXCEPT ![r] = "unlock"]
    /\ client' = [client EXCEPT ![r] = current]
    /\ pc' = [pc EXCEPT ![r] = "closing"]
    /\ overlap' = (overlap \/ \E q \in Req : pc[q] = "closing")
    /\ UNCHANGED <<disk, backend, to, found, item, temp, kills, failed, outcomes>>

\* await app.state.client.aclose(): from here on it takes no requests.
UnlockCloses(r) ==
    /\ pc[r] = "idle"
    /\ current # None /\ http[current] = "open"
    /\ kind' = [kind EXCEPT ![r] = "unlock"]
    /\ client' = [client EXCEPT ![r] = current]
    /\ http' = [http EXCEPT ![current] = "closed"]
    /\ pc' = [pc EXCEPT ![r] = "closing"]
    /\ overlap' = (overlap \/ \E q \in Req : pc[q] = "closing")
    /\ UNCHANGED <<disk, current, peers, to, found, item, temp, kills, failed,
                   outcomes>>

\* The request's locals; what a successful send compared stays, for the
\* properties.
Forget(r) ==
    LET Without(f) == [f EXCEPT ![r] = None]
    IN  /\ client' = Without(client)
        /\ item' = Without(item)
        /\ to' = IF pc'[r] = "ok" THEN to ELSE Without(to)
        /\ found' = IF pc'[r] = "ok" THEN found ELSE Without(found)

UnlockCreates(r) ==
    /\ pc[r] = "closing"
    /\ Create(r)
    /\ Forget(r)
    /\ UNCHANGED <<disk, kind, temp, kills, overlap, outcomes>>

-----------------------------------------------------------------------------
(* The requests that use the client. *)

\* get_client raises 401.
Locked(r, k) ==
    /\ pc[r] = "idle"
    /\ current = None
    /\ kind' = [kind EXCEPT ![r] = k]
    /\ pc' = [pc EXCEPT ![r] = "denied"]
    /\ UNCHANGED <<disk, backend, client, to, found, item, temp, history>>

GetClient(r, k) ==
    /\ pc[r] = "idle"
    /\ current # None
    /\ kind' = [kind EXCEPT ![r] = k]

Keep(r) == client' = [client EXCEPT ![r] = current]

\* Inbox and audit: the client awaits the answer of the server.
Query(r) ==
    /\ GetClient(r, "query")
    /\ \/ http[current] = "open" /\ pc' = [pc EXCEPT ![r] = "calling"] /\ Keep(r)
       \/ http[current] = "closed" /\ pc' = [pc EXCEPT ![r] = "error"] /\ UNCHANGED client
    /\ UNCHANGED <<disk, backend, to, found, item, temp, history>>

\* get_unused_prekeys
NoPrekeys == identity \in {"bare", "spent"}

\* register with prekeys to upload: the client awaits the server's challenge
\* and its answer; or it is closed, or a prekey file was gone or torn when
\* it was read.
Register(r) ==
    /\ GetClient(r, "register")
    /\ ~NoPrekeys
    /\ \/ http[current] = "open" /\ pc' = [pc EXCEPT ![r] = "calling"] /\ Keep(r)
       \/ pc' = [pc EXCEPT ![r] = "error"] /\ UNCHANGED client
    /\ UNCHANGED <<disk, backend, to, found, item, temp, history>>

\* Without one, upload_keys returns at once, and asks nobody.
RegisterNothing(r) ==
    /\ GetClient(r, "register")
    /\ NoPrekeys
    /\ pc' = [pc EXCEPT ![r] = "ok"]
    /\ dry' = dry \cup {r}
    /\ UNCHANGED <<disk, backend, client, to, found, item, temp, kills, overlap,
                   failed, served>>

\* The uploaded file is written to a temporary file.
SendSpools(r) ==
    /\ GetClient(r, "send") /\ Keep(r)
    /\ temp' = temp \cup {r}
    /\ pc' = [pc EXCEPT ![r] = "spooled"]
    /\ UNCHANGED <<disk, backend, to, found, item, history>>

\* mkdir or the copy raises: it is outside the try statement, what was written
\* stays, and the answer is no JSON.
SpoolFails(r) ==
    /\ GetClient(r, "send")
    /\ temp' \in {temp, temp \cup {r}}
    /\ pc' = [pc EXCEPT ![r] = "crashed"]
    /\ UNCHANGED <<disk, backend, client, to, found, item, history>>

\* send: the pinned identity is read and its prekey asked for.
SendReserves(r) ==
    /\ pc[r] = "spooled"
    /\ pin # None
    /\ http[client[r]] = "open"
    /\ to' = [to EXCEPT ![r] = pin]
    /\ pc' = [pc EXCEPT ![r] = "reserving"]
    /\ UNCHANGED <<disk, backend, kind, client, found, item, temp, history>>

\* Keystore.get
Knows(c, i) == i \in peers[c]

\* The directory answers with the identity in the client's keystore.
SendUploads(r) ==
    /\ pc[r] = "reserving"
    /\ http[client[r]] = "open"
    /\ Knows(client[r], to[r])
    /\ \E i \in Identity : /\ i = to[r]
                           /\ found' = [found EXCEPT ![r] = i]
    /\ pc' = [pc EXCEPT ![r] = "uploading"]
    /\ UNCHANGED <<disk, backend, kind, client, to, item, temp, history>>

\* download: the server is asked for the file.
DownloadFetches(r, f) ==
    /\ GetClient(r, "download") /\ Keep(r)
    /\ http[current] = "open"
    /\ item' = [item EXCEPT ![r] = f]
    /\ pc' = [pc EXCEPT ![r] = "fetching"]
    /\ UNCHANGED <<disk, backend, to, found, temp, history>>

\* With a closed client, stream raises, and the finally clause removes
\* download_<file_id>.bin if it is there, whoever writes to it.
DownloadRefused(r, f) ==
    /\ GetClient(r, "download")
    /\ http[current] = "closed"
    /\ temp' = temp \ {f}
    /\ pc' = [pc EXCEPT ![r] = "error"]
    /\ UNCHANGED <<disk, backend, client, to, found, item, history>>

\* The answer begins and the temporary file is opened for writing.
DownloadWrites(r) ==
    /\ pc[r] = "fetching"
    /\ temp' = temp \cup {item[r]}
    /\ pc' = [pc EXCEPT ![r] = "writing"]
    /\ UNCHANGED <<disk, backend, kind, client, to, found, item, history>>

\* Variant: the temporary file is removed only when all went well.
CleanupIfOk(r) == IF pc'[r] = "ok" THEN temp \ {TempOf(r)} ELSE temp

\* "finally: if ....exists(): ....unlink()"
Cleanup(r) == temp \ {TempOf(r)}

\* The request ends: a call, or a send's upload, with or without success;
\* anything else of a send, and every download, with an error.  What is
\* written in keystore_dir/tmp is removed if it is there.
End(r) ==
    /\ InFlight(r) /\ kind[r] # "unlock"
    /\ \/ /\ pc[r] \in {"calling", "uploading"}
          /\ pc' = [pc EXCEPT ![r] = "ok"]
          /\ served' = served \cup {r}
       \/ /\ pc' = [pc EXCEPT ![r] = "error"]
          /\ UNCHANGED served
    /\ temp' = Cleanup(r)
    /\ Forget(r)
    /\ UNCHANGED <<disk, backend, kind, kills, overlap, failed, dry>>

Next ==
    \/ Keygen \/ PrekeysRunOut \/ PinBegins \/ PinEnds \/ Kill
    \/ \E r \in Req :
          \/ UnlockAtOnce(r) \/ UnlockCloses(r) \/ UnlockCreates(r)
          \/ \E k \in Kinds \ {"unlock"} : Locked(r, k)
          \/ Query(r) \/ Register(r) \/ RegisterNothing(r)
          \/ SendSpools(r) \/ SpoolFails(r) \/ SendReserves(r) \/ SendUploads(r)
          \/ \E f \in File : DownloadFetches(r, f) \/ DownloadRefused(r, f)
          \/ DownloadWrites(r)
          \/ End(r)

-----------------------------------------------------------------------------
(* Properties. *)

\* A temporary file belongs to a request in flight, or to one that was killed
\* or could not be spooled.
TempAccounted ==
    \A t \in temp : \E r \in Req :
        (InFlight(r) \/ pc[r] \in {"dead", "crashed"}) /\ TempOf(r) = t

\* A client that is open is the current one, unless two unlocks overlapped.
OneOpenClient ==
    ~overlap => \A c \in Req : http[c] = "open" => c = current
=============================================================================
