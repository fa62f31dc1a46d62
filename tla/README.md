# TLA+ model of secxfer

secxfer sends encrypted files through a store-and-forward server. Users
register an identity and a set of one-time prekeys with a key directory (KDC);
a sender reserves one prekey of the receiver, encrypts a file under it and
uploads it; the receiver downloads and decrypts it, which consumes the private
half of the prekey. This directory holds TLA+ modules for the parts whose
correctness depends on the order of steps, TLC configurations that check them
on small instances, and TLAPS proofs of all that the passing runs check but one
liveness property, for every size of the instance.

Paths below are relative to the repository; `views.py` is
`secxfer_django/kdc/views.py`, `client.py`, `keystore.py`, `transfer.py` and
`cli.py` are in `src/secxfer/`, `page.tsx` is
`secxfer_nextjs/src/app/page.tsx`, `ui/app.py` and `app.js` are in
`src/secxfer/` (`ui/`, `ui/static/`), `server.py` is `src/secxfer/server.py`,
`main.py` is `src/secxfer_server/main.py`.

## Inventory

| Part | State | Operations | Hard behaviour | What makes it correct |
|---|---|---|---|---|
| Django KDC: prekeys and uploads (`views.py`, `models.py`) | PreKey rows (used, reserved, holder, time), EncryptedFile rows, the vault on disk, audit log | `GET /keys`, `POST /upload`, `POST /register` | concurrent handlers, reservations that time out, late uploads, a database that refuses, a server that dies between rename, commit and audit | a prekey serves one file; the used flag and the inbox row agree; files in the inbox are on disk; success means stored |
| Django KDC: registration | challenge cache, UserIdentity, PreKey rows | `GET /challenge`, `POST /register` | get-then-delete of the challenge, repeated POSTs, early return inside a transaction | a challenge is used once, published keys never change |
| Django KDC: request authentication | nonces and counters in the database cache | `_authenticate_request`, `_prekey_request_allowed` | repeated requests, clocks, get-then-set counters, a cache that is full | a request is admitted once; the limit limits |
| Audit chain and viewers | AuditLog, AuditChainHead; a viewer's position and verdict | `append_audit_log`, `audit_log_view`, `verifyServerAudit` (twice) | appends interleave with each other and with paging | one chain; verdicts are true |
| Local prekey files (`keystore.py`) | `<name>_prekeys/` | `generate_keypair`, `get_unused_prekeys`, `consume_prekey` | several processes, one directory; killed half way | a key is consumed once, the last one stays |
| Receiver (`transfer.py`) | prekey files, `nonces.db`, part files and output files | `decrypt_file_v2`, `_decrypt_v2_stream`, `NonceCache` | repeated, concurrent and killed attempts; sender's and receiver's clocks | delivered at most once, whole, and not overwritten |
| Sender (`client.py`, `transfer.py`, `wire.py`) | the file being sent, the frames | `send`, `build_file_v2`, `_payload_size` | the file changes while it is sent; the connection ends early | the announced length is exact; what is reported as sent can be received |
| Client download (`client.py`), `download_view` | `tmp/download_<id>.bin` | `download` | shared temporary file, always a TypeError (below) | a downloaded file is decrypted |
| Pinning, keystore of peers (`cli.py`, `keystore.py`) | `.pub` files, in-memory map | `pin`, `Keystore.from_directory` | stale map, half written file | a send uses the pinned key |
| Legacy KDC (`server.py`) | the same tables, without reservations; challenges in memory | as above | one thread: sequences of calls, requests served after their client gave up, kills inside a request | prekeys never run out; a file is lost to a second use of its prekey for known reasons only |
| FastAPI directory (`src/secxfer_server`) | User and PreKey rows | `/upload`, `/keys` | get-then-delete and look-then-insert in worker threads | a prekey is handed out once, but for the race; users do not mix |
| Local web UI backend (`ui/app.py`) | the global client, its connections and keystore, temporary files | `/api/*` | unlock while requests run, or with a wrong password; the backend is killed | one open client; temporary files are removed |
| Dashboard (`ui/static/app.js`), Next.js page (`page.tsx`) | panel shown, status answers in flight; "unlocked" | forms, polling | answers out of order, backend restarts behind their back, error answers of other forms | they say what happened |
| Primitives (`crypto.py`) | secretstream position | | | a message is accepted in its place only |

The parts interact by HTTP calls (client and KDC), through the database and the
vault (KDC handlers with each other), through the key directory and
`nonces.db` (receiving processes with each other), and by what one hands the
other: a prekey id travels from `/register` over `/keys` and `/upload` to
`consume_prekey`.

`PROJECT.json` lists the hazards line by line, with the property that covers
each.

## Modules

| Module | Models | Role |
|---|---|---|
| `OneTimePrekeys` | what a prekey directory promises | abstract specification |
| `KdcPrekeys` | prekey rows, `/keys`, `/upload`, `send` | core; implements `OneTimePrekeys` |
| `KdcRegister` | `/challenge`, `/register`, `upload_keys` | |
| `KdcRegisterProofs` | | its theorems |
| `RequestAuth` | request nonces, the rate limit, the cache they live in | |
| `RequestAuthProofs` | | its theorems |
| `AuditChain` | appends, paging, both viewers | |
| `AuditChainProofs` | | its theorems |
| `LocalPrekeys` | `consume_prekey`, one file operation at a time | |
| `Delivery` | `upload_keys`, the directory, the receiver's decryptions | composes `KdcPrekeys` and `LocalPrekeys` |
| `DeliveryProofs` | | theorems about `KdcPrekeys` and, over those, about `Delivery` |
| `ReceiveTransfer` | decryption attempts, nonce cache, part files | composes `LocalPrekeys` |
| `ReceiveTransferProofs` | | its theorems, with those of `LocalPrekeys` |
| `FileStream` | one file as frames: sender, stored body, receiver | |
| `FileStreamProofs` | | its theorems |
| `LocalUi` | the local backend, its client, `pin`, `keygen` | |
| `Pages` | the dashboard and the Next.js page in front of it | extends `LocalUi` |
| `PagesProofs` | | their theorems |
| `LegacyKdc` | `server.py`, its clients, the receiver's disk | |
| `FastApiDirectory` | `main.py`, query by query | |
| `OtherDirectoriesProofs` | | theorems about `LegacyKdc` and `FastApiDirectory` |
| `MC*` | | constants and symmetry for TLC |

Every operator named `...` with a comment that begins "Variant:" is a mistaken
form of the definition after it (a dropped guard, a missing reset). No action
uses them: they are there to see that the properties notice the mistake.

Every module has a type invariant `TypeOK` (`FTypeOK` in `FastApiDirectory`).
No run checks it by itself: it is a conjunct of one of the properties
(`OrphansAccounted`, `OneChain`, `StoredAndAudited`, `LimitKept`,
`PartsAccounted`, `DeclaredExact`, `ReadyExplained`, `AuditAccounted`,
`OneIdentity`).

### KdcPrekeys

A *session* is one call of `SecXferClient.send`: `cpc` is where it stands,
`offer` the prekey it was given. On the server it has a `/keys` handler
(`kpc`) and an `/upload` handler (`upc`). The PreKey table is `registered`,
`used`, `reserved`, `reservedBy` and `age`. `blob`, `files` and `audited` are
the vault, the EncryptedFile table and the UPLOAD entries of the audit log.

- Every `transaction.atomic()` block is one action, or a failure that changes
  nothing (`CommitFails`): SQLite serialises writers or raises "database is
  locked".
- Every file operation of `upload_view` is an action: the `.part` file is
  opened, the body is stored and renamed or the part is removed, and on
  `PreKey.DoesNotExist` the blob is removed, in a step after the transaction.
- `Crash` ends all handlers between any two steps. Database and vault stay.
- `ClientFails` is a timeout, a refused connection, or a caller that wanted
  the identity only (`pin` asks the same view, `cli.py:218`).
- `age` counts ticks since `reserved_at` and saturates one past the timeout:
  the code asks only whether 300 seconds have passed.
- `Register` is the table part of `register_view`, of any bundle at any time;
  the rest is `KdcRegister`.

### KdcRegister

One key id. A handler is an arrival of the POST of a call; a proxy may repeat
it. The cache entry `challenge:<key_id>` is `slot`. `cache.get` and
`cache.delete` are two actions. The return on a conflict (`views.py:138`) is
inside `with transaction.atomic()` and is no exception, so it commits what was
created before it: `RefuseConflict` keeps any part of the bundle. A copy of a
POST that is read while the first is between get and delete passes too;
`LateCopyDenied` says that this is the only way.

### RequestAuth

Time is in ticks of the server. `cache.add` is a transaction of the database
cache, `cache.incr` is a get and a set. The nonce is recorded before the
signature is verified, so a request may be rejected with its nonce used. The
client stamps a request up to `MaxAhead` ticks ahead of the server. `Authenticate`
is one instant: the clock read for the window (`views.py:59`) and the one
`cache.add` reads for the nonce's life (`views.py:63`) agree. The code reads
them a moment apart. For the first copy that only makes the nonce live longer; a
worker that stands still between the two reads of a late copy, across the end of
the window, finds the nonce expired and admits the copy. The model does not
show that.

`settings.py:143` configures a `DatabaseCache` without `MAX_ENTRIES`, so
Django's default of 300 holds: a write to a table with more rows first deletes
the expired ones and then, if that is not enough, a third of the rest in the
order of their keys. `Full`, `Cull` and `OtherEntry` model that; which entries
go is left open. A write of `DatabaseCache` that meets a database error writes
nothing and does not raise: `cache.add` then says that there is an entry
(`CountFirst`, `Authenticate`), and `cache.incr` returns the count it did not
store (`AddCount`). On SQLite any other writer can be the cause. `dropped` and
`lost` are history: the requests whose nonce was culled before it expired, and
for each period the increments its counter lost (overwritten by a worker that
had read before, not written, or culled with it). A comment in `settings.py`
says that "challenge nonces survive server restarts and are safe for
multi-worker deployments"; they do survive restarts.

### AuditChain

A hash is the tuple of what is hashed. The timestamp is formatted by Python
when hashed (`PythonText`) and by JavaScript when verified (`BrowserText`);
both agree unless the float is a whole second. `AlterRow` and `DeleteRow` stand
for anything outside the program that changes rows. The Next.js page is a loop
of one request per page, the dashboard one request.

### LocalPrekeys and ReceiveTransfer

`LocalPrekeys` has an action per file operation of `consume_prekey`.
`ReceiveTransfer` is a decryption around it: every attempt is a call of
`LocalPrekeys` (`CallConsume`, `Consume`, through `INSTANCE ... WITH`), so the
file operations of several attempts interleave with each other and with the
rest: TTL check and nonce in `nonces.db`, the search for a free name, the part
file and its replacement. Names point to inodes, so that a part file opened,
replaced or removed by name under another attempt's handle behaves as on a
POSIX file system. `decrypt_file_v2` and `_decrypt_v2_stream` take the same
steps; a failed check, a cut ciphertext and an I/O error are nondeterministic.

### Delivery

`upload_keys` publishes what is on the disk and the directory's rows refer to
it, but nothing ties them together: a key file is consumed on the receiver's
disk while its row is, or is not, spent in the database. `Delivery` composes
`KdcPrekeys` with `LocalPrekeys` for one user, the Reader. `ReadBundle` and
`Publish` are two steps, so a bundle may name keys consumed in between;
`Decrypt` starts `consume_prekey` for a stored file, whose steps interleave with
everything else. What holds it together is that `get_or_create` leaves a used
row used (`OfferedIsOnDisk` fails for `update_or_create`), and that a key is
consumed only for a stored file, whose row is used.

The Django directory keeps no last resort row: once all rows are used, `/keys`
answers 404 for good, since `upload_keys` publishes the same ids again and
keygen refuses to make new ones.

### FileStream

What `ReceiveTransfer` leaves nondeterministic is here, for one file. A frame
is `[kind, pos, len]`: its length field and one secretstream message, pushed as
number `pos`. `size` is the file now, `measured` the size the Content-Length
was computed from, `meta` the size in the metadata, `offset` what was read;
`Edit` changes the file between any two of them. `Fits` and `SendFinal` are
what h11 does under httpx: it refuses more bytes than announced, and after the
last frame it refuses to end the body with fewer. `StoreShort` is the loop of
`upload_view`, which takes a lost connection for the end of the body and
compares nothing. A sender that is `"failed"` may therefore have its file stored and
delivered. `Damage` cuts the stored body or loses, repeats, swaps or alters
frames. `Authentic` is the puller: the message is the one pushed at this place.

### LocalUi

A request runs from one `await` to the next, so an action is what happens in
between. A client is named by the unlock request that made it; `http` is its
httpx client, `peers` its keystore. `UnlockCloses` is `await aclose()`,
`UnlockCreates` what follows; without a client that has connections to close
nothing is awaited (`UnlockAtOnce`). `pin` is another process and writes the
`.pub` file in two steps. Only `.pub` of one receiver name is modelled. `Kill`
ends the backend at any time. `identity` is how far the user's own files are:
`Keygen` writes them one after the other and may stop anywhere, which leaves an
identity that unlock refuses (`"partial"`) or one that unlock takes although it
has no prekey (`"bare"`); decryptions of other processes that overlap can consume
all prekeys later (`PrekeysRunOut`, `"spent"`). `register` reads the prekeys
first: `RegisterNothing` is the return of `upload_keys` without a request when
there is none, `Register` the rest. `served` and `dry` are history: the
requests that ended with a server's success, the registers that found nothing to
upload. A download never gets past
`decrypt_file_v2_from_path` (see below), so `End` ends it with an error.
`SpoolFails` is an exception in `send_file` outside its try statement.

### Pages

`Pages` adds the two pages to `LocalUi`. `Offered` says which request each of
them can make now: the dashboard by the panel it shows, the Next.js page by its
state `unlocked`. A request of `LocalUi` begins only if it is offered.
`answer` holds the status answers on their way to the dashboard, which asks
every five seconds whether or not the answer before has come; the last to arrive
decides the panel. `DashboardClaims` and `NextClaims` are the conditions under
which a page reports success, `Happened` is what must be so then: a server was
asked and said so, and a send went to the identity that was pinned.
The pages are loaded once: a reload starts the page from its first state.

### LegacyKdc

`server.py` is what the client's default address (port 54321, `ui/app.py:79`)
still names, and `secxfer_django/README.md:5` says the Django server replaces
it. `HTTPServer` has one thread, so an action is a whole request; a kill or a
database error ends it after any of its commits. `req` and `reg` keep the requests that
are waiting: one may be served after its client gave up. GET `/keys` spends the
lowest unused row at once, and gives the last one to everybody who asks;
POST `/register` inserts all prekeys of the bundle again, those handed out
before included. The receiver's disk is part of the module, with
`consume_prekey` as one step: it decides what a prekey given twice costs.

### FastApiDirectory

`main.py` is for development (`src/README.md`): `POST /upload` and `GET /keys`
without authentication. FastAPI runs both in threads. Every query sees what is
committed, every commit is one step, and a commit that meets a primary key
inserted meanwhile is rolled back (`Insertable`, `Fails`). A DELETE that
matches no row is a warning to SQLAlchemy, so both requests that selected a
prekey answer with it.

## Runs

| Run | Expect | Instance | Shows |
|---|---|---|---|
| `KdcContention` | pass | 3 users, 1 prekey, 3 sends (2 of one sender), timeout of 1 tick, 1 restart | the invariants and action properties of the directory, a stored file's blob and prekey included; that it implements `OneTimePrekeys` |
| `KdcDelivery` | pass | 2 senders to one receiver with 2 prekeys, who decrypts one file at a time and publishes again, fairness | what the directory offers is on the receiver's disk; a stored file can be decrypted the first time; reservations lapse |
| `AuditAppends` | pass | 4 appends, page size 2, 1 damaged row | one chain; verdicts are sound; an alarm has a reason |
| `AuditPagingRace` | violation | 4 appends, no damage | an alarm without damage |
| `RegisterConcurrent` | pass | 3 calls with conflicting keys and identities, one POST repeated, 2 at once, 1 restart | published keys are kept; success means stored and audited; a challenge passes again only in a race |
| `AuthInTime` | pass | 3 requests, one of which arrives twice, 2 counted at once, window 1, limit 2, a cache of 3 entries and 1 other entry in it | a request is admitted once unless the cache dropped its nonce; what is allowed beyond the limit is paid for by increments lost; refusals have a reason |
| `ReceiveOnce` | pass | 2 transfers of one file name, 2 prekeys, 3 attempts, 2 at once, TTL 2 | delivered at most once, whole, not overwritten; a prekey file is consumed once, the last one stays unless two calls overlap; losses, residue and part files are accounted for |
| `ReceiveClockAhead` | violation | 1 transfer, 2 attempts, sender's clock 1 tick ahead | delivered twice |
| `StreamFrames` | pass | sizes 0 to 4 and 7, chunks of 3, frame headers of 1, 3 changes of the file, 1 damage | the announced length is exact; a file reported as sent can be received, but for a file that shrank and grew again; delivered means read, whole and in order |
| `UiPages` | pass | 1 request of the dashboard and 2 of the Next.js page, 2 status answers in flight, 2 identities, 2 pins, 1 kill | temporary files and open clients are accounted for; successes the pages report happened; a page that offers its forms can use them, but for the cases named |
| `LegacySequences` | pass | 2 keys, 2 registrations, 3 sends, 1 kill | prekeys never run out; a file is lost to a second use of its prekey only after a second registration or on the last row; log and tables agree |
| `FastApiRaces` | pass | 2 users, 4 uploads of 3 prekeys, 3 gets | a prekey is given twice only in the race or after it was uploaded again; users do not mix |

Bounds and why they are enough. *KdcContention*: a double use of a prekey needs
two sessions; the interesting third one is of the same sender, whose own stale
reservation the check `reserved_by_key_id=sender` does not tell from its new
one. One tick of timeout gives ages "fresh", "at the limit" and "past it"; one
restart reaches every pair of steps. *KdcDelivery*: with two prekeys one is
consumed and one is the last resort; a timeout of zero ticks lets any reservation
lapse, and crashes are left to *KdcContention*. *AuditAppends*: four blocks make two full
pages and a partly filled one with page size 2. *RegisterConcurrent*: the three
calls are a plain one, one with another identity key and one that conflicts in
one prekey and adds another. *AuthInTime*: with a window of one tick and three times a copy can
arrive inside, at the end of and after the window, and in the next counting
period; with a limit of two an increment can be lost before the limit is
reached (the first count of a period is an add), and four arrivals can be two
too many; a cache of three entries is full with two nonces, the counter and one
entry more. *ReceiveOnce*: of two keys
the second becomes the last resort after the first is consumed; three attempts
are one for the first transfer and two for the second. *StreamFrames*: the
sizes are zero, a part of a chunk, one chunk, and more than one and two of
them; with three changes the file can be of other sizes when the length is
announced and when the metadata is made, and shrink and grow while it is read;
a header of one byte is less than a chunk, so that the headers of
surplus frames can make up for bytes of the file; the
trailer has the size of a data frame of two bytes, so that a file that grew can fill
the announced length without a trailer (as one of 64 bytes does in the code). *UiPages*: two unlocks that overlap, of one page or of both; two requests that
share a client or a temporary file; a send of the Next.js page takes an unlock
before it; two status answers can overtake each other; the dashboard's request is
a second unlock, a download that shares a file, or a register, at any time. With
two pins a client may have loaded the identity that is pinned, another one or
none, or find the file half written. *LegacySequences*: with
two keys the second row is the last one at once; after a second registration
there are four; three files are one more than there are keys. *FastApiRaces*:
two uploads of one bundle, one with another identity key, and one of another
user with a prekey of the first.

No run checks for deadlock: in each system everything may be done and nothing
left to do.

Fairness is assumed in `KdcDelivery` only: the clock ticks, a request the
server has accepted is worked on until it is answered (`KeysHandler`,
`UploadHandler`: a WSGI worker runs its view to the end), and a call of `send`
ends, since httpx gives up after 10 or 30 seconds. Nobody is obliged to call.
The receiver is not obliged to decrypt or to publish.

## What the violations show

- `AuditPagingRace`: the page advances `offset` by `limit` after a short page
  (`page.tsx:203`). A block appended before the next request is skipped, the
  one after it does not link, and the page reports tampering.
- `ReceiveClockAhead`: a nonce is kept for `ttl` from receipt, a transfer is
  accepted until `ttl` after the sender's timestamp. With the sender's clock
  ahead, inside the tolerance the code grants, there is a gap; the consumed
  prekey closes it except for the last resort prekey, which is not consumed.

Other disagreements met while modelling, which have no run. Races:
`_consume_challenge` "ensures nonces are single-use"
(`secxfer_django/README.md:64`), but gets and deletes in two steps
(`views.py:20`), so two workers can use one challenge for copies of one POST;
`PublishedKeysKept` and `LateCopyDenied` hold all the same. `cache.incr` on the
database cache is a get and a set, and the set may silently write nothing, so
more requests than the limit of `views.py:86` may be allowed; `LimitKept` says
that each of them is paid for by a lost increment, and that what goes wrong
errs on the side of the caller. `consume_prekey` counts the files, then renames: two
processes that each see two files consume both, and the user is left without
the last resort prekey its docstring promises (`keystore.py:295`); `LastKeyKept`
excludes calls that overlap. Two unlocks that overlap leave an open client behind
(`OneOpenClient` excludes them).

Failures: `unlock` closes the client first and then makes a new one
(`ui/app.py:44`). With a wrong password the closed client stays, `/api/status`
says unlocked, the dashboard "Unlocked & Ready" (`app.js:27`), and every
request fails; `ReadyExplained` has the exception. It takes a second tab, the
Next.js page beside the dashboard, or a status answer that came late to unlock
twice. A cache that is full may drop a nonce that is still needed; the request
is then admitted again (`RequestSingleUse` names the exception), against the
comment "single-use during its validity window" (`views.py:61`).

A file that is changed while it is sent and changed back may be reported as
sent although the metadata has another size; no receiver accepts it
(`SentIsReceivable` excludes it). Nor is the announced length a check of the
size: if the file shrinks and grows again while it is read, a chunk before the
last comes short (`transfer.py:149`), and the headers of the frames there are
too many can have the length of the bytes there are too few. Then `send`
reports success and the receiver rejects a stream whose metadata has the
announced size, or accepts one that has not (`EvenChunks`). A send to a peer pinned after the client was
made reserves a prekey before it finds the peer missing (`client.py:96`,
`client.py:105`). keygen killed half way leaves a `.key` file that keygen does
not overwrite and unlock cannot use, or, a moment later, an identity without
prekeys. `upload_keys` of an identity without unused prekeys logs a warning and
returns normally without a request (`client.py:216`); the backend answers "ok"
and the dashboard says "Successfully registered with Key Directory."
(`app.js:103`), though no directory was asked. The dashboard reports success for any
answer without an `error` field: its send form posts `target_key_id` where the
backend wants `receiver_name`, the 422 has no `error`, and it says "File sent
successfully!" (`app.js:134`); it cannot send a file at all. It also says so
of the 401 of a backend that was restarted, and "Audit log is empty." of an
audit asked for before unlocking. `ClaimsTrue` has three exceptions: the
register without a request, the 422 and the 401. The Next.js page never takes back that it is
unlocked (`page.tsx:79`), also when the backend was restarted. If spooling an
upload fails, the answer is no JSON, `JSON.parse` raises in `onload`
(`page.tsx:142`), the promise is never settled and the send button stays
disabled.

The legacy server: registering again makes rows of prekeys handed out before
unused once more, and its last row goes to everybody, while the receiver's last
resort may be another key; either way the second file under a key consumed
cannot be decrypted (`LossExplained` says that these are the only ways).
"Pre-keys exhausted. User must re-register." (`server.py:182`) is never said to
a caller of a registered user (`NeverExhausted`). The REGISTER entry is appended
after the answer, also for a transaction that was rolled back (`server.py:369`).
Two calls of `upload_keys` for one user at a time make both fail: the second
challenge replaces the first, and the first POST takes it away.

Further: with a whole-second
timestamp in `Stamps`, `AlarmExplained` fails, since Python hashes
`1700000000.0` and the browser `1700000000`; the dashboard says "all N blocks
in the server audit log" of the first 100 (`app.js:219`); a network error shows
the Next.js page's state for a broken chain (`page.tsx:215`); with `MaxAhead >
0`, `RequestSingleUse` fails, as in `ReceiveClockAhead`; with two attempts at
once, or a delivered file called `r.part`, `DeliveredKept` without its premise
fails, since the part file of `r.pdf` is `r.part` and is opened without asking
whether it exists (`transfer.py:236`); `SecXferClient.download` passes seven
arguments to `decrypt_file_v2_from_path`, which takes six, so every download by
the client ends in a `TypeError` after the file was fetched; `upload_keys` tells
the user to run keygen again, which refuses when the key exists.

## Proofs

`DeliveryProofs` proves of `KdcPrekeys`, for any users, prekeys, calls, owners,
timeout and number of restarts:

| Theorem | Property |
|---|---|
| `Typing` | (`TypeOK`) |
| `PrekeysAreOneTime` | `OneFilePerPrekey`, `UsedIffFile` |
| `FilesAreDeliverable` | `FileIsDeliverable` |
| `SentIsStored` | `SentMeansStored` |
| `OrphansAreAccounted` | `OrphansAccounted` |
| `TimelyUploadsAreHonoured` | `TimelyUploadHonoured` |
| `ReservationsAreKept` | `ReservationKept` |
| `UsedPrekeysStayUsed` | `UsedForever` |
| `Refinement` | `Refines`: `KdcPrekeys` implements `OneTimePrekeys` |

They assume what the module's ASSUMEs say: prekeys are numbered, None is
neither user nor prekey, owners, senders and receivers are functions to users.

`OneFilePerPrekey` is not inductive. Two sessions may hold the same offer (a
reclaimed row), so a commit must find the row neither used nor reserved for
somebody else: that needs `UsedIffFile` (a session that committed made the row
used), which needs to know that an offer does not change after its handler
answered, hence how far a handler can be for each place of its caller
(`ProgressInv`), that an offer is an existing row of the receiver (`OfferInv`),
that flags agree (`RowInv`), and what an upload left in the vault
(`UploadInv`). `TimelyUploadHonoured` needs in addition that the age of the row
is the age of the offer (`HolderInv`). Their conjunction is `Inv`, which is
inductive together with `TypeOK` (theorem `Inductive`); TLC checked it before
it was proved. The refinement maps `lease` to the holder of a reserved row and
`delivered` to offer and sender of the stored files: reservation is `Lease`,
commit is `Deliver`, registration is `Publish`, all else is a stutter.

`SpentMeansStored` takes `UsedIffFile` from the same invariant, and
`OrphansAreAccounted` the types.

It proves of `Delivery`, the directory composed with the Reader's prekey
files, for any users, prekeys and calls, any Reader and any number of
decryptions:

| Theorem | Property |
|---|---|
| `DirectoryIsKdcPrekeys` | `DSpec => Spec`: every step is one of `KdcPrekeys` or a stutter |
| `StoredFilesAreDeliverable` | `FileIsDeliverable` |
| `OffersCanBeDecrypted` | `OfferedIsOnDisk` |
| `FirstTriesSucceed` | `FirstTryHasKey` |

The first brings the invariant of `KdcPrekeys` into the composition; without it
nothing says that a row stays used. What is added is on the Reader's side
(`DInv`): a decryption is of a stored file and asked for that file's prekey, and
a key file that is no longer there was asked for by a decryption. So a key
that is gone belongs to a stored file, whose row is used by `UsedIffFile`,
whatever bundle is published.

`ReceiveTransferProofs`, for any transfers, attempts, prekeys and names, any
TTL, tolerance and number of chunks, and any number of attempts at once:

| Theorem | Property | Under |
|---|---|---|
| `PrekeysAreLocalPrekeys` | `Spec => Local!Spec`: attempts do to the prekey files what `LocalPrekeys` does | |
| `PrekeysAreTakenOnce` | `PrekeyTakenOnce` | |
| `LastKeysAreKept` | `LastKeyKept` | |
| `FilesAreAccounted` | `PartsAccounted` | |
| `TransfersAreAcceptedOnce` | `AcceptedOnce` | `ClocksBehind` |
| `LossesAreAccounted` | `LossAccounted` | `PrekeysDiffer` |
| `DeliveriesAreKept` | `DeliveredKept` | `NamesApart` |

`ClocksBehind`: a transfer is stamped with a tick before that of its receipt.
Clocks that agree give that, since the stamp is truncated to a second and the
receipt is later; `ReceiveClockAhead` shows what happens otherwise, and the
proof fails at a stamp of the same tick too: at the end of the TTL the check
`now > timestamp + ttl` still accepts and `expiry <= now` has forgotten
(`transfer.py:77`, `transfer.py:220`). `PrekeysDiffer` is what
`PrekeysAreOneTime` proves of the directory; two files of one prekey can
cost each other. `NamesApart`: no transfer may be delivered to the name of
another's part file; a sender who names a file `r.part` has it truncated by the next
`r.pdf`. The run satisfies all three.

The inductive invariants say where a call of `consume_prekey` can stand for
each place of its attempt (`StageInv`); what its place says of the key file, and
which call took a file that is gone (`KeyInv`, `TakenInv`); that an attempt
which is alone still finds in the directory what it counted there (`Solo`,
`CountInv`); that a nonce is kept longer than its transfer is accepted
and is recorded by one attempt (`NonceInv`); and that with attempts that do not
overlap every file has its own inode, and the part file open is the one of the
attempt under way, with the chunks written (`KeptInv`). `LastKeyKept` is not
inductive without `CountInv`: the rename relies on a count made steps before.

`KdcRegisterProofs`, for any calls, prekeys, keys and bundles, any number of
copies of a request and of restarts:

| Theorem | Property |
|---|---|
| `PublishedForever` | `PublishedKeysKept` |
| `RegistrationsAreAccounted` | `StoredAndAudited` |
| `LateCopiesAreDenied` | `LateCopyDenied` |

`StoreInv` adds that a handler which committed has its bundle served, and that
every row has a handler that explains it; it is kept because what is published
never changes. `ChallengeInv`: the challenge of a call that passed is not in the
cache, and the call asks for no other.

`AuditChainProofs`, for any number of appends, pages of any size, any damage:

| Theorem | Property | Under |
|---|---|---|
| `AppendsAreChained` | `OneChain` | |
| `VerdictsAreSound` | `VerdictSound` | |
| `AlarmsAreExplained` | `AlarmExplained` | `Fractional` |

`Fractional`: no timestamp is a whole second, which `time.time()` all but never
is; Python and the browser write the others alike. The chain of a damaged log
takes an invariant that says what damage cannot do (`ChainInv`): every row is
the block of an append of its own, up to its event; it never names a row before
its predecessor, so that the deletion of rows between two others shows. `PageInv` is about
the hash the page carries between two fetches: the row that names it is
never beyond the page's offset, and if it is there it is the successor of the
last one read. Without it a verdict of "verified" could be had by a page that
resumes behind a gap. The hashes are tuples of what is hashed, so no two
blocks have one hash unless they are the same.

`PagesProofs`, for any requests, polls, identities, files, pins and kills:

| Theorem | Property |
|---|---|
| `TemporaryFilesAreAccounted` | `TempAccounted` |
| `OneClientIsOpen` | `OneOpenClient` |
| `ClaimsAreTrue` | `ClaimsTrue` |
| `OfferedFormsAreReady` | `ReadyExplained` |

They are stated of `Pages`, whose backend is `LocalUi`. `OneOpenClient` needs
`ClientInv`: while an unlock waits for `aclose` no client is open and no other
unlock waits. `ReadyExplained` needs `ReadyInv`: what says "action" or
"unlocked", a status answer on its way included, comes from a client.
`ClaimsTrue` needs `KindInv`, which says of a request that ended well that a
server answered it or that it is a register with nothing to upload, and of a
send that it found the identity it had read; and `ReadyInv`, by which the
dashboard offers nothing that would be denied unless the backend was killed.

`FileStreamProofs`, for any sizes of files, chunks, headers and signatures, any
number of edits and damages:

| Theorem | Property |
|---|---|
| `AnnouncedLengthIsExact` | `DeclaredExact` |
| `DeliveriesAreTheFile` | `DeliveredIsSent` |
| `SentFilesAreReceivable` | `SentIsReceivable` |

`StreamInv` says that a stored frame is the sender's frame of its position or
none, and that what the receiver has read is a prefix of the stream. The bytes
read and written are sums over the frames; as nothing can be proved here
about a recursive sum, `SumInv` says that a function of partial sums exists.
`LengthInv` ties the length on the wire to the number of frames, and lemmas
about `PayloadSize` (`PayloadOfChunks`, `PayloadGrows`) turn a length back into
a size: it is strictly increasing, so a whole stream of even chunks has
the size it was announced with. The attempt to prove an earlier form of
`SentIsReceivable` and `DeliveredIsSent`, without `EvenChunks`, failed for good
reason: TLC finds the counterexample (above) with chunks of three bytes and a header of one,
not with the chunks of two and headers of three that the run had then.

`RequestAuthProofs`, for any requests, any finite set of their arrivals, any
number of them counted at once, any window, any limit of at least one, any
size of the cache:

| Theorem | Property | Under |
|---|---|---|
| `SignedRequestsAreSingleUse` | `RequestSingleUse` | `ClocksAgree` |
| `TheLimitIsKept` | `LimitKept` | |

`ClocksAgree` is `MaxAhead = 0`, as in the run: with a stamp from the future the
nonce is forgotten before the window closes, and the property is false (above).
The invariant is that the nonce of an admitted request is in the cache for as
long as its stamp is in the window, unless it was culled (`NonceInv`), since it is
stored for a whole window at a time that is not before the stamp. `LimitKept` needs two
invariants about counters. `CountInv`: a counter never exceeds the arrivals of
its period that were counted to the end, and together with the increments it
lost it makes up for all that were allowed; an arrival that is allowed either
left its count in the counter or is one more that was lost. `Earned`: what a counter says, and
what an arrival read of it and is about to write back (`ReadInv`), is at most
the number of arrivals allowed, unless that number has reached the limit. The
second is why a lost increment never turns a caller away early.
The limit is at least one because `cache.add` lets the first request of a
period pass without comparing (`views.py:83`).

`OtherDirectoriesProofs`, of `LegacyKdc` for any finite set of prekeys and any
number of calls and restarts, and of `FastApiDirectory` for any users, prekeys
and requests:

| Theorem | Property |
|---|---|
| `AlwaysAKey` | `NeverExhausted` |
| `EveryLossIsExplained` | `LossExplained` |
| `EveryEffectIsLogged` | `AuditAccounted` |
| `IdentitiesDoNotMix` | `OneIdentity` |
| `RepeatsAreExplained` | `RepeatExplained` |

`NeverExhausted` needs that no bundle is empty (`BundleInv`), so that a
registration inserts a row. `LossExplained` is about files; its invariant is
about rows: a prekey is off the disk because of an opened file (`GoneInv`); the
row a prekey was given from is used, unless it was the last unused one
(`SpentInv`); so if it is given again it has a second row (`SharedInv`). A
request has left nothing behind before it was served (`CallInv`, `SessionInv`),
which is what `AuditAccounted` needs. For `FastApiDirectory`, an upload that
found its user compared its identity key (`Compared`), and a prekey that was
selected was inserted, twice if it is there again after a DELETE (`Counted`).
The module extends both directories, which is why the names of `FastApiDirectory`
that every module has begin with an F (`FInit`, `FNext`, `FSpec`).

The assumptions are the modules' ASSUMEs: constants are numbers where they
count, None and the markers ("altered", the panels) are different from what
they mark; the prekeys of `LegacyKdc` and the arrivals of `RequestAuth` are
finite in number, and the kinds of calls (or of cache entries) in them differ.
Where a theorem has a hypothesis on the constants beyond that, it is in
the column "Under".

Only model-checked: `ReservationLapses` (liveness; TLAPS has no ENABLED and
fairness reasoning). Every other property of a passing run is stated by a theorem.

Three properties hold under a premise that leaves a race out, and say nothing of
it: `LastKeyKept` and `DeliveredKept` exclude attempts that overlap, and
`OneOpenClient` excludes unlocks that do. What happens in these races is among
the disagreements above. That the Next.js page's send button stays disabled
after a failed spooling is in the model (`Sending`) and is claimed by no
property.

## Not modelled, and the plan

Next would be `ClientDownload`: `download_view`, `inbox_view` and their audit
entries, composed with `ReceiveTransfer`.

Left out for good: `crypto.py` beyond the order of messages and the signature
of the file (taken to work), the layout of the user interfaces, settings other
than the cache, migrations, QR codes. `KdcRegister` has no limit on the cache:
a challenge that is culled is one that expired.
