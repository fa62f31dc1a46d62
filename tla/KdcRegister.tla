---------------------------- MODULE KdcRegister ----------------------------
(***************************************************************************)
(* Registration with the Django directory: GET /challenge and POST         *)
(* /register (challenge_view and register_view of                          *)
(* secxfer_django/kdc/views.py) and the client call that uses them         *)
(* (upload_keys, src/secxfer/client.py), for one key id.                   *)
(*                                                                         *)
(* A challenge is named by the call it was issued to.  The body of a       *)
(* call's POST may reach the server more than once (a proxy that repeats   *)
(* a request whose answer it lost): each arrival is a handler <<call, i>>. *)
(***************************************************************************)
EXTENDS Naturals, FiniteSets

CONSTANTS Call,       \* calls of upload_keys
          Id,         \* prekey ids
          Material,   \* prekey public keys
          IdentityKey,\* identity public keys
          None,
          BundleOf,   \* BundleOf[c][i]: what c publishes for i, or None
          IdentityOf, \* IdentityOf[c]: the identity key c registers
          CopiesOf,   \* bound: CopiesOf[c] arrivals of the POST of c
          MaxAtOnce,  \* how many POSTs are handled at the same time
          MaxCrashes  \* bound: server restarts

ASSUME NoneAssumption == None \notin Call \cup Material \cup IdentityKey
ASSUME BundleAssumption ==
    /\ BundleOf \in [Call -> [Id -> Material \cup {None}]]
    /\ IdentityOf \in [Call -> IdentityKey]
ASSUME BoundAssumption ==
    CopiesOf \in [Call -> Nat] /\ MaxAtOnce \in Nat /\ MaxCrashes \in Nat

VARIABLES
    slot,     \* the cache entry challenge:<key_id>
    identity, \* UserIdentity.identity_pubkey, None without a row
    rows,     \* PreKey.prekey_pubkey by prekey_id, None without a row
    cpc,      \* where each call stands
    hpc,      \* where each handler stands
    pending,  \* pending_nonce of each handler
    audited,  \* handlers whose REGISTER entry is in the audit log
    crashes

vars == <<slot, identity, rows, cpc, hpc, pending, audited, crashes>>

Post == UNION {{c} \X (1 .. CopiesOf[c]) : c \in Call}
CallOf(h) == h[1]
Bundle(h) == {i \in Id : BundleOf[CallOf(h)][i] # None}

\* Between the arrival of a POST and its answer.
Running(h) == hpc[h] \in {"arrived", "got", "authed", "committed"}

\* The proof of possession was accepted.
Passed(h) == hpc[h] \in {"authed", "committed", "done", "invalid", "conflict", "error"}

TypeOK ==
    /\ slot \in Call \cup {None}
    /\ identity \in IdentityKey \cup {None}
    /\ rows \in [Id -> Material \cup {None}]
    /\ cpc \in [Call -> {"idle", "challenged", "posting", "registered", "failed"}]
    /\ hpc \in [Post -> {"none", "arrived", "got", "denied", "authed", "invalid",
                         "conflict", "committed", "done", "error", "dead"}]
    /\ pending \in [Post -> Call \cup {None}]
    /\ audited \subseteq Post

Init ==
    /\ slot = None
    /\ identity = None
    /\ rows = [i \in Id |-> None]
    /\ cpc = [c \in Call |-> "idle"]
    /\ hpc = [h \in Post |-> "none"]
    /\ pending = [h \in Post |-> None]
    /\ audited = {} /\ crashes = 0

-----------------------------------------------------------------------------
(* The client. *)

\* GET /challenge overwrites the entry of an earlier call for the same key.
GetChallenge(c) ==
    /\ cpc[c] = "idle"
    /\ slot' = c
    /\ cpc' = [cpc EXCEPT ![c] = "challenged"]
    /\ UNCHANGED <<identity, rows, hpc, pending, audited, crashes>>

Expire ==
    /\ slot # None
    /\ slot' = None
    /\ UNCHANGED <<identity, rows, cpc, hpc, pending, audited, crashes>>

\* POST /register, and the arrival of a copy of it.
SendRegister(h) ==
    LET c == CallOf(h) IN
    /\ hpc[h] = "none"
    /\ Cardinality({g \in Post : Running(g)}) < MaxAtOnce
    /\ \/ h[2] = 1 /\ cpc[c] = "challenged" /\ cpc' = [cpc EXCEPT ![c] = "posting"]
       \/ h[2] > 1 /\ hpc[<<c, h[2] - 1>>] # "none" /\ UNCHANGED cpc
    /\ hpc' = [hpc EXCEPT ![h] = "arrived"]
    /\ UNCHANGED <<slot, identity, rows, pending, audited, crashes>>

\* Variant: any answer is a success.
GetAnswerUnchecked(h) ==
    LET c == CallOf(h) IN
    /\ cpc[c] = "posting"
    /\ hpc[h] \in {"done", "denied", "invalid", "conflict", "error"}
    /\ cpc' = [cpc EXCEPT ![c] = "registered"]
    /\ UNCHANGED <<slot, identity, rows, hpc, pending, audited, crashes>>

GetAnswer(h) ==
    LET c == CallOf(h) IN
    /\ cpc[c] = "posting"
    /\ \/ hpc[h] = "done" /\ cpc' = [cpc EXCEPT ![c] = "registered"]
       \/ /\ hpc[h] \in {"denied", "invalid", "conflict", "error"}
          /\ cpc' = [cpc EXCEPT ![c] = "failed"]
    /\ UNCHANGED <<slot, identity, rows, hpc, pending, audited, crashes>>

\* A timeout of 10 seconds or a connection error.
CallFails(c) ==
    /\ cpc[c] \in {"challenged", "posting"}
    /\ cpc' = [cpc EXCEPT ![c] = "failed"]
    /\ UNCHANGED <<slot, identity, rows, hpc, pending, audited, crashes>>

-----------------------------------------------------------------------------
(* register_view. *)

\* cache.get in _consume_challenge; nothing is deleted when it found nothing.
ReadChallenge(h) ==
    /\ hpc[h] = "arrived"
    /\ pending' = [pending EXCEPT ![h] = slot]
    /\ hpc' = [hpc EXCEPT ![h] = IF slot = None THEN "denied" ELSE "got"]
    /\ UNCHANGED <<slot, identity, rows, cpc, audited, crashes>>

\* Variant: the entry is left to its timeout.
DeleteChallengeLater(h) ==
    /\ hpc[h] = "got"
    /\ hpc' = [hpc EXCEPT ![h] = IF pending[h] = CallOf(h) THEN "authed" ELSE "denied"]
    /\ UNCHANGED <<slot, identity, rows, cpc, pending, audited, crashes>>

\* cache.delete, then the comparison with challenge_nonce and _verify_pop.
DeleteChallenge(h) ==
    /\ hpc[h] = "got"
    /\ slot' = None
    /\ hpc' = [hpc EXCEPT ![h] = IF pending[h] = CallOf(h) THEN "authed" ELSE "denied"]
    /\ UNCHANGED <<identity, rows, cpc, pending, audited, crashes>>

\* The checks of the bundle before the transaction.
RejectBundle(h) ==
    /\ hpc[h] = "authed"
    /\ hpc' = [hpc EXCEPT ![h] = "invalid"]
    /\ UNCHANGED <<slot, identity, rows, cpc, pending, audited, crashes>>

SameIdentity(h) == identity \in {None, IdentityOf[CallOf(h)]}

Conflicting(h) ==
    {i \in Bundle(h) : rows[i] \notin {None, BundleOf[CallOf(h)][i]}}

\* get_or_create of the prekeys in S: rows that exist are left alone.
Created(h, S) ==
    [i \in Id |-> IF i \in S /\ rows[i] = None THEN BundleOf[CallOf(h)][i]
                  ELSE rows[i]]

\* Variant: the identity and the prekeys are written whatever was there.
CommitBundleOver(h) ==
    /\ hpc[h] = "authed"
    /\ identity' = IdentityOf[CallOf(h)]
    /\ rows' = [i \in Id |-> IF i \in Bundle(h) THEN BundleOf[CallOf(h)][i] ELSE rows[i]]
    /\ hpc' = [hpc EXCEPT ![h] = "committed"]
    /\ UNCHANGED <<slot, cpc, pending, audited, crashes>>

CommitBundle(h) ==
    /\ hpc[h] = "authed"
    /\ SameIdentity(h)
    /\ Conflicting(h) = {}
    /\ identity' = IdentityOf[CallOf(h)]
    /\ rows' = Created(h, Bundle(h))
    /\ hpc' = [hpc EXCEPT ![h] = "committed"]
    /\ UNCHANGED <<slot, cpc, pending, audited, crashes>>

\* The early returns inside the transaction: it commits what was created up
\* to the conflict, the identity row and some of the prekeys before it.
RefuseConflict(h) ==
    /\ hpc[h] = "authed"
    /\ \/ /\ ~SameIdentity(h)
          /\ UNCHANGED <<identity, rows>>
       \/ /\ SameIdentity(h) /\ Conflicting(h) # {}
          /\ identity' = IdentityOf[CallOf(h)]
          /\ \E S \in SUBSET (Bundle(h) \ Conflicting(h)) : rows' = Created(h, S)
    /\ hpc' = [hpc EXCEPT ![h] = "conflict"]
    /\ UNCHANGED <<slot, cpc, pending, audited, crashes>>

\* "database is locked": rolled back, a 500.
CommitFails(h) ==
    /\ hpc[h] = "authed"
    /\ hpc' = [hpc EXCEPT ![h] = "error"]
    /\ UNCHANGED <<slot, identity, rows, cpc, pending, audited, crashes>>

\* Variant: no entry when nothing can be reported to the caller any more.
AppendAuditIfWaiting(h) ==
    /\ hpc[h] = "committed"
    /\ audited' = IF cpc[CallOf(h)] = "posting" THEN audited \cup {h} ELSE audited
    /\ hpc' = [hpc EXCEPT ![h] = "done"]
    /\ UNCHANGED <<slot, identity, rows, cpc, pending, crashes>>

AppendAudit(h) ==
    /\ hpc[h] = "committed"
    /\ \/ audited' = audited \cup {h} /\ hpc' = [hpc EXCEPT ![h] = "done"]
       \/ audited' = audited /\ hpc' = [hpc EXCEPT ![h] = "error"]
    /\ UNCHANGED <<slot, identity, rows, cpc, pending, crashes>>

Crash ==
    /\ crashes < MaxCrashes
    /\ crashes' = crashes + 1
    /\ hpc' = [h \in Post |-> IF Running(h) THEN "dead" ELSE hpc[h]]
    /\ UNCHANGED <<slot, identity, rows, cpc, pending, audited>>

Next ==
    \/ \E c \in Call : GetChallenge(c) \/ CallFails(c)
    \/ \E h \in Post :
          \/ SendRegister(h) \/ GetAnswer(h)
          \/ ReadChallenge(h) \/ DeleteChallenge(h) \/ RejectBundle(h)
          \/ CommitBundle(h) \/ RefuseConflict(h) \/ CommitFails(h) \/ AppendAudit(h)
    \/ Expire \/ Crash

Spec == Init /\ [][Next]_vars

-----------------------------------------------------------------------------
(* Properties. *)

\* A repeated POST gets the challenge only while the first is still between its
\* cache.get and cache.delete: once one has passed, a later one does not.
LateCopyDenied ==
    [][\A g, h \in Post :
          /\ Passed(g) /\ CallOf(g) = CallOf(h)
          /\ hpc[h] = "arrived" /\ hpc'[h] = "got"
          => pending'[h] # CallOf(h)]_vars

\* When upload_keys returns normally the directory serves exactly the keys it
\* was called with, and the audit log has the entry; and a prekey row without a
\* REGISTER entry that covers it was left by a call that was refused half way,
\* met a database error or was killed.  With the types.
StoredAndAudited ==
    /\ TypeOK
    /\ \A c \in Call : cpc[c] = "registered" =>
          /\ identity = IdentityOf[c]
          /\ \A i \in Id : BundleOf[c][i] # None => rows[i] = BundleOf[c][i]
          /\ \E h \in audited : CallOf(h) = c
    /\ \A i \in Id : rows[i] # None =>
          \E h \in Post : /\ i \in Bundle(h)
                          /\ \/ h \in audited
                             \/ hpc[h] \in {"committed", "conflict", "error", "dead"}

\* Registrations of one key id, in any order and however often repeated, never
\* change the identity key or a prekey that is already published.
PublishedKeysKept ==
    [][/\ identity # None => identity' = identity
       /\ \A i \in Id : rows[i] # None => rows'[i] = rows[i]]_vars
=============================================================================
