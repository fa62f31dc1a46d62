-------------------------- MODULE FastApiDirectory --------------------------
(***************************************************************************)
(* The FastAPI key directory (src/secxfer_server/main.py, database.py).    *)
(* Its endpoints are plain functions, which FastAPI runs in a pool of      *)
(* threads, each with a database session of its own.  SQLite begins a      *)
(* transaction at the first write of a session, and sessions do not flush  *)
(* before commit: every query reads what is committed by then, and every   *)
(* commit is one step.  Requests interleave between queries and commits.   *)
(* The names with an F leave Init, Next, ... to LegacyKdc, so that one      *)
(* module may extend both.                                                 *)
(***************************************************************************)
EXTENDS Integers, FiniteSets

CONSTANTS User,       \* key_ids
          Identity,   \* identity public keys
          Prekey,     \* prekey ids
          Upload,     \* POST /upload requests
          Get,        \* GET /keys requests
          Absent,
          UserOf,     \* UserOf[r]: the key_id in the request r
          IdentityOf, \* IdentityOf[u]: the identity key in the bundle of u
          BundleOf    \* BundleOf[u]: the prekeys in it

ASSUME AbsentAssumption == Absent \notin User \cup Identity \cup Prekey
ASSUME RequestAssumption ==
    /\ Upload \cap Get = {}
    /\ UserOf \in [Upload \cup Get -> User]
    /\ IdentityOf \in [Upload -> Identity]
    /\ BundleOf \in [Upload -> SUBSET Prekey]

VARIABLES
    identity, \* users: the identity key of each row, Absent without one
    owner,    \* prekeys: the user of each row, Absent without one
    inserted, \* how often each prekey was inserted
    pc,       \* where each request stands
    isNew,    \* uploads that found no user
    todo,     \* prekeys of its bundle an upload has yet to look up
    adds,     \* those it found nobody had
    given,    \* the prekey a GET selected, and answers
    missed    \* GETs whose DELETE matched no row

fvars == <<identity, owner, inserted, pc, isNew, todo, adds, given, missed>>

FTypeOK ==
    /\ identity \in [User -> Identity \cup {Absent}]
    /\ owner \in [Prekey -> User \cup {Absent}]
    /\ inserted \in [Prekey -> Nat]
    /\ pc \in [Upload \cup Get -> {"new", "reading", "selected", "ok", "refused", "failed"}]
    /\ isNew \subseteq Upload
    /\ todo \in [Upload -> SUBSET Prekey]
    /\ adds \in [Upload -> SUBSET Prekey]
    /\ given \in [Get -> Prekey \cup {Absent}]
    /\ missed \subseteq Get

FInit ==
    /\ identity = [i \in User |-> Absent]
    /\ owner = [p \in Prekey |-> Absent]
    /\ inserted = [p \in Prekey |-> 0]
    /\ pc = [r \in Upload \cup Get |-> "new"]
    /\ isNew = {}
    /\ todo = BundleOf
    /\ adds = [u \in Upload |-> {}]
    /\ given = [g \in Get |-> Absent]
    /\ missed = {}

-----------------------------------------------------------------------------
(* POST /upload *)

\* Variant: the identity key of an existing user is not compared.
MismatchNever(u) == FALSE

Mismatch(u) == identity[UserOf[u]] \notin {Absent, IdentityOf[u]}

ReadUser(u) ==
    /\ pc[u] = "new"
    /\ pc' = [pc EXCEPT ![u] = IF Mismatch(u) THEN "refused" ELSE "reading"]
    /\ isNew' = IF identity[UserOf[u]] = Absent THEN isNew \cup {u} ELSE isNew
    /\ UNCHANGED <<identity, owner, inserted, todo, adds, given, missed>>

\* One turn of the loop; a prekey that exists, whosever it is, is passed over.
LookUp(u, p) ==
    /\ pc[u] = "reading"
    /\ p \in todo[u]
    /\ todo' = [todo EXCEPT ![u] = @ \ {p}]
    /\ adds' = [adds EXCEPT ![u] = IF owner[p] = Absent THEN @ \cup {p} ELSE @]
    /\ UNCHANGED <<identity, owner, inserted, pc, isNew, given, missed>>

\* No INSERT of the commit meets a primary key that was inserted meanwhile.
Insertable(u) ==
    /\ u \in isNew => identity[UserOf[u]] = Absent
    /\ \A p \in adds[u] : owner[p] = Absent

CommitUpload(u) ==
    /\ pc[u] = "reading"
    /\ todo[u] = {}
    /\ Insertable(u)
    /\ identity' = IF u \in isNew THEN [identity EXCEPT ![UserOf[u]] = IdentityOf[u]]
                   ELSE identity
    /\ owner' = [p \in Prekey |-> IF p \in adds[u] THEN UserOf[u] ELSE owner[p]]
    /\ inserted' = [p \in Prekey |-> inserted[p] + IF p \in adds[u] THEN 1 ELSE 0]
    /\ pc' = [pc EXCEPT ![u] = "ok"]
    /\ UNCHANGED <<isNew, todo, adds, given, missed>>

-----------------------------------------------------------------------------
(* GET /keys/<key_id> *)

\* User not found, or no prekey left.
NotFound(g) ==
    /\ pc[g] = "new"
    /\ \A p \in Prekey : owner[p] # UserOf[g]
    /\ pc' = [pc EXCEPT ![g] = "refused"]
    /\ UNCHANGED <<identity, owner, inserted, isNew, todo, adds, given, missed>>

\* first() has no ORDER BY.  Users are never deleted: the query for the user
\* and this one are one step.
Select(g, p) ==
    /\ pc[g] = "new"
    /\ owner[p] = UserOf[g]
    /\ given' = [given EXCEPT ![g] = p]
    /\ pc' = [pc EXCEPT ![g] = "selected"]
    /\ UNCHANGED <<identity, owner, inserted, isNew, todo, adds, missed>>

\* Variant: the delete is forgotten.
CommitNothing(g) ==
    /\ pc[g] = "selected"
    /\ pc' = [pc EXCEPT ![g] = "ok"]
    /\ UNCHANGED <<identity, owner, inserted, isNew, todo, adds, given, missed>>

\* db.delete and commit.  SQLAlchemy warns of a DELETE that matched no row and
\* goes on to answer.
CommitDelete(g) ==
    /\ pc[g] = "selected"
    /\ missed' = IF owner[given[g]] = Absent THEN missed \cup {g} ELSE missed
    /\ owner' = [owner EXCEPT ![given[g]] = Absent]
    /\ pc' = [pc EXCEPT ![g] = "ok"]
    /\ UNCHANGED <<identity, inserted, isNew, todo, adds, given>>

-----------------------------------------------------------------------------
\* Over the rate limit, "database is locked", an IntegrityError at commit or a
\* server that is killed: the session is closed and its transaction undone.
Fails(r) ==
    /\ pc[r] \in {"new", "reading", "selected"}
    /\ pc' = [pc EXCEPT ![r] = "failed"]
    /\ UNCHANGED <<identity, owner, inserted, isNew, todo, adds, given, missed>>

FNext ==
    \/ \E u \in Upload : ReadUser(u) \/ CommitUpload(u) \/ \E p \in Prekey : LookUp(u, p)
    \/ \E g \in Get : NotFound(g) \/ CommitDelete(g) \/ \E p \in Prekey : Select(g, p)
    \/ \E r \in Upload \cup Get : Fails(r)

FSpec == FInit /\ [][FNext]_fvars

-----------------------------------------------------------------------------
(* Properties. *)

\* A prekey is answered to two requests only if an upload inserted it again
\* after the first, or both had selected it before either deleted it.
RepeatExplained ==
    \A f, g \in Get : f # g /\ pc[f] = "ok" /\ pc[g] = "ok" /\ given[f] = given[g] =>
        inserted[given[f]] > 1 \/ f \in missed \/ g \in missed

\* Uploads that race to create a user never mix: each prekey in the table came
\* from an upload that named its user and the identity key the user has.
OneIdentity ==
    /\ FTypeOK
    /\ \A p \in Prekey : owner[p] # Absent =>
         \E u \in Upload : /\ pc[u] = "ok" /\ p \in adds[u]
                           /\ UserOf[u] = owner[p] /\ IdentityOf[u] = identity[owner[p]]
=============================================================================
