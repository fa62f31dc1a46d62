----------------------------- MODULE AuditChain -----------------------------
(***************************************************************************)
(* The hash-chained audit log of the Django directory: append_audit_log    *)
(* and audit_log_view (secxfer_django/kdc/views.py), and the two viewers   *)
(* that verify the chain in a browser: verifyServerAudit of the dashboard  *)
(* (src/secxfer/ui/static/app.js), which looks at one page, and of the     *)
(* Next.js page (secxfer_nextjs/src/app/page.tsx), which follows the log   *)
(* page by page while it grows.                                            *)
(*                                                                         *)
(* SHA-256 is taken as injective: the hash of a block is the tuple of what *)
(* is hashed.  Event type and details are one value, since both sides use  *)
(* the same stored text.  The timestamp is not: it is stored as a float,   *)
(* and each side formats it in its own way before hashing.                 *)
(***************************************************************************)
EXTENDS Naturals, Sequences, FiniteSets

CONSTANTS Writer,        \* calls of append_audit_log
          Stamps,        \* values of time.time(), in half seconds
          PageSize,      \* limit, 100 in both viewers
          MaxDamage      \* bound: rows changed behind the program's back

ASSUME WriterAssumption == "altered" \notin Writer
ASSUME StampsAssumption == Stamps \subseteq Nat
ASSUME PageAssumption == PageSize \in Nat \ {0}
ASSUME DamageAssumption == MaxDamage \in Nat

VARIABLES
    log,     \* the AuditLog rows, ordered by id
    head,    \* AuditChainHead.current_hash
    wpc,     \* where each append stands
    snap,    \* the head its transaction read
    damage,  \* rows altered or deleted so far
    status,  \* auditStatus of the Next.js page
    report,  \* its last log line about the chain
    prev,    \* its local previous_hash
    offset,  \* its local offset
    seen,    \* length of its allLogs
    atStart, \* length of the log when it started
    readBad, \* it was served a damaged row
    dash     \* what the dashboard's last log line says, and whether a row it
             \* was served was damaged

writers == <<wpc, snap>>
page == <<status, report, prev, offset, seen, atStart, readBad>>
vars == <<log, head, writers, damage, page, dash>>

Genesis == <<>>   \* "GENESIS_HASH"

\* str(float) of Python writes 1700000000.0 where a template literal of
\* JavaScript writes 1700000000; both agree on numbers with a fraction.
PythonText(t) == IF t % 2 = 0 THEN <<t, ".0">> ELSE <<t>>
BrowserText(t) == <<t>>

Hash(event, text, previous) == <<event, text, previous>>

Init ==
    /\ log = <<>> /\ head = Genesis
    /\ wpc = [w \in Writer |-> "idle"]
    /\ snap = [w \in Writer |-> Genesis]
    /\ damage = 0
    /\ status = "idle" /\ report = "none" /\ prev = Genesis
    /\ offset = 0 /\ seen = 0 /\ atStart = 0 /\ readBad = FALSE
    /\ dash = [said |-> "none", bad |-> FALSE]

-----------------------------------------------------------------------------
(* append_audit_log.  The transaction reads the head first; SQLite lets it  *)
(* write only if nobody committed since ("database is locked" otherwise),   *)
(* a database with row locks only lets it read once it holds the head row.  *)

ReadHead(w) ==
    /\ wpc[w] = "idle"
    /\ wpc' = [wpc EXCEPT ![w] = "read"]
    /\ snap' = [snap EXCEPT ![w] = head]
    /\ UNCHANGED <<log, head, damage, page, dash>>

\* Variant: no transaction around the read and the two writes.
MayCommitAlways(w) == TRUE

MayCommit(w) == snap[w] = head

CommitBlock(w, t) ==
    LET hash == Hash(w, PythonText(t), snap[w]) IN
    /\ wpc[w] = "read"
    /\ MayCommit(w)
    /\ log' = Append(log, [event |-> w, timestamp |-> t, previous_hash |-> snap[w],
                           current_hash |-> hash, bad |-> FALSE])
    /\ head' = hash
    /\ wpc' = [wpc EXCEPT ![w] = "done"]
    /\ UNCHANGED <<snap, damage, page, dash>>

AppendFails(w) ==
    /\ wpc[w] = "read"
    /\ wpc' = [wpc EXCEPT ![w] = "failed"]
    /\ UNCHANGED <<log, head, snap, damage, page, dash>>

-----------------------------------------------------------------------------
(* Rows changed by something else than this program (a restored backup, a  *)
(* manual repair): the field bad marks the row that no longer follows from *)
(* its predecessor.                                                        *)

AlterRow(i) ==
    /\ damage < MaxDamage
    /\ damage' = damage + 1
    /\ log' = [log EXCEPT ![i].event = "altered", ![i].bad = TRUE]
    /\ UNCHANGED <<head, writers, page, dash>>

\* The last row is not deleted: no viewer can miss what nothing follows.
DeleteRow(i) ==
    /\ damage < MaxDamage
    /\ damage' = damage + 1
    /\ i < Len(log)
    /\ log' = [j \in 1 .. Len(log) - 1 |->
                  IF j < i THEN log[j]
                  ELSE IF j = i THEN [log[i + 1] EXCEPT !.bad = TRUE]
                  ELSE log[j + 1]]
    /\ UNCHANGED <<head, writers, page, dash>>

-----------------------------------------------------------------------------
(* audit_log_view, and the loop both viewers run over a page.              *)

\* order_by('id')[offset:offset+limit]
PageAt(o) == SubSeq(log, o + 1, IF o + PageSize < Len(log) THEN o + PageSize
                                ELSE Len(log))

\* What a browser recomputes for a row.
Recomputed(row, previous) == Hash(row.event, BrowserText(row.timestamp), previous)

\* Variant: the viewer trusts the stored hashes and only follows the links.
AcceptsLinkOnly(rows, previous) ==
    \A i \in 1 .. Len(rows) :
        rows[i].previous_hash = IF i = 1 THEN previous ELSE rows[i - 1].current_hash

\* Every block links to the one before it and hashes to what is stored.  The
\* hash carried along is the recomputed one, which equals the stored one as
\* long as no block was rejected.
Accepts(rows, previous) ==
    \A i \in 1 .. Len(rows) :
        LET p == IF i = 1 THEN previous ELSE rows[i - 1].current_hash IN
        /\ rows[i].previous_hash = p
        /\ rows[i].current_hash = Recomputed(rows[i], p)

\* The Next.js page.
StartVerifying ==
    /\ status # "checking"
    /\ report = "none"    \* bound: the button is pressed once
    /\ status' = "checking"
    /\ prev' = Genesis /\ offset' = 0 /\ seen' = 0
    /\ atStart' = Len(log)
    /\ UNCHANGED <<log, head, writers, damage, report, readBad, dash>>

\* Variant: an offset that starts the next page one row late.
NextOffsetLate == offset + PageSize + 1

NextOffset == offset + PageSize

FetchPage ==
    LET rows == PageAt(offset) IN
    /\ status = "checking"
    /\ rows # <<>>
    /\ seen' = seen + Len(rows)
    /\ readBad' = (readBad \/ \E i \in 1 .. Len(rows) : rows[i].bad)
    /\ \/ /\ Accepts(rows, prev)
          /\ prev' = rows[Len(rows)].current_hash
          /\ offset' = NextOffset
          /\ UNCHANGED <<status, report>>
       \/ /\ ~Accepts(rows, prev)
          /\ status' = "fail" /\ report' = "tampered"
          /\ UNCHANGED <<prev, offset>>
    /\ UNCHANGED <<log, head, writers, damage, atStart, dash>>

LastPage == PageAt(offset) = <<>>

FinishVerifying ==
    /\ status = "checking"
    /\ LastPage
    /\ status' = "ok" /\ report' = "verified"
    /\ UNCHANGED <<log, head, writers, damage, prev, offset, seen, atStart, readBad,
                   dash>>

FetchFails ==
    /\ status = "checking"
    /\ status' = "fail" /\ report' = "error"
    /\ UNCHANGED <<log, head, writers, damage, prev, offset, seen, atStart, readBad,
                   dash>>

\* The dashboard: /api/audit without parameters, the first page only.
DashboardVerifies ==
    LET rows == PageAt(0) IN
    /\ dash.said = "none"   \* bound: the button is pressed once
    /\ rows # <<>>
    /\ dash' = [said |-> IF Accepts(rows, Genesis) THEN "verified" ELSE "tampered",
                bad  |-> \E i \in 1 .. Len(rows) : rows[i].bad]
    /\ UNCHANGED <<log, head, writers, damage, page>>

-----------------------------------------------------------------------------
Next ==
    \/ \E w \in Writer : ReadHead(w) \/ AppendFails(w)
    \/ \E w \in Writer, t \in Stamps : CommitBlock(w, t)
    \/ \E i \in 1 .. Len(log) : AlterRow(i) \/ DeleteRow(i)
    \/ StartVerifying \/ FetchPage \/ FinishVerifying \/ FetchFails
    \/ DashboardVerifies

Spec == Init /\ [][Next]_vars

-----------------------------------------------------------------------------
(* Properties. *)

TypeOK ==
    /\ \A i \in 1 .. Len(log) :
          /\ log[i].event \in Writer \cup {"altered"}
          /\ log[i].timestamp \in Stamps
          /\ log[i].bad \in BOOLEAN
    /\ wpc \in [Writer -> {"idle", "read", "done", "failed"}]
    /\ damage \in 0 .. MaxDamage
    /\ status \in {"idle", "checking", "ok", "fail"}
    /\ report \in {"none", "verified", "tampered", "error"}
    /\ seen \in Nat /\ atStart \in Nat
    /\ offset % PageSize = 0
    /\ readBad \in BOOLEAN
    /\ dash.said \in {"none", "verified", "tampered"}

\* However the appends of several requests interleave, the log is one chain
\* from the genesis value to the head: no block is lost, none has two
\* successors.  With the types.
OneChain ==
    /\ TypeOK
    /\ damage = 0 =>
          /\ \A i \in 1 .. Len(log) :
                log[i].previous_hash = IF i = 1 THEN Genesis ELSE log[i - 1].current_hash
          /\ head = IF log = <<>> THEN Genesis ELSE log[Len(log)].current_hash
          /\ Len(log) = Cardinality({w \in Writer : wpc[w] = "done"})

\* "Verified N blocks locally": every block the page counted is one the
\* directory wrote, none in between was deleted, and the N blocks include
\* all that were in the log when the verification started.  The dashboard's
\* verdict says as much of the one page it was served.
VerdictSound ==
    /\ report = "verified" =>
          /\ ~readBad
          /\ damage = 0 => seen >= atStart
    /\ dash.said = "verified" => ~dash.bad

\* Tampering is reported only of a log somebody tampered with, by the page
\* also when the log grew while it was fetching.
AlarmExplained ==
    /\ report = "tampered" => damage > 0 \/ Len(log) > atStart
    /\ dash.said = "tampered" => damage > 0

\* "Chain tampered at block": somebody tampered with the log.
NoFalseAlarm == report = "tampered" => damage > 0
=============================================================================
