---------------------------- MODULE PagesProofs ----------------------------
(***************************************************************************)
(* Proofs about Pages and the LocalUi it extends, for any number of        *)
(* requests, polls, identities, files, pins and kills.                     *)
(***************************************************************************)
EXTENDS Pages, TLAPS

USE NoneAssumption, BoundAssumption, NextReqAssumption, PanelAssumption

-----------------------------------------------------------------------------
(* Types.                                                                   *)

\* Where a request stands says what it is, and a send that came to the upload
\* found the identity it has pinned; what ended well was answered by a server,
\* or is a register that had nothing to upload.
KindInv ==
    \A r \in Req :
        /\ pc[r] = "closing" => kind[r] = "unlock"
        /\ pc[r] = "calling" => kind[r] \in Calls
        /\ pc[r] \in {"spooled", "reserving", "uploading"} => kind[r] = "send"
        /\ pc[r] \in {"fetching", "writing"} => kind[r] = "download" /\ item[r] \in File
        /\ pc[r] = "uploading" \/ (pc[r] = "ok" /\ kind[r] = "send") =>
              found[r] = to[r] /\ to[r] \in Identity
        /\ pc[r] = "ok" => kind[r] # "download"
        /\ pc[r] = "ok" /\ kind[r] # "unlock" =>
              r \in served \/ (kind[r] = "register" /\ r \in dry)

LEMMA CreateTypes ==
    ASSUME TypeOK, NEW r \in Req, Create(r)
    PROVE  /\ http' \in [Req -> {"unborn", "open", "closed"}]
           /\ peers' \in [Req -> SUBSET Identity]
           /\ current' \in {c \in Req : Born(c)'} \cup {None}
           /\ pc' \in [Req -> Places]
           /\ failed' \in BOOLEAN
           /\ pc' = [pc EXCEPT ![r] = "ok"] \/ pc' = [pc EXCEPT ![r] = "error"]
<1>1. failed' \in BOOLEAN
    BY Zenon DEF Create
<1>2. "ok" \in Places /\ "error" \in Places
    BY DEF Places, Ended
<1>3. CASE /\ http' = [http EXCEPT ![r] = "open"]
           /\ peers' = [peers EXCEPT ![r] = LoadedPeers]
           /\ current' = r
           /\ pc' = [pc EXCEPT ![r] = "ok"]
  <2>1. LoadedPeers \in SUBSET Identity
      BY DEF LoadedPeers
  <2>2. http'[r] = "open"
      BY <1>3 DEF TypeOK
  <2>3. QED
      BY <1>1, <1>2, <1>3, <2>1, <2>2 DEF TypeOK, Born
<1>4. CASE pc' = [pc EXCEPT ![r] = "error"] /\ UNCHANGED backend
    BY <1>1, <1>2, <1>4 DEF TypeOK, Born, backend
<1>5. QED
    BY <1>3, <1>4, Zenon DEF Create

LEMMA UiTypes ==
    ASSUME TypeOK, KindInv, Next
    PROVE  TypeOK' /\ KindInv'
<1> USE DEF TypeOK, KindInv
<1>0. /\ Places = {"idle", "closing", "calling", "spooled", "reserving", "uploading",
                   "fetching", "writing", "ok", "error", "denied", "invalid", "crashed",
                   "dead"}
      /\ Kinds = {"register", "query", "unlock", "send", "download"}
      /\ Calls = {"register", "query"}
    BY DEF Places, Kinds, Calls, Ended
<1>1. CASE Keygen \/ PrekeysRunOut
    BY <1>1 DEF Keygen, PrekeysRunOut, backend, requests, history, outcomes, Born
<1>2. CASE PinBegins
    BY <1>2 DEF PinBegins, backend, requests, history, outcomes, Born
<1>3. CASE PinEnds
    BY <1>3 DEF PinEnds, backend, requests, history, outcomes, Born
<1>4. CASE Kill
    BY <1>0, <1>4 DEF Kill, Born, InFlight, disk, outcomes
<1>5. ASSUME NEW r \in Req, UnlockAtOnce(r)
      PROVE  TypeOK' /\ KindInv'
  <2>1. /\ UNCHANGED <<disk, client, to, found, item, temp, kills, outcomes>>
        /\ kind' = [kind EXCEPT ![r] = "unlock"]
      BY <1>5 DEF UnlockAtOnce
  <2>2. overlap' \in BOOLEAN
      BY <1>5, Zenon DEF UnlockAtOnce
  <2>3. /\ http' \in [Req -> {"unborn", "open", "closed"}]
        /\ peers' \in [Req -> SUBSET Identity]
        /\ current' \in {c \in Req : Born(c)'} \cup {None}
        /\ pc' \in [Req -> Places]
        /\ failed' \in BOOLEAN
        /\ pc' = [pc EXCEPT ![r] = "ok"] \/ pc' = [pc EXCEPT ![r] = "error"]
      BY <1>5, CreateTypes DEF UnlockAtOnce
  <2>4. TypeOK'
      BY <1>0, <2>1, <2>2, <2>3 DEF disk, outcomes
  <2>5. KindInv'
      BY <1>0, <2>1, <2>3 DEF outcomes
  <2>6. QED
      BY <2>4, <2>5
<1>6. ASSUME NEW r \in Req, UnlockCloses(r)
      PROVE  TypeOK' /\ KindInv'
    BY <1>0, <1>6 DEF UnlockCloses, Born, disk, outcomes
<1>7. ASSUME NEW r \in Req, UnlockCreates(r)
      PROVE  TypeOK' /\ KindInv'
  <2>1. UNCHANGED <<disk, kind, temp, kills, overlap, outcomes>>
      BY <1>7 DEF UnlockCreates
  <2>2. /\ client' = [client EXCEPT ![r] = None]
        /\ item' = [item EXCEPT ![r] = None]
        /\ to' = IF pc'[r] = "ok" THEN to ELSE [to EXCEPT ![r] = None]
        /\ found' = IF pc'[r] = "ok" THEN found ELSE [found EXCEPT ![r] = None]
      BY <1>7 DEF UnlockCreates, Forget
  <2>3. /\ http' \in [Req -> {"unborn", "open", "closed"}]
        /\ peers' \in [Req -> SUBSET Identity]
        /\ current' \in {c \in Req : Born(c)'} \cup {None}
        /\ pc' \in [Req -> Places]
        /\ failed' \in BOOLEAN
        /\ pc' = [pc EXCEPT ![r] = "ok"] \/ pc' = [pc EXCEPT ![r] = "error"]
      BY <1>7, CreateTypes DEF UnlockCreates
  <2>4. kind[r] = "unlock"
      BY <1>7 DEF UnlockCreates
  <2>5. TypeOK'
      BY <1>0, <2>1, <2>2, <2>3 DEF disk, outcomes
  <2>6. KindInv'
      BY <1>0, <2>1, <2>2, <2>3, <2>4 DEF outcomes
  <2>7. QED
      BY <2>5, <2>6
<1>8. ASSUME NEW r \in Req, NEW k \in Kinds \ {"unlock"}, Locked(r, k)
      PROVE  TypeOK' /\ KindInv'
    BY <1>0, <1>8 DEF Locked, Born, disk, backend, history, outcomes
<1>9. ASSUME NEW r \in Req, Query(r) \/ Register(r) \/ RegisterNothing(r)
      PROVE  TypeOK' /\ KindInv'
    BY <1>0, <1>9 DEF Query, Register, RegisterNothing, GetClient, Keep, Born, disk, backend, history, outcomes
<1>10. ASSUME NEW r \in Req, SendSpools(r)
       PROVE  TypeOK' /\ KindInv'
    BY <1>0, <1>10 DEF SendSpools, GetClient, Keep, Born, disk, backend, history, outcomes
<1>11. ASSUME NEW r \in Req, SpoolFails(r)
       PROVE  TypeOK' /\ KindInv'
    BY <1>0, <1>11 DEF SpoolFails, GetClient, Born, disk, backend, history, outcomes
<1>12. ASSUME NEW r \in Req, SendReserves(r)
       PROVE  TypeOK' /\ KindInv'
    BY <1>0, <1>12 DEF SendReserves, Born, disk, backend, history, outcomes
<1>13. ASSUME NEW r \in Req, SendUploads(r)
       PROVE  TypeOK' /\ KindInv'
    BY <1>0, <1>13 DEF SendUploads, Born, disk, backend, history, outcomes
<1>14. ASSUME NEW r \in Req, NEW f \in File, DownloadFetches(r, f)
       PROVE  TypeOK' /\ KindInv'
    BY <1>0, <1>14 DEF DownloadFetches, GetClient, Keep, Born, disk, backend, history, outcomes
<1>15. ASSUME NEW r \in Req, NEW f \in File, DownloadRefused(r, f)
       PROVE  TypeOK' /\ KindInv'
    BY <1>0, <1>15 DEF DownloadRefused, GetClient, Born, disk, backend, history, outcomes
<1>16. ASSUME NEW r \in Req, DownloadWrites(r)
       PROVE  TypeOK' /\ KindInv'
    BY <1>0, <1>16 DEF DownloadWrites, Born, disk, backend, history, outcomes
<1>17. ASSUME NEW r \in Req, End(r)
       PROVE  TypeOK' /\ KindInv'
    BY <1>0, <1>17 DEF End, Cleanup, Forget, Born, disk, backend, history, outcomes
<1>18. QED
    BY <1>1, <1>2, <1>3, <1>4, <1>5, <1>6, <1>7, <1>8, <1>9, <1>10, <1>11, <1>12, <1>13,
       <1>14, <1>15, <1>16, <1>17 DEF Next

LEMMA InitTypes == PInit => PTypeOK /\ KindInv
<1> SUFFICES ASSUME PInit
             PROVE  PTypeOK /\ KindInv
    OBVIOUS
<1>1. overlap \in BOOLEAN /\ failed \in BOOLEAN /\ nextUnlocked \in BOOLEAN
    BY Zenon DEF PInit, Init
<1>2. "idle" \in Places
    BY DEF Places
<1>3. TypeOK
    BY <1>1, <1>2 DEF PInit, Init, TypeOK, Born
<1>4. QED
    BY <1>1, <1>3 DEF PInit, Init, PTypeOK, KindInv

LEMMA PageTypes ==
    ASSUME PTypeOK, KindInv, [PNext]_pvars
    PROVE  PTypeOK' /\ KindInv'
<1> USE DEF PTypeOK
<1>1. CASE Backend
  <2>1. TypeOK' /\ KindInv'
      BY <1>1, UiTypes DEF Backend
  <2>2. UNCHANGED pages
      BY <1>1 DEF Backend
  <2>3. QED
      BY <2>1, <2>2 DEF pages
<1>2. UNCHANGED vars => TypeOK' /\ KindInv'
    BY DEF vars, disk, backend, requests, history, outcomes, TypeOK, KindInv, Born
<1>3. ASSUME NEW p \in Poll, AskStatus(p)
      PROVE  PTypeOK' /\ KindInv'
  <2>1. StatusPanel \in Panels
      BY DEF StatusPanel, Panels, TypeOK
  <2>2. QED
      BY <1>2, <1>3, <2>1 DEF AskStatus
<1>4. ASSUME NEW p \in Poll, ShowStatus(p)
      PROVE  PTypeOK' /\ KindInv'
    BY <1>2, <1>4 DEF ShowStatus
<1>5. ASSUME NEW r \in Req, ShowNext(r)
      PROVE  PTypeOK' /\ KindInv'
  <2>1. nextUnlocked' \in BOOLEAN
      BY <1>5, Zenon DEF ShowNext
  <2>2. QED
      BY <1>2, <1>5, <2>1 DEF ShowNext
<1>6. ASSUME NEW r \in Req, DashboardSends(r)
      PROVE  PTypeOK' /\ KindInv'
  <2>1. /\ UNCHANGED <<disk, backend, client, to, found, item, temp, history, pages>>
        /\ pc[r] = "idle"
        /\ kind' = [kind EXCEPT ![r] = "send"]
        /\ pc' = [pc EXCEPT ![r] = "invalid"]
      BY <1>6 DEF DashboardSends
  <2>2. "invalid" \in Places /\ "send" \in Kinds
      BY DEF Places, Ended, Kinds
  <2>3. TypeOK'
      BY <2>1, <2>2 DEF TypeOK, disk, backend, history, outcomes, Born
  <2>4. KindInv'
      BY <2>1 DEF KindInv, TypeOK, history, outcomes
  <2>5. QED
      BY <2>1, <2>3, <2>4 DEF pages
<1>7. CASE UNCHANGED pvars
    BY <1>2, <1>7 DEF pvars, pages
<1>8. QED
    BY <1>1, <1>3, <1>4, <1>5, <1>6, <1>7 DEF PNext

LEMMA Types == PSpec => [](PTypeOK /\ KindInv)
    BY InitTypes, PageTypes, PTL DEF PSpec

-----------------------------------------------------------------------------
(* Temporary files.                                                         *)

\* Who a temporary file belongs to: no unlock, whose place ends without a
\* cleanup.
Holds(r) == (InFlight(r) /\ pc[r] # "closing") \/ pc[r] \in {"dead", "crashed"}

TempInv == \A t \in temp : \E r \in Req : Holds(r) /\ TempOf(r) = t

LEMMA TempStep ==
    ASSUME TypeOK, KindInv, TempInv, Next
    PROVE  TempInv'
<1> USE DEF TypeOK, KindInv, TempInv, Holds, InFlight, Ended, TempOf
<1>1. CASE Keygen \/ PrekeysRunOut \/ PinBegins \/ PinEnds
    BY <1>1 DEF Keygen, PrekeysRunOut, PinBegins, PinEnds, requests
<1>2. CASE Kill
    BY <1>2 DEF Kill
<1>3. ASSUME NEW r \in Req, UnlockAtOnce(r) \/ UnlockCloses(r)
      PROVE  TempInv'
    BY <1>3 DEF UnlockAtOnce, Create, UnlockCloses
<1>4. ASSUME NEW r \in Req, UnlockCreates(r)
      PROVE  TempInv'
    BY <1>4 DEF UnlockCreates, Create, Forget
<1>5. ASSUME NEW r \in Req, NEW k \in Kinds \ {"unlock"}, Locked(r, k)
      PROVE  TempInv'
    BY <1>5 DEF Locked
<1>6. ASSUME NEW r \in Req, Query(r) \/ Register(r) \/ RegisterNothing(r)
      PROVE  TempInv'
    BY <1>6 DEF Query, Register, RegisterNothing, GetClient
<1>7. ASSUME NEW r \in Req, SendSpools(r) \/ SpoolFails(r)
      PROVE  TempInv'
    BY <1>7 DEF SendSpools, SpoolFails, GetClient
<1>8. ASSUME NEW r \in Req, SendReserves(r) \/ SendUploads(r) \/ DownloadWrites(r)
      PROVE  TempInv'
    BY <1>8 DEF SendReserves, SendUploads, DownloadWrites
<1>9. ASSUME NEW r \in Req, NEW f \in File, DownloadFetches(r, f) \/ DownloadRefused(r, f)
      PROVE  TempInv'
    BY <1>9 DEF DownloadFetches, DownloadRefused, GetClient
<1>10. ASSUME NEW r \in Req, End(r)
       PROVE  TempInv'
    BY <1>10 DEF End, Cleanup, Forget
<1>11. QED
    BY <1>1, <1>2, <1>3, <1>4, <1>5, <1>6, <1>7, <1>8, <1>9, <1>10 DEF Next

-----------------------------------------------------------------------------
(* Clients.                                                                 *)

\* While an unlock waits for the client to close, no client is open, and it is
\* the only unlock.
ClientInv ==
    ~overlap =>
        /\ \A c \in Req : http[c] = "open" => c = current
        /\ \A q \in Req : pc[q] = "closing" =>
              /\ \A c \in Req : http[c] # "open"
              /\ \A p \in Req : pc[p] = "closing" => p = q

LEMMA ClientStep ==
    ASSUME TypeOK, KindInv, ClientInv, Next
    PROVE  ClientInv'
<1> USE DEF TypeOK
<1>1. ASSUME UNCHANGED <<overlap, current, http>>,
             \A q \in Req : pc'[q] = "closing" => pc[q] = "closing"
      PROVE  ClientInv'
    BY <1>1 DEF ClientInv
<1>2. CASE Keygen \/ PrekeysRunOut \/ PinBegins \/ PinEnds
    BY <1>1, <1>2 DEF Keygen, PrekeysRunOut, PinBegins, PinEnds, requests, backend, history
<1>3. CASE Kill
    BY <1>3 DEF Kill, Born, InFlight, Ended, ClientInv
<1>4. ASSUME NEW r \in Req, UnlockAtOnce(r)
      PROVE  ClientInv'
  <2>1. ~overlap' => ~overlap /\ \A q \in Req : pc[q] # "closing"
      BY <1>4, Zenon DEF UnlockAtOnce
  <2>2. ~overlap => \A c \in Req : http[c] # "open"
      BY <1>4 DEF UnlockAtOnce, ClientInv
  <2>3. \/ /\ http' = [http EXCEPT ![r] = "open"] /\ current' = r
           /\ pc' = [pc EXCEPT ![r] = "ok"]
        \/ UNCHANGED <<http, current>> /\ pc' = [pc EXCEPT ![r] = "error"]
      BY <1>4, Zenon DEF UnlockAtOnce, Create, backend
  <2>4. QED
      BY <2>1, <2>2, <2>3 DEF ClientInv
<1>5. ASSUME NEW r \in Req, UnlockCloses(r)
      PROVE  ClientInv'
    BY <1>5 DEF UnlockCloses, ClientInv
<1>6. ASSUME NEW r \in Req, UnlockCreates(r)
      PROVE  ClientInv'
    BY <1>6 DEF UnlockCreates, Create, backend, ClientInv
<1>7. ASSUME NEW r \in Req, NEW k \in Kinds \ {"unlock"}, Locked(r, k)
      PROVE  ClientInv'
    BY <1>1, <1>7 DEF Locked, backend, history
<1>8. ASSUME NEW r \in Req, Query(r) \/ Register(r) \/ RegisterNothing(r)
      PROVE  ClientInv'
    BY <1>1, <1>8 DEF Query, Register, RegisterNothing, GetClient, backend, history
<1>9. ASSUME NEW r \in Req, SendSpools(r) \/ SpoolFails(r)
      PROVE  ClientInv'
    BY <1>1, <1>9 DEF SendSpools, SpoolFails, GetClient, backend, history
<1>10. ASSUME NEW r \in Req, SendReserves(r) \/ SendUploads(r) \/ DownloadWrites(r)
       PROVE  ClientInv'
    BY <1>1, <1>10 DEF SendReserves, SendUploads, DownloadWrites, backend, history
<1>11. ASSUME NEW r \in Req, NEW f \in File, DownloadFetches(r, f) \/ DownloadRefused(r, f)
       PROVE  ClientInv'
    BY <1>1, <1>11 DEF DownloadFetches, DownloadRefused, GetClient, backend, history
<1>12. ASSUME NEW r \in Req, End(r)
       PROVE  ClientInv'
    BY <1>1, <1>12 DEF End, backend, history
<1>13. QED
    BY <1>2, <1>3, <1>4, <1>5, <1>6, <1>7, <1>8, <1>9, <1>10, <1>11, <1>12 DEF Next

-----------------------------------------------------------------------------
(* What the pages say.                                                      *)

\* Whatever says "action" or "unlocked" comes from a client, and a client that
\* is not open is being replaced, unless its replacement failed.
ReadyInv ==
    kills = 0 =>
        /\ \/ panel = "action" \/ nextUnlocked
           \/ \E p \in Poll : answer[p] = "action"
           \/ \E r \in Req : kind[r] = "unlock" /\ pc[r] = "ok"
           => current # None
        /\ current # None =>
              \/ http[current] = "open"
              \/ failed
              \/ \E q \in Req : pc[q] = "closing"
        /\ \A r \in Req \ NextReq :
              pc[r] = "denied" => kind[r] \notin {"register", "send", "download"}

LEMMA ReadyStep ==
    ASSUME PTypeOK, KindInv, ReadyInv, PNext
    PROVE  ReadyInv'
<1> USE DEF PTypeOK, TypeOK
<1>1. ASSUME UNCHANGED pages, kills' = kills, UNCHANGED <<current, http, failed>>,
             NEW r \in Req, pc[r] # "closing",
             \A q \in Req \ {r} : pc'[q] = pc[q] /\ kind'[q] = kind[q],
             pc'[r] = "ok" => kind'[r] # "unlock",
             pc'[r] # "denied" \/ r \in NextReq \/ kind'[r] \notin {"register", "send", "download"}
      PROVE  ReadyInv'
  <2>1. \A q \in Req : kind'[q] = "unlock" /\ pc'[q] = "ok" => kind[q] = "unlock" /\ pc[q] = "ok"
      BY <1>1
  <2>2. \A q \in Req : pc[q] = "closing" => pc'[q] = "closing"
      BY <1>1
  <2>3. \A q \in Req \ NextReq :
              pc'[q] = "denied" /\ kind'[q] \in {"register", "send", "download"}
              => pc[q] = "denied" /\ kind[q] \in {"register", "send", "download"}
      BY <1>1
  <2>4. UNCHANGED <<panel, answer, nextUnlocked>>
      BY <1>1 DEF pages
  <2>5. QED
      BY <1>1, <2>1, <2>2, <2>3, <2>4 DEF ReadyInv
<1>2. ASSUME UNCHANGED pages, kills' = kills, UNCHANGED requests,
             UNCHANGED <<current, http, failed>>
      PROVE  ReadyInv'
    BY <1>2 DEF pages, requests, ReadyInv
<1>3. CASE Kill
    BY <1>3 DEF Kill, ReadyInv
<1>4. ASSUME UNCHANGED pages, kills' = kills, NEW r \in Req, Create(r),
             kind' = [kind EXCEPT ![r] = "unlock"]
      PROVE  ReadyInv'
  <2>1. UNCHANGED <<panel, answer, nextUnlocked>>
      BY <1>4 DEF pages
  <2>2. CASE /\ http' = [http EXCEPT ![r] = "open"]
             /\ current' = r
             /\ pc' = [pc EXCEPT ![r] = "ok"]
    <3>1. current' # None /\ http'[current'] = "open"
        BY <2>2
    <3>2. \A q \in Req \ NextReq :
              pc'[q] = "denied" => pc[q] = "denied" /\ kind'[q] = kind[q]
        BY <1>4, <2>2
    <3>3. QED
        BY <1>4, <3>1, <3>2 DEF ReadyInv
  <2>3. CASE /\ pc' = [pc EXCEPT ![r] = "error"]
             /\ failed' = TRUE
             /\ UNCHANGED backend
    <3>1. \A q \in Req : /\ pc'[q] \in {"ok", "denied"} => pc'[q] = pc[q] /\ kind'[q] = kind[q]
        BY <1>4, <2>3
    <3>2. failed'
        BY <2>3, Zenon
    <3>3. UNCHANGED <<current, http>>
        BY <2>3 DEF backend
    <3>4. QED
        BY <1>4, <2>1, <3>1, <3>2, <3>3 DEF ReadyInv
  <2>4. QED
      BY <1>4, <2>2, <2>3, Zenon DEF Create
<1>5. ASSUME Backend, NEW r \in Req, UnlockAtOnce(r) \/ UnlockCloses(r) \/ UnlockCreates(r)
      PROVE  ReadyInv'
  <2>1. UNCHANGED pages /\ kills' = kills
      BY <1>5 DEF Backend, UnlockAtOnce, UnlockCloses, UnlockCreates
  <2>2. CASE UnlockAtOnce(r)
      BY <1>4, <2>1, <2>2 DEF UnlockAtOnce
  <2>3. CASE UnlockCloses(r)
    <3>1. /\ UNCHANGED <<current, panel, answer, nextUnlocked>>
          /\ pc'[r] = "closing"
          /\ \A q \in Req \ {r} : pc'[q] = pc[q] /\ kind'[q] = kind[q]
        BY <2>1, <2>3 DEF UnlockCloses, pages
    <3>2. \A q \in Req : pc'[q] \in {"ok", "denied"} => pc'[q] = pc[q] /\ kind'[q] = kind[q]
        BY <3>1
    <3>3. QED
        BY <2>1, <3>1, <3>2 DEF ReadyInv
  <2>4. CASE UnlockCreates(r)
    <3>1. kind' = kind /\ kind[r] = "unlock"
        BY <2>4 DEF UnlockCreates, KindInv
    <3>2. kind' = [kind EXCEPT ![r] = "unlock"]
        BY <3>1
    <3>3. QED
        BY <1>4, <2>1, <2>4, <3>2 DEF UnlockCreates
  <2>5. QED
      BY <1>5, <2>2, <2>3, <2>4
<1>6. ASSUME Backend, NEW r \in Req, NEW k \in Kinds \ {"unlock"}, Locked(r, k)
      PROVE  ReadyInv'
  <2>1. /\ UNCHANGED pages /\ UNCHANGED kills /\ UNCHANGED <<current, http, failed>>
        /\ current = None /\ pc[r] = "idle" /\ pc'[r] = "denied" /\ kind'[r] = k
        /\ \A q \in Req \ {r} : pc'[q] = pc[q] /\ kind'[q] = kind[q]
        /\ Offered(r, k)
      BY <1>6 DEF Backend, Locked, backend, history
  <2>2. panel # "action" \/ kills # 0
      BY <2>1 DEF ReadyInv
  <2>3. kills = 0 => r \in NextReq \/ k \notin {"register", "send", "download"}
      BY <2>1, <2>2 DEF Offered
  <2>4. CASE kills = 0
      BY <1>1, <2>1, <2>3, <2>4
  <2>5. CASE kills # 0
      BY <2>1, <2>5 DEF ReadyInv
  <2>6. QED
      BY <2>4, <2>5
<1>7. ASSUME Backend, NEW r \in Req,
             Query(r) \/ Register(r) \/ RegisterNothing(r) \/ SendSpools(r) \/ SpoolFails(r)
      PROVE  ReadyInv'
    BY <1>1, <1>7 DEF Backend, Query, Register, RegisterNothing, SendSpools, SpoolFails,
                      GetClient, backend, history
<1>8. ASSUME Backend, NEW r \in Req, SendReserves(r) \/ SendUploads(r) \/ DownloadWrites(r)
      PROVE  ReadyInv'
    BY <1>1, <1>8 DEF Backend, SendReserves, SendUploads, DownloadWrites, backend, history
<1>9. ASSUME Backend, NEW r \in Req, NEW f \in File, DownloadFetches(r, f) \/ DownloadRefused(r, f)
      PROVE  ReadyInv'
    BY <1>1, <1>9 DEF Backend, DownloadFetches, DownloadRefused, GetClient, backend, history
<1>10. ASSUME Backend, NEW r \in Req, End(r)
       PROVE  ReadyInv'
    BY <1>1, <1>10 DEF Backend, End, backend, history, KindInv
<1>11. CASE Backend
  <2>1. CASE Keygen \/ PrekeysRunOut \/ PinBegins \/ PinEnds
      BY <1>2, <1>11, <2>1 DEF Backend, Keygen, PrekeysRunOut, PinBegins, PinEnds, backend, history
  <2>2. QED
      BY <1>3, <1>5, <1>6, <1>7, <1>8, <1>9, <1>10, <1>11, <2>1 DEF Backend, Next
<1>12. ASSUME NEW p \in Poll, AskStatus(p)
       PROVE  ReadyInv'
  <2>1. StatusPanel = "action" => current # None
      BY DEF StatusPanel
  <2>2. QED
      BY <1>12, <2>1 DEF AskStatus, ReadyInv, vars, requests, backend, history
<1>13. ASSUME NEW p \in Poll, ShowStatus(p)
       PROVE  ReadyInv'
  <2>1. /\ UNCHANGED <<kills, current, http, failed, pc, kind, nextUnlocked>>
        /\ answer[p] # None /\ panel' \in {panel, answer[p]}
        /\ answer' = [answer EXCEPT ![p] = None]
      BY <1>13 DEF ShowStatus, vars, requests, backend, history
  <2>2. panel' = "action" => panel = "action" \/ \E q \in Poll : answer[q] = "action"
      BY <2>1
  <2>3. \A q \in Poll : answer'[q] = "action" => answer[q] = "action"
      BY <2>1 DEF Panels
  <2>4. QED
      BY <2>1, <2>2, <2>3 DEF ReadyInv
<1>14. ASSUME NEW r \in Req, ShowNext(r)
       PROVE  ReadyInv'
    BY <1>14 DEF ShowNext, ReadyInv, vars, requests, backend, history
<1>15. ASSUME NEW r \in Req, DashboardSends(r)
       PROVE  ReadyInv'
    BY <1>1, <1>15 DEF DashboardSends, backend, history
<1>16. QED
    BY <1>11, <1>12, <1>13, <1>14, <1>15 DEF PNext

-----------------------------------------------------------------------------
(* The theorems.                                                            *)

LEMMA InvStep ==
    ASSUME PTypeOK, KindInv, TempInv, ClientInv, ReadyInv, [PNext]_pvars
    PROVE  TempInv' /\ ClientInv' /\ ReadyInv'
<1>1. CASE UNCHANGED vars
  <2>1. UNCHANGED <<pc, kind, item, temp, overlap, http, current>>
      BY <1>1 DEF vars, requests, backend, history
  <2>2. TempInv' /\ ClientInv'
      BY <2>1 DEF TempInv, Holds, InFlight, TempOf, ClientInv
  <2>3. UNCHANGED pages => ReadyInv'
      BY <1>1 DEF ReadyInv, vars, requests, backend, history, pages
  <2>4. QED
      BY <2>2, <2>3, ReadyStep DEF pvars
<1>2. CASE Backend
    BY <1>2, TempStep, ClientStep, ReadyStep DEF Backend, PTypeOK, PNext
<1>3. ASSUME NEW r \in Req, DashboardSends(r)
      PROVE  TempInv' /\ ClientInv'
  <2>1. /\ UNCHANGED <<current, http, item, temp, overlap>>
        /\ pc[r] = "idle"
        /\ kind' = [kind EXCEPT ![r] = "send"]
        /\ pc' = [pc EXCEPT ![r] = "invalid"]
      BY <1>3 DEF DashboardSends, backend, history
  <2>2. \A q \in Req : Holds(q) => Holds(q)' /\ TempOf(q)' = TempOf(q)
      BY <2>1 DEF Holds, InFlight, Ended, TempOf, PTypeOK, TypeOK
  <2>3. TempInv'
      BY <2>1, <2>2 DEF TempInv
  <2>4. \A q \in Req : pc'[q] = "closing" => pc[q] = "closing"
      BY <2>1 DEF PTypeOK, TypeOK
  <2>5. ClientInv'
      BY <2>1, <2>4 DEF ClientInv
  <2>6. QED
      BY <2>3, <2>5
<1>4. ASSUME PNext, UNCHANGED vars \/ Backend \/ \E r \in Req : DashboardSends(r)
      PROVE  TempInv' /\ ClientInv' /\ ReadyInv'
    BY <1>1, <1>2, <1>3, <1>4, ReadyStep
<1>5. QED
    BY <1>1, <1>4 DEF PNext, pvars, AskStatus, ShowStatus, ShowNext

LEMMA InitInv == PInit => TempInv /\ ClientInv /\ ReadyInv
<1> SUFFICES ASSUME PInit
             PROVE  TempInv /\ ClientInv /\ ReadyInv
    OBVIOUS
<1>1. ~nextUnlocked
    BY Zenon DEF PInit
<1>2. ReadyInv
    BY <1>1 DEF PInit, Init, ReadyInv, Panels
<1>3. TempInv /\ ClientInv
    BY DEF PInit, Init, TempInv, ClientInv
<1>4. QED
    BY <1>2, <1>3

LEMMA Invariants ==
    PSpec => [](PTypeOK /\ KindInv /\ TempInv /\ ClientInv /\ ReadyInv)
<1>1. /\ PTypeOK /\ KindInv /\ TempInv /\ ClientInv /\ ReadyInv /\ [PNext]_pvars
      => (TempInv /\ ClientInv /\ ReadyInv)'
    BY InvStep
<1>2. QED
    BY <1>1, Types, InitInv, PTL DEF PSpec

\* keystore_dir/tmp holds nothing that no request answers for: it is removed
\* however a request ends, unless the backend was killed or spooling failed.
THEOREM TemporaryFilesAreAccounted == PSpec => []TempAccounted
<1>1. TempInv => TempAccounted
    BY DEF TempInv, TempAccounted, Holds
<1>2. QED
    BY <1>1, Invariants, PTL

\* Unlocking again leaves no connection pool behind, unless two unlocks overlap.
THEOREM OneClientIsOpen == PSpec => []OneOpenClient
<1>1. ClientInv => OneOpenClient
    BY DEF ClientInv, OneOpenClient
<1>2. QED
    BY <1>1, Invariants, PTL

\* A success that a page reports happened, with the three exceptions of the
\* dashboard: its own sends, a backend that was started again, and a register
\* that found no prekey to upload.
THEOREM ClaimsAreTrue == PSpec => []ClaimsTrue
<1>1. ASSUME PTypeOK, KindInv, ReadyInv, NEW r \in Req, Claims(r)
      PROVE  \/ Happened(r)
             \/ r \notin NextReq /\ pc[r] = "invalid"
             \/ r \notin NextReq /\ pc[r] = "denied" /\ kills > 0
             \/ r \notin NextReq /\ kind[r] = "register" /\ r \in dry
  <2>1. kills \in Nat
      BY <1>1 DEF PTypeOK, TypeOK
  <2>2. pc[r] = "ok" /\ kind[r] # "unlock" =>
           Happened(r) \/ (kind[r] = "register" /\ r \in dry)
      BY <1>1 DEF KindInv, Happened, PTypeOK, TypeOK
  <2>3. /\ kind[r] \in {"register", "send", "download"}
        /\ r \in NextReq => kind[r] # "register"
        /\ pc[r] = "ok" \/ (r \notin NextReq /\ pc[r] \in {"denied", "invalid"})
      BY <1>1 DEF Claims, NextClaims, DashboardClaims
  <2>4. r \notin NextReq /\ pc[r] = "denied" => kills # 0
      BY <1>1, <2>3 DEF ReadyInv
  <2>5. QED
      BY <2>1, <2>2, <2>3, <2>4
<1>2. PTypeOK /\ KindInv /\ ReadyInv => ClaimsTrue
    BY <1>1 DEF ClaimsTrue
<1>3. QED
    BY <1>2, Invariants, PTL

\* A page that offers its forms has a client that can be used, in whatever order
\* answers and unlocks came, with the exceptions ReadyExplained names.
THEOREM OfferedFormsAreReady == PSpec => []ReadyExplained
<1>1. ASSUME PTypeOK, ReadyInv
      PROVE  ReadyExplained
  <2>1. kills \in Nat
      BY <1>1 DEF PTypeOK, TypeOK
  <2>2. kills = 0 \/ kills > 0
      BY <2>1
  <2>3. QED
      BY <1>1, <2>2 DEF ReadyInv, ReadyExplained
<1>2. QED
    BY <1>1, Invariants, PTL
=============================================================================
