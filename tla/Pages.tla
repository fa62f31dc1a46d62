------------------------------- MODULE Pages -------------------------------
(***************************************************************************)
(* The two pages of the local backend, the dashboard (app.js) and the      *)
(* Next.js page (page.tsx), each loaded once: which requests they offer,   *)
(* and what they say of the answers.  The backend is LocalUi.              *)
(*                                                                         *)
(* The dashboard asks for the status on a timer, without waiting for the   *)
(* answer before, and shows the panel of whichever answer comes last.  The *)
(* Next.js page remembers that it unlocked.  What they say of the audit    *)
(* log is in AuditChain.                                                   *)
(***************************************************************************)
EXTENDS LocalUi

CONSTANTS NextReq,  \* requests of the Next.js page; the others: dashboard
          Poll      \* bound: status answers on their way to the dashboard

ASSUME NextReqAssumption == NextReq \subseteq Req

VARIABLES panel,        \* the dashboard's panel
          answer,       \* what each poll was answered; None
          nextUnlocked  \* the state "unlocked" of the Next.js page

pages  == <<panel, answer, nextUnlocked>>
pvars  == <<vars, pages>>

Panels == {"keygen", "unlock", "action"}

ASSUME PanelAssumption == None \notin Panels

PInit == /\ Init
         /\ panel = None
         /\ answer = [p \in Poll |-> None]
         /\ nextUnlocked = FALSE

\* The panel an answer of /api/status shows: the .key file exists, there is a
\* client.
StatusPanel == CASE identity = "none" -> "keygen"
                 [] current = None /\ identity # "none" -> "unlock"
                 [] OTHER -> "action"

AskStatus(p) ==
    /\ answer[p] = None
    /\ answer' = [answer EXCEPT ![p] = StatusPanel]
    /\ UNCHANGED <<vars, panel, nextUnlocked>>

\* Answers come in any order, or not at all.
ShowStatus(p) ==
    /\ answer[p] # None
    /\ panel' \in {panel, answer[p]}
    /\ answer' = [answer EXCEPT ![p] = None]
    /\ UNCHANGED <<vars, nextUnlocked>>

\* handleUnlock: nothing ever sets it back.
ShowNext(r) ==
    /\ r \in NextReq /\ kind[r] = "unlock" /\ pc[r] = "ok"
    /\ nextUnlocked' = TRUE
    /\ UNCHANGED <<vars, panel, answer>>

\* The Next.js page's send button is disabled while sending.  An answer that
\* is no JSON raises in onload: the promise is never settled, and the button
\* stays disabled.
Sending == \E q \in NextReq : kind[q] = "send" /\ (InFlight(q) \/ pc[q] = "crashed")

\* The forms a page offers.  The dashboard's audit button is always there.
Offered(r, k) ==
    IF r \in NextReq
    THEN CASE k = "unlock" -> ~nextUnlocked
           [] k = "register" -> FALSE
           [] k = "send" -> nextUnlocked /\ ~Sending
           [] OTHER -> nextUnlocked
    ELSE CASE k = "unlock" -> panel = "unlock"
           [] k = "query" -> TRUE
           [] k = "send" -> FALSE
           [] OTHER -> panel = "action"

\* The dashboard posts target_key_id; send_file wants receiver_name, and 422 is
\* answered before it runs.
DashboardSends(r) ==
    /\ r \notin NextReq
    /\ panel = "action"
    /\ pc[r] = "idle"
    /\ kind' = [kind EXCEPT ![r] = "send"]
    /\ pc' = [pc EXCEPT ![r] = "invalid"]
    /\ UNCHANGED <<disk, backend, client, to, found, item, temp, history, pages>>

\* What LocalUi does; a request begins in a form that is offered.
Backend ==
    /\ Next
    /\ \A r \in Req : pc[r] = "idle" /\ pc'[r] # "idle" => Offered(r, kind'[r])
    /\ UNCHANGED pages

PNext == \/ Backend
         \/ \E p \in Poll : AskStatus(p) \/ ShowStatus(p)
         \/ \E r \in Req : ShowNext(r) \/ DashboardSends(r)

PSpec == PInit /\ [][PNext]_pvars

-----------------------------------------------------------------------------
(* What the pages say. *)

\* "if (data.error) ... else" success: 401 and 422 carry no error, 500 is no
\* JSON.  (For inbox and audit such an answer ends differently.)
DashboardClaims(r) ==
    /\ kind[r] \in {"register", "send", "download"}
    /\ pc[r] \in {"ok", "denied", "invalid"}

\* "if (data.status === "ok")"
NextClaims(r) ==
    /\ kind[r] \in {"send", "download"}
    /\ pc[r] = "ok"

\* What was claimed happened: a server was asked and said so; a send ended with
\* its file uploaded under the identity that was pinned when it began.
Happened(r) ==
    /\ pc[r] = "ok"
    /\ r \in served
    /\ kind[r] = "send" => found[r] = to[r] /\ to[r] \in Identity
    /\ kind[r] # "download"

Claims(r) == IF r \in NextReq THEN NextClaims(r) ELSE DashboardClaims(r)

-----------------------------------------------------------------------------
(* Properties. *)

PTypeOK ==
    /\ TypeOK
    /\ panel \in Panels \cup {None}
    /\ answer \in [Poll -> Panels \cup {None}]
    /\ nextUnlocked \in BOOLEAN

\* A success a page reports happened.  Not so on the dashboard: for every send
\* of its own, for what it asks of a backend that was started again, and for a
\* register that found no prekey to upload.
ClaimsTrue ==
    \A r \in Req : Claims(r) =>
        \/ Happened(r)
        \/ r \notin NextReq /\ pc[r] = "invalid"
        \/ r \notin NextReq /\ pc[r] = "denied" /\ kills > 0
        \/ r \notin NextReq /\ kind[r] = "register" /\ r \in dry

\* "Unlocked & Ready": a page that offers its forms has a client that can be
\* used, in whatever order the status was answered and the pages unlocked;
\* unless an unlock is under way, the last one failed (the client it closed
\* stays in place), or the backend was started again.  With the types.
ReadyExplained ==
    /\ PTypeOK
    /\ panel = "action" \/ nextUnlocked =>
          \/ kills > 0
          \/ /\ current # None
             /\ \/ http[current] = "open"
                \/ failed
                \/ \E q \in Req : pc[q] = "closing"
=============================================================================
