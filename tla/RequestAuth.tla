---------------------------- MODULE RequestAuth ----------------------------
(***************************************************************************)
(* How the Django directory admits the signed requests of one caller:      *)
(* _authenticate_request (timestamp window, request nonce in the cache)    *)
(* and _prekey_request_allowed (a counter per caller and minute) of        *)
(* secxfer_django/kdc/views.py; _auth_headers of src/secxfer/client.py     *)
(* makes the requests.                                                     *)
(*                                                                         *)
(* A request is one set of headers; it may arrive several times (a proxy   *)
(* that repeats it, a worker that answers too late): an arrival is         *)
(* <<request, i>>.  Times are ticks of the server's clock, and the client  *)
(* stamps a request with its own clock, which may be ahead of it.  The     *)
(* cache is Django's DatabaseCache: add is one transaction, incr is a get  *)
(* followed by a set, and both cull a table of more than MaxEntries rows   *)
(* before they write: settings.py leaves it at the default of 300.  A      *)
(* database error in the transaction of add or set ("database is locked":  *)
(* any other writer will do) is swallowed: add returns False as if there   *)
(* were an entry, and incr returns the count it did not write.  Where an   *)
(* error is raised instead, the arrival stays where it stands.             *)
(***************************************************************************)
EXTENDS Integers, FiniteSets

CONSTANTS Request,   \* signed requests, GET /keys of one caller
          Stranger,  \* other entries of the cache: challenges, other callers
          None,
          Window,    \* 60 seconds: the timestamp window, the life of a nonce
                     \* and the length of a counting period
          Limit,     \* requests per period, 10 in the code
          MaxEntries,  \* rows the cache may have before it is culled
          MaxAhead,  \* how far the client's clock may be ahead
          Arrival,   \* bound: how often each of the requests arrives
          MaxAtOnce, \* how many arrivals are counted at the same time
          MaxTime    \* bound: length of a behaviour

ASSUME WindowAssumption == Window \in Nat \ {0}
ASSUME NoneAssumption == None \notin Int
ASSUME RequestAssumption == Request \cap Stranger = {}
ASSUME ArrivalAssumption == IsFiniteSet(Arrival) /\ Arrival \subseteq Request \X Nat
ASSUME LimitAssumption == Limit \in Nat \ {0}
ASSUME BoundAssumption ==
    /\ MaxEntries \in Nat /\ MaxAhead \in Nat
    /\ MaxAtOnce \in Nat /\ MaxTime \in Nat

VARIABLES
    now,
    stamp,   \* X-Auth-Timestamp of each request, None before it is made
    expiry,  \* of the cache entry request-nonce:<key_id>:<nonce> of a request,
             \* or of a stranger; None without one
    pc,      \* where each arrival stands
    period,  \* the counting period an arrival was put in
    count,   \* the cache entry prekey-rate:<key_id>:<period>, 0 if none
    read,    \* what an arrival's incr got from the cache
    dropped, \* requests whose nonce was culled before it expired
    lost     \* of each period: increments that are not in its counter any more,
             \* overwritten, not written, or gone with it (history only)

vars == <<now, stamp, expiry, pc, period, count, read, dropped, lost>>

PeriodOf(t) == t \div Window
Periods == 0 .. PeriodOf(MaxTime)

Counting(h) == pc[h] \in {"counting", "adding"}

TypeOK ==
    /\ now \in 0 .. MaxTime
    /\ stamp \in [Request -> 0 .. MaxTime + MaxAhead \cup {None}]
    /\ expiry \in [Request \cup Stranger -> 0 .. MaxTime + Window \cup {None}]
    /\ pc \in [Arrival -> {"none", "rejected", "admitted", "counting", "adding",
                           "allowed", "limited", "forgotten"}]
    /\ period \in [Arrival -> Periods]
    /\ count \in [Periods -> 0 .. Cardinality(Arrival)]
    /\ read \in [Arrival -> 0 .. Cardinality(Arrival)]
    /\ dropped \subseteq Request
    /\ lost \in [Periods -> Nat]

Init ==
    /\ now = 0
    /\ stamp = [r \in Request |-> None]
    /\ expiry = [e \in Request \cup Stranger |-> None]
    /\ pc = [h \in Arrival |-> "none"]
    /\ period = [h \in Arrival |-> 0]
    /\ count = [p \in Periods |-> 0]
    /\ read = [h \in Arrival |-> 0]
    /\ dropped = {}
    /\ lost = [p \in Periods |-> 0]

Tick ==
    /\ now < MaxTime
    /\ now' = now + 1
    /\ UNCHANGED <<stamp, expiry, pc, period, count, read, dropped, lost>>

MakeRequest(r) ==
    /\ stamp[r] = None
    /\ \E ahead \in 0 .. MaxAhead : stamp' = [stamp EXCEPT ![r] = now + ahead]
    /\ UNCHANGED <<now, expiry, pc, period, count, read, dropped, lost>>

-----------------------------------------------------------------------------
(* DatabaseCache.  A write to a table of more than MaxEntries rows deletes *)
(* the expired ones; if that is not enough, also a third of what is left,  *)
(* the smallest keys first: prekey-rate:... is before request-nonce:...,   *)
(* where strangers are is unknown.                                         *)

Counters == {p \in Periods : count[p] # 0}

Full == Cardinality({e \in DOMAIN expiry : expiry[e] # None})
          + Cardinality(Counters) > MaxEntries

Fresh == {e \in DOMAIN expiry : expiry[e] # None /\ expiry[e] >= now}

\* How many of the rows that did not expire go.
Culled(n) == IF n > MaxEntries THEN n \div 3 ELSE 0

\* Counters of past periods may have expired.
Cull ==
    /\ Full
    /\ \E old \in SUBSET {p \in Counters : p < PeriodOf(now)} :
         \E C \in SUBSET (Counters \ old), E \in SUBSET Fresh :
            /\ Cardinality(C) + Cardinality(E)
                 = Culled(Cardinality(Fresh) + Cardinality(Counters \ old))
            /\ E \cap Request # {} => C = Counters \ old
            /\ expiry' = [e \in DOMAIN expiry |-> IF e \in Fresh \ E THEN expiry[e]
                                                  ELSE None]
            /\ count' = [p \in Periods |-> IF p \in old \cup C THEN 0 ELSE count[p]]
            /\ dropped' = dropped \cup (E \cap Request)
            /\ lost' = [p \in Periods |-> IF p \in old \cup C THEN lost[p] + count[p]
                                          ELSE lost[p]]
    /\ UNCHANGED <<now, stamp, pc, period, read>>

\* Another request, of anybody, writes an entry of its own.
OtherEntry(e) ==
    /\ ~Full
    /\ expiry[e] = None
    /\ expiry' = [expiry EXCEPT ![e] = now + Window]
    /\ UNCHANGED <<now, stamp, pc, period, count, read, dropped, lost>>

-----------------------------------------------------------------------------
(* _authenticate_request *)

\* abs(time.time() - int(timestamp)) > 60 is rejected.
InWindow(r) == now - stamp[r] <= Window /\ stamp[r] - now <= Window

\* Variant: the nonce is remembered for half the window.
NonceExpiryShort == now + Window - 1

NonceExpiry == now + Window

\* cache.add finds no entry, or one that expired before now.
NonceIsNew(r) == expiry[r] # None => expiry[r] < now

\* The nonce is stored before the identity is looked up and the signature
\* verified; an error there rejects the request with its nonce used.  Any
\* request may be rejected without a trace: outside the window, nonce known, or
\* not written for a database error.  The two clocks that are read, for the
\* window and by cache.add, are taken to agree.
Authenticate(h) ==
    LET r == h[1] IN
    /\ pc[h] = "none"
    /\ stamp[r] # None
    /\ ~Full
    /\ \/ /\ InWindow(r) /\ NonceIsNew(r)
          /\ expiry' = [expiry EXCEPT ![r] = NonceExpiry]
          /\ \E answer \in {"admitted", "rejected"} : pc' = [pc EXCEPT ![h] = answer]
       \/ /\ pc' = [pc EXCEPT ![h] = "rejected"]
          /\ UNCHANGED expiry
    /\ UNCHANGED <<now, stamp, period, count, read, dropped, lost>>

-----------------------------------------------------------------------------
(* _prekey_request_allowed *)

\* The bucket is chosen and cache.add tried: the first of a period is allowed.
\* There is an entry, or the database refuses: on to cache.incr.
CountFirst(h) ==
    LET p == PeriodOf(now) IN
    /\ pc[h] = "admitted"
    /\ Cardinality({g \in Arrival : Counting(g)}) < MaxAtOnce
    /\ ~Full
    /\ period' = [period EXCEPT ![h] = p]
    /\ \/ /\ count[p] = 0
          /\ count' = [count EXCEPT ![p] = 1]
          /\ pc' = [pc EXCEPT ![h] = "allowed"]
       \/ /\ pc' = [pc EXCEPT ![h] = "counting"]
          /\ UNCHANGED count
    /\ UNCHANGED <<now, stamp, expiry, read, dropped, lost>>

\* cache.incr, its get.  The entry lives 61 seconds; once its period is over
\* it may be gone, or have been culled, and incr raises ValueError: that ends
\* the request, and its bucket is forgotten.
ReadCount(h) ==
    /\ pc[h] = "counting"
    /\ \/ /\ count[period[h]] # 0
          /\ read' = [read EXCEPT ![h] = count[period[h]]]
          /\ pc' = [pc EXCEPT ![h] = "adding"]
          /\ UNCHANGED period
       \/ /\ PeriodOf(now) > period[h] \/ count[period[h]] = 0
          /\ pc' = [pc EXCEPT ![h] = "forgotten"]
          /\ period' = [period EXCEPT ![h] = 0]
          /\ UNCHANGED read
    /\ UNCHANGED <<now, stamp, expiry, count, dropped, lost>>

\* Variant: the caller that exceeds the limit is allowed.
WithinLimitOneMore(n) == n <= Limit + 1

WithinLimit(n) == n <= Limit
NextCount(n) == n + 1

\* Increments a counter at c loses to a write of an arrival that read n.
Overwritten(c, n) == IF c > n THEN c - n ELSE 0

\* cache.incr, its set, which may not write, and the comparison.
AddCount(h) ==
    LET p == period[h]
        n == NextCount(read[h]) IN
    /\ pc[h] = "adding"
    /\ ~Full
    /\ \/ /\ count' = [count EXCEPT ![p] = n]
          /\ lost' = [lost EXCEPT ![p] = @ + Overwritten(count[p], read[h])]
       \/ /\ count' = count
          /\ lost' = [lost EXCEPT ![p] = @ + 1]
    /\ pc' = [pc EXCEPT ![h] = IF WithinLimit(n) THEN "allowed" ELSE "limited"]
    /\ read' = [read EXCEPT ![h] = 0]
    /\ UNCHANGED <<now, stamp, expiry, period, dropped>>

Next ==
    \/ Tick \/ Cull
    \/ \E e \in Stranger : OtherEntry(e)
    \/ \E r \in Request : MakeRequest(r)
    \/ \E h \in Arrival : \/ Authenticate(h) \/ CountFirst(h)
                          \/ ReadCount(h) \/ AddCount(h)

Spec == Init /\ [][Next]_vars

-----------------------------------------------------------------------------
(* Properties. *)

Admitted(h) == pc[h] \notin {"none", "rejected"}

\* "It makes a signed request single-use during its validity window": of all
\* arrivals of one request at most one is admitted, however late they come,
\* unless so many entries were alive that the cache dropped its nonce.
RequestSingleUse ==
    \A g, h \in Arrival : Admitted(g) /\ Admitted(h) /\ g[1] = h[1] =>
        g = h \/ g[1] \in dropped

AllowedIn(p) == {g \in Arrival : pc[g] = "allowed" /\ period[g] = p}

\* The limit limits, with the types.  Every request of a period that is allowed
\* beyond Limit is paid for by an increment that the counter lost: overwritten
\* by a worker that counted at the same time, not written for a database error,
\* or dropped with the counter.  And none is turned away because the counter is
\* ahead of the truth: by then Limit arrivals of its period were allowed, since
\* what goes wrong with a counter errs on the side of the caller.
LimitKept ==
    /\ TypeOK
    /\ \A p \in Periods : Cardinality(AllowedIn(p)) <= Limit + lost[p]
    /\ \A h \in Arrival : pc[h] = "limited" =>
          Cardinality(AllowedIn(period[h])) >= Limit
=============================================================================
