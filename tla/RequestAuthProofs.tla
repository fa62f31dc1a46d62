-------------------------- MODULE RequestAuthProofs --------------------------
(***************************************************************************)
(* Theorems about RequestAuth: any requests, any finite number of          *)
(* arrivals, any window, limit and size of the cache.                      *)
(***************************************************************************)
EXTENDS RequestAuth, FiniteSetTheorems, TLAPS

\* The arrivals of a period that were counted to the end.
Done(p) == {h \in Arrival : pc[h] \in {"allowed", "limited"} /\ period[h] = p}

\* A counter that says n is not ahead of the truth, as far as it matters.
Earned(n, p) ==
    n <= Cardinality(AllowedIn(p)) \/ Limit <= Cardinality(AllowedIn(p))

\* A counter counts no arrival that is not done, and with what it lost it makes
\* up for all that were allowed.
CountInv ==
    \A p \in Periods :
        /\ count[p] <= Cardinality(Done(p))
        /\ Earned(count[p], p)
        /\ Cardinality(AllowedIn(p)) <= count[p] + lost[p]
        /\ Cardinality(AllowedIn(p)) <= Limit + lost[p]

\* What an arrival read is a count its period has had.
ReadInv ==
    \A h \in Arrival : pc[h] = "adding" =>
        /\ read[h] \in 1 .. Cardinality(Done(period[h]))
        /\ Earned(read[h], period[h])

\* An arrival was turned away with the limit reached.
LimitedInv ==
    \A h \in Arrival : pc[h] = "limited" =>
        Limit <= Cardinality(AllowedIn(period[h]))

CInv == TypeOK /\ CountInv /\ ReadInv /\ LimitedInv

\* The stamp of a request is not in the future.
StampInv == \A r \in Request : stamp[r] # None => stamp[r] <= now

\* The nonce of an admitted request is in the cache for as long as its stamp is
\* in the window, unless it was culled.
NonceInv ==
    \A h \in Arrival : Admitted(h) /\ h[1] \notin dropped =>
        /\ stamp[h[1]] # None
        /\ \/ now > stamp[h[1]] + Window
           \/ expiry[h[1]] # None /\ expiry[h[1]] >= stamp[h[1]] + Window

NInv == TypeOK /\ StampInv /\ NonceInv /\ RequestSingleUse

-----------------------------------------------------------------------------
(* Times and sets.                                                         *)

LEMMA DivMonotone ==
    ASSUME NEW a \in Nat, NEW b \in Nat, a <= b
    PROVE  /\ a \div Window \in Nat /\ b \div Window \in Nat
           /\ a \div Window <= b \div Window
<1> DEFINE i == a \div Window
           j == b \div Window
<1>1. /\ i \in Int /\ Window * i <= a /\ a < Window * i + Window
      /\ j \in Int /\ Window * j <= b /\ b < Window * j + Window
    BY WindowAssumption
<1>2. i \in Nat /\ j \in Nat
    BY WindowAssumption
<1>3. ASSUME j < i PROVE FALSE
  <2>1. \A m, n \in Int : Window * (m + n) = Window * m + Window * n
      BY WindowAssumption
  <2>2. \A n \in Nat : n >= 1 => Window * n >= Window
      BY WindowAssumption
  <2>3. i - j \in Nat /\ i - j >= 1 /\ j + (i - j) = i
      BY <1>2, <1>3
  <2>4. Window * i = Window * j + Window * (i - j) /\ Window * (i - j) >= Window
      BY <1>2, <2>1, <2>2, <2>3
  <2>5. Window * i \in Int /\ Window * j \in Int /\ Window * (i - j) \in Int
      BY <1>2, WindowAssumption
  <2> HIDE DEF i, j
  <2> QED
      BY <1>1, <2>4, <2>5, WindowAssumption
<1> QED
    BY <1>2, <1>3

LEMMA PeriodType ==
    ASSUME NEW t \in 0 .. MaxTime
    PROVE  PeriodOf(t) \in Periods /\ Periods \subseteq Nat
BY DivMonotone, BoundAssumption DEF PeriodOf, Periods

LEMMA ZeroPeriod == 0 \in Periods
BY DivMonotone, WindowAssumption, BoundAssumption DEF Periods, PeriodOf

LEMMA ArrivalFinite ==
    IsFiniteSet(Arrival) /\ Cardinality(Arrival) \in Nat
BY ArrivalAssumption, FS_CardinalityType

LEMMA SubsetCount ==
    ASSUME NEW S \in SUBSET Arrival, NEW T \in SUBSET S
    PROVE  /\ IsFiniteSet(S) /\ Cardinality(S) \in Nat /\ Cardinality(T) \in Nat
           /\ Cardinality(T) <= Cardinality(S) /\ Cardinality(S) <= Cardinality(Arrival)
<1>1. IsFiniteSet(S) /\ Cardinality(S) <= Cardinality(Arrival)
    BY ArrivalFinite, FS_Subset
<1>2. IsFiniteSet(T) /\ Cardinality(T) <= Cardinality(S)
    BY <1>1, FS_Subset
<1> QED
    BY <1>1, <1>2, FS_CardinalityType

LEMMA DoneCounts ==
    ASSUME NEW p
    PROVE  /\ Cardinality(Done(p)) \in Nat /\ Cardinality(AllowedIn(p)) \in Nat
           /\ Cardinality(AllowedIn(p)) <= Cardinality(Done(p))
           /\ Cardinality(Done(p)) <= Cardinality(Arrival)
<1>1. AllowedIn(p) \in SUBSET Done(p) /\ Done(p) \in SUBSET Arrival
    BY DEF AllowedIn, Done
<1> QED
    BY <1>1, SubsetCount

\* An arrival that is counted to the end joins the done ones of its period, and
\* the allowed ones if it is allowed.
Finish(h, p, v) ==
    /\ pc[h] \notin {"allowed", "limited"}
    /\ pc' = [pc EXCEPT ![h] = v]
    /\ period' = [period EXCEPT ![h] = p]

LEMMA FinishCounts ==
    ASSUME TypeOK, NEW h \in Arrival, NEW p \in Periods, NEW v \in {"allowed", "limited"},
           Finish(h, p, v), NEW q
    PROVE  /\ Cardinality(Done(q)') = Cardinality(Done(q)) + (IF q = p THEN 1 ELSE 0)
           /\ Cardinality(AllowedIn(q)') = Cardinality(AllowedIn(q))
                                             + (IF q = p /\ v = "allowed" THEN 1 ELSE 0)
           /\ Cardinality(Done(p)) + 1 <= Cardinality(Arrival)
<1>1. \A g \in Arrival : /\ pc'[g] = IF g = h THEN v ELSE pc[g]
                         /\ period'[g] = IF g = h THEN p ELSE period[g]
    BY DEF Finish, TypeOK
<1>2. \A r : h \notin Done(r) /\ h \notin AllowedIn(r)
    BY DEF Finish, Done, AllowedIn
<1>3. Done(q)' = IF q = p THEN Done(q) \cup {h} ELSE Done(q)
  <2>1. CASE q = p
      BY <1>1, <2>1 DEF Done
  <2>2. CASE q # p
      BY <1>1, <1>2, <2>2 DEF Done
  <2> QED
      BY <2>1, <2>2
<1>4. AllowedIn(q)' = IF q = p /\ v = "allowed" THEN AllowedIn(q) \cup {h} ELSE AllowedIn(q)
  <2>1. CASE q = p /\ v = "allowed"
      BY <1>1, <2>1 DEF AllowedIn
  <2>2. CASE ~(q = p /\ v = "allowed")
      BY <1>1, <1>2, <2>2 DEF AllowedIn
  <2> QED
      BY <2>1, <2>2
<1>5. \A r : Done(r) \in SUBSET Arrival /\ AllowedIn(r) \in SUBSET Arrival
    BY DEF Done, AllowedIn
<1>6. \A r : IsFiniteSet(Done(r)) /\ IsFiniteSet(AllowedIn(r))
    BY <1>5, SubsetCount
<1>7. \A r : /\ Cardinality(Done(r) \cup {h}) = Cardinality(Done(r)) + 1
             /\ Cardinality(AllowedIn(r) \cup {h}) = Cardinality(AllowedIn(r)) + 1
    BY <1>2, <1>6, FS_AddElement
<1>8. Cardinality(Done(p) \cup {h}) <= Cardinality(Arrival)
    BY <1>5, SubsetCount
<1>9. Cardinality(Done(p)) \in Nat /\ Cardinality(Done(q)) \in Nat /\ Cardinality(AllowedIn(q)) \in Nat
    BY DoneCounts
<1> QED
    BY <1>3, <1>4, <1>7, <1>8, <1>9

\* Any other step leaves those sets alone.
LEMMA SameCounts ==
    ASSUME \A g \in Arrival :
               \/ pc'[g] = pc[g] /\ period'[g] = period[g]
               \/ pc[g] \notin {"allowed", "limited"} /\ pc'[g] \notin {"allowed", "limited"},
           NEW q
    PROVE  Done(q)' = Done(q) /\ AllowedIn(q)' = AllowedIn(q)
BY DEF Done, AllowedIn

-----------------------------------------------------------------------------
(* The cull.                                                               *)

\* What a cull takes: entries, which expired or are dropped, and counters,
\* whose increments are lost.
LEMMA CullTakes ==
    ASSUME TypeOK, Cull
    PROVE  /\ UNCHANGED <<now, stamp, pc, period, read>>
           /\ expiry' \in [Request \cup Stranger -> 0 .. MaxTime + Window \cup {None}]
           /\ \A e \in Request : expiry'[e] = expiry[e] \/ expiry[e] < now \/ e \in dropped'
           /\ \A p \in Periods :
                 \/ count'[p] = count[p] /\ lost'[p] = lost[p]
                 \/ count'[p] = 0 /\ lost'[p] = lost[p] + count[p]
           /\ count' \in [Periods -> 0 .. Cardinality(Arrival)]
           /\ lost' \in [Periods -> Nat]
           /\ dropped \subseteq dropped' /\ dropped' \subseteq Request
<1>1. PICK old \in SUBSET {p \in Counters : p < PeriodOf(now)} :
        \E C \in SUBSET (Counters \ old), E \in SUBSET Fresh :
            /\ Cardinality(C) + Cardinality(E)
                 = Culled(Cardinality(Fresh) + Cardinality(Counters \ old))
            /\ E \cap Request # {} => C = Counters \ old
            /\ expiry' = [e \in DOMAIN expiry |-> IF e \in Fresh \ E THEN expiry[e]
                                                  ELSE None]
            /\ count' = [p \in Periods |-> IF p \in old \cup C THEN 0 ELSE count[p]]
            /\ dropped' = dropped \cup (E \cap Request)
            /\ lost' = [p \in Periods |-> IF p \in old \cup C THEN lost[p] + count[p]
                                          ELSE lost[p]]
    BY Zenon DEF Cull
<1>2. PICK C \in SUBSET (Counters \ old), E \in SUBSET Fresh :
            /\ expiry' = [e \in DOMAIN expiry |-> IF e \in Fresh \ E THEN expiry[e]
                                                  ELSE None]
            /\ count' = [p \in Periods |-> IF p \in old \cup C THEN 0 ELSE count[p]]
            /\ dropped' = dropped \cup (E \cap Request)
            /\ lost' = [p \in Periods |-> IF p \in old \cup C THEN lost[p] + count[p]
                                          ELSE lost[p]]
    BY <1>1, Zenon
<1>3. /\ DOMAIN expiry = Request \cup Stranger
      /\ \A e \in Request \cup Stranger : expiry[e] \in 0 .. MaxTime + Window \cup {None}
      /\ now \in Nat
    BY BoundAssumption DEF TypeOK
<1>4. expiry' \in [Request \cup Stranger -> 0 .. MaxTime + Window \cup {None}]
    BY <1>2, <1>3
<1>5. ASSUME NEW e \in Request, expiry'[e] # expiry[e], e \notin dropped'
      PROVE  expiry[e] < now
  <2>1. e \notin Fresh /\ expiry[e] # None
      BY <1>2, <1>3, <1>5
  <2>2. expiry[e] \in Int
      BY <1>3, <2>1, WindowAssumption, BoundAssumption
  <2> QED
      BY <1>3, <2>1, <2>2 DEF Fresh
<1>6. \A p \in Periods : count[p] \in Nat /\ lost[p] \in Nat
    BY ArrivalFinite DEF TypeOK
<1>7. \A p \in Periods :
          \/ count'[p] = count[p] /\ lost'[p] = lost[p]
          \/ count'[p] = 0 /\ lost'[p] = lost[p] + count[p]
    BY <1>2
<1>8. /\ count' \in [Periods -> 0 .. Cardinality(Arrival)]
      /\ lost' \in [Periods -> Nat]
    BY <1>2, <1>6, ArrivalFinite DEF TypeOK
<1>9. dropped \subseteq dropped' /\ dropped' \subseteq Request
    BY <1>2 DEF TypeOK
<1> QED
    BY <1>4, <1>5, <1>7, <1>8, <1>9 DEF Cull

-----------------------------------------------------------------------------
(* The counters.                                                           *)

\* CountFirst and AddCount, as far as they finish an arrival.
LEMMA CountFirstFinishes ==
    ASSUME TypeOK, NEW h \in Arrival, CountFirst(h), pc'[h] = "allowed"
    PROVE  /\ Finish(h, PeriodOf(now), "allowed") /\ PeriodOf(now) \in Periods
           /\ count[PeriodOf(now)] = 0
           /\ count' = [count EXCEPT ![PeriodOf(now)] = 1]
           /\ lost' = lost /\ read' = read
<1>1. PeriodOf(now) \in Periods
    BY PeriodType DEF TypeOK
<1>2. pc' # [pc EXCEPT ![h] = "counting"]
    BY DEF TypeOK
<1> QED
    BY <1>1, <1>2 DEF CountFirst, Finish

\* The counter is left at c, and what it lost at l.
LEMMA AddCountFinishes ==
    ASSUME TypeOK, ReadInv, NEW h \in Arrival, AddCount(h)
    PROVE  \E v \in {"allowed", "limited"}, c \in Nat, l \in Nat :
              /\ Finish(h, period[h], v) /\ period[h] \in Periods
              /\ read[h] \in 1 .. Cardinality(Done(period[h]))
              /\ Earned(read[h], period[h])
              /\ v = "allowed" <=> read[h] + 1 <= Limit
              /\ count' = [count EXCEPT ![period[h]] = c]
              /\ lost' = [lost EXCEPT ![period[h]] = l]
              /\ \/ /\ c = read[h] + 1
                    /\ l = lost[period[h]] + Overwritten(count[period[h]], read[h])
                 \/ c = count[period[h]] /\ l = lost[period[h]] + 1
              /\ read' = [read EXCEPT ![h] = 0]
<1>1. pc[h] = "adding" /\ period' = period
    BY DEF AddCount
<1>2. period[h] \in Periods /\ period' = [period EXCEPT ![h] = period[h]]
    BY <1>1 DEF TypeOK
<1>3. /\ read[h] \in 1 .. Cardinality(Done(period[h]))
      /\ Earned(read[h], period[h])
    BY <1>1 DEF ReadInv
<1>4. read[h] \in Nat /\ count[period[h]] \in Nat /\ lost[period[h]] \in Nat
    BY <1>2, ArrivalFinite DEF TypeOK
<1>5. Overwritten(count[period[h]], read[h]) \in Nat
    BY <1>4 DEF Overwritten
<1>6. \E c \in Nat, l \in Nat :
        /\ count' = [count EXCEPT ![period[h]] = c]
        /\ lost' = [lost EXCEPT ![period[h]] = l]
        /\ \/ /\ c = read[h] + 1
              /\ l = lost[period[h]] + Overwritten(count[period[h]], read[h])
           \/ c = count[period[h]] /\ l = lost[period[h]] + 1
  <2>1. CASE /\ count' = [count EXCEPT ![period[h]] = read[h] + 1]
             /\ lost' = [lost EXCEPT ![period[h]] =
                            lost[period[h]] + Overwritten(count[period[h]], read[h])]
    <3>1. PICK c \in Nat, l \in Nat :
              /\ c = read[h] + 1
              /\ l = lost[period[h]] + Overwritten(count[period[h]], read[h])
        BY <1>4, <1>5
    <3> QED
        BY <2>1, <3>1
  <2>2. CASE count' = count /\ lost' = [lost EXCEPT ![period[h]] = lost[period[h]] + 1]
    <3>1. count' = [count EXCEPT ![period[h]] = count[period[h]]]
        BY <1>2, <2>2 DEF TypeOK
    <3>2. PICK c \in Nat, l \in Nat : c = count[period[h]] /\ l = lost[period[h]] + 1
        BY <1>4
    <3> QED
        BY <2>2, <3>1, <3>2
  <2> QED
      BY <2>1, <2>2 DEF AddCount, NextCount
<1>7. PICK v : v = IF WithinLimit(read[h] + 1) THEN "allowed" ELSE "limited"
    OBVIOUS
<1>8. pc' = [pc EXCEPT ![h] = v]
    BY <1>7 DEF AddCount, NextCount
<1>9. v \in {"allowed", "limited"} /\ (v = "allowed" <=> read[h] + 1 <= Limit)
    BY <1>7 DEF WithinLimit
<1>10. Finish(h, period[h], v)
    BY <1>1, <1>2, <1>8 DEF Finish
<1>11. read' = [read EXCEPT ![h] = 0]
    BY DEF AddCount
<1> QED
    BY <1>2, <1>3, <1>6, <1>9, <1>10, <1>11

\* The steps that finish none.
Quiet ==
    \/ Tick \/ Cull \/ UNCHANGED vars
    \/ \E e \in Stranger : OtherEntry(e)
    \/ \E r \in Request : MakeRequest(r)
    \/ \E h \in Arrival : \/ Authenticate(h) \/ ReadCount(h)
                          \/ CountFirst(h) /\ pc'[h] # "allowed"

LEMMA NextCases ==
    ASSUME [Next]_vars
    PROVE  \/ Quiet
           \/ \E h \in Arrival : CountFirst(h) /\ pc'[h] = "allowed"
           \/ \E h \in Arrival : AddCount(h)
BY DEF Next, Quiet

LEMMA QuietCounts ==
    ASSUME TypeOK, Quiet
    PROVE  /\ \A q : Done(q)' = Done(q) /\ AllowedIn(q)' = AllowedIn(q)
           /\ \A h \in Arrival : pc'[h] = "limited" => pc[h] = "limited" /\ period'[h] = period[h]
<1>1. \A g \in Arrival :
          \/ pc'[g] = pc[g] /\ period'[g] = period[g]
          \/ pc[g] \notin {"allowed", "limited"} /\ pc'[g] \notin {"allowed", "limited"}
  <2>1. CASE \E h \in Arrival : Authenticate(h)
      BY <2>1 DEF TypeOK, Authenticate
  <2>2. CASE \E h \in Arrival : ReadCount(h)
      BY <2>2 DEF TypeOK, ReadCount
  <2>3. CASE \E h \in Arrival : CountFirst(h) /\ pc'[h] # "allowed"
      BY <2>3 DEF TypeOK, CountFirst
  <2>4. CASE \/ Tick \/ Cull \/ UNCHANGED vars \/ \E e \in Stranger : OtherEntry(e)
             \/ \E r \in Request : MakeRequest(r)
      BY <2>4 DEF Tick, Cull, vars, OtherEntry, MakeRequest
  <2> QED
      BY <2>1, <2>2, <2>3, <2>4 DEF Quiet
<1> QED
    BY <1>1, SameCounts

LEMMA TypeStep ==
    ASSUME TypeOK, ReadInv, [Next]_vars
    PROVE  TypeOK'
<1> USE WindowAssumption, BoundAssumption, ArrivalFinite DEF TypeOK
<1>1. CASE Tick
    BY <1>1 DEF Tick
<1>2. CASE Cull
    BY <1>2, CullTakes
<1>3. ASSUME NEW e \in Stranger, OtherEntry(e)
      PROVE  TypeOK'
    BY <1>3 DEF OtherEntry
<1>4. ASSUME NEW r \in Request, MakeRequest(r)
      PROVE  TypeOK'
    BY <1>4 DEF MakeRequest
<1>5. ASSUME NEW h \in Arrival, Authenticate(h)
      PROVE  TypeOK'
  <2>1. h[1] \in Request
      BY ArrivalAssumption
  <2> QED
      BY <1>5, <2>1 DEF Authenticate, NonceExpiry
<1>6. ASSUME NEW h \in Arrival, CountFirst(h)
      PROVE  TypeOK'
  <2>1. PeriodOf(now) \in Periods
      BY PeriodType
  <2>2. Cardinality(Arrival) # 0
      BY FS_EmptySet
  <2> QED
      BY <1>6, <2>1, <2>2 DEF CountFirst
<1>7. ASSUME NEW h \in Arrival, ReadCount(h)
      PROVE  TypeOK'
  <2>1. 0 \in Periods
      BY ZeroPeriod
  <2> QED
      BY <1>7, <2>1 DEF ReadCount
<1>8. ASSUME NEW h \in Arrival, AddCount(h)
      PROVE  TypeOK'
  <2>1. PICK v \in {"allowed", "limited"}, c \in Nat, l \in Nat :
              /\ Finish(h, period[h], v) /\ period[h] \in Periods
              /\ read[h] \in 1 .. Cardinality(Done(period[h]))
              /\ count' = [count EXCEPT ![period[h]] = c]
              /\ lost' = [lost EXCEPT ![period[h]] = l]
              /\ c = read[h] + 1 \/ c = count[period[h]]
              /\ read' = [read EXCEPT ![h] = 0]
      BY <1>8, AddCountFinishes
  <2>2. Cardinality(Done(period[h])) + 1 <= Cardinality(Arrival)
      BY <2>1, FinishCounts
  <2>3. c \in 0 .. Cardinality(Arrival)
      BY <2>1, <2>2, DoneCounts
  <2> QED
      BY <1>8, <2>1, <2>3 DEF AddCount, Finish
<1>9. CASE UNCHANGED vars
    BY <1>9 DEF vars
<1> QED
    BY <1>1, <1>2, <1>3, <1>4, <1>5, <1>6, <1>7, <1>8, <1>9 DEF Next

LEMMA QuietTables ==
    ASSUME TypeOK, TypeOK', Quiet
    PROVE  /\ \A p \in Periods :
                 \/ count'[p] = count[p] /\ lost'[p] = lost[p]
                 \/ count'[p] = 0 /\ lost'[p] = lost[p] + count[p]
           /\ \A h \in Arrival : pc'[h] = "adding" =>
                 \/ pc[h] = "adding" /\ period'[h] = period[h] /\ read'[h] = read[h]
                 \/ period'[h] = period[h] /\ read'[h] = count[period[h]] /\ read'[h] # 0
<1>1. CASE Cull
    BY <1>1, CullTakes
<1>2. CASE ~Cull
  <2>1. lost' = lost /\ count' = count
    <3>1. ASSUME NEW h \in Arrival, CountFirst(h), pc'[h] # "allowed"
          PROVE  lost' = lost /\ count' = count
        BY <3>1 DEF CountFirst, TypeOK
    <3> QED
        BY <1>2, <3>1 DEF Quiet, Tick, vars, OtherEntry, MakeRequest, Authenticate, ReadCount
  <2>2. \A h \in Arrival : pc'[h] = "adding" =>
            \/ pc[h] = "adding" /\ period'[h] = period[h] /\ read'[h] = read[h]
            \/ period'[h] = period[h] /\ read'[h] = count[period[h]] /\ read'[h] # 0
    <3>1. ASSUME NEW g \in Arrival, ReadCount(g), NEW h \in Arrival, pc'[h] = "adding"
          PROVE  \/ pc[h] = "adding" /\ period'[h] = period[h] /\ read'[h] = read[h]
                 \/ period'[h] = period[h] /\ read'[h] = count[period[h]] /\ read'[h] # 0
        BY <3>1 DEF TypeOK, ReadCount
    <3>2. ASSUME NEW g \in Arrival, Authenticate(g) \/ CountFirst(g)
          PROVE  /\ read' = read
                 /\ \A h \in Arrival : pc'[h] = "adding" =>
                        pc[h] = "adding" /\ period'[h] = period[h]
        BY <3>2 DEF TypeOK, Authenticate, CountFirst
    <3>3. CASE \/ Tick \/ UNCHANGED vars \/ \E e \in Stranger : OtherEntry(e)
               \/ \E r \in Request : MakeRequest(r)
        BY <3>3 DEF Tick, vars, OtherEntry, MakeRequest
    <3> QED
        BY <1>2, <3>1, <3>2, <3>3 DEF Quiet
  <2> QED
      BY <2>1, <2>2
<1> QED
    BY <1>1, <1>2

LEMMA QuietStep ==
    ASSUME CInv, TypeOK', Quiet
    PROVE  CountInv' /\ ReadInv' /\ LimitedInv'
<1> TypeOK
    BY DEF CInv
<1>1. \A q : Done(q)' = Done(q) /\ AllowedIn(q)' = AllowedIn(q)
    BY QuietCounts
<1>2. \A q : Cardinality(Done(q)) \in Nat /\ Cardinality(AllowedIn(q)) \in Nat
    BY DoneCounts
<1>3. \A n \in Nat : \A q : Earned(n, q) => Earned(n, q)'
    BY <1>1 DEF Earned
<1>4. CountInv'
  <2>1. SUFFICES ASSUME NEW p \in Periods
                 PROVE  /\ count'[p] <= Cardinality(Done(p))
                        /\ count'[p] <= Cardinality(AllowedIn(p)) \/ Limit <= Cardinality(AllowedIn(p))
                        /\ Cardinality(AllowedIn(p)) <= count'[p] + lost'[p]
                        /\ Cardinality(AllowedIn(p)) <= Limit + lost'[p]
      BY <1>1 DEF CountInv, Earned
  <2>2. /\ count[p] <= Cardinality(Done(p))
        /\ count[p] <= Cardinality(AllowedIn(p)) \/ Limit <= Cardinality(AllowedIn(p))
        /\ Cardinality(AllowedIn(p)) <= count[p] + lost[p]
        /\ Cardinality(AllowedIn(p)) <= Limit + lost[p]
      BY DEF CInv, CountInv, Earned
  <2>3. count[p] \in Nat /\ lost[p] \in Nat /\ Limit \in Nat
      BY ArrivalFinite, LimitAssumption DEF TypeOK
  <2>4. \/ count'[p] = count[p] /\ lost'[p] = lost[p]
        \/ count'[p] = 0 /\ lost'[p] = lost[p] + count[p]
      BY QuietTables
  <2> QED
      BY <1>2, <2>2, <2>3, <2>4
<1>5. ReadInv'
  <2>1. SUFFICES ASSUME NEW h \in Arrival, pc'[h] = "adding"
                 PROVE  /\ read'[h] \in 1 .. Cardinality(Done(period'[h]))
                        /\ \/ read'[h] <= Cardinality(AllowedIn(period'[h]))
                           \/ Limit <= Cardinality(AllowedIn(period'[h]))
      BY <1>1 DEF ReadInv, Earned
  <2>2. CASE pc[h] = "adding" /\ period'[h] = period[h] /\ read'[h] = read[h]
      BY <2>2 DEF CInv, ReadInv, Earned
  <2>3. CASE period'[h] = period[h] /\ read'[h] = count[period[h]] /\ read'[h] # 0
    <3>1. period[h] \in Periods /\ count[period[h]] \in Nat
        BY ArrivalFinite DEF TypeOK
    <3>2. count[period[h]] <= Cardinality(Done(period[h])) /\ Earned(count[period[h]], period[h])
        BY <3>1 DEF CInv, CountInv
    <3> QED
        BY <1>2, <2>3, <3>1, <3>2 DEF Earned
  <2> QED
      BY <2>1, <2>2, <2>3, QuietTables
<1>6. LimitedInv'
    BY <1>1, QuietCounts DEF CInv, LimitedInv
<1> QED
    BY <1>4, <1>5, <1>6

\* An arrival that is counted to the end: what is to show of its period, from
\* the count c and the losses l it left behind, and what of the others.
LEMMA FinishStep ==
    ASSUME CInv, TypeOK', NEW h \in Arrival, NEW p \in Periods, NEW c \in Nat, NEW l \in Nat,
           NEW v \in {"allowed", "limited"}, Finish(h, p, v),
           count' = [count EXCEPT ![p] = c], lost' = [lost EXCEPT ![p] = l],
           \A g \in Arrival \ {h} : read'[g] = read[g],
           c <= Cardinality(Done(p)) + 1,
           v = "allowed" =>
              /\ Earned(c, p) \/ c <= Cardinality(AllowedIn(p)) + 1
              /\ Cardinality(AllowedIn(p)) + 1 <= c + l
              /\ Cardinality(AllowedIn(p)) + 1 <= Limit + l,
           v = "limited" =>
              /\ Limit <= Cardinality(AllowedIn(p))
              /\ Cardinality(AllowedIn(p)) <= c + l
              /\ Cardinality(AllowedIn(p)) <= Limit + l
    PROVE  CountInv' /\ ReadInv' /\ LimitedInv'
<1> TypeOK
    BY DEF CInv
<1>1. \A q : /\ Cardinality(Done(q)) \in Nat /\ Cardinality(AllowedIn(q)) \in Nat
             /\ Cardinality(AllowedIn(q)) <= Cardinality(Done(q))
    BY DoneCounts
<1>2. \A q : /\ Cardinality(Done(q)') = Cardinality(Done(q)) + (IF q = p THEN 1 ELSE 0)
             /\ Cardinality(AllowedIn(q)') = Cardinality(AllowedIn(q))
                                               + (IF q = p /\ v = "allowed" THEN 1 ELSE 0)
    BY FinishCounts
<1>3. \A q : /\ Cardinality(Done(q)') >= Cardinality(Done(q))
             /\ Cardinality(AllowedIn(q)') >= Cardinality(AllowedIn(q))
    BY <1>1, <1>2
<1>4. Limit \in Nat
    BY LimitAssumption
<1>5. CountInv'
  <2>1. SUFFICES ASSUME NEW q \in Periods
                 PROVE  /\ count'[q] <= Cardinality(Done(q)')
                        /\ Earned(count[q], q)'
                        /\ Cardinality(AllowedIn(q)') <= count'[q] + lost'[q]
                        /\ Cardinality(AllowedIn(q)') <= Limit + lost'[q]
      BY DEF CountInv
  <2>2. CASE q = p
    <3>1. count'[q] = c /\ lost'[q] = l
        BY <2>2 DEF TypeOK
    <3>2. /\ Cardinality(Done(q)') = Cardinality(Done(p)) + 1
          /\ Cardinality(AllowedIn(q)') = Cardinality(AllowedIn(p)) + (IF v = "allowed" THEN 1 ELSE 0)
        BY <1>2, <2>2
    <3>3. c <= Cardinality(AllowedIn(q)') \/ Limit <= Cardinality(AllowedIn(q)')
        BY <1>1, <1>4, <3>2 DEF Earned
    <3>4. /\ Cardinality(AllowedIn(q)') <= c + l
          /\ Cardinality(AllowedIn(q)') <= Limit + l
        BY <1>1, <1>4, <3>2
    <3> QED
        BY <3>1, <3>2, <3>3, <3>4 DEF Earned
  <2>3. CASE q # p
    <3>1. /\ count'[q] = count[q] /\ lost'[q] = lost[q]
          /\ Cardinality(Done(q)') = Cardinality(Done(q))
          /\ Cardinality(AllowedIn(q)') = Cardinality(AllowedIn(q))
        BY <1>1, <1>2, <2>3 DEF TypeOK
    <3> QED
        BY <3>1 DEF CInv, CountInv, Earned
  <2> QED
      BY <2>2, <2>3
<1>6. \A g \in Arrival \ {h} : pc'[g] = pc[g] /\ period'[g] = period[g]
    BY DEF Finish, TypeOK
<1>7. pc'[h] = v /\ period'[h] = p
    BY DEF Finish, TypeOK
<1>8. ReadInv'
  <2>1. SUFFICES ASSUME NEW g \in Arrival, pc'[g] = "adding"
                 PROVE  /\ read'[g] \in 1 .. Cardinality(Done(period[g])')
                        /\ Earned(read[g], period[g])'
      BY DEF ReadInv
  <2>2. g # h /\ pc[g] = "adding" /\ period'[g] = period[g] /\ read'[g] = read[g]
      BY <1>6, <1>7, <2>1
  <2>3. /\ read[g] \in 1 .. Cardinality(Done(period[g]))
        /\ Earned(read[g], period[g])
      BY <2>2 DEF CInv, ReadInv
  <2>4. PICK q : q = period[g]
      OBVIOUS
  <2>5. /\ Cardinality(Done(q)') >= Cardinality(Done(q))
        /\ Cardinality(AllowedIn(q)') >= Cardinality(AllowedIn(q))
      BY <1>3
  <2>6. /\ read[g] \in 1 .. Cardinality(Done(q)')
        /\ read[g] <= Cardinality(AllowedIn(q)') \/ Limit <= Cardinality(AllowedIn(q)')
      BY <1>1, <1>2, <1>4, <2>3, <2>4, <2>5 DEF Earned
  <2> QED
      BY <2>2, <2>4, <2>6 DEF Earned
<1>9. LimitedInv'
  <2>1. SUFFICES ASSUME NEW g \in Arrival, pc'[g] = "limited"
                 PROVE  Limit <= Cardinality(AllowedIn(period[g])')
      BY DEF LimitedInv
  <2>2. CASE g = h
      BY <1>1, <1>2, <1>4, <1>7, <2>1, <2>2
  <2>3. CASE g # h
    <3>1. PICK q : q = period[g] /\ q = period'[g]
        BY <1>6, <2>3
    <3>2. Limit <= Cardinality(AllowedIn(q))
        BY <1>6, <2>1, <2>3, <3>1 DEF CInv, LimitedInv
    <3> QED
        BY <1>1, <1>2, <1>4, <3>1, <3>2
  <2> QED
      BY <2>2, <2>3
<1> QED
    BY <1>5, <1>8, <1>9

LEMMA CountFirstStep ==
    ASSUME CInv, TypeOK', NEW h \in Arrival, CountFirst(h), pc'[h] = "allowed"
    PROVE  CountInv' /\ ReadInv' /\ LimitedInv'
<1> TypeOK
    BY DEF CInv
<1>1. PICK p : p = PeriodOf(now)
    OBVIOUS
<1>2. /\ p \in Periods /\ count[p] = 0
      /\ Finish(h, p, "allowed") /\ count' = [count EXCEPT ![p] = 1]
      /\ lost' = lost /\ read' = read
    BY <1>1, CountFirstFinishes
<1>3. Cardinality(Done(p)) \in Nat /\ Cardinality(AllowedIn(p)) \in Nat
    BY DoneCounts
<1>4. lost[p] \in Nat /\ Cardinality(AllowedIn(p)) <= lost[p]
    BY <1>2, <1>3 DEF CInv, CountInv, TypeOK
<1>5. PICK c \in Nat, l \in Nat : c = 1 /\ l = lost[p]
    BY <1>4
<1>6. /\ c <= Cardinality(Done(p)) + 1 /\ c <= Cardinality(AllowedIn(p)) + 1
      /\ Cardinality(AllowedIn(p)) + 1 <= c + l
      /\ Cardinality(AllowedIn(p)) + 1 <= Limit + l
    BY <1>3, <1>4, <1>5, LimitAssumption
<1>7. count' = [count EXCEPT ![p] = c] /\ lost' = [lost EXCEPT ![p] = l]
      /\ \A g \in Arrival \ {h} : read'[g] = read[g]
    BY <1>2, <1>5 DEF TypeOK
<1> QED
    BY <1>2, <1>6, <1>7, FinishStep

\* The sums of a counted arrival: A were allowed, the counter was at n and had
\* lost m, the arrival read k.
LEMMA LossesPay ==
    ASSUME NEW A \in Nat, NEW n \in Nat, NEW m \in Nat, NEW k \in Nat, NEW c \in Nat, NEW l \in Nat,
           A <= n + m, A <= Limit + m,
           \/ c = k + 1 /\ l = m + Overwritten(n, k)
           \/ c = n /\ l = m + 1
    PROVE  /\ A <= c + l /\ A <= Limit + l
           /\ k + 1 <= Limit => A + 1 <= c + l /\ A + 1 <= Limit + l
<1>1. Limit \in Nat
    BY LimitAssumption
<1>2. CASE c = n /\ l = m + 1
    BY <1>1, <1>2
<1>3. CASE c = k + 1 /\ l = m + (n - k) /\ n > k
    BY <1>1, <1>3
<1>4. CASE c = k + 1 /\ l = m /\ n <= k
    BY <1>1, <1>4
<1> QED
    BY <1>2, <1>3, <1>4 DEF Overwritten

LEMMA AddCountStep ==
    ASSUME CInv, TypeOK', NEW h \in Arrival, AddCount(h)
    PROVE  CountInv' /\ ReadInv' /\ LimitedInv'
<1> TypeOK /\ ReadInv
    BY DEF CInv
<1>1. PICK p, k : p = period[h] /\ k = read[h]
    OBVIOUS
<1>2. PICK v \in {"allowed", "limited"}, c \in Nat, l \in Nat :
        /\ Finish(h, p, v) /\ p \in Periods
        /\ k \in 1 .. Cardinality(Done(p))
        /\ Earned(k, p)
        /\ v = "allowed" <=> k + 1 <= Limit
        /\ count' = [count EXCEPT ![p] = c]
        /\ lost' = [lost EXCEPT ![p] = l]
        /\ \/ c = k + 1 /\ l = lost[p] + Overwritten(count[p], k)
           \/ c = count[p] /\ l = lost[p] + 1
        /\ read' = [read EXCEPT ![h] = 0]
    BY <1>1, AddCountFinishes
<1>3. Cardinality(Done(p)) \in Nat /\ Cardinality(AllowedIn(p)) \in Nat /\ Limit \in Nat
    BY DoneCounts, LimitAssumption
<1>4. k \in Nat /\ count[p] \in Nat /\ lost[p] \in Nat
    BY <1>2, <1>3, ArrivalFinite DEF TypeOK
<1>5. /\ count[p] <= Cardinality(Done(p)) /\ Earned(count[p], p)
      /\ Cardinality(AllowedIn(p)) <= count[p] + lost[p]
      /\ Cardinality(AllowedIn(p)) <= Limit + lost[p]
    BY <1>2 DEF CInv, CountInv
<1>6. /\ Cardinality(AllowedIn(p)) <= c + l /\ Cardinality(AllowedIn(p)) <= Limit + l
      /\ v = "allowed" => /\ Cardinality(AllowedIn(p)) + 1 <= c + l
                          /\ Cardinality(AllowedIn(p)) + 1 <= Limit + l
    BY <1>2, <1>3, <1>4, <1>5, LossesPay
<1>7. c <= Cardinality(Done(p)) + 1
    BY <1>2, <1>3, <1>4, <1>5
<1>8. v = "allowed" => Earned(c, p) \/ c <= Cardinality(AllowedIn(p)) + 1
  <2>1. CASE c = count[p]
      BY <1>5, <2>1
  <2>2. CASE c = k + 1
      BY <1>2, <1>3, <1>4, <2>2 DEF Earned
  <2> QED
      BY <1>2, <2>1, <2>2
<1>9. v = "limited" => Limit <= Cardinality(AllowedIn(p))
  <2>1. v = "limited" => k >= Limit
      BY <1>2, <1>3, <1>4
  <2> QED
      BY <1>2, <1>3, <1>4, <2>1 DEF Earned
<1>10. \A g \in Arrival \ {h} : read'[g] = read[g]
    BY <1>2 DEF TypeOK
<1> QED
    BY <1>2, <1>6, <1>7, <1>8, <1>9, <1>10, FinishStep

LEMMA CountsInit == Init => CInv
<1> SUFFICES ASSUME Init PROVE CInv
    OBVIOUS
<1>1. PeriodOf(0) \in Periods /\ 0 \in Periods
    BY DivMonotone, BoundAssumption, WindowAssumption DEF PeriodOf, Periods
<1>2. TypeOK
    BY <1>1, ArrivalFinite, WindowAssumption, BoundAssumption DEF Init, TypeOK
<1>3. \A p : Done(p) = {} /\ AllowedIn(p) = {}
    BY DEF Init, Done, AllowedIn
<1>4. \A p : Cardinality(Done(p)) = 0 /\ Cardinality(AllowedIn(p)) = 0
    BY <1>3, FS_EmptySet
<1>5. CountInv
    BY <1>4, LimitAssumption DEF Init, CountInv, Earned
<1>6. ReadInv /\ LimitedInv
    BY DEF Init, ReadInv, LimitedInv
<1> QED
    BY <1>2, <1>5, <1>6 DEF CInv

LEMMA CountsStep == CInv /\ [Next]_vars => CInv'
<1> SUFFICES ASSUME CInv, [Next]_vars
             PROVE  CInv'
    OBVIOUS
<1>1. TypeOK'
    BY TypeStep DEF CInv
<1>2. CASE Quiet
    BY <1>1, <1>2, QuietStep DEF CInv
<1>3. CASE \E h \in Arrival : CountFirst(h) /\ pc'[h] = "allowed"
    BY <1>1, <1>3, CountFirstStep DEF CInv
<1>4. CASE \E h \in Arrival : AddCount(h)
    BY <1>1, <1>4, AddCountStep DEF CInv
<1> QED
    BY <1>2, <1>3, <1>4, NextCases

LEMMA CountsInvariance == Spec => []CInv
BY CountsInit, CountsStep, PTL DEF Spec

\* The rate limit of the Django directory: for every request of a period that
\* passes beyond Limit its counter lost an increment, and whatever happened to
\* the counter, no request is turned away before Limit of its period have
\* passed.
THEOREM TheLimitIsKept == Spec => []LimitKept
<1>1. CInv => LimitKept
  <2> SUFFICES ASSUME CInv PROVE LimitKept
      OBVIOUS
  <2>1. \A p : Cardinality(AllowedIn(p)) \in Nat
      BY DoneCounts
  <2>2. \A p \in Periods : Cardinality(AllowedIn(p)) <= Limit + lost[p]
      BY DEF CInv, CountInv
  <2>3. \A h \in Arrival : pc[h] = "limited" => Cardinality(AllowedIn(period[h])) >= Limit
      BY <2>1, LimitAssumption DEF CInv, LimitedInv
  <2> QED
      BY <2>2, <2>3 DEF CInv, LimitKept
<1> QED
    BY <1>1, CountsInvariance, PTL

-----------------------------------------------------------------------------
(* The nonces, when the client's clock is not ahead of the server's.       *)

ClocksAgree == MaxAhead = 0

LEMMA AuthenticateNonce ==
    ASSUME NInv, NEW h \in Arrival, Authenticate(h)
    PROVE  NonceInv' /\ RequestSingleUse'
<1> USE WindowAssumption, BoundAssumption, NoneAssumption
<1>1. PICK r \in Request : r = h[1]
    BY ArrivalAssumption
<1>2. /\ now \in Nat /\ stamp[r] \in Nat /\ stamp[r] <= now
      /\ expiry[r] \in Int \/ expiry[r] = None
    BY <1>1 DEF NInv, TypeOK, StampInv, Authenticate
<1>3. UNCHANGED <<now, stamp, dropped>> /\ \A g \in Arrival \ {h} : pc'[g] = pc[g]
    BY DEF Authenticate, NInv, TypeOK
<1>4. CASE pc'[h] = "rejected" /\ expiry' = expiry
  <2>1. \A g \in Arrival : Admitted(g)' => Admitted(g)
      BY <1>3, <1>4 DEF Admitted
  <2> QED
      BY <1>3, <1>4, <2>1 DEF NInv, NonceInv, RequestSingleUse
<1>5. CASE InWindow(r) /\ NonceIsNew(r) /\ expiry' = [expiry EXCEPT ![r] = now + Window]
  <2>1. \A g \in Arrival : Admitted(g) /\ g[1] = r => r \in dropped
      BY <1>2, <1>5 DEF NInv, NonceInv, InWindow, NonceIsNew
  <2>2. \A g \in Arrival \ {h} : Admitted(g)' <=> Admitted(g)
      BY <1>3 DEF Admitted
  <2>3. /\ expiry'[r] = now + Window
        /\ \A q \in Request \ {r} : expiry'[q] = expiry[q]
      BY <1>5 DEF NInv, TypeOK
  <2>4. NonceInv'
    <3>1. SUFFICES ASSUME NEW g \in Arrival, Admitted(g)', g[1] \notin dropped
                   PROVE  /\ stamp[g[1]] # None
                          /\ \/ now > stamp[g[1]] + Window
                             \/ expiry'[g[1]] # None /\ expiry'[g[1]] >= stamp[g[1]] + Window
        BY <1>3 DEF NonceInv
    <3>2. CASE g[1] = r
        BY <1>2, <2>3, <3>2
    <3>3. CASE g[1] # r
      <4>1. Admitted(g) /\ g[1] \in Request \ {r}
          BY <1>1, <2>2, <3>1, <3>3, ArrivalAssumption
      <4> QED
          BY <2>3, <3>1, <4>1 DEF NInv, NonceInv
    <3> QED
        BY <3>2, <3>3
  <2>5. RequestSingleUse'
      BY <1>1, <1>3, <2>1, <2>2 DEF NInv, RequestSingleUse
  <2> QED
      BY <2>4, <2>5
<1> QED
    BY <1>1, <1>4, <1>5 DEF Authenticate, NonceExpiry, NInv, TypeOK

\* No other step admits an arrival.
LEMMA OtherAdmitted ==
    ASSUME TypeOK, [Next]_vars, ~ \E h \in Arrival : Authenticate(h)
    PROVE  \A g \in Arrival : Admitted(g)' => Admitted(g)
BY DEF TypeOK, Next, Tick, Cull, vars, OtherEntry, MakeRequest, ReadCount, CountFirst, AddCount,
       Admitted

LEMMA NonceStep ==
    ASSUME ClocksAgree, NInv, TypeOK', [Next]_vars
    PROVE  NInv'
<1> USE WindowAssumption, BoundAssumption, NoneAssumption
<1> TypeOK /\ StampInv /\ NonceInv /\ RequestSingleUse
    BY DEF NInv
<1>1. now \in Nat /\ \A r \in Request : stamp[r] \in Nat \/ stamp[r] = None
    BY DEF TypeOK
<1>2. StampInv'
  <2>1. ASSUME NEW r \in Request, MakeRequest(r)
        PROVE  StampInv'
    <3>1. now' = now /\ stamp' = [stamp EXCEPT ![r] = now]
        BY <1>1, <2>1 DEF MakeRequest, ClocksAgree
    <3> QED
        BY <1>1, <3>1 DEF StampInv, TypeOK
  <2>2. ASSUME ~ \E r \in Request : MakeRequest(r)
        PROVE  stamp' = stamp /\ (now' = now \/ now' = now + 1)
      BY <2>2 DEF Next, Tick, Cull, vars, OtherEntry, Authenticate, ReadCount, CountFirst, AddCount
  <2>3. CASE stamp' = stamp /\ (now' = now \/ now' = now + 1)
      BY <1>1, <2>3 DEF StampInv
  <2> QED
      BY <2>1, <2>2, <2>3
<1>3. NonceInv' /\ RequestSingleUse'
  <2>1. CASE \E h \in Arrival : Authenticate(h)
      BY <2>1, AuthenticateNonce
  <2>2. CASE ~ \E h \in Arrival : Authenticate(h)
    <3>1. \A g \in Arrival : Admitted(g)' => Admitted(g)
        BY <2>2, OtherAdmitted
    <3>2. dropped \subseteq dropped' /\ now' >= now
      <4>1. CASE Cull
          BY <1>1, <4>1, CullTakes
      <4>2. CASE ~Cull
        <5>1. dropped' = dropped /\ (now' = now \/ now' = now + 1)
            BY <2>2, <4>2 DEF Next, Tick, vars, OtherEntry, MakeRequest, ReadCount, CountFirst,
                              AddCount
        <5> QED
            BY <1>1, <5>1
      <4> QED
          BY <4>1, <4>2
    <3>3. \A r \in Request : /\ stamp[r] # None => stamp'[r] = stamp[r]
                             /\ expiry'[r] = expiry[r] \/ expiry[r] < now \/ r \in dropped'
      <4>1. CASE Cull
          BY <4>1, CullTakes
      <4>2. CASE \E e \in Stranger : OtherEntry(e)
          BY <4>2, RequestAssumption DEF OtherEntry, TypeOK
      <4>3. CASE ~Cull /\ ~ \E e \in Stranger : OtherEntry(e)
        <5>1. expiry' = expiry
            BY <2>2, <4>3 DEF Next, Tick, vars, MakeRequest, ReadCount, CountFirst, AddCount
        <5>2. \A r \in Request : stamp[r] # None => stamp'[r] = stamp[r]
            BY <2>2, <4>3 DEF Next, Tick, vars, MakeRequest, ReadCount, CountFirst, AddCount,
                              TypeOK
        <5> QED
            BY <5>1, <5>2
      <4> QED
          BY <4>1, <4>2, <4>3
    <3>4. NonceInv'
      <4>1. SUFFICES ASSUME NEW g \in Arrival, Admitted(g)', g[1] \notin dropped'
                     PROVE  /\ stamp'[g[1]] # None
                            /\ \/ now' > stamp'[g[1]] + Window
                               \/ expiry'[g[1]] # None /\ expiry'[g[1]] >= stamp'[g[1]] + Window
          BY DEF NonceInv
      <4>2. PICK r \in Request : r = g[1]
          BY ArrivalAssumption
      <4>3. /\ stamp[r] # None
            /\ \/ now > stamp[r] + Window
               \/ expiry[r] # None /\ expiry[r] >= stamp[r] + Window
          BY <3>1, <3>2, <4>1, <4>2 DEF NonceInv
      <4>4. now' \in Nat /\ stamp'[r] = stamp[r] /\ stamp[r] \in Nat
          BY <1>1, <3>3, <4>3 DEF TypeOK
      <4>5. expiry[r] \in Int \/ expiry[r] = None
          BY DEF TypeOK
      <4> QED
          BY <1>1, <3>2, <3>3, <4>1, <4>2, <4>3, <4>4, <4>5
    <3>5. RequestSingleUse'
        BY <3>1, <3>2 DEF RequestSingleUse
    <3> QED
        BY <3>4, <3>5
  <2> QED
      BY <2>1, <2>2
<1> QED
    BY <1>2, <1>3 DEF NInv

LEMMA NonceInvariance ==
    ASSUME ClocksAgree
    PROVE  Spec => []NInv
<1>1. Init => NInv
    BY CountsInit DEF Init, CInv, NInv, StampInv, NonceInv, RequestSingleUse, Admitted
<1>2. CInv /\ CInv' /\ NInv /\ [Next]_vars => NInv'
    BY NonceStep DEF CInv
<1> QED
    BY <1>1, <1>2, CountsInvariance, PTL DEF Spec

\* A signed request is admitted once, however often it arrives, however late and
\* at however many workers at once, unless the cache was so full that it dropped
\* the nonce, and if the client's clock is not ahead of the server's.
THEOREM SignedRequestsAreSingleUse ==
    ASSUME ClocksAgree
    PROVE  Spec => []RequestSingleUse
<1>1. NInv => RequestSingleUse
    BY DEF NInv
<1> QED
    BY <1>1, NonceInvariance, PTL
=============================================================================
