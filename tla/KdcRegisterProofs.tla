-------------------------- MODULE KdcRegisterProofs --------------------------
(***************************************************************************)
(* Proofs about KdcRegister, for every set of calls, prekey ids and keys,  *)
(* every bundle, any number of copies of a request and of server restarts. *)
(***************************************************************************)
EXTENDS KdcRegister, TLAPS

USE NoneAssumption, BundleAssumption, BoundAssumption

\* A handler is the arrival of a copy of the request of a call.
LEMMA PostIsPair ==
    ASSUME NEW h \in Post
    PROVE  /\ CallOf(h) \in Call /\ h[2] \in 1 .. CopiesOf[CallOf(h)]
           /\ h = <<CallOf(h), h[2]>>
           /\ h[2] > 1 => <<CallOf(h), h[2] - 1>> \in Post
<1>1. PICK c \in Call : h \in {c} \X (1 .. CopiesOf[c])
    BY DEF Post
<1>2. CallOf(h) = c /\ h[2] \in 1 .. CopiesOf[c] /\ h = <<c, h[2]>>
    BY <1>1 DEF CallOf
<1>3. h[2] > 1 => <<c, h[2] - 1>> \in {c} \X (1 .. CopiesOf[c])
    BY <1>2
<1>4. QED
    BY <1>2, <1>3 DEF Post

\* get_or_create makes rows of the bundle and leaves the others.
LEMMA CreatedRows ==
    ASSUME TypeOK, NEW h \in Post, NEW S \in SUBSET Bundle(h)
    PROVE  /\ Created(h, S) \in [Id -> Material \cup {None}]
           /\ \A i \in Id : rows[i] # None => Created(h, S)[i] = rows[i]
           /\ \A i \in Id : Created(h, S)[i] # rows[i] => i \in Bundle(h)
           /\ \A i \in S : rows[i] = None => Created(h, S)[i] = BundleOf[CallOf(h)][i]
<1>1. CallOf(h) \in Call /\ S \subseteq Id
    BY PostIsPair DEF Bundle
<1>2. \A i \in S : BundleOf[CallOf(h)][i] \in Material \cup {None}
    BY <1>1
<1>3. QED
    BY <1>1, <1>2 DEF TypeOK, Created

LEMMA TypeStep == TypeOK /\ [Next]_vars => TypeOK'
<1> SUFFICES ASSUME TypeOK, [Next]_vars
             PROVE  TypeOK'
    OBVIOUS
<1> USE DEF TypeOK
<1>1. ASSUME NEW c \in Call, GetChallenge(c) \/ CallFails(c)
      PROVE  TypeOK'
    BY <1>1 DEF GetChallenge, CallFails
<1>2. ASSUME NEW h \in Post, SendRegister(h) \/ GetAnswer(h)
      PROVE  TypeOK'
  <2>1. CallOf(h) \in Call
      BY PostIsPair
  <2>2. cpc' \in [Call -> {"idle", "challenged", "posting", "registered", "failed"}]
      BY <1>2, <2>1 DEF SendRegister, GetAnswer
  <2>3. hpc' = hpc \/ hpc' = [hpc EXCEPT ![h] = "arrived"]
      BY <1>2 DEF SendRegister, GetAnswer
  <2>4. UNCHANGED <<slot, identity, rows, pending, audited>>
      BY <1>2 DEF SendRegister, GetAnswer
  <2>5. QED
      BY <2>2, <2>3, <2>4
<1>3. ASSUME NEW h \in Post,
             \/ ReadChallenge(h) \/ DeleteChallenge(h) \/ RejectBundle(h) \/ CommitFails(h)
             \/ AppendAudit(h)
      PROVE  TypeOK'
    BY <1>3 DEF ReadChallenge, DeleteChallenge, RejectBundle, CommitFails, AppendAudit
<1>4. ASSUME NEW h \in Post, CommitBundle(h) \/ RefuseConflict(h)
      PROVE  TypeOK'
  <2>1. identity' \in IdentityKey \cup {None}
    <3>1. IdentityOf[CallOf(h)] \in IdentityKey
        BY PostIsPair
    <3>2. identity' \in {identity, IdentityOf[CallOf(h)]}
        BY <1>4 DEF CommitBundle, RefuseConflict
    <3>3. QED
        BY <3>1, <3>2
  <2>2. rows' = rows \/ \E S \in SUBSET Bundle(h) : rows' = Created(h, S)
      BY <1>4 DEF CommitBundle, RefuseConflict
  <2>3. rows' \in [Id -> Material \cup {None}]
      BY <2>2, CreatedRows
  <2>4. QED
      BY <1>4, <2>1, <2>3 DEF CommitBundle, RefuseConflict
<1>5. CASE Expire \/ Crash \/ UNCHANGED vars
    BY <1>5 DEF Expire, Crash, vars
<1>6. QED
    BY <1>1, <1>2, <1>3, <1>4, <1>5 DEF Next

-----------------------------------------------------------------------------
(* What is published stays.                                                *)

LEMMA KeptStep ==
    ASSUME TypeOK, [Next]_vars
    PROVE  /\ identity # None => identity' = identity
           /\ \A i \in Id : rows[i] # None => rows'[i] = rows[i]
<1>1. ASSUME NEW h \in Post, CommitBundle(h) \/ RefuseConflict(h)
      PROVE  /\ identity # None => identity' = identity
             /\ \A i \in Id : rows[i] # None => rows'[i] = rows[i]
  <2>1. identity # None => identity' = identity
      BY <1>1 DEF CommitBundle, RefuseConflict, SameIdentity
  <2>2. rows' = rows \/ \E S \in SUBSET Bundle(h) : rows' = Created(h, S)
      BY <1>1 DEF CommitBundle, RefuseConflict
  <2>3. QED
      BY <2>1, <2>2, CreatedRows
<1>2. CASE UNCHANGED <<identity, rows>>
    BY <1>2
<1>3. QED
    BY <1>1, <1>2
    DEF Next, vars, GetChallenge, CallFails, SendRegister, GetAnswer, ReadChallenge,
        DeleteChallenge, RejectBundle, CommitFails, AppendAudit, Expire, Crash

\* No registration, in any order and however often repeated, changes the
\* identity key or a prekey that is already published.
THEOREM PublishedForever == Spec => PublishedKeysKept
<1>1. Init => TypeOK
    BY DEF Init, TypeOK
<1>2. TypeOK /\ [Next]_vars =>
          [ /\ identity # None => identity' = identity
            /\ \A i \in Id : rows[i] # None => rows'[i] = rows[i] ]_vars
    BY KeptStep
<1>3. QED
    BY <1>1, <1>2, TypeStep, PTL DEF Spec, PublishedKeysKept

-----------------------------------------------------------------------------
(* What a call and the audit log say of it.                                 *)

\* The directory serves what call c publishes.
Serves(c) ==
    /\ identity = IdentityOf[c]
    /\ \A i \in Id : BundleOf[c][i] # None => rows[i] = BundleOf[c][i]

\* The handler is why prekey i may be published.
Explains(h, i) ==
    /\ i \in Bundle(h)
    /\ h \in audited \/ hpc[h] \in {"committed", "conflict", "error", "dead"}

StoreInv ==
    /\ \A h \in Post : hpc[h] \in {"committed", "done"} => Serves(CallOf(h))
    /\ \A h \in Post : hpc[h] = "done" => h \in audited
    /\ \A c \in Call : cpc[c] = "registered" =>
          Serves(c) /\ \E h \in audited : CallOf(h) = c
    /\ \A i \in Id : rows[i] # None => \E h \in Post : Explains(h, i)

\* What is served once is served from then on.
LEMMA ServesOn ==
    ASSUME TypeOK, [Next]_vars, NEW c \in Call, Serves(c)
    PROVE  Serves(c)'
<1>1. identity # None /\ \A i \in Id : BundleOf[c][i] # None => rows[i] # None
    BY DEF Serves
<1>2. QED
    BY <1>1, KeptStep DEF Serves

LEMMA StoreStep ==
    ASSUME TypeOK, StoreInv, [Next]_vars
    PROVE  StoreInv'
<1>0. /\ hpc \in [Post -> {"none", "arrived", "got", "denied", "authed", "invalid",
                           "conflict", "committed", "done", "error", "dead"}]
      /\ cpc \in [Call -> {"idle", "challenged", "posting", "registered", "failed"}]
    BY DEF TypeOK
<1>1. \A c \in Call : Serves(c) => Serves(c)'
    BY ServesOn
<1>2. \A h \in Post : CallOf(h) \in Call
    BY PostIsPair
<1>4. ASSUME NEW c \in Call, GetChallenge(c) \/ CallFails(c)
      PROVE  StoreInv'
  <2>1. /\ UNCHANGED <<identity, rows, audited, hpc>>
        /\ \A d \in Call : cpc'[d] = "registered" => cpc[d] = "registered"
      BY <1>0, <1>4 DEF GetChallenge, CallFails
  <2>2. QED
      BY <2>1 DEF StoreInv, Serves, Explains, Bundle
<1>5. ASSUME NEW h \in Post, SendRegister(h)
      PROVE  StoreInv'
  <2>1. /\ UNCHANGED <<identity, rows, audited>>
        /\ hpc[h] = "none" /\ hpc' = [hpc EXCEPT ![h] = "arrived"]
        /\ \A d \in Call : cpc'[d] = "registered" => cpc[d] = "registered"
      BY <1>0, <1>2, <1>5 DEF SendRegister
  <2>2. \A g \in Post, i \in Id : Explains(g, i) => Explains(g, i)'
      BY <1>0, <2>1 DEF Explains, Bundle
  <2>3. \A g \in Post : hpc'[g] \in {"committed", "done"} =>
            Serves(CallOf(g))' /\ (hpc'[g] = "done" => g \in audited')
      BY <1>0, <1>1, <1>2, <2>1 DEF StoreInv
  <2>4. \A c \in Call : cpc'[c] = "registered" =>
            Serves(c)' /\ \E g \in audited' : CallOf(g) = c
      BY <1>1, <2>1 DEF StoreInv
  <2>5. \A i \in Id : rows'[i] # None => \E g \in Post : Explains(g, i)'
      BY <2>1, <2>2 DEF StoreInv
  <2>6. QED
      BY <2>3, <2>4, <2>5 DEF StoreInv
<1>6. ASSUME NEW h \in Post, GetAnswer(h)
      PROVE  StoreInv'
  <2>1. /\ UNCHANGED <<identity, rows, audited, hpc>>
        /\ \A d \in Call : cpc'[d] = "registered" =>
               cpc[d] = "registered" \/ (d = CallOf(h) /\ hpc[h] = "done")
      BY <1>0, <1>2, <1>6 DEF GetAnswer
  <2>2. \A c \in Call : cpc'[c] = "registered" =>
            Serves(c)' /\ \E g \in audited' : CallOf(g) = c
      BY <1>1, <2>1 DEF StoreInv
  <2>3. \A i \in Id : rows'[i] # None => \E g \in Post : Explains(g, i)'
      BY <2>1 DEF StoreInv, Explains, Bundle
  <2>4. QED
      BY <1>1, <1>2, <2>1, <2>2, <2>3 DEF StoreInv
<1>7. ASSUME NEW h \in Post,
             ReadChallenge(h) \/ DeleteChallenge(h) \/ RejectBundle(h) \/ CommitFails(h)
      PROVE  StoreInv'
  <2>1. /\ UNCHANGED <<identity, rows, audited, cpc>>
        /\ hpc[h] \in {"arrived", "got", "authed"}
        /\ \E q \in {"got", "denied", "authed", "invalid", "error"} :
               hpc' = [hpc EXCEPT ![h] = q]
      BY <1>7 DEF ReadChallenge, DeleteChallenge, RejectBundle, CommitFails
  <2>2. QED
      BY <1>0, <2>1 DEF StoreInv, Serves, Explains, Bundle
<1>8. ASSUME NEW h \in Post, CommitBundle(h) \/ RefuseConflict(h)
      PROVE  StoreInv'
  <2>1. /\ UNCHANGED <<audited, cpc>> /\ hpc[h] = "authed"
        /\ \/ hpc' = [hpc EXCEPT ![h] = "committed"] /\ CommitBundle(h)
           \/ hpc' = [hpc EXCEPT ![h] = "conflict"]
        /\ rows' = rows \/ \E S \in SUBSET Bundle(h) : rows' = Created(h, S)
      BY <1>8 DEF CommitBundle, RefuseConflict
  <2>2. CommitBundle(h) => Serves(CallOf(h))'
    <3>1. SUFFICES ASSUME CommitBundle(h)
                   PROVE  Serves(CallOf(h))'
        OBVIOUS
    <3>2. /\ identity' = IdentityOf[CallOf(h)] /\ rows' = Created(h, Bundle(h))
          /\ Conflicting(h) = {}
        BY <3>1 DEF CommitBundle
    <3>3. \A i \in Bundle(h) : i \in Id /\ rows[i] \in {None, BundleOf[CallOf(h)][i]}
        BY <3>2 DEF Conflicting, Bundle
    <3>4. \A i \in Bundle(h) : rows'[i] = BundleOf[CallOf(h)][i]
        BY <3>2, <3>3, CreatedRows
    <3>5. QED
        BY <3>2, <3>4 DEF Serves, Bundle
  <2>3. \A g \in Post : hpc'[g] \in {"committed", "done"} => Serves(CallOf(g))'
      BY <1>0, <1>1, <1>2, <2>1, <2>2 DEF StoreInv
  <2>4. \A g \in Post : hpc'[g] = "done" => g \in audited'
      BY <1>0, <2>1 DEF StoreInv
  <2>5. \A c \in Call : cpc'[c] = "registered" =>
            Serves(c)' /\ \E g \in audited' : CallOf(g) = c
      BY <1>1, <2>1 DEF StoreInv
  <2>6. ASSUME NEW i \in Id, rows'[i] # None
        PROVE  \E g \in Post : Explains(g, i)'
    <3>1. CASE rows[i] = None
      <4>1. i \in Bundle(h)
          BY <2>1, <2>6, <3>1, CreatedRows
      <4>2. hpc'[h] \in {"committed", "conflict"}
          BY <1>0, <2>1
      <4>3. QED
          BY <4>1, <4>2 DEF Explains, Bundle
    <3>2. CASE rows[i] # None
      <4>1. PICK g \in Post : Explains(g, i)
          BY <3>2 DEF StoreInv
      <4>2. Explains(g, i)'
          BY <1>0, <2>1, <4>1 DEF Explains, Bundle
      <4>3. QED
          BY <4>2
    <3>3. QED
        BY <3>1, <3>2
  <2>7. QED
      BY <2>3, <2>4, <2>5, <2>6 DEF StoreInv
<1>9. ASSUME NEW h \in Post, AppendAudit(h)
      PROVE  StoreInv'
  <2>1. /\ UNCHANGED <<identity, rows, cpc>> /\ hpc[h] = "committed"
        /\ \/ audited' = audited \cup {h} /\ hpc' = [hpc EXCEPT ![h] = "done"]
           \/ audited' = audited /\ hpc' = [hpc EXCEPT ![h] = "error"]
      BY <1>9 DEF AppendAudit
  <2>2. \A g \in Post, i \in Id : Explains(g, i) => Explains(g, i)'
      BY <1>0, <2>1 DEF Explains, Bundle
  <2>3. QED
      BY <1>0, <1>1, <1>2, <2>1, <2>2 DEF StoreInv
<1>10. CASE Crash
  <2>1. /\ UNCHANGED <<identity, rows, cpc, audited>>
        /\ hpc' = [h \in Post |-> IF Running(h) THEN "dead" ELSE hpc[h]]
      BY <1>10 DEF Crash
  <2>2. \A g \in Post, i \in Id : Explains(g, i) => Explains(g, i)'
      BY <1>0, <2>1 DEF Explains, Bundle
  <2>3. QED
      BY <1>0, <1>1, <1>2, <2>1, <2>2 DEF StoreInv
<1>11. CASE Expire \/ UNCHANGED vars
    BY <1>11 DEF Expire, vars, StoreInv, Serves, Explains, Bundle
<1>12. QED
    BY <1>4, <1>5, <1>6, <1>7, <1>8, <1>9, <1>10, <1>11 DEF Next

\* A call that returned normally is served and in the audit log, however its
\* requests were repeated and interleaved with others, and every published
\* prekey has an entry or was left by a call that failed half way.
THEOREM RegistrationsAreAccounted == Spec => []StoredAndAudited
<1>1. Init => TypeOK /\ StoreInv
    BY DEF Init, TypeOK, StoreInv
<1>2. TypeOK /\ StoreInv /\ [Next]_vars => TypeOK' /\ StoreInv'
    BY TypeStep, StoreStep
<1>3. TypeOK /\ StoreInv => StoredAndAudited
    BY DEF StoreInv, StoredAndAudited, Serves, Explains
<1>4. QED
    BY <1>1, <1>2, <1>3, PTL DEF Spec

-----------------------------------------------------------------------------
(* Challenges.                                                              *)

\* A call whose request arrived asks for no other challenge, and the one that
\* a handler passed with is deleted.
ChallengeInv ==
    /\ \A h \in Post : hpc[h] # "none" => cpc[CallOf(h)] \notin {"idle", "challenged"}
    /\ \A h \in Post : Passed(h) => slot # CallOf(h)

LEMMA ChallengeStep ==
    ASSUME TypeOK, ChallengeInv, [Next]_vars
    PROVE  ChallengeInv'
<1>0. /\ hpc \in [Post -> {"none", "arrived", "got", "denied", "authed", "invalid",
                           "conflict", "committed", "done", "error", "dead"}]
      /\ cpc \in [Call -> {"idle", "challenged", "posting", "registered", "failed"}]
    BY DEF TypeOK
<1>1. \A h \in Post : CallOf(h) \in Call
    BY PostIsPair
<1>2. ASSUME NEW c \in Call, GetChallenge(c) \/ CallFails(c)
      PROVE  ChallengeInv'
    BY <1>0, <1>1, <1>2 DEF GetChallenge, CallFails, ChallengeInv, Passed
<1>3. ASSUME NEW h \in Post, SendRegister(h)
      PROVE  ChallengeInv'
  <2>1. /\ cpc'[CallOf(h)] \notin {"idle", "challenged"}
        /\ \A c \in Call : c # CallOf(h) => cpc'[c] = cpc[c]
    <3>1. CASE h[2] = 1
        BY <1>0, <1>1, <1>3, <3>1 DEF SendRegister
    <3>2. CASE h[2] # 1
      <4>1. h[2] > 1 /\ hpc[<<CallOf(h), h[2] - 1>>] # "none" /\ cpc' = cpc
          BY <1>3, <3>2 DEF SendRegister
      <4>2. /\ <<CallOf(h), h[2] - 1>> \in Post
            /\ CallOf(<<CallOf(h), h[2] - 1>>) = CallOf(h)
          BY <4>1, PostIsPair DEF CallOf
      <4>3. QED
          BY <4>1, <4>2 DEF ChallengeInv
    <3>3. QED
        BY <3>1, <3>2
  <2>2. hpc' = [hpc EXCEPT ![h] = "arrived"] /\ slot' = slot
      BY <1>3 DEF SendRegister
  <2>3. QED
      BY <1>0, <1>1, <2>1, <2>2 DEF ChallengeInv, Passed
<1>4. ASSUME NEW h \in Post, GetAnswer(h)
      PROVE  ChallengeInv'
  <2>1. /\ UNCHANGED <<hpc, slot>>
        /\ cpc[CallOf(h)] = "posting"
        /\ \E q \in {"registered", "failed"} : cpc' = [cpc EXCEPT ![CallOf(h)] = q]
      BY <1>4 DEF GetAnswer
  <2>2. QED
      BY <1>0, <1>1, <2>1 DEF ChallengeInv, Passed
<1>5. ASSUME NEW h \in Post,
             \/ ReadChallenge(h) \/ RejectBundle(h) \/ CommitBundle(h) \/ RefuseConflict(h)
             \/ CommitFails(h) \/ AppendAudit(h)
      PROVE  ChallengeInv'
  <2>1. /\ UNCHANGED <<slot, cpc>>
        /\ \/ hpc[h] = "arrived"
              /\ \E q \in {"got", "denied"} : hpc' = [hpc EXCEPT ![h] = q]
           \/ Passed(h)
              /\ \E q \in {"invalid", "committed", "conflict", "error", "done"} :
                     hpc' = [hpc EXCEPT ![h] = q]
      BY <1>5 DEF ReadChallenge, RejectBundle, CommitBundle, RefuseConflict, CommitFails,
                  AppendAudit, Passed
  <2>2. QED
      BY <1>0, <1>1, <2>1 DEF ChallengeInv, Passed
<1>6. ASSUME NEW h \in Post, DeleteChallenge(h)
      PROVE  ChallengeInv'
  <2>1. /\ slot' = None /\ cpc' = cpc /\ hpc[h] = "got"
        /\ \A g \in Post : hpc'[g] # "none" => hpc[g] # "none"
      BY <1>0, <1>6 DEF DeleteChallenge
  <2>2. QED
      BY <1>1, <2>1 DEF ChallengeInv
<1>7. CASE Expire
    BY <1>1, <1>7 DEF Expire, ChallengeInv, Passed
<1>8. CASE Crash
    BY <1>0, <1>1, <1>8 DEF Crash, ChallengeInv, Passed, Running
<1>9. CASE UNCHANGED vars
    BY <1>9 DEF vars, ChallengeInv, Passed
<1>10. QED
    BY <1>2, <1>3, <1>4, <1>5, <1>6, <1>7, <1>8, <1>9 DEF Next

\* Once the proof of possession of a call was accepted no later copy of its
\* request gets the challenge: it is deleted, and only a new call gets one.
THEOREM LateCopiesAreDenied == Spec => LateCopyDenied
<1>1. Init => TypeOK /\ ChallengeInv
    BY DEF Init, TypeOK, ChallengeInv, Passed
<1>2. TypeOK /\ ChallengeInv /\ [Next]_vars => TypeOK' /\ ChallengeInv'
    BY TypeStep, ChallengeStep
<1>3. ASSUME TypeOK, ChallengeInv, [Next]_vars,
             NEW g \in Post, NEW h \in Post, Passed(g), CallOf(g) = CallOf(h),
             hpc[h] = "arrived", hpc'[h] = "got"
      PROVE  pending'[h] # CallOf(h)
  <2>1. ReadChallenge(h)
    <3>0. hpc \in [Post -> {"none", "arrived", "got", "denied", "authed", "invalid",
                            "conflict", "committed", "done", "error", "dead"}]
        BY <1>3 DEF TypeOK
    <3>1. ASSUME NEW f \in Post, ReadChallenge(f)
          PROVE  ReadChallenge(h)
        BY <1>3, <3>0, <3>1 DEF ReadChallenge
    <3>2. ASSUME NEW f \in Post,
                 \/ SendRegister(f) \/ DeleteChallenge(f) \/ RejectBundle(f)
                 \/ CommitBundle(f) \/ RefuseConflict(f) \/ CommitFails(f)
                 \/ AppendAudit(f)
          PROVE  FALSE
      <4>1. \E q \in {"arrived", "denied", "authed", "invalid", "committed", "conflict",
                      "error", "done"} : hpc' = [hpc EXCEPT ![f] = q]
          BY <3>2 DEF SendRegister, DeleteChallenge, RejectBundle, CommitBundle,
                      RefuseConflict, CommitFails, AppendAudit
      <4>2. QED
          BY <1>3, <3>0, <4>1
    <3>3. ASSUME \/ \E c \in Call : GetChallenge(c) \/ CallFails(c)
                 \/ \E f \in Post : GetAnswer(f)
                 \/ Expire \/ Crash \/ UNCHANGED vars
          PROVE  FALSE
        BY <1>3, <3>0, <3>3 DEF GetChallenge, CallFails, GetAnswer, Expire, Crash, vars
    <3>4. QED
        BY <1>3, <3>1, <3>2, <3>3 DEF Next
  <2>2. pending'[h] = slot
      BY <1>3, <2>1 DEF ReadChallenge, TypeOK
  <2>3. QED
      BY <1>3, <2>2 DEF ChallengeInv
<1>4. TypeOK /\ ChallengeInv /\ [Next]_vars =>
          [ \A g, h \in Post :
                /\ Passed(g) /\ CallOf(g) = CallOf(h)
                /\ hpc[h] = "arrived" /\ hpc'[h] = "got"
                => pending'[h] # CallOf(h) ]_vars
    BY <1>3
<1>5. QED
    BY <1>1, <1>2, <1>4, PTL DEF Spec, LateCopyDenied
=============================================================================
