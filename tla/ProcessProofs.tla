---------------------------- MODULE ProcessProofs -----------------------------
(***************************************************************************)
(* What the process does around its routes.  Every property of Auth, for   *)
(* all keys, tokens and lifespans: whatever the key set and the resolved   *)
(* keys hold, Keycloak published it while the process ran, and a key that  *)
(* let somebody in stays resolved.  Of PurgeLoop, what it does without     *)
(* fairness, for every TTL and period.  And of RateLimiter, for every      *)
(* limit, window and clock unit.                                           *)
(***************************************************************************)
EXTENDS MCRateLimiter, TLAPS, FiniteSetTheorems

(***************************************************************************)
(* Sign-in: the inductive invariant.                                       *)
(***************************************************************************)

\* What the process holds was published to it, and it forgets no key that let somebody in.
CachesHold ==
  /\ published \subseteq was_published
  /\ key_set # NoKeySet => key_set.kids \subseteq was_published
  /\ resolved \subseteq was_published
  /\ signed_in \subseteq resolved

ReplyIsRight ==
  SoundTokenGetsIn /\ OutageSparesTheSignedIn /\ OnlySoundTokens /\ StatusTellsFault

AuthInv == AuthTypeOK /\ CachesHold /\ ReplyIsRight

LEMMA NoReplyIsRight ==
  ASSUME reply' = NoReply PROVE ReplyIsRight'
  BY DEF ReplyIsRight, SoundTokenGetsIn, OutageSparesTheSignedIn, OnlySoundTokens,
         StatusTellsFault, Replied

LEMMA InitAuth == AuthInit => AuthInv
  <1> SUFFICES ASSUME AuthInit PROVE AuthInv
    OBVIOUS
  <1>1. AuthTypeOK /\ CachesHold
    BY DEF AuthInit, AuthTypeOK, CachesHold
  <1>2. ReplyIsRight
    BY DEF AuthInit, ReplyIsRight, SoundTokenGetsIn, OutageSparesTheSignedIn, OnlySoundTokens,
           StatusTellsFault, Replied
  <1> QED
    BY <1>1, <1>2 DEF AuthInv

\* A key that can be had was published.
LEMMA AvailableWasPublished ==
  ASSUME AuthInv, NEW kid, KeyAvailable(kid) PROVE kid \in was_published
  BY DEF AuthInv, CachesHold, KeyAvailable, Resolved, Found, Fresh

\* What each status means of the moment it is given.
LEMMA StatusMeans ==
  ASSUME AuthInv, NEW token \in Tokens \cup {NoToken}
  PROVE  /\ StatusOf(token) \in {200, 401, 503}
         /\ StatusOf(token) = 200 /\ auth_enabled =>
              AsksForKey(token) /\ KeyAvailable(token.kid) /\ Sound(token)
         /\ StatusOf(token) = 401 => token = NoToken \/ ~ Sound(token)
         /\ StatusOf(token) = 503 => AsksForKey(token) /\ ~ KeyAvailable(token.kid)
         /\ token # NoToken /\ Sound(token) /\ KeyAvailable(token.kid) => StatusOf(token) = 200
  <1>1. KeyAvailable(token.kid) => token.kid # NoKid
    BY DEF KeyAvailable
  <1>2. Sound(token) => token.well_formed /\ Valid(token)
    BY DEF Sound, Valid, ForThisClient
  <1>3. token.well_formed /\ token.kid # NoKid /\ Valid(token) => Sound(token)
    BY DEF Sound, Valid, ForThisClient
  <1> QED
    BY <1>1, <1>2, <1>3 DEF StatusOf, AsksForKey

LEMMA RequestIsRight ==
  ASSUME AuthInv, NEW token \in Tokens \cup {NoToken}, Request(token) PROVE AuthInv'
  <1>1. /\ reply' = [status |-> StatusOf(token), token |-> token]
        /\ clock' = clock /\ published' = published /\ reachable' = reachable
        /\ auth_enabled' = auth_enabled /\ was_published' = was_published
    BY DEF Request
  <1>2. Sound(token)' = Sound(token)
    BY <1>1 DEF Sound
  <1>3. /\ key_set' = key_set \/ key_set' = [kids |-> published, at |-> clock] \/ key_set' = NoKeySet
        /\ resolved' = resolved \/ (KeyAvailable(token.kid) /\ resolved' = resolved \cup {token.kid})
        /\ AsksForKey(token) /\ KeyAvailable(token.kid) => token.kid \in resolved'
    BY DEF Request, LookUp
  <1>4. /\ published \subseteq Kid /\ clock \in Nat /\ was_published \subseteq Kid
        /\ key_set \in KeySet \cup {NoKeySet}
    BY DEF AuthInv, AuthTypeOK
  <1>5. key_set' \in KeySet \cup {NoKeySet} /\ (key_set' # NoKeySet => key_set'.kids \subseteq was_published)
    BY <1>3, <1>4 DEF KeySet, AuthInv, CachesHold
  <1>6. resolved \subseteq resolved' /\ resolved' \subseteq was_published
    BY <1>3, AvailableWasPublished DEF AuthInv, CachesHold
  <1>7. signed_in' = signed_in
        \/ (AsksForKey(token) /\ StatusOf(token) = 200 /\ signed_in' = signed_in \cup {token.kid})
    BY DEF Request
  <1>8. auth_enabled /\ StatusOf(token) = 200 => token.kid \in resolved'
    BY <1>3, StatusMeans
  <1>9. signed_in' \subseteq resolved'
    BY <1>6, <1>7, <1>8 DEF AuthInv, CachesHold, AsksForKey
  <1>10. CachesHold'
    BY <1>1, <1>5, <1>6, <1>9 DEF AuthInv, CachesHold
  <1>11. AuthTypeOK'
    BY <1>1, <1>4, <1>5, <1>6, <1>9, StatusMeans DEF AuthInv, AuthTypeOK
  <1>12. SoundTokenGetsIn'
    <2>1. token.kid \in published /\ reachable => KeyAvailable(token.kid)
      BY <1>4, AuthAssumption DEF Found, KeyAvailable
    <2>2. token # NoToken /\ Sound(token) /\ token.kid \in published /\ reachable =>
            StatusOf(token) = 200
      BY <2>1, StatusMeans
    <2>3. reply'.token = token /\ reply'.status = StatusOf(token)
      BY <1>1
    <2> QED
      BY <1>1, <1>2, <2>2, <2>3 DEF SoundTokenGetsIn
  <1>13. OutageSparesTheSignedIn'
    <2>1. ASSUME StatusOf(token) = 503 PROVE token.kid \notin signed_in'
      <3>1. ~ KeyAvailable(token.kid) /\ signed_in' = signed_in
        BY <1>7, <2>1, StatusMeans
      <3>2. token.kid \notin resolved
        BY <1>4, <3>1, AuthAssumption DEF KeyAvailable, Resolved, AuthInv, CachesHold
      <3> QED
        BY <3>1, <3>2 DEF AuthInv, CachesHold
    <2> QED
      BY <1>1, <2>1 DEF OutageSparesTheSignedIn, Replied
  <1>14. OnlySoundTokens'
    BY <1>1, <1>2, StatusMeans, AvailableWasPublished DEF OnlySoundTokens, Replied, AsksForKey
  <1>15. StatusTellsFault'
    <2>1. ASSUME StatusOf(token) = 503 PROVE ~ reachable \/ token.kid \notin published
      BY <1>4, <2>1, StatusMeans, AuthAssumption DEF KeyAvailable, Found
    <2> QED
      BY <1>1, <1>2, <2>1, StatusMeans DEF StatusTellsFault, Replied
  <1> QED
    BY <1>10, <1>11, <1>12, <1>13, <1>14, <1>15 DEF AuthInv, ReplyIsRight

LEMMA OversizeIsRight ==
  ASSUME AuthInv, Oversize PROVE AuthInv'
  <1>1. PICK status \in {400, 413} : reply' = [status |-> status, token |-> NoToken]
    BY DEF Oversize
  <1>2. AuthTypeOK' /\ CachesHold'
    BY <1>1 DEF Oversize, AuthInv, AuthTypeOK, CachesHold
  <1>3. ReplyIsRight'
    BY <1>1 DEF ReplyIsRight, SoundTokenGetsIn, OutageSparesTheSignedIn, OnlySoundTokens,
                StatusTellsFault, Replied
  <1> QED
    BY <1>2, <1>3 DEF AuthInv

LEMMA StepAuth == AuthInv /\ [AuthNext]_authVars => AuthInv'
  <1> SUFFICES ASSUME AuthInv, [AuthNext]_authVars PROVE AuthInv'
    OBVIOUS
  <1>1. ASSUME NEW token \in Tokens \cup {NoToken}, Request(token) PROVE AuthInv'
    BY <1>1, RequestIsRight
  <1>2. CASE Oversize
    BY <1>2, OversizeIsRight
  <1>3. CASE Rotate
    BY <1>3, NoReplyIsRight DEF Rotate, AuthInv, AuthTypeOK, CachesHold
  <1>4. CASE Outage
    BY <1>4, NoReplyIsRight DEF Outage, AuthInv, AuthTypeOK, CachesHold
  <1>5. CASE Elapse
    BY <1>5, NoReplyIsRight DEF Elapse, AuthInv, AuthTypeOK, CachesHold
  <1>6. CASE Restart
    BY <1>6, NoReplyIsRight DEF Restart, AuthInv, AuthTypeOK, CachesHold
  <1>7. CASE UNCHANGED authVars
    <2>1. Sound(reply.token)' = Sound(reply.token)
      BY <1>7 DEF authVars, Sound
    <2> QED
      BY <1>7, <2>1 DEF authVars, AuthInv, AuthTypeOK, CachesHold, ReplyIsRight, SoundTokenGetsIn,
                        OutageSparesTheSignedIn, OnlySoundTokens, StatusTellsFault, Replied
  <1> QED
    BY <1>1, <1>2, <1>3, <1>4, <1>5, <1>6, <1>7 DEF AuthNext

\* The caches hold what was published while the process ran, and every reply is right.
THEOREM AuthInvariant == AuthSpec => []AuthInv
  BY InitAuth, StepAuth, PTL DEF AuthSpec

\* The variables keep their types, and no other status is ever given.
THEOREM AuthTypeCorrect == AuthSpec => []AuthTypeOK
  <1>1. AuthInv => AuthTypeOK
    BY DEF AuthInv
  <1> QED
    BY <1>1, AuthInvariant, PTL

\* A sound token signed with a published key gets in whenever Keycloak can be reached,
\* and nobody gets in without a sound token, signed with a key that was published while
\* the process ran, whatever the two caches hold (auth.py:87-118 with 54).
THEOREM SoundTokensGetIn == AuthSpec => []AdmitsTheSound
  <1>1. AuthInv => AdmitsTheSound
    BY DEF AuthInv, ReplyIsRight, AdmitsTheSound
  <1> QED
    BY <1>1, AuthInvariant, PTL

\* 401 is the token's fault and 503 is not, and an outage of Keycloak turns nobody away
\* whose key has let somebody in (auth.py:54, 63-66, 81-86).
THEOREM RefusalsTellFault == AuthSpec => []RefusalTellsFault
  <1>1. AuthInv => RefusalTellsFault
    BY DEF AuthInv, ReplyIsRight, RefusalTellsFault
  <1> QED
    BY <1>1, AuthInvariant, PTL

(***************************************************************************)
(* The purge loop.                                                         *)
(***************************************************************************)

\* How long the oldest session may have been idle by now: while the task sleeps, the TTL
\* and the part of the period that is over; else, all of it.
LongestStay == Ttl + IF task = "asleep" THEN Period - left ELSE Period

KeepsUp == ~ trouble => \A s \in Stay : idle[s] # NoStay => idle[s] <= LongestStay

PurgeInv == PurgeTypeOK /\ KeepsUp

LEMMA InitPurge == PurgeInit => PurgeInv
  <1> SUFFICES ASSUME PurgeInit PROVE PurgeInv
    OBVIOUS
  <1>1. \A s \in Stay : idle[s] = NoStay
    BY DEF PurgeInit
  <1>2. idle \in [Stay -> 0 .. MaxIdle \cup {NoStay}]
    BY DEF PurgeInit
  <1>3. left \in 0 .. Period
    BY PurgeAssumption DEF PurgeInit
  <1>4. task \in {"sweep", "asleep", "down"} /\ trouble \in BOOLEAN
    BY DEF PurgeInit
  <1>5. PurgeTypeOK
    BY <1>2, <1>3, <1>4 DEF PurgeTypeOK
  <1> QED
    BY <1>1, <1>5 DEF PurgeInv, KeepsUp

\* A sweep leaves nothing behind that is older than the TTL.
LEMMA SweepKeepsUp ==
  ASSUME PurgeInv, SweepLapsed PROVE PurgeInv'
  <1>1. PurgeTypeOK'
    <2>1. \A s \in Stay : idle[s] \in 0 .. MaxIdle \cup {NoStay}
      BY DEF PurgeInv, PurgeTypeOK
    <2>2. idle' \in [Stay -> 0 .. MaxIdle \cup {NoStay}]
      BY <2>1 DEF SweepLapsed
    <2>3. left' \in 0 .. Period
      BY PurgeAssumption DEF SweepLapsed
    <2> QED
      BY <2>2, <2>3 DEF SweepLapsed, PurgeTypeOK
  <1>2. ASSUME NEW s \in Stay, idle'[s] # NoStay PROVE idle'[s] <= Ttl
    <2>1. idle'[s] = idle[s] /\ ~ Lapsed(s)
      BY <1>2 DEF SweepLapsed
    <2>2. idle[s] \in 0 .. MaxIdle
      BY <1>2, <2>1 DEF PurgeInv, PurgeTypeOK
    <2> QED
      BY <1>2, <2>1, <2>2, PurgeAssumption DEF Lapsed
  <1>3. LongestStay' = Ttl
    BY PurgeAssumption DEF SweepLapsed, LongestStay
  <1> QED
    BY <1>1, <1>2, <1>3 DEF PurgeInv, KeepsUp

\* Time passes for the sessions as for the task, if there is one.
LEMMA PassKeepsUp ==
  ASSUME PurgeInv, Pass PROVE PurgeInv'
  <1>1. ASSUME NEW s \in Stay
        PROVE  /\ idle'[s] \in 0 .. MaxIdle \cup {NoStay}
               /\ idle[s] = NoStay => idle'[s] = NoStay
               /\ idle[s] # NoStay => idle[s] \in Nat /\ idle'[s] <= idle[s] + 1
    <2>1. idle'[s] = IF idle[s] = NoStay \/ idle[s] = MaxIdle THEN idle[s] ELSE idle[s] + 1
      BY DEF Pass
    <2>2. idle[s] \in 0 .. MaxIdle \cup {NoStay}
      BY DEF PurgeInv, PurgeTypeOK
    <2> QED
      BY <2>1, <2>2, PurgeAssumption
  <1>2. PurgeTypeOK'
    BY <1>1, PurgeAssumption DEF PurgeInv, PurgeTypeOK, Pass
  <1>3. CASE task = "asleep"
    <2>1. LongestStay \in Int /\ LongestStay' = LongestStay + 1
      BY <1>3, PurgeAssumption DEF Pass, LongestStay, PurgeInv, PurgeTypeOK
    <2>2. trouble' = trouble
      BY <1>3 DEF Pass, PurgeInv, PurgeTypeOK
    <2>3. ASSUME ~ trouble, NEW s \in Stay, idle'[s] # NoStay PROVE idle'[s] <= LongestStay'
      <3>1. idle[s] # NoStay /\ idle[s] \in Nat /\ idle'[s] \in Int /\ idle'[s] <= idle[s] + 1
        BY <1>1, <2>3
      <3>2. idle[s] <= LongestStay
        BY <2>3, <3>1 DEF PurgeInv, KeepsUp
      <3> QED
        BY <2>1, <3>1, <3>2
    <2> QED
      BY <1>2, <2>2, <2>3 DEF PurgeInv, KeepsUp
  <1>4. CASE task # "asleep"
    BY <1>2, <1>4 DEF Pass, PurgeInv, PurgeTypeOK, KeepsUp
  <1> QED
    BY <1>3, <1>4

LEMMA StepPurge == PurgeInv /\ [PurgeNext]_purgeVars => PurgeInv'
  <1> SUFFICES ASSUME PurgeInv, [PurgeNext]_purgeVars PROVE PurgeInv'
    OBVIOUS
  <1>1. CASE SweepLapsed
    BY <1>1, SweepKeepsUp
  <1>2. CASE Pass
    BY <1>2, PassKeepsUp
  <1>3. CASE SweepFails
    BY <1>3, PurgeAssumption DEF SweepFails, FallAsleep, PurgeInv, PurgeTypeOK, KeepsUp
  <1>4. CASE Wake
    BY <1>4, PurgeAssumption DEF Wake, PurgeInv, PurgeTypeOK, KeepsUp, LongestStay
  <1>5. CASE Die
    <2>1. LongestStay \in Int /\ LongestStay' \in Int /\ LongestStay <= LongestStay'
      BY <1>5, PurgeAssumption DEF Die, LongestStay, PurgeInv, PurgeTypeOK
    <2>2. ASSUME NEW s \in Stay, idle[s] # NoStay PROVE idle[s] \in Int
      BY <2>2 DEF PurgeInv, PurgeTypeOK
    <2> QED
      BY <1>5, <2>1, <2>2, PurgeAssumption DEF Die, PurgeInv, PurgeTypeOK, KeepsUp
  <1>6. CASE Start
    BY <1>6, PurgeAssumption DEF Start, StartSweeping, PurgeInv, PurgeTypeOK, KeepsUp, LongestStay
  <1>7. ASSUME NEW s \in Stay, Active(s) PROVE PurgeInv'
    <2>1. idle' = [idle EXCEPT ![s] = 0] /\ LongestStay' = LongestStay /\ trouble' = trouble
      BY <1>7 DEF Active, LongestStay
    <2>2. LongestStay \in Nat
      BY PurgeAssumption DEF LongestStay, PurgeInv, PurgeTypeOK
    <2>3. PurgeTypeOK'
      BY <1>7, PurgeAssumption DEF Active, PurgeInv, PurgeTypeOK
    <2> QED
      BY <2>1, <2>2, <2>3 DEF PurgeInv, PurgeTypeOK, KeepsUp
  <1>8. CASE UNCHANGED purgeVars
    BY <1>8 DEF purgeVars, PurgeInv, PurgeTypeOK, KeepsUp, LongestStay
  <1> QED
    BY <1>1, <1>2, <1>3, <1>4, <1>5, <1>6, <1>7, <1>8 DEF PurgeNext

\* Types, and that no session is older than the schedule of the sweeps allows.
THEOREM PurgeInvariant == PurgeSpec => []PurgeInv
  BY InitPurge, StepPurge, PTL DEF PurgeSpec

\* While sweeps succeed and a process is there, no session outlives its TTL by more than
\* the period, for every TTL and period, wherever restarts fall (app.py:45-56).
THEOREM IdleSessionsGo == PurgeSpec => []GoneWithinTheHour
  <1>1. PurgeInv => GoneWithinTheHour
    <2> SUFFICES ASSUME PurgeInv, ~ trouble, NEW s \in Stay, idle[s] # NoStay
                 PROVE  idle[s] <= Ttl + Period
      BY DEF GoneWithinTheHour
    <2>1. LongestStay \in Int /\ LongestStay <= Ttl + Period
      BY PurgeAssumption DEF LongestStay, PurgeInv, PurgeTypeOK
    <2>2. idle[s] \in Int /\ idle[s] <= LongestStay
      BY DEF PurgeInv, PurgeTypeOK, KeepsUp
    <2> QED
      BY <2>1, <2>2, PurgeAssumption
  <1> QED
    BY <1>1, PurgeInvariant, PTL

-------------------------------------------------------------------------------
(***************************************************************************)
(* The limiter.  The inductive invariant adds to the properties what the   *)
(* list _hits means: it holds every admitted check of the last window,     *)
(* never more than Limit entries, and since a refusal exactly Limit, the   *)
(* oldest of which decides the Retry-After.                                *)
(***************************************************************************)

\* Checks are admitted in the order of the clock.
InOrder ==
  \A k \in Key :
    /\ \A i, j \in 1 .. Len(admitted[k]) : i <= j => admitted[k][i] <= admitted[k][j]
    /\ \A i \in 1 .. Len(admitted[k]) : admitted[k][i] <= now

\* The list holds the last window, and at most Limit entries.
Remembers ==
  \A k \in Key : Recent(k) \subseteq hits[k] /\ Cardinality(hits[k]) <= Limit

\* What a Retry-After was computed from is still the oldest entry of a full list.
Promised ==
  \A k \in Key : retryAt[k] # 0 =>
    /\ Cardinality(hits[k]) = Limit
    /\ \E o \in hits[k] :
         /\ \A i \in hits[k] : o <= i
         /\ admitted[k][o] + Window <= retryAt[k]
         /\ retryAt[k] <= admitted[k][o] + Window + Second

LimiterInv == LimiterTypeOK /\ InOrder /\ Remembers /\ Promised /\ WindowCap

-------------------------------------------------------------------------------
\* A list of places is finite, and so is each part of it.
LEMMA HitsFinite ==
  ASSUME LimiterTypeOK, NEW k \in Key, NEW S \in SUBSET hits[k]
  PROVE  IsFiniteSet(S) /\ Cardinality(S) \in Nat /\ Cardinality(S) <= Cardinality(hits[k])
         /\ Cardinality(hits[k]) \in Nat
<1>1. Len(admitted[k]) \in Nat /\ hits[k] \in SUBSET (1 .. Len(admitted[k]))
  BY DEF LimiterTypeOK
<1>2. IsFiniteSet(1 .. Len(admitted[k]))
  BY <1>1, FS_Interval
<1>3. IsFiniteSet(hits[k])
  BY <1>1, <1>2, FS_Subset
<1> QED
  BY <1>3, FS_Subset, FS_CardinalityType

\* What survives the eviction is the last window, exactly.
LEMMA UnexpiredIsRecent ==
  ASSUME LimiterTypeOK, Remembers, NEW k \in Key
  PROVE  Unexpired(k) = Recent(k)
BY DEF LimiterTypeOK, Remembers, Unexpired, Recent

\* The quotient by a second, rounded up past the next whole one.
LEMMA WholeSeconds ==
  ASSUME NEW x \in Nat, NEW s \in Nat \ {0}
  PROVE  /\ (x \div s + 1) * s \in Nat
         /\ x < (x \div s + 1) * s
         /\ (x \div s + 1) * s <= x + s
<1> DEFINE q == x \div s
           m == x % s
<1>1. q \in Nat /\ m \in 0 .. s - 1 /\ x = s * q + m
  OBVIOUS
<1>2. (q + 1) * s = s * q + s /\ s * q \in Nat
  <2> HIDE DEF q, m
  <2> QED BY <1>1, SMTT(30)
<1> HIDE DEF q, m
<1>3. (q + 1) * s \in Nat /\ x < (q + 1) * s /\ (q + 1) * s <= x + s
  BY <1>1, <1>2
<1> QED
  BY <1>3 DEF q

\* A set of places has a first.
LEMMA FirstPlace ==
  ASSUME NEW S \in SUBSET Nat, S # {}
  PROVE  \E o \in S : \A i \in S : o <= i
<1>1. PICK o \in S : \A i \in S : ~ (<<i, o>> \in OpToRel(<, Nat))
  BY NatLessThanWellFounded, WFMin, Zenon
<1>2. \A i \in S : ~ (i < o)
  BY <1>1 DEF OpToRel
<1> QED
  BY <1>2

-------------------------------------------------------------------------------
LEMMA LimiterInitInv == LimiterInit => LimiterInv
<1> SUFFICES ASSUME LimiterInit PROVE LimiterInv
  OBVIOUS
<1> USE LimiterAssumption DEF LimiterInit
<1>1. LimiterTypeOK
  BY DEF LimiterTypeOK
<1>2. InOrder /\ WindowCap /\ Promised
  BY DEF InOrder, WindowCap, Promised
<1>3. Remembers
  BY FS_EmptySet DEF Remembers, Recent
<1> QED
  BY <1>1, <1>2, <1>3 DEF LimiterInv

\* Time passes: the last window only loses checks.
LEMMA TickInv == ASSUME LimiterInv, Tick PROVE LimiterInv'
<1> USE DEF Tick, LimiterInv
<1>1. LimiterTypeOK'
  BY DEF LimiterTypeOK
<1>2. InOrder'
  BY DEF InOrder, LimiterTypeOK
<1>3. Remembers'
  <2> SUFFICES ASSUME NEW k \in Key PROVE Recent(k)' \subseteq Recent(k)
    BY DEF Remembers
  <2> QED
    BY LimiterAssumption DEF Recent, LimiterTypeOK
<1>4. Promised' /\ WindowCap'
  BY DEF Promised, WindowCap
<1> QED
  BY <1>1, <1>2, <1>3, <1>4

\* A refusal finds a full list: the eviction dropped nothing, or it would not be full.
LEMMA RefuseFull ==
  ASSUME LimiterInv, NEW k \in Key, Refuse(k)
  PROVE  Unexpired(k) = hits[k] /\ Cardinality(hits[k]) = Limit
<1> USE DEF LimiterInv
<1>1. Unexpired(k) \in SUBSET hits[k]
  BY DEF Unexpired
<1>2. /\ Cardinality(Unexpired(k)) \in Nat /\ Cardinality(hits[k]) \in Nat
      /\ Cardinality(Unexpired(k)) <= Cardinality(hits[k])
  BY <1>1, HitsFinite
<1>3. Cardinality(Unexpired(k)) = Limit /\ Cardinality(hits[k]) = Limit
  BY <1>2, LimiterAssumption DEF Refuse, Exhausted, Remembers
<1>4. IsFiniteSet(hits[k])
  BY HitsFinite
<1> QED
  BY <1>1, <1>3, <1>4, FS_Subset

\* What a refusal answers, from the oldest of the unexpired hits.
LEMMA RefuseAnswer ==
  ASSUME LimiterInv, NEW k \in Key, Refuse(k)
  PROVE  /\ Oldest(k) \in hits[k]
         /\ \A i \in hits[k] : Oldest(k) <= i
         /\ now + RetryAfter(k) \in Nat
         /\ admitted[k][Oldest(k)] + Window <= now + RetryAfter(k)
         /\ now + RetryAfter(k) <= admitted[k][Oldest(k)] + Window + Second
<1> USE DEF LimiterInv
<1> USE LimiterAssumption
<1>1. Unexpired(k) = hits[k] /\ Cardinality(hits[k]) = Limit
  BY RefuseFull
<1>2. hits[k] # {} /\ hits[k] \in SUBSET Nat
  BY <1>1, FS_EmptySet DEF LimiterTypeOK
<1>3. Oldest(k) \in hits[k] /\ \A i \in hits[k] : Oldest(k) <= i
  <2>1. \E o \in hits[k] : \A i \in hits[k] : o <= i
    BY <1>2, FirstPlace
  <2> QED
    BY <1>1, <2>1 DEF Oldest
<1> DEFINE t == admitted[k][Oldest(k)]
           x == Window - (now - t)
<1>4. t \in Nat /\ t <= now /\ t > now - Window /\ now \in Nat
  BY <1>1, <1>3 DEF LimiterTypeOK, InOrder, Unexpired
<1>5. x \in Nat
  BY <1>4
<1>6. RetryAfter(k) = (x \div Second + 1) * Second
  BY DEF RetryAfter
<1> HIDE DEF x
<1>7. RetryAfter(k) \in Nat /\ x < RetryAfter(k) /\ RetryAfter(k) <= x + Second
  BY <1>5, <1>6, WholeSeconds
<1> HIDE DEF t
<1>8. x = Window - (now - t)
  BY DEF x, t
<1>9. now + RetryAfter(k) \in Nat /\ t + Window <= now + RetryAfter(k)
      /\ now + RetryAfter(k) <= t + Window + Second
  BY <1>4, <1>5, <1>7, <1>8
<1> QED
  BY <1>3, <1>9 DEF t

LEMMA RefuseInv == ASSUME LimiterInv, NEW k \in Key, Refuse(k) PROVE LimiterInv'
<1> USE DEF LimiterInv
<1>1. Unexpired(k) = hits[k] /\ Cardinality(hits[k]) = Limit
  BY RefuseFull
<1>2. hits' = hits /\ admitted' = admitted /\ now' = now
  BY <1>1 DEF Refuse, LimiterTypeOK
<1>3. retryAt' = [retryAt EXCEPT ![k] = now + RetryAfter(k)]
  BY DEF Refuse
<1>4. LimiterTypeOK'
  BY <1>2, <1>3, RefuseAnswer DEF LimiterTypeOK
<1>5. InOrder' /\ WindowCap' /\ Remembers'
  BY <1>2 DEF InOrder, WindowCap, Remembers, Recent
<1>6. Promised'
  <2> SUFFICES ASSUME NEW q \in Key, retryAt'[q] # 0
               PROVE  /\ Cardinality(hits[q]) = Limit
                      /\ \E o \in hits[q] :
                           /\ \A i \in hits[q] : o <= i
                           /\ admitted[q][o] + Window <= retryAt'[q]
                           /\ retryAt'[q] <= admitted[q][o] + Window + Second
    BY <1>2 DEF Promised
  <2>1. CASE q = k
    <3>1. retryAt'[q] = now + RetryAfter(k)
      BY <1>3, <2>1 DEF LimiterTypeOK
    <3> QED
      BY <1>1, <2>1, <3>1, RefuseAnswer
  <2>2. CASE q # k
    BY <1>3, <2>2 DEF Promised, LimiterTypeOK
  <2> QED
    BY <2>1, <2>2
<1> QED
  BY <1>4, <1>5, <1>6

\* The admission that would be one too many in some window finds the list full.
LEMMA AdmitSpaced ==
  ASSUME LimiterInv, NEW k \in Key, ~ Exhausted(k),
         NEW i \in 1 .. Len(admitted[k]), Len(admitted[k]) + 1 - i >= Limit
  PROVE  now - admitted[k][i] >= Window
<1> USE DEF LimiterInv
<1> USE LimiterAssumption
<1> DEFINE n == Len(admitted[k])
<1>1. n \in Nat /\ now \in Nat /\ admitted[k] \in Seq(Nat)
  BY DEF LimiterTypeOK
<1> SUFFICES ASSUME now - admitted[k][i] < Window PROVE FALSE
  BY <1>1
<1>2. \A j \in i .. n : admitted[k][j] > now - Window
  BY <1>1 DEF InOrder
<1>3. i .. n \subseteq Recent(k)
  BY <1>1, <1>2 DEF Recent
<1>4. i .. n \in SUBSET Unexpired(k)
  BY <1>3, UnexpiredIsRecent
<1>5. IsFiniteSet(Unexpired(k)) /\ Cardinality(Unexpired(k)) \in Nat
  BY HitsFinite DEF Unexpired
<1>6. Cardinality(i .. n) <= Cardinality(Unexpired(k))
  BY <1>4, <1>5, FS_Subset
<1>7. Cardinality(i .. n) = n - i + 1
  <2>1. i \in Int /\ n \in Int /\ ~ (i > n)
    BY <1>1
  <2>2. Cardinality(i .. n) = IF i > n THEN 0 ELSE n - i + 1
    BY <2>1, FS_Interval, Zenon
  <2> QED
    BY <2>1, <2>2
<1> QED
  BY <1>1, <1>5, <1>6, <1>7 DEF Exhausted

LEMMA AdmitInv == ASSUME LimiterInv, NEW k \in Key, Admit(k) PROVE LimiterInv'
<1> USE DEF LimiterInv
<1> USE LimiterAssumption
<1> DEFINE n == Len(admitted[k])
<1>1. /\ n \in Nat /\ now \in Nat /\ now' = now /\ admitted[k] \in Seq(Nat)
      /\ admitted' = [admitted EXCEPT ![k] = Append(@, now)]
      /\ hits' = [hits EXCEPT ![k] = Unexpired(k) \cup {n + 1}]
      /\ retryAt' = [retryAt EXCEPT ![k] = 0]
  BY DEF Admit, LimiterTypeOK
<1>2. /\ admitted'[k] \in Seq(Nat) /\ Len(admitted'[k]) = n + 1
      /\ \A i \in 1 .. n : admitted'[k][i] = admitted[k][i]
      /\ admitted'[k][n + 1] = now
  BY <1>1 DEF LimiterTypeOK
<1>3. \A q \in Key : q # k => admitted'[q] = admitted[q] /\ hits'[q] = hits[q]
                                 /\ retryAt'[q] = retryAt[q]
  BY <1>1 DEF LimiterTypeOK
<1>4. hits'[k] = Unexpired(k) \cup {n + 1} /\ retryAt'[k] = 0
  BY <1>1 DEF LimiterTypeOK
<1>5. Unexpired(k) \subseteq 1 .. n
  BY DEF Unexpired, LimiterTypeOK
<1>6. LimiterTypeOK'
  <2>1. admitted' \in [Key -> Seq(Nat)] /\ retryAt' \in [Key -> Nat] /\ now' \in Nat
    BY <1>1, <1>2 DEF LimiterTypeOK
  <2>2. hits' \in [Key -> SUBSET (Nat \ {0})]
    BY <1>1, <1>5 DEF LimiterTypeOK
  <2>3. ASSUME NEW q \in Key PROVE hits'[q] \subseteq 1 .. Len(admitted'[q])
    <3>1. CASE q = k
      BY <1>1, <1>2, <1>4, <1>5, <3>1
    <3>2. CASE q # k
      BY <1>3, <3>2 DEF LimiterTypeOK
    <3> QED
      BY <3>1, <3>2
  <2> QED
    BY <2>1, <2>2, <2>3 DEF LimiterTypeOK
<1>7. InOrder'
  <2> SUFFICES ASSUME NEW q \in Key
               PROVE  /\ \A i, j \in 1 .. Len(admitted'[q]) : i <= j => admitted'[q][i] <= admitted'[q][j]
                      /\ \A i \in 1 .. Len(admitted'[q]) : admitted'[q][i] <= now
    BY <1>1 DEF InOrder
  <2>1. CASE q = k
    <3>1. \A i \in 1 .. n + 1 : i \in 1 .. n \/ i = n + 1
      BY <1>1
    <3>2. /\ \A i, j \in 1 .. n : i <= j => admitted[k][i] <= admitted[k][j]
          /\ \A i \in 1 .. n : admitted[k][i] <= now
      BY DEF InOrder
    <3> QED
      BY <1>1, <1>2, <2>1, <3>1, <3>2
  <2>2. CASE q # k
    BY <1>3, <2>2 DEF InOrder
  <2> QED
    BY <2>1, <2>2
<1>8. Remembers'
  <2> SUFFICES ASSUME NEW q \in Key
               PROVE  Recent(q)' \subseteq hits'[q] /\ Cardinality(hits'[q]) <= Limit
    BY DEF Remembers
  <2>1. CASE q = k
    <3>1. Recent(k)' \subseteq Recent(k) \cup {n + 1}
      BY <1>1, <1>2 DEF Recent
    <3>2. Recent(k) = Unexpired(k)
      BY UnexpiredIsRecent
    <3>3. IsFiniteSet(Unexpired(k)) /\ Cardinality(Unexpired(k)) \in Nat
      BY HitsFinite DEF Unexpired
    <3>4. n + 1 \notin Unexpired(k)
      BY <1>1, <1>5
    <3>5. Cardinality(Unexpired(k) \cup {n + 1}) = Cardinality(Unexpired(k)) + 1
      BY <3>3, <3>4, FS_AddElement
    <3>6. Cardinality(Unexpired(k)) + 1 <= Limit
      BY <3>3 DEF Admit, Exhausted
    <3> QED
      BY <1>4, <2>1, <3>1, <3>2, <3>5, <3>6
  <2>2. CASE q # k
    BY <1>1, <1>3, <2>2 DEF Remembers, Recent
  <2> QED
    BY <2>1, <2>2
<1>9. Promised'
  <2> SUFFICES ASSUME NEW q \in Key, retryAt'[q] # 0 PROVE q # k
    BY <1>3 DEF Promised
  <2> QED
    BY <1>4
<1>10. WindowCap'
  <2> SUFFICES ASSUME NEW q \in Key, NEW i \in 1 .. Len(admitted'[q]),
                      NEW j \in 1 .. Len(admitted'[q]), j - i >= Limit
               PROVE  admitted'[q][j] - admitted'[q][i] >= Window
    BY DEF WindowCap
  <2>1. CASE q # k
    BY <1>3, <2>1 DEF WindowCap
  <2>2. CASE q = k /\ j # n + 1
    <3>1. i \in 1 .. n /\ j \in 1 .. n
      BY <1>1, <1>2, <2>2
    <3> QED
      BY <1>2, <2>2, <3>1 DEF WindowCap
  <2>3. CASE q = k /\ j = n + 1
    <3>1. i \in 1 .. n
      BY <1>1, <1>2, <2>3
    <3>2. now - admitted[k][i] >= Window
      BY <1>1, <2>3, <3>1, AdmitSpaced DEF Admit
    <3> QED
      BY <1>2, <2>3, <3>1, <3>2
  <2> QED
    BY <2>1, <2>2, <2>3
<1> QED
  BY <1>6, <1>7, <1>8, <1>9, <1>10

LEMMA LimiterNextInv == LimiterInv /\ [LimiterNext]_limiterVars => LimiterInv'
<1> SUFFICES ASSUME LimiterInv, [LimiterNext]_limiterVars PROVE LimiterInv'
  OBVIOUS
<1>1. CASE UNCHANGED limiterVars
  BY <1>1 DEF limiterVars, LimiterInv, LimiterTypeOK, InOrder, Remembers, Recent, Promised, WindowCap
<1>2. CASE Tick
  BY <1>2, TickInv
<1>3. ASSUME NEW k \in Key, Check(k) PROVE LimiterInv'
  BY <1>3, RefuseInv, AdmitInv DEF Check
<1> QED
  BY <1>1, <1>2, <1>3 DEF LimiterNext

\* The inductive invariant holds in every behaviour.
THEOREM LimiterInvariant == LimiterSpec => []LimiterInv
BY LimiterInitInv, LimiterNextInv, PTL DEF LimiterSpec

\* The variables of the limiter keep their types (ratelimit.py:25-42).
THEOREM LimiterTypeCorrect == LimiterSpec => []LimiterTypeOK
<1>1. LimiterInv => LimiterTypeOK
  BY DEF LimiterInv
<1> QED
  BY <1>1, LimiterInvariant, PTL

\* No window of the given length holds more than Limit admitted checks, for every
\* limit, window and principal (ratelimit.py:31-42).
THEOREM WindowCapHolds == LimiterSpec => []WindowCap
<1>1. LimiterInv => WindowCap
  BY DEF LimiterInv
<1> QED
  BY <1>1, LimiterInvariant, PTL

\* A check is refused only when Limit checks were admitted in the last window.
THEOREM RefusalsAreDue == LimiterSpec => RefusesOnlyAtLimit
<1>1. LimiterInv => \A k \in Key : Refuse(k) => Cardinality(Recent(k)) >= Limit
  <2> SUFFICES ASSUME LimiterInv, NEW k \in Key, Refuse(k) PROVE Cardinality(Recent(k)) >= Limit
    OBVIOUS
  <2>1. Unexpired(k) = Recent(k)
    BY UnexpiredIsRecent DEF LimiterInv
  <2> QED
    BY <2>1 DEF Refuse, Exhausted
<1> QED
  BY <1>1, LimiterInvariant, PTL DEF RefusesOnlyAtLimit

\* The Retry-After of a refusal is enough, and never a whole second too much.
THEOREM RetryAfterIsEnough == LimiterSpec => []RetryAfterSuffices
<1>1. ASSUME LimiterInv PROVE RetryAfterSuffices
  <2> USE <1>1 DEF LimiterInv
  <2> USE LimiterAssumption
  <2> SUFFICES ASSUME NEW k \in Key, retryAt[k] # 0
               PROVE  /\ now >= retryAt[k] => Cardinality(Recent(k)) < Limit
                      /\ now < retryAt[k] - Second => Cardinality(Recent(k)) >= Limit
    BY DEF RetryAfterSuffices
  <2>1. PICK o \in hits[k] :
          /\ \A i \in hits[k] : o <= i
          /\ admitted[k][o] + Window <= retryAt[k]
          /\ retryAt[k] <= admitted[k][o] + Window + Second
    BY DEF Promised
  <2>2. Cardinality(hits[k]) = Limit
    BY DEF Promised
  <2>3. /\ now \in Nat /\ retryAt[k] \in Nat /\ Len(admitted[k]) \in Nat
        /\ hits[k] \subseteq 1 .. Len(admitted[k])
        /\ \A i \in hits[k] : admitted[k][i] \in Nat
    BY DEF LimiterTypeOK
  <2>4. IsFiniteSet(hits[k])
    BY HitsFinite
  <2>5. ASSUME now >= retryAt[k] PROVE Cardinality(Recent(k)) < Limit
    <3>1. o \notin Recent(k)
      BY <2>1, <2>3, <2>5 DEF Recent
    <3>2. Recent(k) \in SUBSET (hits[k] \ {o})
      BY <3>1 DEF Remembers
    <3>3. IsFiniteSet(hits[k] \ {o}) /\ Cardinality(hits[k] \ {o}) = Limit - 1
      BY <2>1, <2>2, <2>4, FS_RemoveElement
    <3>4. Cardinality(Recent(k)) <= Limit - 1
      BY <3>2, <3>3, FS_Subset
    <3>5. Cardinality(Recent(k)) \in Nat
      BY <3>2, HitsFinite
    <3> QED
      BY <3>4, <3>5
  <2>6. ASSUME now < retryAt[k] - Second PROVE Cardinality(Recent(k)) >= Limit
    <3>1. \A i \in hits[k] : admitted[k][o] <= admitted[k][i]
      BY <2>1, <2>3 DEF InOrder
    <3>2. now - Window < admitted[k][o]
      BY <2>1, <2>3, <2>6
    <3>3. hits[k] \subseteq Recent(k)
      BY <2>3, <3>1, <3>2 DEF Recent
    <3>4. Recent(k) = hits[k]
      BY <3>3 DEF Remembers
    <3> QED
      BY <2>2, <3>4
  <2> QED
    BY <2>5, <2>6
<1> QED
  BY <1>1, LimiterInvariant, PTL

-------------------------------------------------------------------------------
(***************************************************************************)
(* The parts side by side, as they are checked.                            *)
(***************************************************************************)

\* Each part's behaviours are behaviours of its own specification: nothing another part
\* does changes its state.
THEOREM DoorKeepsPartsApart ==
  DoorSpec => LimiterSpec /\ AuthSpec /\ PurgeInit /\ [][PurgeNext]_purgeVars
<1>1. [DoorNext]_DoorVars => [LimiterNext]_limiterVars
  BY DEF DoorNext, DoorVars, Purging
<1>2. [DoorNext]_DoorVars => [AuthNext]_authVars
  BY DEF DoorNext, DoorVars, Purging
<1>3. [DoorNext]_DoorVars => [PurgeNext]_purgeVars
  BY DEF DoorNext, DoorVars, Purging
<1>4. DoorInit => LimiterInit /\ AuthInit /\ PurgeInit
  BY DEF DoorInit
<1> QED
  BY <1>1, <1>2, <1>3, <1>4, PTL DEF DoorSpec, LimiterSpec, AuthSpec

\* Every variable of the limiter, the sign-in and the purge loop has its type.
THEOREM DoorTypeCorrect == DoorSpec => []DoorTypeOK
<1>1. PurgeInit /\ [][PurgeNext]_purgeVars => []PurgeInv
  BY InitPurge, StepPurge, PTL
<1>2. PurgeInv => PurgeTypeOK
  BY DEF PurgeInv
<1> QED
  BY <1>1, <1>2, DoorKeepsPartsApart, LimiterTypeCorrect, AuthTypeCorrect, PTL DEF DoorTypeOK
===============================================================================
