----------------------------- MODULE MCRateLimiter -----------------------------
(* What the process does around its routes, each part on its own: the        *)
(* limiter, with two principals and two admissions in two seconds of two     *)
(* ticks each; the sign-in, with tokens that are sound or wrong in one       *)
(* respect; and the purge loop, with two sessions and an hour of two ticks.  *)
EXTENDS RateLimiter, Auth, PurgeLoop

CONSTANTS k1, k2, kid1, kid2, s1, s2

SoundToken == [kid |-> kid1, well_formed |-> TRUE, signed |-> TRUE, issuer |-> TRUE,
               from |-> 0, exp |-> 9, aud |-> FALSE, azp |-> TRUE, sub |-> TRUE]
MCTokens ==
  {SoundToken, [SoundToken EXCEPT !.kid = kid2],
   [SoundToken EXCEPT !.kid = NoKid],
   [SoundToken EXCEPT !.kid = NoKid, !.well_formed = FALSE],
   [SoundToken EXCEPT !.signed = FALSE], [SoundToken EXCEPT !.issuer = FALSE],
   [SoundToken EXCEPT !.from = 2], [SoundToken EXCEPT !.exp = 2],
   [SoundToken EXCEPT !.aud = TRUE, !.azp = FALSE], [SoundToken EXCEPT !.azp = FALSE],
   [SoundToken EXCEPT !.sub = FALSE]}

VARIABLE part

DoorVars == <<limiterVars, authVars, purgeVars, part>>

DoorInit ==
  LimiterInit /\ AuthInit /\ PurgeInit /\ part \in {"limiter", "auth", "purge"}

Purging(Step) == part = "purge" /\ Step /\ UNCHANGED <<limiterVars, authVars, part>>

DoorNext ==
  \/ part = "limiter" /\ LimiterNext /\ UNCHANGED <<authVars, purgeVars, part>>
  \/ part = "auth" /\ AuthNext /\ UNCHANGED <<limiterVars, purgeVars, part>>
  \/ Purging(PurgeNext)

\* PurgeFairness, of the behaviours of its part.
DoorFairness ==
  /\ WF_DoorVars(Purging(Wake)) /\ WF_DoorVars(Purging(Start)) /\ WF_DoorVars(Purging(Pass))
  /\ SF_DoorVars(Purging(SweepLapsed))

DoorSpec == DoorInit /\ [][DoorNext]_DoorVars /\ DoorFairness

\* The type invariants of the parts.
DoorTypeOK == LimiterTypeOK /\ AuthTypeOK /\ PurgeTypeOK
===============================================================================
