--------------------------------- MODULE Auth ---------------------------------
(***************************************************************************)
(* Who a caller is: the body limit of tutor/app.py and verify_jwt of       *)
(* tutor/auth.py, in front of every /v1 route.  A bearer token is checked  *)
(* against the keys that Keycloak publishes, which the process reaches     *)
(* through PyJWKClient and its two caches: the key set, for its lifespan,  *)
(* and every key it ever resolved, for the life of the process (fewer of   *)
(* them than the 16 it holds).  The fetch is synchronous, in an async      *)
(* handler: nothing else runs in the process meanwhile, so a request is    *)
(* one step.                                                               *)
(***************************************************************************)
EXTENDS Integers, FiniteSets

CONSTANTS
  Kid,       \* ids of signing keys
  NoKid,     \* a token whose header names no key
  Tokens,    \* the tokens that callers present
  NoToken,   \* a request without a bearer token
  Lifespan,  \* of the cached key set, in ticks
  MaxClock,  \* bound on the clock
  NoKeySet,  \* nothing cached
  NoReply

\* What verify_jwt tells apart in a token; "from" is the later of its iat and nbf.
Token == [kid : Kid \cup {NoKid}, well_formed : BOOLEAN, signed : BOOLEAN, issuer : BOOLEAN,
          from : Nat, exp : Nat, aud : BOOLEAN, azp : BOOLEAN, sub : BOOLEAN]

ASSUME AuthAssumption ==
  /\ NoKid \notin Kid
  /\ Tokens \subseteq Token /\ NoToken \notin Token
  /\ Lifespan \in Nat /\ MaxClock \in Nat

VARIABLES
  clock,         \* of the process and of Keycloak
  published,     \* the keys Keycloak publishes now
  reachable,     \* can the process fetch them?
  key_set,       \* JWKSetCache: [kids, at], or NoKeySet
  resolved,      \* the keys in get_signing_key's lru_cache
  auth_enabled,  \* Settings.auth_enabled
  reply,         \* to the request made last: [status, token], until something else happens
  \* What happened since the process started, kept for the properties only:
  was_published, \* the keys published at some time
  signed_in      \* the keys whose tokens were admitted

authVars == <<clock, published, reachable, key_set, resolved, auth_enabled, reply,
              was_published, signed_in>>

\* A set that has keys: Keycloak publishes at least one.
KeySet == [kids : SUBSET Kid, at : Nat]

AuthInit ==
  /\ clock = 0
  /\ published = Kid
  /\ reachable = TRUE
  /\ key_set = NoKeySet
  /\ resolved = {}
  /\ auth_enabled = TRUE
  /\ reply = NoReply
  /\ was_published = published
  /\ signed_in = {}

\* A client made anew for each request has resolved nothing yet.
NeverResolved(kid) == FALSE

Resolved(kid) == kid \in resolved

Fresh == key_set # NoKeySet /\ clock <= key_set.at + Lifespan

\* An unknown key id that is looked for in the cached set only, while that is fresh.
LookUpOnce(kid) == ~ Fresh /\ reachable /\ kid \in published

\* The key is in the set as it can be had: the cached one while fresh, else, and when
\* the key is not in that, a newly fetched one.
Found(kid) == (Fresh /\ kid \in key_set.kids) \/ (reachable /\ kid \in published)

\* What a look-up leaves in the caches.  A fetch that fails may drop the set that was cached.
LookUp(kid) ==
  IF Resolved(kid) \/ (Fresh /\ kid \in key_set.kids)
  THEN key_set' = key_set
  ELSE IF reachable THEN key_set' = [kids |-> published, at |-> clock]
  ELSE key_set' \in {key_set, NoKeySet}

\* get_signing_key_from_jwt
KeyAvailable(kid) == kid # NoKid /\ (Resolved(kid) \/ Found(kid))

\* aud contains the client id, or azp is it: Keycloak's tokens for a public SPA.
ForThisClient(token) == token.aud \/ token.azp

\* jwt.decode and the checks that follow it, once there is a key.
Valid(token) ==
  /\ token.signed /\ token.issuer
  /\ token.from <= clock /\ clock < token.exp
  /\ ForThisClient(token) /\ token.sub

\* A provider that cannot answer is an exception nothing catches.
StatusUncaught(token) ==
  IF ~ auth_enabled THEN 200
  ELSE IF token = NoToken \/ ~ token.well_formed THEN 401
  ELSE IF ~ KeyAvailable(token.kid) THEN 500
  ELSE IF ~ Valid(token) THEN 401
  ELSE 200

\* verify_jwt
StatusOf(token) ==
  IF ~ auth_enabled THEN 200
  ELSE IF token = NoToken \/ ~ token.well_formed THEN 401
  ELSE IF ~ KeyAvailable(token.kid) THEN 503
  ELSE IF ~ Valid(token) THEN 401
  ELSE 200

\* Does verify_jwt ask for a key at all?
AsksForKey(token) == auth_enabled /\ token # NoToken /\ token.well_formed

\* A request to a /v1 route, up to its handler.
Request(token) ==
  LET status == StatusOf(token) IN
  /\ reply' = [status |-> status, token |-> token]
  /\ IF AsksForKey(token)
       THEN /\ LookUp(token.kid)
            /\ resolved' = IF KeyAvailable(token.kid) THEN resolved \cup {token.kid} ELSE resolved
       ELSE UNCHANGED <<key_set, resolved>>
  /\ signed_in' = IF AsksForKey(token) /\ status = 200 THEN signed_in \cup {token.kid} ELSE signed_in
  /\ UNCHANGED <<clock, published, reachable, auth_enabled, was_published>>

\* A body whose declared length is over the limit, or no number, never gets that far.
Oversize ==
  /\ \E status \in {400, 413} : reply' = [status |-> status, token |-> NoToken]
  /\ UNCHANGED <<clock, published, reachable, key_set, resolved, auth_enabled,
                 was_published, signed_in>>

\* Keycloak retires and publishes keys.
Rotate ==
  /\ published' \in SUBSET Kid \ {{}, published}
  /\ was_published' = was_published \cup published'
  /\ reply' = NoReply
  /\ UNCHANGED <<clock, reachable, key_set, resolved, auth_enabled, signed_in>>

Outage ==
  /\ reachable' = ~ reachable
  /\ reply' = NoReply
  /\ UNCHANGED <<clock, published, key_set, resolved, auth_enabled, was_published, signed_in>>

Elapse ==
  /\ clock < MaxClock
  /\ clock' = clock + 1
  /\ reply' = NoReply
  /\ UNCHANGED <<published, reachable, key_set, resolved, auth_enabled, was_published, signed_in>>

\* The process restarts, with the settings of its environment.
Restart ==
  /\ key_set' = NoKeySet
  /\ resolved' = {}
  /\ auth_enabled' \in BOOLEAN
  /\ reply' = NoReply
  /\ was_published' = published
  /\ signed_in' = {}
  /\ UNCHANGED <<clock, published, reachable>>

AuthNext ==
  \/ \E token \in Tokens \cup {NoToken} : Request(token)
  \/ Oversize \/ Rotate \/ Outage \/ Elapse \/ Restart

AuthSpec == AuthInit /\ [][AuthNext]_authVars

-------------------------------------------------------------------------------
(***************************************************************************)
(* Correctness, of the reply at the moment it is given.                    *)
(***************************************************************************)

\* Every variable has its type.
AuthTypeOK ==
  /\ clock \in Nat /\ reachable \in BOOLEAN /\ auth_enabled \in BOOLEAN
  /\ published \in SUBSET Kid
  /\ key_set \in KeySet \cup {NoKeySet}
  /\ resolved \in SUBSET Kid
  /\ was_published \in SUBSET Kid /\ signed_in \in SUBSET Kid
  /\ reply # NoReply =>
       reply.status \in {200, 400, 401, 413, 503} /\ reply.token \in Tokens \cup {NoToken}

\* Nothing is wrong with the token itself.
Sound(token) ==
  /\ token.well_formed /\ token.kid # NoKid /\ token.signed /\ token.issuer
  /\ token.from <= clock /\ clock < token.exp
  /\ (token.aud \/ token.azp) /\ token.sub

Replied(status) == reply # NoReply /\ reply.status = status

\* A caller whose own token is sound, signed with a key that Keycloak publishes, is let
\* in whenever Keycloak can be reached -- also right after Keycloak changed its keys,
\* whatever the two caches still hold (auth.py:88 with 54).
SoundTokenGetsIn ==
  reply # NoReply /\ reply.token # NoToken /\ Sound(reply.token)
    /\ reply.token.kid \in published /\ reachable => reply.status = 200

\* While Keycloak is away, nobody is turned away for it whose key already let somebody
\* in since the process started, however old the cached key set is and whatever another
\* caller's failed look-up did to it (auth.py:54).
OutageSparesTheSignedIn ==
  Replied(503) => reply.token.kid \notin signed_in

\* Whoever is let in, with auth on, holds a sound token, signed with a key that Keycloak
\* published while this process ran: what is cached over outages, rotations and expiry
\* never stands in for the token's own checks (auth.py:87-118).
OnlySoundTokens ==
  Replied(200) /\ auth_enabled =>
    reply.token # NoToken /\ Sound(reply.token) /\ reply.token.kid \in was_published

\* 401 is the token's fault and 503 is not: a caller is never sent to sign in again
\* because the provider could not be asked, and a 503 means that it could not, or does
\* not publish the key the token names, if it names one (auth.py:63-66, 81-86).
StatusTellsFault ==
  /\ Replied(401) => reply.token = NoToken \/ ~ Sound(reply.token)
  /\ Replied(503) => ~ reachable \/ reply.token.kid \notin published

\* The caches between the process and Keycloak change nothing about who gets in: who
\* should does, and who should not does not (auth.py:69-118).
AdmitsTheSound == SoundTokenGetsIn /\ OnlySoundTokens

\* Whoever is refused learns whose fault it is, and an outage is felt only by those
\* whose key the process has not met yet (auth.py:59-93).
RefusalTellsFault == StatusTellsFault /\ OutageSparesTheSignedIn
===============================================================================
