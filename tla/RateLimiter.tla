------------------------------ MODULE RateLimiter ------------------------------
(***************************************************************************)
(* FixedWindowLimiter of tutor/ratelimit.py: one limiter of the four that  *)
(* make_limiters builds, for any limit and window.  A check runs with no   *)
(* await in it, so it is one step.  The clock is time.monotonic, in ticks  *)
(* of some fraction of a second.                                           *)
(***************************************************************************)
EXTENDS Integers, Sequences, FiniteSets

CONSTANTS
  Key,      \* principals
  Limit,    \* hits admitted ...
  Window,   \* ... in that many ticks
  Second,   \* ticks of a second, the unit of Retry-After
  MaxTime   \* bound on the clock

ASSUME LimiterAssumption ==
  /\ Limit \in Nat \ {0} /\ Window \in Nat \ {0} /\ Second \in Nat \ {0}
  /\ MaxTime \in Nat

VARIABLES
  now,       \* the monotonic clock
  admitted,  \* admitted[k]: when each check of k that passed was made, first to last
  hits,      \* hits[k]: the list _hits[k], as the places in admitted[k] of its times
  retryAt    \* retryAt[k]: when the newest refusal told k to try again; 0 once k was
             \* admitted after it

limiterVars == <<now, admitted, hits, retryAt>>

LimiterInit ==
  /\ now = 0
  /\ admitted = [k \in Key |-> <<>>]
  /\ hits = [k \in Key |-> {}]
  /\ retryAt = [k \in Key |-> 0]

\* A hit that is exactly a window old, kept.
UnexpiredToo(k) == {i \in hits[k] : admitted[k][i] >= now - Window}

\* hits[:] = [t for t in hits if t > cutoff]
Unexpired(k) == {i \in hits[k] : admitted[k][i] > now - Window}

\* One more than the limit.
ExhaustedLate(k) == Cardinality(Unexpired(k)) > Limit

Exhausted(k) == Cardinality(Unexpired(k)) >= Limit

\* hits[0]: times are appended as they come, so the first is the oldest.
Oldest(k) == CHOOSE i \in Unexpired(k) : \A j \in Unexpired(k) : i <= j

\* A Retry-After cut to whole seconds.
RetryAfterCut(k) == ((Window - (now - admitted[k][Oldest(k)])) \div Second) * Second

\* int(window - (now - hits[0])) + 1, in whole seconds.
RetryAfter(k) == ((Window - (now - admitted[k][Oldest(k)])) \div Second + 1) * Second

\* 429, with Retry-After.
Refuse(k) ==
  /\ Exhausted(k)
  /\ hits' = [hits EXCEPT ![k] = Unexpired(k)]
  /\ retryAt' = [retryAt EXCEPT ![k] = now + RetryAfter(k)]
  /\ UNCHANGED <<now, admitted>>

Admit(k) ==
  /\ ~ Exhausted(k)
  /\ admitted' = [admitted EXCEPT ![k] = Append(@, now)]
  /\ hits' = [hits EXCEPT ![k] = Unexpired(k) \cup {Len(admitted[k]) + 1}]
  /\ retryAt' = [retryAt EXCEPT ![k] = 0]
  /\ UNCHANGED now

Check(k) == Refuse(k) \/ Admit(k)

Tick ==
  /\ now < MaxTime
  /\ now' = now + 1
  /\ UNCHANGED <<admitted, hits, retryAt>>

LimiterNext == Tick \/ \E k \in Key : Check(k)

LimiterSpec == LimiterInit /\ [][LimiterNext]_limiterVars

-------------------------------------------------------------------------------
(***************************************************************************)
(* Correctness.                                                            *)
(***************************************************************************)

\* Every variable has its type; the list holds times of admitted checks only.
LimiterTypeOK ==
  /\ now \in Nat
  /\ admitted \in [Key -> Seq(Nat)]
  /\ hits \in [Key -> SUBSET (Nat \ {0})]
  /\ \A k \in Key : hits[k] \subseteq 1 .. Len(admitted[k])
  /\ retryAt \in [Key -> Nat]

\* However a principal times its checks, no window of the given length, wherever it
\* starts, holds more than Limit admitted ones -- no burst around a window's edge,
\* which a counter reset every window would let through (ratelimit.py:20-21).
WindowCap ==
  \A k \in Key : \A i, j \in 1 .. Len(admitted[k]) :
    j - i >= Limit => admitted[k][j] - admitted[k][i] >= Window

\* The admitted checks of the last window, by what happened and not by what the
\* limiter remembers.
Recent(k) == {i \in 1 .. Len(admitted[k]) : admitted[k][i] > now - Window}

\* A principal is refused only when Limit of its checks really were admitted in the
\* last window: a hit that expired, or a refused check, is never held against it,
\* although expired hits are dropped only when the principal comes back
\* (ratelimit.py:35-36).
RefusesOnlyAtLimit ==
  [][\A k \in Key : Refuse(k) => Cardinality(Recent(k)) >= Limit]_limiterVars

\* Retry-After, cut to whole seconds, is enough and at most a second too much: a
\* client that waits for it, alone, finds room, and a second earlier it would have
\* found none (ratelimit.py:37-42).
RetryAfterSuffices ==
  \A k \in Key : retryAt[k] # 0 =>
    /\ now >= retryAt[k] => Cardinality(Recent(k)) < Limit
    /\ now < retryAt[k] - Second => Cardinality(Recent(k)) >= Limit
===============================================================================
