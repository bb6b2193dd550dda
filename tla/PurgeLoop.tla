------------------------------- MODULE PurgeLoop -------------------------------
(***************************************************************************)
(* That idle sessions do go away: the purge task of tutor/app.py, which    *)
(* sweeps when the process starts and then hourly, over the life of the    *)
(* process.  A failed sweep is logged and the loop goes on; a process that *)
(* dies is started again.  What one sweep does to a row that is in use is  *)
(* TurnService's.  A sweep takes less than a tick of the clock.            *)
(***************************************************************************)
EXTENDS Integers

CONSTANTS
  Stay,    \* session ids
  Ttl,     \* coach_session_ttl_hours, in ticks
  Period,  \* the hour, in ticks
  MaxIdle, \* bound on the idle time that is told apart
  NoStay   \* the idle time of an id that names no session

ASSUME PurgeAssumption ==
  /\ Ttl \in Nat /\ Period \in Nat \ {0}
  /\ MaxIdle \in Nat /\ MaxIdle > Ttl + Period
  /\ NoStay \notin 0 .. MaxIdle

VARIABLES
  idle,     \* idle[s]: ticks since the session's TTL was set or slid
  task,     \* _purge_loop: about to sweep, asleep, or without a process
  left,     \* ticks until the sleeping task wakes
  trouble   \* since the last sweep that succeeded, did one fail, or time pass with no process?

purgeVars == <<idle, task, left, trouble>>

Lapsed(s) == idle[s] # NoStay /\ idle[s] > Ttl

PurgeInit ==
  /\ idle = [s \in Stay |-> NoStay]
  /\ task = "sweep"
  /\ left = 0
  /\ trouble = FALSE

\* A task that died of the exception.
GiveUp == task' = "dead" /\ left' = 0

\* asyncio.sleep(3600), whatever became of the sweep.
FallAsleep == task' = "asleep" /\ left' = Period

\* purge_expired
SweepLapsed ==
  /\ task = "sweep"
  /\ idle' = [s \in Stay |-> IF Lapsed(s) THEN NoStay ELSE idle[s]]
  /\ task' = "asleep" /\ left' = Period
  /\ trouble' = FALSE

\* The database is away: the exception is logged.
SweepFails ==
  /\ task = "sweep"
  /\ FallAsleep
  /\ trouble' = TRUE
  /\ UNCHANGED idle

Wake ==
  /\ task = "asleep" /\ left = 0
  /\ task' = "sweep"
  /\ UNCHANGED <<idle, left, trouble>>

\* A session begins, or a turn or a model switch slides its TTL, lapsed or not.
Active(s) ==
  /\ task # "down"
  /\ idle' = [idle EXCEPT ![s] = 0]
  /\ UNCHANGED <<task, left, trouble>>

\* The process dies, in the middle of anything.
Die ==
  /\ task # "down"
  /\ task' = "down" /\ left' = 0
  /\ UNCHANGED <<idle, trouble>>

\* A task that sleeps before its first sweep.
StartAsleep == task' = "asleep" /\ left' = Period

\* "sweep expired (idle) sessions on startup"
StartSweeping == task' = "sweep" /\ left' = 0

\* lifespan
Start ==
  /\ task = "down"
  /\ StartSweeping
  /\ UNCHANGED <<idle, trouble>>

Pass ==
  /\ task # "sweep" /\ (task = "asleep" => left > 0)
  /\ idle' = [s \in Stay |-> IF idle[s] = NoStay \/ idle[s] = MaxIdle THEN idle[s] ELSE idle[s] + 1]
  /\ left' = IF task = "asleep" THEN left - 1 ELSE left
  /\ trouble' = (trouble \/ task = "down")
  /\ UNCHANGED task

PurgeNext ==
  SweepLapsed \/ SweepFails \/ Wake \/ Die \/ Start \/ Pass \/ \E s \in Stay : Active(s)

\* The loop runs while there is a process, a process is started again, time passes,
\* and a database that is asked again and again does answer.
PurgeFairness ==
  /\ WF_purgeVars(Wake) /\ WF_purgeVars(Start) /\ WF_purgeVars(Pass)
  /\ SF_purgeVars(SweepLapsed)

PurgeSpec == PurgeInit /\ [][PurgeNext]_purgeVars /\ PurgeFairness

-------------------------------------------------------------------------------
(***************************************************************************)
(* Correctness.                                                            *)
(***************************************************************************)

\* Every variable has its type.
PurgeTypeOK ==
  /\ idle \in [Stay -> 0 .. MaxIdle \cup {NoStay}]
  /\ task \in {"sweep", "asleep", "down"}
  /\ left \in 0 .. Period /\ trouble \in BOOLEAN

\* While sweeps succeed and the process is never away for long, no session outlives
\* its TTL by more than an hour, however often the process is restarted in between:
\* the schedule starts anew each time, and so does the sweep (app.py:45-56).
GoneWithinTheHour ==
  ~ trouble => \A s \in Stay : idle[s] # NoStay => idle[s] <= Ttl + Period

\* A lapsed session is deleted some day, or active again, whatever sweeps fail and
\* whenever the process dies.
LapsedGo == \A s \in Stay : Lapsed(s) ~> ~ Lapsed(s)
===============================================================================
