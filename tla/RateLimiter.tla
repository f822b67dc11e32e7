----------------------------- MODULE RateLimiter -----------------------------
(***************************************************************************)
(* The limiter of shared/redis_rate_limit as one address sees it: a counter *)
(* per calendar second, INCR and EXPIRE 1 in one MULTI pipeline.  The       *)
(* second is read from the clock before the pipeline is awaited, so a slow  *)
(* pipeline still counts under the second it started in, even after that    *)
(* counter expired.                                                        *)
(*                                                                         *)
(* Seconds are numbered by their age: 0 is the present one.  MaxLag bounds  *)
(* the seconds a pipeline may be late.  A counter is kept up to Limit + 1,  *)
(* which is all that the comparison tells apart.                            *)
(***************************************************************************)
EXTENDS Integers

CONSTANTS
  Callers,  \* requests that can be in the middleware at a time
  Limit,    \* default_limit, or REQUEST_LIMIT_PER_SECOND
  MaxLag    \* seconds a pipeline may be late

ASSUME LimitAssumption == Limit \in Nat /\ MaxLag \in Nat

VARIABLES
  pipe,      \* the age of the second each caller waits to be counted under
  count,     \* the counter of each second, 0 when there is no key
  touched,   \* the seconds whose EXPIRE was renewed during the present one
  \* History, read by the properties only:
  passedNow, \* by second of the key: callers let through during this second
  passed     \* by second of the key: callers let through so far

NoPipe == -1
Ages == 0 .. MaxLag
vars == <<pipe, count, touched, passedNow, passed>>

Init ==
  /\ pipe = [c \in Callers |-> NoPipe]
  /\ count = [a \in Ages |-> 0]
  /\ touched = {}
  /\ passedNow = [a \in Ages |-> 0]
  /\ passed = [a \in Ages |-> 0]

\* The key is formatted from the clock, the pipeline goes on its way.
Stamp(c) ==
  /\ pipe[c] = NoPipe
  /\ pipe' = [pipe EXCEPT ![c] = 0]
  /\ UNCHANGED <<count, touched, passedNow, passed>>

\* The number that INCR returns to c.
Number(c) == count[pipe[c]] + 1

Counted(c) ==
  /\ pipe[c] # NoPipe
  /\ pipe' = [pipe EXCEPT ![c] = NoPipe]
  /\ count' = [count EXCEPT ![pipe[c]] = IF @ > Limit THEN @ ELSE @ + 1]
  /\ touched' = touched \union {pipe[c]}

Deny(c) == Counted(c) /\ Number(c) > Limit /\ UNCHANGED <<passedNow, passed>>

AllowOneMore(c) ==
  /\ Counted(c) /\ Number(c) <= Limit + 1
  /\ passedNow' = [passedNow EXCEPT ![pipe[c]] = @ + 1]
  /\ passed' = [passed EXCEPT ![pipe[c]] = @ + 1]

Allow(c) ==
  /\ Counted(c) /\ Number(c) <= Limit
  /\ passedNow' = [passedNow EXCEPT ![pipe[c]] = @ + 1]
  /\ passed' = [passed EXCEPT ![pipe[c]] = @ + 1]

\* The caller fails or is cut off before it is counted.
GiveUp(c) ==
  /\ pipe' = [pipe EXCEPT ![c] = NoPipe]
  /\ UNCHANGED <<count, touched, passedNow, passed>>

ExpireAtOnce(a) ==
  /\ count[a] > 0
  /\ count' = [count EXCEPT ![a] = 0]
  /\ UNCHANGED <<pipe, touched, passedNow, passed>>

\* EXPIRE 1: a second after the last INCR, so in the calendar second after it.
Expire(a) ==
  /\ count[a] > 0 /\ a \notin touched
  /\ count' = [count EXCEPT ![a] = 0]
  /\ UNCHANGED <<pipe, touched, passedNow, passed>>

\* The next calendar second begins; what was not renewed has expired by then.
NextSecond ==
  /\ \A c \in Callers : pipe[c] < MaxLag
  /\ pipe' = [c \in Callers |-> IF pipe[c] = NoPipe THEN NoPipe ELSE pipe[c] + 1]
  /\ count' = [a \in Ages |-> IF a - 1 \in touched THEN count[a - 1] ELSE 0]
  /\ touched' = {}
  /\ passedNow' = [a \in Ages |-> 0]
  /\ passed' = [a \in Ages |-> IF a = 0 THEN 0 ELSE passed[a - 1]]

Next ==
  \/ \E c \in Callers : Stamp(c) \/ Allow(c) \/ Deny(c) \/ GiveUp(c)
  \/ \E a \in Ages : Expire(a)
  \/ NextSecond

Spec == Init /\ [][Next]_vars

-----------------------------------------------------------------------------
TypeOK ==
  /\ pipe \in [Callers -> Ages \union {NoPipe}]
  /\ count \in [Ages -> 0 .. Limit + 1]
  /\ touched \in SUBSET Ages
  /\ passedNow \in [Ages -> Nat]
  /\ passed \in [Ages -> Nat]

\* While a second lasts its counter cannot expire, so no more than Limit
\* callers are let through under it; and of the late ones no more than Limit a
\* second are let through under any earlier key, though it may expire and start
\* again from 1.
SecondHeld ==
  /\ passed[0] <= Limit
  /\ \A a \in Ages : passedNow[a] <= Limit

\* What the limit allows in so many seconds.
Allowance(seconds) == seconds * Limit

\* A key expires at most once a second, so pipelines that are late stretch the
\* limit of a second by Limit for every second of lag, and never further.
LateBurstBounded == \A a \in Ages : passed[a] <= Allowance(a + 1)

\* What was let through during this second under a key is what its counter
\* says, as far as the limit; a key not renewed let nobody through.
CounterTells ==
  /\ \A a \in touched : passedNow[a] <= count[a] /\ passedNow[a] <= Limit
  /\ \A a \in Ages \ touched : passedNow[a] = 0
  /\ passed[0] = passedNow[0]
  /\ \A a \in Ages : passed[a] <= passedNow[a] + Allowance(a)

\* What an INCR can rely on: the counter it raises has seen everybody it let through.
LimiterInv == TypeOK /\ CounterTells

=============================================================================
