-------------------------- MODULE RateLimiterProofs --------------------------
(***************************************************************************)
(* LimiterInv of RateLimiter is inductive: the limit on what was let        *)
(* through under a key follows from what its counter says while the key is  *)
(* renewed, and from the key having let nobody through while it is not.     *)
(***************************************************************************)
EXTENDS RateLimiter, TLAPS

\* Allowances add up; with it no other step has to multiply.
LEMMA OneMore ==
  /\ Allowance(0) = 0
  /\ \A a \in Nat : Allowance(a) \in Nat /\ Allowance(a + 1) = Allowance(a) + Limit
  BY LimitAssumption DEF Allowance

\* LimiterInv, read at one second.
LEMMA AtSecond ==
  ASSUME LimiterInv, NEW a \in Ages
  PROVE  /\ a \in Nat /\ count[a] \in 0 .. Limit + 1
         /\ passedNow[a] \in Nat /\ passed[a] \in Nat
         /\ passedNow[a] <= Limit
         /\ a \in touched => passedNow[a] <= count[a]
         /\ a \notin touched => passedNow[a] = 0
         /\ passed[a] <= passedNow[a] + Allowance(a)
  <1>1. CASE a \in touched
    BY <1>1 DEF LimiterInv, TypeOK, CounterTells, Ages
  <1>2. CASE a \notin touched
    BY <1>2, LimitAssumption DEF LimiterInv, TypeOK, CounterTells, Ages
  <1>3. QED
    BY <1>1, <1>2

LEMMA InitInv == Init => LimiterInv
  <1> SUFFICES ASSUME Init PROVE LimiterInv
    OBVIOUS
  <1>1. TypeOK
    BY LimitAssumption DEF Init, TypeOK, Ages, NoPipe
  <1>2. CounterTells
    BY LimitAssumption, OneMore DEF Init, CounterTells, Ages
  <1>3. QED
    BY <1>1, <1>2 DEF LimiterInv

\* Being counted leaves every variable within its type.
LEMMA CountedKeepsTypes ==
  ASSUME LimiterInv, NEW c \in Callers, Counted(c)
  PROVE  /\ pipe[c] \in Ages
         /\ pipe' \in [Callers -> Ages \union {NoPipe}]
         /\ count' \in [Ages -> 0 .. Limit + 1]
         /\ touched' \in SUBSET Ages
  <1>1. pipe[c] \in Ages
    BY DEF LimiterInv, TypeOK, Counted
  <1>2. ~(count[pipe[c]] > Limit) => count[pipe[c]] + 1 \in 0 .. Limit + 1
    BY <1>1, AtSecond, LimitAssumption
  <1>3. count' \in [Ages -> 0 .. Limit + 1]
    BY <1>1, <1>2 DEF LimiterInv, TypeOK, Counted
  <1>4. QED
    BY <1>1, <1>3 DEF LimiterInv, TypeOK, Counted

\* Being let through raises the counter and the history alike.
LEMMA AllowKeepsInv ==
  ASSUME LimiterInv, NEW c \in Callers, Allow(c)
  PROVE  LimiterInv'
  <1> DEFINE k == pipe[c]
  <1>1. k \in Ages /\ 0 \in Ages
    BY CountedKeepsTypes, LimitAssumption DEF Allow, Ages
  <1>2. /\ count[k] + 1 <= Limit
        /\ count' = [count EXCEPT ![k] = count[k] + 1]
        /\ touched' = touched \union {k}
        /\ passedNow' = [passedNow EXCEPT ![k] = passedNow[k] + 1]
        /\ passed' = [passed EXCEPT ![k] = passed[k] + 1]
    <2>1. count[k] + 1 <= Limit /\ count[k] \in 0 .. Limit + 1
      BY <1>1, AtSecond DEF Allow, Number
    <2>2. ~(count[k] > Limit)
      BY <2>1, LimitAssumption
    <2>3. QED
      BY <2>1, <2>2 DEF Allow, Counted
  <1>3. TypeOK'
    <2>1. passedNow' \in [Ages -> Nat] /\ passed' \in [Ages -> Nat]
      BY <1>1, <1>2, AtSecond DEF LimiterInv, TypeOK
    <2>2. QED
      BY <2>1, CountedKeepsTypes DEF Allow, TypeOK
  <1>4. ASSUME NEW a \in Ages
        PROVE  /\ count'[a] = IF a = k THEN count[k] + 1 ELSE count[a]
               /\ passedNow'[a] = IF a = k THEN passedNow[k] + 1 ELSE passedNow[a]
               /\ passed'[a] = IF a = k THEN passed[k] + 1 ELSE passed[a]
    BY <1>1, <1>2 DEF LimiterInv, TypeOK
  <1>5. passedNow[k] <= count[k]
    BY <1>1, AtSecond
  <1>6. CounterTells'
    <2>1. \A a \in touched' : passedNow'[a] <= count'[a] /\ passedNow'[a] <= Limit
      <3> SUFFICES ASSUME NEW a \in touched'
                   PROVE  passedNow'[a] <= count'[a] /\ passedNow'[a] <= Limit
        OBVIOUS
      <3>1. a \in Ages
        BY <1>3 DEF TypeOK
      <3>2. CASE a = k
        BY <1>1, <1>2, <1>4, <1>5, <3>2, AtSecond, LimitAssumption
      <3>3. CASE a # k
        BY <1>2, <1>4, <3>1, <3>3, AtSecond
      <3>4. QED
        BY <3>2, <3>3
    <2>2. \A a \in Ages \ touched' : passedNow'[a] = 0
      BY <1>2, <1>4, AtSecond
    <2>3. passed'[0] = passedNow'[0]
      BY <1>1, <1>4 DEF LimiterInv, CounterTells
    <2>4. ASSUME NEW a \in Ages PROVE passed'[a] <= passedNow'[a] + Allowance(a)
      <3>1. Allowance(a) \in Nat
        BY AtSecond, OneMore
      <3>2. QED
        BY <1>4, <3>1, AtSecond
    <2>5. QED
      BY <2>1, <2>2, <2>3, <2>4 DEF CounterTells, Allowance
  <1>7. QED
    BY <1>3, <1>6 DEF LimiterInv

\* A caller that is refused only raises the counter.
LEMMA DenyKeepsInv ==
  ASSUME LimiterInv, NEW c \in Callers, Deny(c)
  PROVE  LimiterInv'
  <1> DEFINE k == pipe[c]
  <1>1. k \in Ages /\ touched' = touched \union {k} /\ UNCHANGED <<passedNow, passed>>
    BY CountedKeepsTypes DEF Deny, Counted
  <1>2. TypeOK'
    BY <1>1, CountedKeepsTypes DEF Deny, LimiterInv, TypeOK
  <1>3. ASSUME NEW a \in Ages
        PROVE  count'[a] >= count[a] /\ (a = k => count'[a] >= Limit)
    <2>1. CASE a = k
      BY <1>1, <2>1, AtSecond, LimitAssumption DEF Deny, Counted, Number, LimiterInv, TypeOK
    <2>2. CASE a # k
      BY <1>1, <2>2, AtSecond DEF Deny, Counted, LimiterInv, TypeOK
    <2>3. QED
      BY <2>1, <2>2
  <1>4. \A a \in touched' : passedNow[a] <= count'[a] /\ passedNow[a] <= Limit
    <2> SUFFICES ASSUME NEW a \in touched'
                 PROVE  passedNow[a] <= count'[a] /\ passedNow[a] <= Limit
      OBVIOUS
    <2>1. a \in Ages /\ count'[a] \in 0 .. Limit + 1
      BY <1>2 DEF TypeOK
    <2>2. QED
      BY <1>1, <1>3, <2>1, AtSecond, LimitAssumption
  <1>5. \A a \in Ages \ touched' : passedNow[a] = 0
    BY <1>1, AtSecond
  <1>6. CounterTells'
    BY <1>1, <1>4, <1>5 DEF CounterTells, LimiterInv, Allowance
  <1>7. QED
    BY <1>2, <1>6 DEF LimiterInv

\* The next second begins with nobody let through; what a key let through so
\* far is carried over to the next age with one more limit to its account.
LEMMA NextSecondKeepsInv ==
  ASSUME LimiterInv, NextSecond
  PROVE  LimiterInv'
  <1>1. ASSUME NEW a \in Ages, a # 0
        PROVE  a - 1 \in Ages /\ a - 1 \in Nat
    BY <1>1, LimitAssumption DEF Ages
  <1>2. 0 \in Ages
    BY LimitAssumption DEF Ages
  <1>3. TypeOK'
    <2>1. ASSUME NEW c \in Callers, pipe[c] # NoPipe PROVE pipe[c] + 1 \in Ages
      <3>1. pipe[c] \in Ages /\ pipe[c] < MaxLag
        BY <2>1 DEF LimiterInv, TypeOK, NextSecond
      <3>2. QED
        BY <3>1, LimitAssumption DEF Ages
    <2>2. pipe' \in [Callers -> Ages \union {NoPipe}]
      BY <2>1 DEF NextSecond
    <2>3. ASSUME NEW a \in Ages, a - 1 \in touched PROVE count[a - 1] \in 0 .. Limit + 1
      BY <2>3, AtSecond DEF LimiterInv, TypeOK
    <2>4. 0 \in 0 .. Limit + 1
      BY LimitAssumption
    <2>5. count' \in [Ages -> 0 .. Limit + 1]
      BY <2>3, <2>4 DEF NextSecond
    <2>6. passed' \in [Ages -> Nat]
      BY <1>1, AtSecond DEF NextSecond
    <2>7. QED
      BY <2>2, <2>5, <2>6 DEF NextSecond, TypeOK
  <1>4. ASSUME NEW a \in Ages
        PROVE  passed'[a] <= passedNow'[a] + Allowance(a)
    <2>1. CASE a = 0
      BY <2>1, OneMore DEF NextSecond
    <2>2. CASE a # 0
      <3>1. passed'[a] = passed[a - 1] /\ passedNow'[a] = 0
        BY <2>2 DEF NextSecond
      <3>2. /\ passed[a - 1] \in Nat /\ passedNow[a - 1] \in Nat
            /\ passedNow[a - 1] <= Limit
            /\ passed[a - 1] <= passedNow[a - 1] + Allowance(a - 1)
        BY <1>1, <2>2, AtSecond
      <3>3. Allowance(a) = Allowance(a - 1) + Limit /\ Allowance(a - 1) \in Nat
        <4>1. (a - 1) + 1 = a
          BY DEF Ages
        <4>2. QED
          BY <1>1, <2>2, <4>1, OneMore
      <3>4. QED
        BY <3>1, <3>2, <3>3, LimitAssumption
    <2>3. QED
      BY <2>1, <2>2
  <1>5. CounterTells'
    BY <1>2, <1>4 DEF CounterTells, NextSecond, Allowance
  <1>6. QED
    BY <1>3, <1>5 DEF LimiterInv

LEMMA NextKeepsInv == LimiterInv /\ [Next]_vars => LimiterInv'
  <1> SUFFICES ASSUME LimiterInv, [Next]_vars
               PROVE  LimiterInv'
    OBVIOUS
  <1>1. CASE UNCHANGED vars
    BY <1>1 DEF vars, LimiterInv, TypeOK, CounterTells
  <1>2. ASSUME NEW c \in Callers, Stamp(c) \/ GiveUp(c)
        PROVE  LimiterInv'
    <2>0. 0 \in Ages
      BY LimitAssumption DEF Ages
    <2>1. TypeOK'
      BY <1>2, <2>0 DEF Stamp, GiveUp, LimiterInv, TypeOK
    <2>2. CounterTells'
      BY <1>2 DEF Stamp, GiveUp, LimiterInv, CounterTells, Allowance
    <2>3. QED
      BY <2>1, <2>2 DEF LimiterInv
  <1>3. ASSUME NEW a \in Ages, Expire(a)
        PROVE  LimiterInv'
    <2>1. TypeOK'
      BY <1>3, LimitAssumption DEF Expire, LimiterInv, TypeOK
    <2>2. \A b \in touched : count'[b] = count[b]
      BY <1>3 DEF Expire, LimiterInv, TypeOK
    <2>3. CounterTells'
      BY <1>3, <2>2 DEF Expire, LimiterInv, CounterTells, Allowance
    <2>4. QED
      BY <2>1, <2>3 DEF LimiterInv
  <1>4. QED
    BY <1>1, <1>2, <1>3, AllowKeepsInv, DenyKeepsInv, NextSecondKeepsInv DEF Next

\* The counters of check_rate_limit have seen whom they let through, for any limit,
\* lag and number of callers.
THEOREM Invariance == Spec => []LimiterInv
  BY InitInv, NextKeepsInv, PTL DEF Spec

\* Types, for any limit, lag and number of callers.
THEOREM LimiterTypeCorrect == Spec => []TypeOK
  <1>1. LimiterInv => TypeOK
    BY DEF LimiterInv
  <1>2. QED
    BY <1>1, Invariance, PTL

\* The history and the counter agree as long as the limit matters.
THEOREM CounterHolds == Spec => []CounterTells
  <1>1. LimiterInv => CounterTells
    BY DEF LimiterInv
  <1>2. QED
    BY <1>1, Invariance, PTL

\* No second lets more than Limit through under its own key, and no more than
\* Limit latecomers under any earlier one.
THEOREM SecondIsHeld == Spec => []SecondHeld
  <1>1. ASSUME LimiterInv PROVE SecondHeld
    <2>1. 0 \in Ages
      BY LimitAssumption DEF Ages
    <2>2. passed[0] = passedNow[0]
      BY <1>1 DEF LimiterInv, CounterTells
    <2>3. QED
      BY <1>1, <2>1, <2>2, AtSecond DEF SecondHeld
  <1>2. QED
    BY <1>1, Invariance, PTL

\* However late the pipelines are, a key lets through at most Limit for its own
\* second and Limit for every second after it.
THEOREM BurstIsBounded == Spec => []LateBurstBounded
  <1>1. ASSUME LimiterInv, NEW a \in Ages PROVE passed[a] <= Allowance(a + 1)
    <2>1. /\ passedNow[a] <= Limit /\ passed[a] <= passedNow[a] + Allowance(a)
          /\ a \in Nat /\ passed[a] \in Nat /\ passedNow[a] \in Nat
      BY <1>1, AtSecond
    <2>2. QED
      BY <2>1, OneMore, LimitAssumption
  <1>2. LimiterInv => LateBurstBounded
    BY <1>1 DEF LateBurstBounded
  <1>3. QED
    BY <1>2, Invariance, PTL

=============================================================================
