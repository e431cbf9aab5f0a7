----------------------- MODULE PreparedTransactionProofs -----------------------
(***************************************************************************)
(* The two time bounds of Policy.daml are total and exact, for every range *)
(* of Time that fits RelTime, every duration and every time; and so is the *)
(* validation of times in a transaction executed after its preparation.    *)
(***************************************************************************)
EXTENDS AdvertisedLimits, TLAPS

\* ledgerTimePlusIsAtMost raises for no duration and no time, asks no question
\* that the ledger rejects, and answers now + d <= t.
THEOREM AtMostTotalAndExact ==
    ASSUME NEW d \in RelTime, NEW t \in Time
    PROVE  /\ Askable(ledgerTimePlusIsAtMost(d, t))
           /\ \A n \in Time : Answer(ledgerTimePlusIsAtMost(d, t), n) <=> n + d <= t
<1> USE LedgerTimeAssumption
    DEF Time, RelTime, subTime, negate, addRelTime, Asks, Known, isLedgerTimeLE
<1>1. CASE d >= 0 /\ t - MinTime < d
  BY <1>1 DEF ledgerTimePlusIsAtMost, Askable, Answer
<1>2. CASE d >= 0 /\ ~(t - MinTime < d)
  <2>1. addRelTime(t, negate(d)) = t - d /\ t - d \in Time
    BY <1>2
  <2>2. CASE t - d = MaxTime
    BY <1>2, <2>1, <2>2 DEF ledgerTimePlusIsAtMost, Askable, Answer
  <2>3. CASE t - d # MaxTime
    <3>1. ledgerTimePlusIsAtMost(d, t) = isLedgerTimeLE(t - d)
      BY <1>2, <2>1, <2>3 DEF ledgerTimePlusIsAtMost
    <3>. QED  BY <2>1, <2>3, <3>1 DEF Askable, Answer
  <2>. QED  BY <2>2, <2>3
<1>3. CASE d < 0 /\ d <= t - MaxTime
  BY <1>3 DEF ledgerTimePlusIsAtMost, Askable, Answer
<1>4. CASE d < 0 /\ ~(d <= t - MaxTime)
  <2>1. addRelTime(t, negate(d)) = t - d /\ t - d \in Time /\ t - d # MaxTime
    BY <1>4
  <2>2. ledgerTimePlusIsAtMost(d, t) = isLedgerTimeLE(t - d)
    BY <1>4, <2>1 DEF ledgerTimePlusIsAtMost
  <2>. QED  BY <2>1, <2>2 DEF Askable, Answer
<1>. QED  BY <1>1, <1>2, <1>3, <1>4

\* The same for ledgerTimePlusIsAtLeast and t <= now + d.
THEOREM AtLeastTotalAndExact ==
    ASSUME NEW d \in RelTime, NEW t \in Time
    PROVE  /\ Askable(ledgerTimePlusIsAtLeast(d, t))
           /\ \A n \in Time : Answer(ledgerTimePlusIsAtLeast(d, t), n) <=> t <= n + d
<1> USE LedgerTimeAssumption
    DEF Time, RelTime, subTime, negate, addRelTime, Asks, Known, isLedgerTimeGE
<1>1. CASE d >= 0 /\ t - MinTime < d
  BY <1>1 DEF ledgerTimePlusIsAtLeast, Askable, Answer
<1>2. CASE d < 0 /\ d < t - MaxTime
  BY <1>2 DEF ledgerTimePlusIsAtLeast, Askable, Answer
<1>3. CASE (d >= 0 /\ ~(t - MinTime < d)) \/ (d < 0 /\ ~(d < t - MaxTime))
  <2>1. addRelTime(t, negate(d)) = t - d /\ t - d \in Time
    BY <1>3
  <2>2. ledgerTimePlusIsAtLeast(d, t) = isLedgerTimeGE(t - d)
    BY <1>3, <2>1 DEF ledgerTimePlusIsAtLeast
  <2>. QED  BY <2>1, <2>2 DEF Askable, Answer
<1>. QED  BY <1>1, <1>2, <1>3

\* The same for requestedInPast and t < now.
THEOREM InPastTotalAndExact ==
    ASSUME NEW t \in Time
    PROVE  /\ Askable(requestedInPast(t))
           /\ \A n \in Time : Answer(requestedInPast(t), n) <=> t < n
<1> USE LedgerTimeAssumption DEF Time, Asks, Known, isLedgerTimeGT, requestedInPast
<1>1. CASE t = MaxTime
  BY <1>1 DEF Askable, Answer
<1>2. CASE t # MaxTime
  BY <1>2 DEF Askable, Answer
<1>. QED  BY <1>1, <1>2

-------------------------------------------------------------------------------
(* The transaction. *)

Questions(t) ==
    {requestedInPast(t.requestedAt),
     ledgerTimePlusIsAtMost(t.minDuration, t.expiresAt),
     ledgerTimePlusIsAtLeast(t.maxDuration, t.expiresAt)}

\* Once prepared, all the questions have been asked; an abortion has asked some.
Recorded ==
    /\ tx \in [phase : {"prepared", "aborted", "executed", "rejected"},
              minDuration : Durations, maxDuration : Durations,
              requestedAt : Time, expiresAt : Time, questions : SUBSET Questions(tx)]
    /\ tx.phase # "aborted" => tx.questions = Questions(tx)

TxInv ==
    /\ now \in Time
    /\ tx = Idle \/ (tx # Idle /\ Recorded)
    /\ ExecutedExactly

\* All questions are answered with yes exactly when the times are valid.
LEMMA AnswersAreExact ==
    ASSUME NEW t, NEW n \in Time, t.minDuration \in Durations, t.maxDuration \in Durations,
           t.requestedAt \in Time, t.expiresAt \in Time
    PROVE  /\ \A q \in Questions(t) : Askable(q)
           /\ Answer(requestedInPast(t.requestedAt), n) <=> t.requestedAt < n
           /\ Answer(ledgerTimePlusIsAtMost(t.minDuration, t.expiresAt), n)
                 <=> n + t.minDuration <= t.expiresAt
           /\ Answer(ledgerTimePlusIsAtLeast(t.maxDuration, t.expiresAt), n)
                 <=> t.expiresAt <= n + t.maxDuration
BY DurationAssumption, InPastTotalAndExact, AtMostTotalAndExact, AtLeastTotalAndExact DEF Questions

LEMMA PrepareOK ==
    ASSUME TxInv, NEW minDuration \in Durations, NEW maxDuration \in Durations,
           NEW requestedAt \in Time, NEW expiresAt \in Time,
           Prepare(minDuration, maxDuration, requestedAt, expiresAt)
    PROVE  TxInv'
<1> DEFINE questions == asked(minDuration, maxDuration, requestedAt, expiresAt)
           phase == IF \A q \in questions : Answer(q, now) THEN "prepared" ELSE "aborted"
           t     == [phase |-> phase, minDuration |-> minDuration, maxDuration |-> maxDuration,
                     requestedAt |-> requestedAt, expiresAt |-> expiresAt, questions |-> questions]
           q1    == requestedInPast(requestedAt)
           q2    == ledgerTimePlusIsAtMost(minDuration, expiresAt)
           q3    == ledgerTimePlusIsAtLeast(maxDuration, expiresAt)
<1>1. tx' = t /\ now' = now /\ now \in Time
  BY DEF Prepare, TxInv
<1>2. questions = {q1} \union (IF Answer(q1, now) THEN {q2} ELSE {})
                       \union (IF Answer(q1, now) /\ Answer(q2, now) THEN {q3} ELSE {})
  BY DEF asked
<1>3. Questions(t) = {q1, q2, q3}
  BY DEF Questions
<1>4. /\ t.phase = phase /\ t.questions = questions
      /\ t.minDuration = minDuration /\ t.maxDuration = maxDuration
      /\ t.requestedAt = requestedAt /\ t.expiresAt = expiresAt
      /\ t \in [phase : {phase}, minDuration : Durations, maxDuration : Durations,
                requestedAt : Time, expiresAt : Time, questions : {questions}]
  OBVIOUS
<1>5. /\ Answer(q1, now) <=> requestedAt < now
      /\ Answer(q2, now) <=> now + minDuration <= expiresAt
      /\ Answer(q3, now) <=> expiresAt <= now + maxDuration
  BY <1>1, DurationAssumption, InPastTotalAndExact, AtMostTotalAndExact, AtLeastTotalAndExact
<1>6. phase \in {"prepared", "aborted"}
  OBVIOUS
<1>. HIDE DEF q1, q2, q3, questions, t
<1>7. phase = "aborted" <=> ~(Answer(q1, now) /\ Answer(q2, now) /\ Answer(q3, now))
  BY <1>2
<1>8. questions \subseteq {q1, q2, q3} /\ (phase # "aborted" => questions = {q1, q2, q3})
  BY <1>2, <1>7
<1>9. t # Idle
  <2>1. Idle.phase = "idle"
    BY DEF Idle
  <2>. QED  BY <1>4, <1>6, <2>1
<1>. HIDE DEF phase
<1>10. Recorded'
  BY <1>1, <1>3, <1>4, <1>6, <1>8 DEF Recorded
<1>11. ExecutedExactly'
  BY <1>1, <1>4, <1>5, <1>6, <1>7 DEF ExecutedExactly, timesAreValid
<1>. QED  BY <1>1, <1>9, <1>10, <1>11 DEF TxInv

LEMMA ExecuteOK ==
    ASSUME TxInv, Execute
    PROVE  TxInv'
<1> DEFINE phase == IF \A q \in tx.questions : Answer(q, now) THEN "executed" ELSE "rejected"
<1>1. tx.phase = "prepared" /\ tx' = [tx EXCEPT !.phase = phase] /\ now' = now /\ now \in Time
  BY DEF Execute, TxInv
<1>2. tx # Idle /\ Recorded
  <2>1. Idle.phase = "idle"
    BY DEF Idle
  <2>. QED  BY <1>1, <2>1 DEF TxInv
<1>3. /\ tx'.phase = phase /\ tx'.questions = tx.questions
      /\ tx'.minDuration = tx.minDuration /\ tx'.maxDuration = tx.maxDuration
      /\ tx'.requestedAt = tx.requestedAt /\ tx'.expiresAt = tx.expiresAt
      /\ tx' \in [phase : {phase}, minDuration : Durations, maxDuration : Durations,
                  requestedAt : Time, expiresAt : Time, questions : SUBSET Questions(tx)]
  BY <1>1, <1>2 DEF Recorded
<1>4. phase \in {"executed", "rejected"} /\ Questions(tx') = Questions(tx)
  BY <1>3 DEF Questions
<1>5. phase = "executed" <=> timesAreValid
  <2>1. /\ Answer(requestedInPast(tx.requestedAt), now) <=> tx.requestedAt < now
        /\ Answer(ledgerTimePlusIsAtMost(tx.minDuration, tx.expiresAt), now)
              <=> now + tx.minDuration <= tx.expiresAt
        /\ Answer(ledgerTimePlusIsAtLeast(tx.maxDuration, tx.expiresAt), now)
              <=> tx.expiresAt <= now + tx.maxDuration
    BY <1>1, <1>2, AnswersAreExact DEF Recorded
  <2>2. tx.questions = Questions(tx)
    BY <1>1, <1>2 DEF Recorded
  <2>. QED  BY <2>1, <2>2 DEF Questions, timesAreValid
<1>. HIDE DEF phase
<1>6. Recorded'
  BY <1>1, <1>2, <1>3, <1>4 DEF Recorded
<1>7. ExecutedExactly'
  BY <1>1, <1>3, <1>4, <1>5 DEF ExecutedExactly, timesAreValid
<1>8. tx' # Idle
  <2>1. Idle.phase = "idle"
    BY DEF Idle
  <2>. QED  BY <1>3, <1>4, <2>1
<1>. QED  BY <1>1, <1>6, <1>7, <1>8 DEF TxInv

\* Time may pass before the execution: what has been asked is still on record.
LEMMA TickOK ==
    ASSUME TxInv, Tick
    PROVE  TxInv'
<1>1. now' \in Time /\ tx' = tx /\ tx.phase \in {"idle", "prepared"}
  BY LedgerTimeAssumption DEF Tick, TxInv, Time
<1>2. ExecutedExactly'
  BY <1>1 DEF ExecutedExactly
<1>3. Recorded => Recorded'
  BY <1>1 DEF Recorded
<1>. QED  BY <1>1, <1>2, <1>3 DEF TxInv

LEMMA TxInvariance == Spec => []TxInv
<1>1. Init => TxInv
  BY DEF Init, TxInv, Idle, ExecutedExactly
<1>2. TxInv /\ [Next]_vars => TxInv'
  <2> SUFFICES ASSUME TxInv, [Next]_vars PROVE TxInv'
    OBVIOUS
  <2>1. CASE UNCHANGED vars
    BY <2>1 DEF vars, TxInv, Recorded, ExecutedExactly, timesAreValid
  <2>. QED  BY <2>1, PrepareOK, ExecuteOK, TickOK DEF Next
<1>. QED  BY <1>1, <1>2, PTL DEF Spec

\* No preparation of a transaction raises (QuestionsAskable).
THEOREM PreparationIsTotal == Spec => []QuestionsAskable
<1>1. ASSUME TxInv PROVE QuestionsAskable
  <2>1. CASE tx = Idle
    BY <2>1 DEF QuestionsAskable
  <2>2. CASE tx # Idle
    <3>1. Recorded /\ now \in Time
      BY <1>1, <2>2 DEF TxInv
    <3>2. \A q \in Questions(tx) : Askable(q)
      BY <3>1, AnswersAreExact DEF Recorded
    <3>. QED  BY <3>1, <3>2 DEF Recorded, QuestionsAskable
  <2>. QED  BY <2>1, <2>2
<1>. QED  BY <1>1, TxInvariance, PTL

\* However long a prepared transaction waits, it executes exactly if its times
\* are valid at the ledger time of its execution (ExecutedExactly).
THEOREM ExecutionIsExact == Spec => []ExecutedExactly
<1>1. TxInv => ExecutedExactly
  BY DEF TxInv
<1>. QED  BY <1>1, TxInvariance, PTL

-------------------------------------------------------------------------------
(* Durations as texts. *)

LEMMA DivMod ==
    ASSUME NEW x \in Int, NEW k \in Int, k > 0
    PROVE  /\ x \div k \in Int /\ x % k \in Int /\ 0 <= x % k /\ x % k < k
           /\ x = k * (x \div k) + (x % k)
           /\ x >= 0 => x \div k >= 0
OBVIOUS

LEMMA DivMod2 ==
    ASSUME NEW x \in Nat, NEW k \in Nat \ {0}, NEW n \in Nat
    PROVE  n > x \div k <=> n * k > x
<1> DEFINE q == x \div k
           r == x % k
<1>1. q \in Nat /\ r \in Nat /\ r < k /\ x = q * k + r
  BY DivMod
<1>. HIDE DEF q, r
<1>2. CASE n > q
  <2>1. PICK e \in Nat : n = q + 1 + e
    <3>1. n - q - 1 \in Nat /\ n = q + 1 + (n - q - 1)
      BY <1>1, <1>2
    <3>. QED  BY <3>1
  <2>2. n * k = q * k + k + e * k /\ e * k >= 0 /\ q * k \in Nat
    BY <1>1, <2>1
  <2>. QED  BY <1>1, <1>2, <2>2 DEF q
<1>3. CASE ~(n > q)
  <2>1. PICK e \in Nat : q = n + e
    <3>1. q - n \in Nat /\ q = n + (q - n)
      BY <1>1, <1>3
    <3>. QED  BY <3>1
  <2>2. q * k = n * k + e * k /\ e * k >= 0 /\ n * k \in Nat
    BY <1>1, <2>1
  <2>. QED  BY <1>1, <1>3, <2>2 DEF q
<1>. QED  BY <1>2, <1>3

LEMMA Below == ASSUME NEW x \in Nat, NEW k \in Nat \ {0} PROVE x \div k <= x
<1> DEFINE q == x \div k
<1>1. q \in Nat /\ x >= q * k
  BY DivMod
<1>. HIDE DEF q
<1>2. q * k >= q
  BY <1>1
<1>. QED  BY <1>1, <1>2 DEF q

\* What scaling yields: the product, up to the bound.
LEMMA Scaled ==
    ASSUME NEW k \in Nat \ {0}, NEW n \in Nat
    PROVE  /\ n * k \in Nat
           /\ scaleMicros(k, n) = IF n * k > MaxAdvertised THEN None ELSE n * k
<1>1. n * k \in Nat /\ MaxAdvertised \in Nat /\ None \notin Int
  BY AdvertisedAssumption
<1>2. n > MaxAdvertised \div k <=> n * k > MaxAdvertised
  BY <1>1, DivMod2
<1>3. \A m \in Nat : m <= MaxAdvertised => inRange(m) = m
  BY AdvertisedAssumption, LedgerTimeAssumption DEF inRange, RelTime
<1>. QED  BY <1>1, <1>2, <1>3 DEF scaleMicros

LEMMA DayPositive == microsPerDay \in Nat \ {0}
BY AdvertisedAssumption DEF microsPerDay

\* A parsed text is no text, or a duration with a magnitude below the bound.
Bounded(d) == d \in RelTime /\ d # -MaxInt - 1 /\ magnitude(d) < MaxAdvertised + MicrosPerSecond

LEMMA NegateNat ==
    ASSUME NEW n \in Nat, n <= MaxInt
    PROVE  negate(n) = -n
<1>1. -n \in RelTime
  BY LedgerTimeAssumption DEF RelTime
<1>. QED  BY <1>1 DEF negate

LEMMA NegateBounded ==
    ASSUME NEW n \in Nat, n < MaxAdvertised + MicrosPerSecond
    PROVE  /\ Bounded(n) /\ Bounded(negate(n)) /\ negate(n) = -n
           /\ n \notin {None, Overflow} /\ -n \notin {None, Overflow}
<1>1. /\ n <= MaxInt /\ MaxInt \in Nat /\ -n \in RelTime /\ n \in RelTime
      /\ MaxAdvertised + MicrosPerSecond \in Nat
  BY AdvertisedAssumption, LedgerTimeAssumption DEF RelTime
<1>2. negate(n) = -n /\ negate(-n) = n
  BY <1>1 DEF negate
<1>3. n \notin {None, Overflow} /\ -n \notin {None, Overflow}
  BY AdvertisedAssumption, LedgerTimeAssumption
<1>. QED  BY <1>1, <1>2, <1>3 DEF Bounded, magnitude

\* The whole seconds and the fraction of a text, whatever stands in it.
LEMMA SecondsBounded ==
    ASSUME NEW text \in DurationText
    PROVE  \/ parseSeconds(text) = None
           \/ parseSeconds(text) \in Nat /\ parseSeconds(text) < MaxAdvertised + MicrosPerSecond
<1> DEFINE n == parseNat(text.whole)
           w == scaleMicros(MicrosPerSecond, n)
<1>1. /\ MicrosPerSecond \in Nat \ {0} /\ MaxAdvertised \in Nat /\ MaxAdvertised + MicrosPerSecond <= MaxInt
      /\ None \notin Int /\ Overflow \notin Int /\ MaxInt \in Nat
  BY AdvertisedAssumption, LedgerTimeAssumption
<1>2. n = None \/ n \in Nat
  BY AdvertisedAssumption DEF DurationText, parseNat
<1>3. w = None \/ (w \in Nat /\ w <= MaxAdvertised)
  <2>1. CASE n = None
    BY <2>1 DEF scaleMicros
  <2>2. CASE n \in Nat
    BY <1>1, <2>2, Scaled
  <2>. QED  BY <1>2, <2>1, <2>2
<1>4. parseSeconds(text) =
          IF text.fraction = None THEN w
          ELSE IF ~text.fraction.sixDigits THEN None
          ELSE IF w \in {None, Overflow} THEN w
          ELSE inRange(w + text.fraction.value)
  BY DEF parseSeconds
<1>. HIDE DEF n, w
<1>5. ASSUME text.fraction # None, w \in Nat, w <= MaxAdvertised
      PROVE  /\ inRange(w + text.fraction.value) \in Nat
             /\ inRange(w + text.fraction.value) < MaxAdvertised + MicrosPerSecond
  <2>1. text.fraction \in Fraction
    BY <1>5 DEF DurationText
  <2>2. text.fraction.value \in 0 .. MicrosPerSecond - 1
    BY <2>1 DEF Fraction
  <2>. QED  BY <1>1, <1>5, <2>2 DEF inRange, RelTime
<1>. QED  BY <1>1, <1>3, <1>4, <1>5

LEMMA ParseBounded ==
    ASSUME NEW text \in DurationText
    PROVE  parseDuration(text) = None \/ Bounded(parseDuration(text))
<1> DEFINE us == CASE text.form = "seconds" -> parseSeconds(text)
                   [] text.form = "days" /\ text.fraction = None ->
                          scaleMicros(microsPerDay, parseNat(text.whole))
                   [] OTHER -> None
<1>1. us = None \/ (us \in Nat /\ us < MaxAdvertised + MicrosPerSecond)
  <2>1. CASE text.form = "seconds"
    BY <2>1, SecondsBounded
  <2>2. CASE text.form = "days" /\ text.fraction = None
    <3>1. us = scaleMicros(microsPerDay, parseNat(text.whole))
      BY <2>2
    <3>2. parseNat(text.whole) = None \/ parseNat(text.whole) \in Nat
      BY AdvertisedAssumption DEF DurationText, parseNat
    <3>3. parseNat(text.whole) = None => us = None
      BY <3>1 DEF scaleMicros
    <3>. HIDE DEF us
    <3>4. ASSUME NEW n \in Nat, n = parseNat(text.whole)
          PROVE  us = None \/ (us \in Nat /\ us < MaxAdvertised + MicrosPerSecond)
      <4>1. us = scaleMicros(microsPerDay, n)
        BY <3>1, <3>4
      <4>. QED  BY <4>1, DayPositive, Scaled, AdvertisedAssumption
    <3>. QED  BY <3>2, <3>3, <3>4
  <2>3. CASE text.form # "seconds" /\ ~(text.form = "days" /\ text.fraction = None)
    BY <2>3
  <2>. QED  BY <2>1, <2>2, <2>3
<1>2. parseDuration(text) = IF text.negative /\ us \notin {None, Overflow} THEN negate(us) ELSE us
  BY DEF parseDuration
<1>. HIDE DEF us
<1>. QED  BY <1>1, <1>2, NegateBounded


\* A duration that is a whole number of units is read from their number.
LEMMA WholeUnits ==
    ASSUME NEW k \in Nat \ {0}, NEW m \in Nat,
           NEW whole, whole = IF m \div k > MaxNumeral THEN Malformed ELSE m \div k
    PROVE  LET w == scaleMicros(k, parseNat(whole))
           IN  \/ w = None /\ m > MaxAdvertised
               \/ w \in Nat /\ w = m - (m % k)
<1> DEFINE n == m \div k
           r == m % k
           w == scaleMicros(k, parseNat(whole))
<1>1. n \in Nat /\ r \in Nat /\ m = k * n + r /\ n <= m
  BY DivMod, Below
<1>2. MaxAdvertised \in Nat /\ MaxNumeral \in Nat /\ MaxAdvertised <= MaxNumeral /\ Malformed \notin Int
  BY AdvertisedAssumption
<1>. HIDE DEF n, r
<1>3. CASE n > MaxNumeral
  <2>1. parseNat(whole) = None
    BY <1>3 DEF parseNat, n
  <2>. QED  BY <1>1, <1>2, <1>3, <2>1 DEF scaleMicros
<1>4. CASE ~(n > MaxNumeral)
  <2>1. parseNat(whole) = n
    BY <1>1, <1>2, <1>4 DEF parseNat, n
  <2>2. w = IF n * k > MaxAdvertised THEN None ELSE n * k
    BY <1>1, <2>1, Scaled
  <2>3. k * n = n * k /\ n * k \in Nat
    BY <1>1
  <2> DEFINE x == n * k
  <2>4. x \in Nat /\ m = x + r /\ w = IF x > MaxAdvertised THEN None ELSE x
    BY <1>1, <2>2, <2>3
  <2>. HIDE DEF x, w
  <2>5. (w = None /\ m > MaxAdvertised) \/ (w \in Nat /\ w = m - r)
    BY <1>1, <1>2, <2>4
  <2>. QED  BY <2>5 DEF w, r
<1>. QED  BY <1>3, <1>4

\* What a registry advertises up to the bound is read as what it enforces.
LEMMA RoundTrip ==
    ASSUME NEW d \in RelTime, magnitude(d) # Overflow
    PROVE  /\ renderDuration(d) \in DurationText
           /\ parseDuration(renderDuration(d)) \in {d, None}
           /\ parseDuration(renderDuration(d)) = None => magnitude(d) > MaxAdvertised
<1> DEFINE m == magnitude(d)
           text == renderDuration(d)
           wholeDays == m > 0 /\ m % microsPerDay = 0
           rest == m % MicrosPerSecond
           n == IF wholeDays THEN m \div microsPerDay ELSE m \div MicrosPerSecond
           whole == IF n > MaxNumeral THEN Malformed ELSE n
           fraction == IF wholeDays \/ rest = 0 THEN None ELSE [sixDigits |-> TRUE, value |-> rest]
           us == CASE text.form = "seconds" -> parseSeconds(text)
                   [] text.form = "days" /\ text.fraction = None ->
                          scaleMicros(microsPerDay, parseNat(text.whole))
                   [] OTHER -> None
<1>1. m \in Nat /\ d = (IF d < 0 THEN -m ELSE m) /\ m <= MaxInt
  BY LedgerTimeAssumption DEF magnitude, negate, RelTime
<1>2. /\ MicrosPerSecond \in Nat \ {0} /\ MaxAdvertised \in Nat /\ MaxNumeral \in Nat
      /\ None \notin Int /\ Overflow \notin Int /\ MaxInt \in Nat
  BY AdvertisedAssumption, LedgerTimeAssumption
<1>3. text = [negative |-> d < 0, form |-> IF wholeDays THEN "days" ELSE "seconds",
              whole |-> whole, fraction |-> fraction]
  BY DEF renderDuration
<1>4. rest \in Nat /\ rest < MicrosPerSecond
  BY <1>1, <1>2, DivMod
<1>5. n \in Nat
  BY <1>1, <1>2, DayPositive, DivMod
<1>. HIDE DEF m, n, rest, wholeDays
<1>6. whole \in (0 .. MaxNumeral) \union {Malformed} /\ fraction \in Fraction \union {None}
  BY <1>2, <1>4, <1>5 DEF Fraction
<1>. HIDE DEF whole, fraction
<1>7. /\ text.negative = (d < 0) /\ text.form = IF wholeDays THEN "days" ELSE "seconds"
      /\ text.whole = whole /\ text.fraction = fraction /\ text \in DurationText
  BY <1>3, <1>6 DEF DurationText
<1>. HIDE DEF text
<1>8. (us = None /\ m > MaxAdvertised) \/ us = m
  <2>1. CASE wholeDays
    <3>1. us = scaleMicros(microsPerDay, parseNat(whole))
      BY <1>7, <2>1 DEF fraction
    <3>2. m % microsPerDay = 0 /\ whole = IF m \div microsPerDay > MaxNumeral THEN Malformed ELSE m \div microsPerDay
      BY <2>1 DEF wholeDays, whole, n
    <3>. HIDE DEF us
    <3>3. \/ us = None /\ m > MaxAdvertised
          \/ us \in Nat /\ us = m - (m % microsPerDay)
      BY <1>1, <3>1, <3>2, DayPositive, WholeUnits
    <3>. QED  BY <1>1, <3>2, <3>3
  <2>2. CASE ~wholeDays
    <3> DEFINE w == scaleMicros(MicrosPerSecond, parseNat(whole))
    <3>1. us = parseSeconds(text)
      BY <1>7, <2>2
    <3>2. whole = IF m \div MicrosPerSecond > MaxNumeral THEN Malformed ELSE m \div MicrosPerSecond
      BY <2>2 DEF whole, n
    <3>3. (w = None /\ m > MaxAdvertised) \/ (w \in Nat /\ w = m - rest)
      BY <1>1, <1>2, <3>2, WholeUnits DEF rest
    <3>4. parseSeconds(text) =
              IF fraction = None THEN w
              ELSE IF ~fraction.sixDigits THEN None
              ELSE IF w \in {None, Overflow} THEN w
              ELSE inRange(w + fraction.value)
      BY <1>7 DEF parseSeconds
    <3>. HIDE DEF w, us
    <3>5. CASE rest = 0
      <4>1. fraction = None
        BY <3>5 DEF fraction
      <4>. QED  BY <1>1, <3>1, <3>3, <3>4, <3>5, <4>1
    <3>6. CASE rest # 0
      <4>1. fraction = [sixDigits |-> TRUE, value |-> rest]
        BY <2>2, <3>6 DEF fraction
      <4>2. fraction # None
        <5>1. fraction \in Fraction
          BY <1>2, <1>4, <4>1 DEF Fraction
        <5>. QED  BY <5>1, NoneAssumption
      <4>3. fraction.sixDigits = TRUE /\ fraction.value = rest
        BY <4>1
      <4>4. inRange(m) = m
        BY <1>1, <1>2 DEF inRange, RelTime
      <4>5. us = IF w \in {None, Overflow} THEN w ELSE inRange(w + rest)
        BY <3>1, <3>4, <4>2, <4>3
      <4>6. CASE w = None /\ m > MaxAdvertised
        BY <4>5, <4>6
      <4>7. CASE w \in Nat /\ w = m - rest
        <5>1. w \notin {None, Overflow} /\ w + rest = m
          BY <1>1, <1>2, <1>4, <4>7
        <5>. QED  BY <4>4, <4>5, <5>1
      <4>. QED  BY <3>3, <4>6, <4>7
    <3>. QED  BY <3>5, <3>6
  <2>. QED  BY <2>1, <2>2
<1>9. parseDuration(text) = IF (d < 0) /\ us \notin {None, Overflow} THEN negate(us) ELSE us
  BY <1>7 DEF parseDuration
<1>. HIDE DEF us
<1>10. negate(m) = -m
  BY <1>1, NegateNat
<1>11. /\ parseDuration(text) \in {d, None}
       /\ parseDuration(text) = None => m > MaxAdvertised
  BY <1>1, <1>2, <1>8, <1>9, <1>10
<1>. QED  BY <1>7, <1>11 DEF text, m


-------------------------------------------------------------------------------
(* The wallet and the advertisement. *)

Advertisement(meta) ==
    \/ \E low, high \in Durations :
          /\ Overflow \notin {magnitude(low), magnitude(high)}
          /\ meta = [low |-> renderDuration(low), high |-> renderDuration(high),
                     enforced |-> Own(low, high)]
    \/ \E text \in DurationText : meta = [low |-> text, high |-> text, enforced |-> Foreign]

LimitsInv ==
    /\ TxInv
    /\ advertised = None => read = None
    /\ advertised # None => Advertisement(advertised) /\ tx.phase # "aborted"
    /\ read # None => read = limitsFromMetadata(advertised)

LEMMA FreshAdvertisement ==
    ASSUME LimitsInv, tx = Idle, advertised = None, Advertisement(advertised'),
           UNCHANGED <<vars, read>>
    PROVE  LimitsInv'
<1>1. now' = now /\ tx' = tx /\ read' = read /\ tx'.phase = "idle" /\ read' = None
  BY DEF LimitsInv, vars, Idle
<1>2. TxInv'
  BY <1>1 DEF LimitsInv, TxInv, Recorded, ExecutedExactly, timesAreValid
<1>. QED  BY <1>1, <1>2 DEF LimitsInv

\* A wallet that has read limits of a registry's own offers what the registry enforces.
LEMMA OfferPrepares ==
    ASSUME LimitsInv, NEW requestedAt \in Time, NEW expiresAt \in Time, Offer(requestedAt, expiresAt)
    PROVE  /\ \E low, high \in Durations : Prepare(low, high, requestedAt, expiresAt)
           /\ tx'.phase = "prepared"
<1>1. read # None /\ advertised # None /\ Advertisement(advertised)
  BY DEF Offer, isRead, LimitsInv
<1>2. /\ read.low # None /\ read.high # None /\ read = limitsFromMetadata(advertised)
      /\ advertised.enforced.tag = "own"
      /\ \A q \in asked(read.low, read.high, requestedAt, expiresAt) : Answer(q, now)
      /\ Prepare(advertised.enforced.low, advertised.enforced.high, requestedAt, expiresAt)
  BY <1>1 DEF Offer, isRead, LimitsInv
<1>3. PICK low \in Durations, high \in Durations :
          /\ Overflow \notin {magnitude(low), magnitude(high)}
          /\ advertised = [low |-> renderDuration(low), high |-> renderDuration(high),
                           enforced |-> Own(low, high)]
  BY <1>1, <1>2 DEF Advertisement, Foreign
<1>4. /\ advertised.low = renderDuration(low) /\ advertised.high = renderDuration(high)
      /\ advertised.enforced.low = low /\ advertised.enforced.high = high
  BY <1>3 DEF Own
<1>5. read.low = low /\ read.high = high
  BY <1>2, <1>3, <1>4, RoundTrip, DurationAssumption DEF limitsFromMetadata
<1>6. Prepare(low, high, requestedAt, expiresAt)
  BY <1>2, <1>4
<1>7. tx'.phase = "prepared"
  BY <1>2, <1>5, <1>6 DEF Prepare
<1>. QED  BY <1>6, <1>7

LEMMA LimitsInductive == LimitsInv /\ [LimitsNext]_limitsVars => LimitsInv'
<1>1. SUFFICES ASSUME LimitsInv, [LimitsNext]_limitsVars PROVE LimitsInv'
  OBVIOUS
<1>2. ASSUME tx = Idle, advertised = None, NEW low \in Durations, NEW high \in Durations,
             Advertise(low, high)
      PROVE  LimitsInv'
  BY <1>1, <1>2, FreshAdvertisement DEF Advertise, Advertisement
<1>3. ASSUME tx = Idle, advertised = None, NEW text \in DurationText, AdvertiseForeign(text)
      PROVE  LimitsInv'
  BY <1>1, <1>3, FreshAdvertisement DEF AdvertiseForeign, Advertisement
<1>4. CASE ReadMetadata
  <2>1. /\ now' = now /\ tx' = tx /\ advertised' = advertised /\ advertised # None
        /\ read' = limitsFromMetadata(advertised)
    BY <1>4 DEF ReadMetadata, vars
  <2>2. TxInv'
    BY <1>1, <2>1 DEF LimitsInv, TxInv, Recorded, ExecutedExactly, timesAreValid
  <2>. QED  BY <1>1, <2>1, <2>2 DEF LimitsInv
<1>5. CASE OfferUnread
  <2>1. TxInv' /\ advertised = None /\ advertised' = advertised /\ read' = read
    BY <1>1, <1>5, PrepareOK DEF OfferUnread, LimitsInv
  <2>. QED  BY <1>1, <2>1 DEF LimitsInv
<1>6. ASSUME NEW requestedAt \in Time, NEW expiresAt \in Time, Offer(requestedAt, expiresAt)
      PROVE  LimitsInv'
  <2>1. advertised' = advertised /\ read' = read
    BY <1>6 DEF Offer
  <2>2. tx'.phase = "prepared" /\ TxInv'
    BY <1>1, <1>6, OfferPrepares, PrepareOK DEF LimitsInv
  <2>. QED  BY <1>1, <2>1, <2>2 DEF LimitsInv
<1>7. CASE (Execute \/ Tick) /\ UNCHANGED <<advertised, read>>
  <2>1. TxInv'
    BY <1>1, <1>7, ExecuteOK, TickOK DEF LimitsInv
  <2>2. tx.phase # "aborted" => tx'.phase # "aborted"
    <3>1. CASE Tick
      BY <3>1 DEF Tick
    <3>2. CASE Execute
      <4>1. tx.phase = "prepared"
        BY <3>2 DEF Execute
      <4>2. tx # Idle /\ Recorded
        BY <1>1, <4>1 DEF LimitsInv, TxInv, Idle
      <4>. QED  BY <3>2, <4>2 DEF Execute, Recorded
    <3>. QED  BY <1>7, <3>1, <3>2
  <2>. QED  BY <1>1, <1>7, <2>1, <2>2 DEF LimitsInv
<1>8. CASE UNCHANGED limitsVars
  BY <1>1, <1>8 DEF limitsVars, vars, LimitsInv, TxInv, Recorded, ExecutedExactly, timesAreValid
<1>. QED  BY <1>1, <1>2, <1>3, <1>4, <1>5, <1>6, <1>7, <1>8 DEF LimitsNext

LEMMA LimitsInvariance == LimitsSpec => []LimitsInv
<1>1. LimitsInit => LimitsInv
  BY DEF LimitsInit, LimitsInv, Init, TxInv, Idle, ExecutedExactly
<1>. QED  BY <1>1, LimitsInductive, PTL DEF LimitsSpec

\* What a wallet reads from an advertisement never raises and is bounded, whatever
\* stands there; a registry's own durations are read as those it enforces, or not
\* at all beyond the bound; and no terms that were checked against them are refused
\* at the time of the check (renderDuration, parseDuration, limitsFromMetadata).
THEOREM AdvertisedAlwaysEnforced == LimitsSpec => []AdvertisedAreEnforced
<1>1. ASSUME LimitsInv PROVE AdvertisedAreEnforced
  <2>1. ASSUME read # None
        PROVE  /\ read.low = parseDuration(advertised.low) /\ read.high = parseDuration(advertised.high)
               /\ Advertisement(advertised)
    BY <1>1, <2>1 DEF LimitsInv, limitsFromMetadata
  <2>2. ASSUME read # None
        PROVE  advertised.low \in DurationText /\ advertised.high \in DurationText
    <3>1. CASE \E text \in DurationText : advertised = [low |-> text, high |-> text, enforced |-> Foreign]
      BY <3>1
    <3>2. ASSUME NEW low \in Durations, NEW high \in Durations,
                 Overflow \notin {magnitude(low), magnitude(high)},
                 advertised = [low |-> renderDuration(low), high |-> renderDuration(high),
                               enforced |-> Own(low, high)]
          PROVE  advertised.low \in DurationText /\ advertised.high \in DurationText
      BY <3>2, RoundTrip, DurationAssumption
    <3>. QED  BY <2>1, <2>2, <3>1, <3>2 DEF Advertisement
  <2>3. ASSUME read # None
        PROVE  /\ Overflow \notin {read.low, read.high}
               /\ \A d \in {read.low, read.high} \ {None} : magnitude(d) < MaxAdvertised + MicrosPerSecond
    <3>1. \A d \in {read.low, read.high} : d = None \/ Bounded(d)
      BY <2>1, <2>2, <2>3, ParseBounded
    <3>2. Overflow # None /\ Overflow \notin RelTime
      BY AdvertisedAssumption, LedgerTimeAssumption DEF RelTime
    <3>. QED  BY <3>1, <3>2 DEF Bounded
  <2>4. ASSUME read # None, advertised.enforced.tag = "own"
        PROVE  /\ read.low \in {advertised.enforced.low, None}
               /\ read.high \in {advertised.enforced.high, None}
               /\ read.low = None => magnitude(advertised.enforced.low) > MaxAdvertised
               /\ read.high = None => magnitude(advertised.enforced.high) > MaxAdvertised
    <3>1. PICK low \in Durations, high \in Durations :
              /\ Overflow \notin {magnitude(low), magnitude(high)}
              /\ advertised = [low |-> renderDuration(low), high |-> renderDuration(high),
                               enforced |-> Own(low, high)]
      BY <2>1, <2>4 DEF Advertisement, Foreign
    <3>2. /\ advertised.low = renderDuration(low) /\ advertised.high = renderDuration(high)
          /\ advertised.enforced.low = low /\ advertised.enforced.high = high
      BY <3>1 DEF Own
    <3>. QED  BY <2>1, <2>4, <3>1, <3>2, RoundTrip, DurationAssumption
  <2>5. advertised # None => tx.phase # "aborted"
    BY <1>1 DEF LimitsInv
  <2>. QED  BY <2>3, <2>4, <2>5 DEF AdvertisedAreEnforced
<1>. QED  BY <1>1, LimitsInvariance, PTL

\* The transactions that wallets offer, with or without having read the limits, are
\* transactions of PreparedTransaction: what is proved of those holds of these.
THEOREM OffersAreTransactions == LimitsSpec => Spec
<1>1. ASSUME LimitsInv, [LimitsNext]_limitsVars PROVE [Next]_vars
  <2>1. ASSUME NEW requestedAt \in Time, NEW expiresAt \in Time, Offer(requestedAt, expiresAt)
        PROVE  Next
    BY <1>1, <2>1, OfferPrepares DEF Next
  <2>2. OfferUnread => Next
    BY DEF OfferUnread, Next
  <2>3. ReadMetadata \/ UNCHANGED limitsVars => UNCHANGED vars
    BY DEF ReadMetadata, limitsVars
  <2>4. /\ \A low, high \in Durations : Advertise(low, high) => UNCHANGED vars
        /\ \A text \in DurationText : AdvertiseForeign(text) => UNCHANGED vars
    BY DEF Advertise, AdvertiseForeign
  <2>. QED  BY <1>1, <2>1, <2>2, <2>3, <2>4 DEF LimitsNext, Next
<1>2. LimitsInit => Init
  BY DEF LimitsInit
<1>. QED  BY <1>1, <1>2, LimitsInvariance, PTL DEF LimitsSpec, Spec

===============================================================================
