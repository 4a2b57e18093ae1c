---------------------------- MODULE ServerProofs ----------------------------
(***************************************************************************)
(* Theorems about the server's connections.  ConnectionGuards: the token   *)
(* bucket sheds exactly the requests beyond burst and rate, for every      *)
(* burst, rate and clock.  BroadcastHub: what a broadcast reaches and what *)
(* it may lose, for any number of connections.                             *)
(***************************************************************************)
EXTENDS ConnectionGuards, BroadcastHub, SequenceTheorems, FiniteSetTheorems, TLAPS

-----------------------------------------------------------------------------
(* Types.                                                                  *)

\* A bucket holds a natural number of tokens.
LEMMA FullNat == Full \in Nat /\ Full >= Unit
BY GuardsAssumption, SMT DEF Full

\* The clock and the tokens allow works with are of the right type.
LEMMA RefilledType ==
  GuardsTypeOK => Refilled \in 0..Full /\ Mark \in Nat
<1> SUFFICES ASSUME GuardsTypeOK PROVE Refilled \in 0..Full /\ Mark \in Nat
  OBVIOUS
<1>1. (wall > lastMs) => (wall - lastMs) * Refill \in Nat
  BY GuardsAssumption, SMT DEF GuardsTypeOK
<1>2. Refilled \in 0..Full
  BY <1>1, FullNat, SMT DEF GuardsTypeOK, Refilled
<1>3. Mark \in Nat
  BY DEF GuardsTypeOK, Mark
<1> QED
  BY <1>2, <1>3

\* The log is a sequence of entries, each with a natural mark.
LEMMA LogType ==
  GuardsTypeOK => /\ Len(log) \in Nat /\ DOMAIN log = 1..Len(log)
            /\ \A i \in DOMAIN log :
                 log[i] \in Entry /\ log[i].mark \in Nat /\ i \in Nat
<1> SUFFICES ASSUME GuardsTypeOK
    PROVE  /\ Len(log) \in Nat /\ DOMAIN log = 1..Len(log)
           /\ \A i \in DOMAIN log :
                log[i] \in Entry /\ log[i].mark \in Nat /\ i \in Nat
  OBVIOUS
<1>1. log \in Seq(Entry)
  BY DEF GuardsTypeOK
<1>2. Len(log) \in Nat /\ DOMAIN log = 1..Len(log)
  BY <1>1, LenProperties
<1>3. \A i \in DOMAIN log : log[i] \in Entry
  BY <1>1, <1>2, ElementOfSeq
<1>4. \A e \in Entry : e.mark \in Nat
  BY SMT DEF Entry
<1>5. \A i \in DOMAIN log : i \in Nat
  BY <1>2, SMT
<1> QED
  BY <1>2, <1>3, <1>4, <1>5

\* Every step keeps the types.
LEMMA GuardsTypeStep == GuardsTypeOK /\ [GuardsNext]_guardsVars => GuardsTypeOK'
<1> SUFFICES ASSUME GuardsTypeOK, [GuardsNext]_guardsVars PROVE GuardsTypeOK'
  OBVIOUS
<1> USE DEF GuardsTypeOK
<1>1. CASE Tick
  BY <1>1, SMT DEF Tick, bucket
<1>2. ASSUME NEW t \in ClockSet, SetClock(t) PROVE GuardsTypeOK'
  BY <1>2, GuardsAssumption, SMT DEF SetClock, bucket
<1>3. ASSUME NEW part \in {"small", "large"}, ReceivePart(part) PROVE GuardsTypeOK'
  BY <1>3, SMT DEF ReceivePart, clock, bucket, Stages, Tails
<1>4. CASE ReceiveNewline
  BY <1>4, SMT DEF ReceiveNewline, clock, bucket, Stages, Tails, Line
<1>5. CASE BeginRead
  BY <1>5, SMT DEF BeginRead, RejectAbuse, clock, bucket, Stages
<1>6. CASE SkipEmpty
  BY <1>6, SMT DEF SkipEmpty, clock, bucket
<1>7. CASE RejectLarge
  BY <1>7, SMT DEF RejectLarge, RejectAbuse, clock, bucket, Stages
<1>8. CASE Admit
  <2>1. Refilled - Unit \in 0..Full \/ Refilled < Unit
    BY RefilledType, FullNat, GuardsAssumption, SMT
  <2>2. tokens' \in 0..Full /\ lastMs' \in Nat /\ started' \in BOOLEAN
    BY <1>8, <2>1, RefilledType, FullNat, GuardsAssumption, SMT
       DEF Admit, Allow
  <2>3. log' \in Seq(Entry)
    BY <1>8, RefilledType, SMT DEF Admit, Entry
  <2> QED
    BY <1>8, <2>2, <2>3, SMT DEF Admit, clock
<1>9. CASE Refuse
  BY <1>9, RefilledType, SMT DEF Refuse, Allow, RejectAbuse, clock, Stages
<1>10. CASE EndRead
  BY <1>10, SMT DEF EndRead, clock, bucket, Stages
<1>11. CASE ClientCloses
  BY <1>11, SMT DEF ClientCloses, clock, bucket, Stages
<1>12. CASE UNCHANGED guardsVars
  BY <1>12, SMT DEF guardsVars
<1> QED
  BY <1>1, <1>2, <1>3, <1>4, <1>5, <1>6, <1>7, <1>8, <1>9, <1>10, <1>11,
     <1>12 DEF GuardsNext, OnReadyRead

\* In every reachable state the variables have their types, and the bucket
\* holds between nothing and its burst.
THEOREM GuardsTypeCorrect == GuardsSpec => []GuardsTypeOK
<1>1. GuardsInit => GuardsTypeOK
  <2>1. Full \in 0..Full
    BY FullNat, SMT
  <2>2. <<>> \in Seq(Line) /\ <<>> \in Seq(Entry)
    BY EmptySeq
  <2>3. 0 \in Nat
    BY SMT
  <2> QED
    BY <2>1, <2>2, <2>3, Zenon DEF GuardsInit, GuardsTypeOK, Stages, Tails
<1> QED
  BY <1>1, GuardsTypeStep, PTL DEF GuardsSpec

-----------------------------------------------------------------------------
(* The windows.                                                            *)

\* Adding the same refill on both sides.
LEMMA SumLeq ==
  \A a, t, f, r, d \in Int : a + t <= f + r => a + (t + d) <= f + (r + d)
BY SMT

\* Leaving out a nonnegative term.
LEMMA LeqWithout ==
  \A a, t, f, r \in Int : t >= 0 /\ a + t <= f + r => a <= f + r
BY SMT

\* A refill leaves every window what it had, and the bucket exact.
LEMMA RefillKeepsWindows ==
  GuardsTypeOK /\ BucketInv =>
    /\ \A i \in DOMAIN log :
         (Len(log) - i + 1) * Unit + Refilled
           <= Full + Refill * (Mark - log[i].mark)
    /\ \/ Refilled = Full
       \/ \E i \in DOMAIN log :
            (Len(log) - i + 1) * Unit + Refilled
              = Full + Refill * (Mark - log[i].mark)
<1> SUFFICES ASSUME GuardsTypeOK, BucketInv
    PROVE  /\ \A i \in DOMAIN log :
                (Len(log) - i + 1) * Unit + Refilled
                  <= Full + Refill * (Mark - log[i].mark)
           /\ \/ Refilled = Full
              \/ \E i \in DOMAIN log :
                   (Len(log) - i + 1) * Unit + Refilled
                     = Full + Refill * (Mark - log[i].mark)
  OBVIOUS
<1>1. log \in Seq(Entry) /\ lastMs \in Nat /\ wall \in Nat /\ tokens \in 0..Full
      /\ Unit \in Nat /\ Refill \in Nat /\ Full \in Nat
      /\ tokens \in Int /\ Full \in Int
  BY GuardsAssumption, FullNat, SMT DEF GuardsTypeOK
<1>2. \A i \in DOMAIN log : log[i].mark \in Nat /\ i \in Nat /\ Len(log) \in Nat
  BY LogType
<1>3. CASE started /\ wall > lastMs
  <2>1. Mark = wall
    BY <1>3 DEF Mark
  <2> DEFINE grown == tokens + (wall - lastMs) * Refill
  <2>2. Refilled = IF grown < Full THEN grown ELSE Full
    BY <1>3 DEF Refilled
  <2>3. \A m \in Nat :
          Refill * (wall - m) = Refill * (lastMs - m) + (wall - lastMs) * Refill
    BY <1>1, SMT
  <2>4. grown \in Nat
    BY <1>1, <1>3, SMT
  <2>5. ASSUME NEW i \in DOMAIN log
        PROVE  (Len(log) - i + 1) * Unit + grown
                 <= Full + Refill * (wall - log[i].mark)
    <3>1. (Len(log) - i + 1) * Unit \in Int
      BY <1>1, <1>2, SMT
    <3>2. Refill * (lastMs - log[i].mark) \in Int
      BY <1>1, <1>2, SMT
    <3>3. (wall - lastMs) * Refill \in Int
      BY <1>1, SMT
    <3>4. (Len(log) - i + 1) * Unit + tokens
            <= Full + Refill * (lastMs - log[i].mark)
      BY DEF BucketInv, WindowLeft
    <3>5. Refill * (wall - log[i].mark)
            = Refill * (lastMs - log[i].mark) + (wall - lastMs) * Refill
      BY <1>2, <2>3
    <3> QED
      BY <1>1, <3>1, <3>2, <3>3, <3>4, <3>5, SumLeq
  <2>6. ASSUME NEW i \in DOMAIN log
        PROVE  (Len(log) - i + 1) * Unit + Refilled
                 <= Full + Refill * (wall - log[i].mark)
    <3>1. (Len(log) - i + 1) * Unit \in Int
      BY <1>1, <1>2, SMT
    <3>2. Refill * (wall - log[i].mark) \in Int
      BY <1>1, <1>2, SMT
    <3>3. Refilled <= grown /\ Refilled \in Int
      BY <1>1, <2>2, <2>4, SMT
    <3> HIDE DEF grown
    <3> QED
      BY <1>1, <2>4, <2>5, <3>1, <3>2, <3>3, SMT
  <2>7. CASE tokens = Full
    <3>1. grown >= Full
      BY <1>1, <1>3, <2>7, SMT
    <3> QED
      BY <1>1, <2>1, <2>2, <2>4, <2>6, <3>1, SMT
  <2>8. ASSUME NEW i \in DOMAIN log,
               (Len(log) - i + 1) * Unit + tokens
                 = Full + Refill * (lastMs - log[i].mark),
               grown < Full
        PROVE  (Len(log) - i + 1) * Unit + Refilled
                 = Full + Refill * (wall - log[i].mark)
    <3>1. (Len(log) - i + 1) * Unit \in Int
      BY <1>1, <1>2, SMT
    <3>2. Refill * (lastMs - log[i].mark) \in Int
      BY <1>1, <1>2, SMT
    <3>3. (wall - lastMs) * Refill \in Int
      BY <1>1, SMT
    <3>5. Refill * (wall - log[i].mark)
            = Refill * (lastMs - log[i].mark) + (wall - lastMs) * Refill
      BY <1>2, <2>3
    <3>6. Refilled = tokens + (wall - lastMs) * Refill
      BY <2>2, <2>8
    <3> DEFINE a == (Len(log) - i + 1) * Unit
               r == Refill * (lastMs - log[i].mark)
               d == (wall - lastMs) * Refill
    <3>7. a \in Int /\ r \in Int /\ d \in Int /\ a + tokens = Full + r
      BY <2>8, <3>1, <3>2, <3>3
    <3> HIDE DEF a, r, d
    <3>8. a + (tokens + d) = Full + (r + d)
      BY <1>1, <3>7, SMT
    <3> QED
      BY <3>5, <3>6, <3>8 DEF a, r, d
  <2>9. CASE grown >= Full
    BY <1>1, <2>1, <2>2, <2>4, <2>6, <2>9, SMT
  <2>10. CASE grown < Full /\ tokens # Full
    <3>1. PICK i \in DOMAIN log :
            (Len(log) - i + 1) * Unit + tokens
              = Full + Refill * (lastMs - log[i].mark)
      BY <2>10 DEF BucketInv, BucketExact
    <3>2. (Len(log) - i + 1) * Unit + Refilled
            = Full + Refill * (wall - log[i].mark)
      BY <2>8, <2>10, <3>1
    <3> QED
      BY <2>1, <2>6, <3>2
  <2> QED
    BY <1>1, <2>4, <2>7, <2>9, <2>10, SMT
<1>4. CASE started /\ ~(wall > lastMs)
  BY <1>4 DEF Refilled, Mark, BucketInv, WindowLeft, BucketExact
<1>5. CASE ~started
  <2>1. log = <<>> /\ Refilled = Full
    BY <1>5 DEF BucketInv, Refilled
  <2> QED
    BY <2>1, SMT
<1> QED
  BY <1>3, <1>4, <1>5

\* The limiter's clock does not go back.
LEMMA MarkMoves == GuardsTypeOK /\ BucketInv => Mark >= lastMs
BY SMT DEF GuardsTypeOK, BucketInv, Mark

\* Every step keeps the bucket's invariant.
LEMMA BucketStep == GuardsTypeOK /\ BucketInv /\ [GuardsNext]_guardsVars => BucketInv'
<1> SUFFICES ASSUME GuardsTypeOK, BucketInv, [GuardsNext]_guardsVars PROVE BucketInv'
  OBVIOUS
<1>1. ASSUME UNCHANGED <<bucket, log>>, pc' # "refused" \/ pc' = pc
      PROVE  BucketInv'
  BY <1>1 DEF BucketInv, WindowLeft, WindowBound, BucketExact, bucket,
     RefusedOnlyWhenExceeded, Exceeds
<1>2. CASE Admit
  <2> DEFINE n == Len(log)
             entry == [at |-> real, mark |-> Mark]
  <2>1. /\ started' = TRUE /\ lastMs' = Mark /\ tokens' = Refilled - Unit
        /\ Refilled >= Unit /\ log' = Append(log, entry) /\ pc' = "reading"
    BY <1>2 DEF Admit, Allow
  <2>2. /\ log \in Seq(Entry) /\ lastMs \in Nat /\ Mark \in Nat /\ Mark >= lastMs
        /\ Refilled \in 0..Full /\ Unit \in Nat /\ Refill \in Nat
        /\ Full \in Nat /\ n \in Nat /\ real \in Nat
    BY RefilledType, MarkMoves, LogType, GuardsAssumption, FullNat DEF GuardsTypeOK
  <2>3. /\ Len(log') = n + 1 /\ DOMAIN log = 1..n
        /\ \A i \in 1..n : log'[i] = log[i] /\ log[i].mark \in Nat
        /\ log'[n + 1] = entry
        /\ log' \in Seq(Entry)
    <3>1. entry \in Entry
      BY <2>2, SMT DEF Entry
    <3> QED
      BY <2>1, <2>2, <3>1, AppendProperties, LogType
  <2>4. DOMAIN log' = 1..(n + 1)
    BY <2>3, LenProperties
  <2>5. ASSUME NEW i \in 1..n
        PROVE  /\ log'[i].mark <= lastMs'
               /\ (Len(log') - i + 1) * Unit + tokens'
                    = (n - i + 1) * Unit + Refilled
               /\ Refill * (lastMs' - log'[i].mark)
                    = Refill * (Mark - log[i].mark)
    <3>1. log[i].mark <= lastMs
      BY <2>3, <2>5 DEF BucketInv, WindowLeft
    <3>2. log'[i].mark <= lastMs'
      BY <2>1, <2>2, <2>3, <3>1, SMT
    <3>3. (n + 1 - i + 1) * Unit = (n - i + 1) * Unit + Unit
      BY <2>2, SMT
    <3>4. (Len(log') - i + 1) * Unit + tokens'
            = (n - i + 1) * Unit + Refilled
      BY <2>1, <2>2, <2>3, <3>3, SMT
    <3> QED
      BY <2>1, <2>3, <3>2, <3>4
  <2>6. /\ log'[n + 1].mark = lastMs'
        /\ (Len(log') - (n + 1) + 1) * Unit + tokens' = Refilled
        /\ Refill * (lastMs' - log'[n + 1].mark) = 0
    BY <2>1, <2>2, <2>3, SMT
  <2>7. WindowLeft'
    <3> SUFFICES ASSUME NEW i \in DOMAIN log'
        PROVE  /\ log'[i].mark <= lastMs'
               /\ (Len(log') - i + 1) * Unit + tokens'
                    <= Full + Refill * (lastMs' - log'[i].mark)
      BY DEF WindowLeft, Full
    <3>1. CASE i \in 1..n
      BY <2>3, <2>5, <3>1, RefillKeepsWindows
    <3>2. CASE i = n + 1
      BY <2>1, <2>2, <2>6, <3>2, SMT
    <3> QED
      BY <2>2, <2>4, <3>1, <3>2, SMT
  <2>8. BucketExact'
    <3>1. CASE Refilled = Full
      <4>1. n + 1 \in DOMAIN log'
        BY <2>2, <2>4, SMT
      <4>2. (Len(log') - (n + 1) + 1) * Unit + tokens'
              = Full + Refill * (lastMs' - log'[n + 1].mark)
        BY <2>2, <2>6, <3>1, SMT
      <4> QED
        BY <4>1, <4>2 DEF BucketExact, Full
    <3>2. CASE Refilled # Full
      <4>1. PICK i \in DOMAIN log :
              (n - i + 1) * Unit + Refilled
                = Full + Refill * (Mark - log[i].mark)
        BY <3>2, RefillKeepsWindows
      <4>2. i \in 1..n /\ i \in DOMAIN log'
        BY <2>2, <2>3, <2>4, SMT
      <4>3. (Len(log') - i + 1) * Unit + tokens'
              = Full + Refill * (lastMs' - log'[i].mark)
        BY <2>5, <4>1, <4>2
      <4> QED
        BY <4>2, <4>3 DEF BucketExact, Full
    <3> QED
      BY <3>1, <3>2
  <2>9. WindowBound'
    <3> SUFFICES ASSUME NEW i \in DOMAIN log', NEW j \in DOMAIN log', i <= j
        PROVE  (j - i + 1) * Unit
                 <= Full + Refill * (log'[j].mark - log'[i].mark)
      BY DEF WindowBound, Full
    <3>1. CASE j \in 1..n
      <4>1. i \in 1..n
        BY <2>2, <2>4, <3>1, SMT
      <4> QED
        BY <2>3, <3>1, <4>1 DEF BucketInv, WindowBound
    <3>2. CASE j = n + 1
      <4>1. Len(log') = j /\ log'[j].mark = lastMs'
        BY <2>3, <2>6, <3>2
      <4>2. (j - i + 1) * Unit + tokens'
              <= Full + Refill * (log'[j].mark - log'[i].mark)
        BY <2>7, <4>1 DEF WindowLeft, Full
      <4>3. (j - i + 1) * Unit \in Int
        BY <2>2, <2>4, SMT
      <4>4. Refill * (log'[j].mark - log'[i].mark) \in Int
        BY <2>1, <2>2, <2>3, <2>4, <4>1, SMT
      <4>5. tokens' >= 0 /\ tokens' \in Int /\ Full \in Int
        BY <2>1, <2>2, SMT
      <4> QED
        BY <4>2, <4>3, <4>4, <4>5, LeqWithout
    <3> QED
      BY <2>2, <2>4, <3>1, <3>2, SMT
  <2>10. (~started => log = <<>> /\ tokens = Full /\ lastMs = 0)'
    BY <2>1
  <2>11. RefusedOnlyWhenExceeded'
    BY <2>1 DEF RefusedOnlyWhenExceeded
  <2> QED
    BY <2>7, <2>8, <2>9, <2>10, <2>11 DEF BucketInv
<1>3. CASE Refuse
  <2>1. /\ started' = TRUE /\ lastMs' = Mark /\ tokens' = Refilled
        /\ Refilled < Unit /\ log' = log
    BY <1>3 DEF Refuse, Allow, RejectAbuse
  <2>2. /\ log \in Seq(Entry) /\ lastMs \in Nat /\ Mark \in Nat /\ Mark >= lastMs
        /\ Refilled \in 0..Full /\ Unit \in Nat /\ Refill \in Nat
        /\ Full \in Nat /\ Full >= Unit /\ Len(log) \in Nat
    BY RefilledType, MarkMoves, LogType, GuardsAssumption, FullNat DEF GuardsTypeOK
  <2>3. \A i \in DOMAIN log : log[i].mark \in Nat /\ i \in Nat
    BY LogType
  <2>4. WindowLeft'
    <3> SUFFICES ASSUME NEW i \in DOMAIN log
        PROVE  /\ log[i].mark <= Mark
               /\ (Len(log) - i + 1) * Unit + Refilled
                    <= Full + Refill * (Mark - log[i].mark)
      BY <2>1 DEF WindowLeft, Full
    <3>1. log[i].mark <= lastMs
      BY DEF BucketInv, WindowLeft
    <3>2. log[i].mark <= Mark
      BY <2>2, <2>3, <3>1, SMT
    <3> QED
      BY <3>2, RefillKeepsWindows
  <2>5. PICK i \in DOMAIN log :
          (Len(log) - i + 1) * Unit + Refilled
            = Full + Refill * (Mark - log[i].mark)
    <3>1. Refilled # Full
      BY <2>1, <2>2, SMT
    <3> QED
      BY <3>1, RefillKeepsWindows
  <2>6. BucketExact'
    BY <2>1, <2>5 DEF BucketExact, Full
  <2>7. RefusedOnlyWhenExceeded'
    <3>1. (Len(log) - i + 2) * Unit = (Len(log) - i + 1) * Unit + Unit
      BY <2>2, <2>3, SMT
    <3>2. (Len(log) - i + 1) * Unit \in Int /\ Refill * (Mark - log[i].mark) \in Int
      BY <2>2, <2>3, SMT
    <3>3. (Len(log) - i + 2) * Unit > Full + Refill * (Mark - log[i].mark)
      BY <2>1, <2>2, <2>5, <3>1, <3>2, SMT
    <3> QED
      BY <2>1, <3>3 DEF RefusedOnlyWhenExceeded, Exceeds, Full
  <2>8. WindowBound'
    BY <2>1 DEF BucketInv, WindowBound, Full
  <2>9. (~started => log = <<>> /\ tokens = Full /\ lastMs = 0)'
    BY <2>1
  <2> QED
    BY <2>4, <2>6, <2>7, <2>8, <2>9 DEF BucketInv
<1>4. CASE Tick
  BY <1>1, <1>4 DEF Tick
<1>5. ASSUME NEW t \in ClockSet, SetClock(t) PROVE BucketInv'
  BY <1>1, <1>5 DEF SetClock
<1>6. ASSUME NEW part \in {"small", "large"}, ReceivePart(part)
      PROVE  BucketInv'
  BY <1>1, <1>6 DEF ReceivePart
<1>7. CASE ReceiveNewline
  BY <1>1, <1>7 DEF ReceiveNewline
<1>8. CASE BeginRead
  BY <1>1, <1>8 DEF BeginRead, RejectAbuse
<1>9. CASE SkipEmpty
  BY <1>1, <1>9 DEF SkipEmpty
<1>10. CASE RejectLarge
  BY <1>1, <1>10 DEF RejectLarge, RejectAbuse
<1>11. CASE EndRead
  BY <1>1, <1>11 DEF EndRead
<1>12. CASE ClientCloses
  BY <1>1, <1>12 DEF ClientCloses
<1>13. CASE UNCHANGED guardsVars
  BY <1>1, <1>13 DEF guardsVars, bucket
<1> QED
  BY <1>2, <1>3, <1>4, <1>5, <1>6, <1>7, <1>8, <1>9, <1>10, <1>11, <1>12,
     <1>13 DEF GuardsNext, OnReadyRead

\* The bucket's invariant holds in every reachable state.
LEMMA BucketInvariant == GuardsSpec => [](GuardsTypeOK /\ BucketInv)
<1>1. GuardsInit => BucketInv
  BY SMT DEF GuardsInit, BucketInv, WindowLeft, WindowBound, BucketExact,
     RefusedOnlyWhenExceeded
<1> QED
  BY <1>1, GuardsTypeCorrect, BucketStep, PTL DEF GuardsSpec

\* Whatever the clock does, in every window the limiter admits at most a
\* full bucket and what its clock refilled.
THEOREM FloodsAreShed == GuardsSpec => []WindowBound
<1>1. BucketInv => WindowBound
  BY DEF BucketInv
<1> QED
  BY <1>1, BucketInvariant, PTL

\* A connection is refused only when a window on the limiter's clock has
\* used up burst and refill.
THEOREM NoEarlyRefusal == GuardsSpec => []RefusedOnlyWhenExceeded
<1>1. BucketInv => RefusedOnlyWhenExceeded
  BY DEF BucketInv
<1> QED
  BY <1>1, BucketInvariant, PTL

-----------------------------------------------------------------------------
(* A clock that is never set.                                              *)

\* The wall clock tells the real time, and so do the limiter's marks.
Steady ==
  /\ wall = real
  /\ lastMs <= wall
  /\ \A i \in DOMAIN log : log[i].mark = log[i].at
  /\ pc = "refused" => lastMs = real

\* With a clock that is never set, a connection that stays within burst and
\* rate in real time is never refused: the clock is all that PacedClientPasses
\* can fail on.
THEOREM PacedClientsPass ==
  ASSUME ClockSet = {}
  PROVE  GuardsSpec => []PacedClientPasses
<1>1. GuardsInit => Steady
  BY SMT DEF GuardsInit, Steady
<1>2. GuardsTypeOK /\ Steady /\ [GuardsNext]_guardsVars => Steady'
  <2> SUFFICES ASSUME GuardsTypeOK, Steady, [GuardsNext]_guardsVars PROVE Steady'
    OBVIOUS
  <2>1. ASSUME UNCHANGED <<wall, real, lastMs, log>>, pc' # "refused" \/ pc' = pc
        PROVE  Steady'
    BY <2>1 DEF Steady
  <2>2. CASE Tick
    BY <2>2, SMT DEF Tick, Steady, GuardsTypeOK, bucket, OpenStages
  <2>3. ASSUME NEW part \in {"small", "large"}, ReceivePart(part)
        PROVE  Steady'
    BY <2>1, <2>3 DEF ReceivePart, clock, bucket
  <2>4. CASE ReceiveNewline
    BY <2>1, <2>4 DEF ReceiveNewline, clock, bucket
  <2>5. CASE BeginRead
    BY <2>1, <2>5 DEF BeginRead, RejectAbuse, clock, bucket
  <2>6. CASE SkipEmpty
    BY <2>1, <2>6 DEF SkipEmpty, clock, bucket
  <2>7. CASE RejectLarge
    BY <2>1, <2>7 DEF RejectLarge, RejectAbuse, clock, bucket
  <2>8. CASE Admit
    <3>1. Mark = wall
      BY <2>8, SMT DEF Mark, Steady, GuardsTypeOK
    <3>2. lastMs' = wall /\ wall' = wall /\ real' = real /\ pc' = "reading"
      BY <2>8, <3>1 DEF Admit, Allow, clock
    <3>3. log' = Append(log, [at |-> real, mark |-> real])
      BY <2>8, <3>1 DEF Admit, Steady
    <3>4. \A i \in DOMAIN log' : log'[i].mark = log'[i].at
      BY <3>3, SMT DEF Steady, GuardsTypeOK, Entry
    <3> QED
      BY <3>2, <3>4, SMT DEF Steady, GuardsTypeOK
  <2>9. CASE Refuse
    <3>1. Mark = wall
      BY <2>9, SMT DEF Mark, Steady, GuardsTypeOK
    <3> QED
      BY <2>9, <3>1, SMT
         DEF Refuse, Allow, RejectAbuse, clock, Steady, GuardsTypeOK
  <2>10. CASE EndRead
    BY <2>1, <2>10 DEF EndRead, clock, bucket
  <2>11. CASE ClientCloses
    BY <2>1, <2>11 DEF ClientCloses, clock, bucket
  <2>12. CASE UNCHANGED guardsVars
    BY <2>1, <2>12 DEF guardsVars
  <2> QED
    BY <2>2, <2>3, <2>4, <2>5, <2>6, <2>7, <2>8, <2>9, <2>10, <2>11, <2>12
       DEF GuardsNext, OnReadyRead
<1>3. BucketInv /\ Steady => PacedClientPasses
  BY DEF BucketInv, RefusedOnlyWhenExceeded, PacedClientPasses, Steady
<1> QED
  BY <1>1, <1>2, <1>3, BucketInvariant, PTL DEF GuardsSpec

-----------------------------------------------------------------------------
USE HubAssumption DEF HubAssumption

(***************************************************************************)
(* The inductive invariant.                                                *)
(***************************************************************************)
\* The slots of the list and of the loop's window hold handlers, and those of the window
\* none that is deleted.
Pointers ==
  /\ \A i \in 1..size : slots[i] \in Handlers
  /\ ~Idle => \A i \in 1..last : slots[i] \in Handlers \ deleted

\* A handler is deleted after its socket was closed.
GoneIsClosed == \A h \in doomed \cup deleted : socket[h] = "closed"

\* While no write has failed the window is the list as it was: who lies behind the cursor
\* has the message once, who lies ahead has it not.
Progress ==
  /\ sent[origin] = 0
  /\ failures = 0 =>
       /\ size = last
       /\ \A c \in audience : c # origin /\ \E i \in 1..last : slots[i] = c
       /\ \A i \in 1..last :
            slots[i] # origin => sent[slots[i]] = IF i < at THEN 1 ELSE 0

LoopOk ==
  /\ Idle => \A h \in Handlers : sent[h] = 0
  /\ Idle => failures = 0
  /\ ~Idle => Progress

HubInv ==
  /\ TypeOK
  /\ Pointers
  /\ ListIsExact
  /\ GoneIsClosed
  /\ LoopOk

LEMMA InitInv == Init => HubInv
  BY DEF Init, HubInv, TypeOK, Pointers, ListIsExact, GoneIsClosed, LoopOk, Progress, Idle, Open

\* removeAll takes exactly h out of the list, keeps the others once each, and puts
\* nothing into a slot that was not in the slot behind it.
LEMMA Removed ==
  ASSUME TypeOK, ListIsExact, NEW h \in Handlers, Open(h), RemoveAll(h)
  PROVE  /\ slots' \in [1..Capacity -> Handlers \cup {NoOne}]
         /\ size' \in 0..Capacity /\ size' = size - 1
         /\ \A i \in 1..Capacity : slots'[i] = slots[i] \/ (i < size /\ slots'[i] = slots[i + 1])
         /\ \A g \in Handlers \ {h} :
              (\E i \in 1..size : slots[i] = g) <=> (\E i \in 1..size' : slots'[i] = g)
         /\ \A i \in 1..size' : slots'[i] # h
         /\ \A i, j \in 1..size' : slots'[i] = slots'[j] => i = j
<1>1. PICK p \in 1..size : slots[p] = h
  BY DEF ListIsExact
<1>2. \A q \in 1..size : slots[q] = h => q = p
  BY <1>1 DEF ListIsExact
<1>3. /\ size \in 0..Capacity /\ size \in Nat /\ p \in Nat /\ 1 <= p /\ p <= size
      /\ size' = size - 1
  BY <1>1 DEF TypeOK, RemoveAll
<1>4. \A i \in 1..Capacity :
        slots'[i] = IF p <= i /\ i < size THEN slots[i + 1] ELSE slots[i]
  <2>1. SUFFICES ASSUME NEW i \in 1..Capacity
                 PROVE  slots'[i] = IF p <= i /\ i < size THEN slots[i + 1] ELSE slots[i]
    OBVIOUS
  <2>2. slots'[i] = IF i < size /\ \E q \in 1..i : slots[q] = h THEN slots[i + 1] ELSE slots[i]
    BY DEF RemoveAll
  <2>3. i < size => ((\E q \in 1..i : slots[q] = h) <=> p <= i)
    BY <1>1, <1>2, <1>3
  <2>4. QED
    BY <2>2, <2>3
<1>5. \A i \in 1..(size - 1) :
        /\ i < p => slots'[i] = slots[i]
        /\ i >= p => slots'[i] = slots[i + 1]
  BY <1>3, <1>4
<1>6. slots' \in [1..Capacity -> Handlers \cup {NoOne}]
  <2>1. slots \in [1..Capacity -> Handlers \cup {NoOne}]
    BY DEF TypeOK
  <2>2. \A i \in 1..Capacity : slots'[i] \in Handlers \cup {NoOne}
    BY <1>3, <1>4, <2>1
  <2>3. slots' = [i \in 1..Capacity |-> slots'[i]]
    BY DEF RemoveAll
  <2>4. QED
    BY <2>2, <2>3
<1>7. \A g \in Handlers \ {h} :
        (\E i \in 1..size : slots[i] = g) <=> (\E i \in 1..size' : slots'[i] = g)
  <2>1. SUFFICES ASSUME NEW g \in Handlers \ {h}
                 PROVE  (\E i \in 1..size : slots[i] = g) <=> (\E i \in 1..size' : slots'[i] = g)
    OBVIOUS
  <2>2. ASSUME NEW i \in 1..size, slots[i] = g PROVE \E j \in 1..size' : slots'[j] = g
    <3>1. CASE i < p
      <4>1. i \in 1..(size - 1) /\ slots'[i] = g
        BY <1>3, <1>5, <2>2, <3>1
      <4>2. QED
        BY <1>3, <4>1
    <3>2. CASE i > p
      <4>1. i - 1 \in 1..(size - 1) /\ i - 1 >= p /\ (i - 1) + 1 = i
        BY <1>3, <3>2
      <4>2. slots'[i - 1] = g
        BY <1>5, <2>2, <4>1
      <4>3. QED
        BY <1>3, <4>1, <4>2
    <3>3. i # p
      BY <1>1, <2>2
    <3>4. QED
      BY <1>3, <3>1, <3>2, <3>3
  <2>3. ASSUME NEW j \in 1..size', slots'[j] = g PROVE \E i \in 1..size : slots[i] = g
    <3>1. j \in 1..size /\ j + 1 \in 1..size /\ j \in 1..(size - 1)
      BY <1>3
    <3>2. QED
      BY <1>3, <1>5, <2>3, <3>1
  <2>4. QED
    BY <2>2, <2>3
<1>8. \A i \in 1..size' : slots'[i] # h
  <2>1. SUFFICES ASSUME NEW i \in 1..size' PROVE slots'[i] # h
    OBVIOUS
  <2>2. i \in 1..(size - 1) /\ i \in 1..size /\ i + 1 \in 1..size
    BY <1>3
  <2>3. QED
    BY <1>2, <1>3, <1>5, <2>2
<1>9. \A i, j \in 1..size' : slots'[i] = slots'[j] => i = j
  <2>1. SUFFICES ASSUME NEW i \in 1..size', NEW j \in 1..size', slots'[i] = slots'[j]
                 PROVE  i = j
    OBVIOUS
  <2>2. /\ i \in 1..(size - 1) /\ j \in 1..(size - 1)
        /\ i \in 1..size /\ j \in 1..size /\ i + 1 \in 1..size /\ j + 1 \in 1..size
    BY <1>3
  <2>3. \A a, b \in 1..size : slots[a] = slots[b] => a = b
    BY DEF ListIsExact
  <2>4. CASE i < p /\ j < p
    BY <1>5, <2>1, <2>2, <2>3, <2>4
  <2>5. CASE i < p /\ j >= p
    <3>1. slots[i] = slots[j + 1]
      BY <1>5, <2>1, <2>2, <2>5
    <3>2. i = j + 1
      BY <2>2, <2>3, <3>1
    <3>3. QED
      BY <1>3, <2>2, <2>5, <3>2
  <2>6. CASE i >= p /\ j < p
    <3>1. slots[i + 1] = slots[j]
      BY <1>5, <2>1, <2>2, <2>6
    <3>2. i + 1 = j
      BY <2>2, <2>3, <3>1
    <3>3. QED
      BY <1>3, <2>2, <2>6, <3>2
  <2>7. CASE i >= p /\ j >= p
    <3>1. slots[i + 1] = slots[j + 1]
      BY <1>5, <2>1, <2>2, <2>7
    <3>2. i + 1 = j + 1
      BY <2>2, <2>3, <3>1
    <3>3. QED
      BY <2>2, <3>2
  <2>8. QED
    BY <1>3, <2>2, <2>4, <2>5, <2>6, <2>7
<1>10. size' \in 0..Capacity
  BY <1>3
<1>11. \A i \in 1..Capacity : slots'[i] = slots[i] \/ (i < size /\ slots'[i] = slots[i + 1])
  BY <1>4
<1>12. QED
  BY <1>3, <1>6, <1>7, <1>8, <1>9, <1>10, <1>11

\* After a disconnection the list is exact again, its slots hold handlers, and what was
\* no deleted handler in the loop's window still is none.
LEMMA DisconnectedOk ==
  ASSUME HubInv, NEW h \in Handlers, Open(h), OnDisconnected(h)
  PROVE  /\ slots' \in [1..Capacity -> Handlers \cup {NoOne}]
         /\ size' \in 0..Capacity
         /\ socket' = [socket EXCEPT ![h] = "closed"]
         /\ socket' \in [Handlers -> {"none", "connected", "broken", "closed"}]
         /\ doomed' \subseteq Handlers /\ UNCHANGED deleted
         /\ \A i \in 1..size' : slots'[i] \in Handlers \ deleted
         /\ ListIsExact'
         /\ GoneIsClosed'
         /\ ~Idle => \A i \in 1..last : slots'[i] \in Handlers \ deleted
<1>1. RemoveAll(h) /\ TypeOK /\ ListIsExact
  BY DEF OnDisconnected, HubInv
<1>2. /\ slots' \in [1..Capacity -> Handlers \cup {NoOne}]
      /\ size' \in 0..Capacity /\ size' = size - 1
      /\ \A i \in 1..Capacity : slots'[i] = slots[i] \/ (i < size /\ slots'[i] = slots[i + 1])
      /\ \A g \in Handlers \ {h} :
           (\E i \in 1..size : slots[i] = g) <=> (\E i \in 1..size' : slots'[i] = g)
      /\ \A i \in 1..size' : slots'[i] # h
      /\ \A i, j \in 1..size' : slots'[i] = slots'[j] => i = j
  BY <1>1, Removed
<1>3. /\ socket' = [socket EXCEPT ![h] = "closed"]
      /\ doomed' = doomed \cup {h} /\ UNCHANGED deleted
      /\ socket \in [Handlers -> {"none", "connected", "broken", "closed"}]
      /\ doomed \subseteq Handlers /\ deleted \subseteq Handlers
  BY <1>1 DEF OnDisconnected, TypeOK
<1>4. ListIsExact'
  <2>1. \A g \in Handlers : Open(g)' <=> g # h /\ Open(g)
    BY <1>3 DEF Open
  <2>2. \A g \in Handlers : Open(g)' <=> \E i \in 1..size' : slots'[i] = g
    BY <1>1, <1>2, <2>1 DEF ListIsExact
  <2>3. QED
    BY <1>2, <2>2 DEF ListIsExact
<1>5. GoneIsClosed'
  BY <1>3 DEF HubInv, GoneIsClosed
<1>6. size \in Nat /\ size <= Capacity
  BY <1>1 DEF TypeOK
<1>7. \A i \in 1..size' : slots'[i] \in Handlers
  <2>1. SUFFICES ASSUME NEW i \in 1..size' PROVE slots'[i] \in Handlers
    OBVIOUS
  <2>2. i \in 1..Capacity /\ i \in 1..size /\ i + 1 \in 1..size
    BY <1>2, <1>6
  <2>3. QED
    BY <1>2, <2>2 DEF HubInv, Pointers
<1>8. \A i \in 1..size' : slots'[i] \notin deleted
  BY <1>3, <1>4, <1>5, <1>7 DEF ListIsExact, GoneIsClosed, Open
<1>9. ASSUME ~Idle PROVE \A i \in 1..last : slots'[i] \in Handlers \ deleted
  <2>1. SUFFICES ASSUME NEW i \in 1..last PROVE slots'[i] \in Handlers \ deleted
    OBVIOUS
  <2>2. last \in 0..Capacity /\ i \in 1..Capacity
    BY <1>1 DEF TypeOK
  <2>3. \A j \in 1..size : slots[j] \in Handlers \ deleted
    BY DEF HubInv, Pointers, ListIsExact, GoneIsClosed, Open
  <2>4. CASE slots'[i] = slots[i]
    BY <1>9, <2>4 DEF HubInv, Pointers
  <2>5. CASE i < size /\ slots'[i] = slots[i + 1]
    BY <1>6, <2>3, <2>5
  <2>6. QED
    BY <1>2, <2>2, <2>4, <2>5
<1>10. QED
  BY <1>2, <1>3, <1>4, <1>5, <1>7, <1>8, <1>9

\* The slots of the list hold no deleted handler.
LEMMA ListNotDeleted ==
  ASSUME HubInv
  PROVE  \A i \in 1..size : slots[i] \in Handlers \ deleted
  BY DEF HubInv, Pointers, ListIsExact, GoneIsClosed, Open

LEMMA IncomingInv ==
  ASSUME HubInv, NEW h \in Handlers, IncomingConnection(h)
  PROVE  HubInv'
<1>1. /\ Idle /\ socket[h] = "none" /\ size < Capacity
      /\ socket' = [socket EXCEPT ![h] = "connected"]
      /\ slots' = [i \in 1..Capacity |-> IF i <= size THEN slots[i]
                                         ELSE IF i = size + 1 THEN h ELSE NoOne]
      /\ size' = size + 1
      /\ UNCHANGED <<doomed, deleted, loop, history>>
  BY DEF IncomingConnection
<1>2. size \in Nat /\ Capacity \in Nat /\ slots \in [1..Capacity -> Handlers \cup {NoOne}]
  BY DEF HubInv, TypeOK
<1>3. /\ \A i \in 1..size : slots'[i] = slots[i]
      /\ slots'[size + 1] = h
      /\ \A i \in 1..size' : i \in 1..size \/ i = size + 1
  BY <1>1, <1>2
<1>4. slots' \in [1..Capacity -> Handlers \cup {NoOne}]
  BY <1>1, <1>2
<1>5. TypeOK'
  BY <1>1, <1>2, <1>4 DEF HubInv, TypeOK, loop, history
<1>6. Pointers'
  BY <1>1, <1>3 DEF HubInv, Pointers, Idle, loop
<1>7. ListIsExact'
  <2>1. \A g \in Handlers : Open(g)' <=> g = h \/ Open(g)
    BY <1>1 DEF Open, HubInv, TypeOK
  <2>2. \A i \in 1..size : slots[i] # h
    BY <1>1 DEF HubInv, ListIsExact, Open
  <2>3. \A i, j \in 1..size' : slots'[i] = slots'[j] => i = j
    BY <1>3, <2>2 DEF HubInv, ListIsExact
  <2>4. \A i \in 1..size : i \in 1..size'
    BY <1>1, <1>2
  <2>5. size + 1 \in 1..size'
    BY <1>1, <1>2
  <2>6. \A g \in Handlers : Open(g)' <=> \E i \in 1..size' : slots'[i] = g
    BY <1>3, <2>1, <2>4, <2>5 DEF HubInv, ListIsExact
  <2>7. QED
    BY <2>3, <2>6 DEF ListIsExact
<1>8. GoneIsClosed'
  BY <1>1 DEF HubInv, GoneIsClosed, TypeOK
<1>9. LoopOk'
  BY <1>1 DEF HubInv, LoopOk, Idle, loop, history
<1>10. QED
  BY <1>5, <1>6, <1>7, <1>8, <1>9 DEF HubInv

LEMMA PeerBreaksInv ==
  ASSUME HubInv, NEW h \in Handlers, PeerBreaks(h)
  PROVE  HubInv'
<1>1. /\ socket[h] = "connected" /\ socket' = [socket EXCEPT ![h] = "broken"]
      /\ UNCHANGED <<slots, size, doomed, deleted, loop, history>>
  BY DEF PeerBreaks
<1>2. \A g \in Handlers : Open(g)' <=> Open(g)
  BY <1>1 DEF Open, HubInv, TypeOK
<1>3. TypeOK' /\ GoneIsClosed'
  BY <1>1 DEF HubInv, TypeOK, GoneIsClosed, loop, history
<1>4. Pointers' /\ ListIsExact' /\ LoopOk'
  BY <1>1, <1>2 DEF HubInv, Pointers, ListIsExact, LoopOk, Progress, Idle, loop, history
<1>5. QED
  BY <1>3, <1>4 DEF HubInv

LEMMA PeerClosesInv ==
  ASSUME HubInv, NEW h \in Handlers, PeerCloses(h)
  PROVE  HubInv'
<1>1. Idle /\ Open(h) /\ OnDisconnected(h) /\ UNCHANGED <<loop, history>>
  BY DEF PeerCloses
<1>2. TypeOK'
  BY <1>1, DisconnectedOk DEF HubInv, TypeOK, loop, history
<1>3. Pointers' /\ LoopOk'
  BY <1>1, DisconnectedOk DEF HubInv, Pointers, LoopOk, Idle, loop, history
<1>4. QED
  BY <1>1, <1>2, <1>3, DisconnectedOk DEF HubInv

LEMMA DeleteLaterInv ==
  ASSUME HubInv, NEW h \in Handlers, DeleteLater(h)
  PROVE  HubInv'
<1>1. /\ Idle /\ h \in doomed /\ deleted' = deleted \cup {h} /\ doomed' = doomed \ {h}
      /\ UNCHANGED <<slots, size, socket, loop, history>>
  BY DEF DeleteLater
<1>2. TypeOK' /\ GoneIsClosed' /\ ListIsExact'
  BY <1>1 DEF HubInv, TypeOK, GoneIsClosed, ListIsExact, Open, loop, history
<1>3. Pointers' /\ LoopOk'
  BY <1>1 DEF HubInv, Pointers, LoopOk, Idle, loop, history
<1>4. QED
  BY <1>2, <1>3 DEF HubInv

\* A broadcast that starts over an exact list, with nothing written yet.
LEMMA StartLoopInv ==
  ASSUME HubInv, Idle, NEW h \in Handlers, StartLoop(h),
         TypeOK!1', TypeOK!2', TypeOK!3', TypeOK!4', TypeOK!5',
         \A i \in 1..size' : slots'[i] \in Handlers \ deleted', ListIsExact', GoneIsClosed'
  PROVE  HubInv'
<1>1. /\ origin' = h /\ at' = 1 /\ last' = size' /\ UNCHANGED <<sent, failures>>
      /\ audience' = { c \in Handlers : Open(c)' } \ {h}
  BY DEF StartLoop, Open
<1>2. h # NoOne /\ h \in Handlers
  OBVIOUS
<1>3. TypeOK'
  BY <1>1, <1>2 DEF HubInv, TypeOK
<1>4. Pointers'
  BY <1>1 DEF Pointers
<1>5. sent[h] = 0 /\ failures = 0 /\ \A g \in Handlers : sent[g] = 0
  BY DEF HubInv, LoopOk
<1>6. LoopOk'
  <2>1. \A c \in audience' : c # h /\ \E i \in 1..last' : slots'[i] = c
    BY <1>1 DEF ListIsExact
  <2>2. \A i \in 1..last' : slots'[i] # h => sent'[slots'[i]] = IF i < at' THEN 1 ELSE 0
    BY <1>1, <1>5
  <2>3. Progress'
    BY <1>1, <1>5, <2>1, <2>2 DEF Progress
  <2>4. QED
    BY <1>1, <1>2, <2>3 DEF LoopOk, Idle
<1>7. QED
  BY <1>3, <1>4, <1>6 DEF HubInv

LEMMA BroadcastInv ==
  ASSUME HubInv, NEW h \in Handlers, Broadcast(h)
  PROVE  HubInv'
<1>1. Idle /\ UNCHANGED <<slots, size, socket, doomed, deleted>> /\ StartLoop(h)
  BY DEF Broadcast, list
<1>2. TypeOK!1' /\ TypeOK!2' /\ TypeOK!3' /\ TypeOK!4' /\ TypeOK!5'
  BY <1>1 DEF HubInv, TypeOK
<1>3. \A i \in 1..size' : slots'[i] \in Handlers \ deleted'
  BY <1>1, ListNotDeleted
<1>4. ListIsExact' /\ GoneIsClosed'
  BY <1>1 DEF HubInv, ListIsExact, GoneIsClosed, Open
<1>5. QED
  BY <1>1, <1>2, <1>3, <1>4, StartLoopInv

LEMMA BroadcastAfterFailedReplyInv ==
  ASSUME HubInv, NEW h \in Handlers, BroadcastAfterFailedReply(h)
  PROVE  HubInv'
<1>1. Idle /\ Open(h) /\ OnDisconnected(h) /\ StartLoop(h)
  BY DEF BroadcastAfterFailedReply, Open
<1>2. /\ TypeOK!1' /\ TypeOK!2' /\ TypeOK!3' /\ TypeOK!4' /\ TypeOK!5'
      /\ \A i \in 1..size' : slots'[i] \in Handlers \ deleted'
      /\ ListIsExact' /\ GoneIsClosed'
  BY <1>1, DisconnectedOk DEF HubInv, TypeOK
<1>3. QED
  BY <1>1, <1>2, StartLoopInv

\* What the cursor points at while the loop runs.
LEMMA CursorInWindow ==
  ASSUME HubInv, Looping
  PROVE  ~Idle /\ at \in 1..last /\ at + 1 \in Nat \ {0} /\ Current \in Handlers \ deleted
  BY DEF HubInv, TypeOK, Pointers, Looping, Current

LEMMA SkipClientInv ==
  ASSUME HubInv, SkipClient
  PROVE  HubInv'
<1>1. /\ ~Idle /\ at \in 1..last /\ Current \in Handlers /\ Current = slots[at]
      /\ Current = origin \/ ~Open(Current)
      /\ at' = at + 1 /\ at' \in Nat \ {0}
      /\ UNCHANGED <<slots, size, socket, doomed, deleted, origin, last, sent, failures, audience>>
  BY CursorInWindow DEF SkipClient, list, history, Current
<1>2. TypeOK' /\ Pointers' /\ ListIsExact' /\ GoneIsClosed'
  BY <1>1 DEF HubInv, TypeOK, Pointers, ListIsExact, GoneIsClosed, Idle, Open
<1>3. Progress'
  <2>1. Progress
    BY <1>1 DEF HubInv, LoopOk
  <2>2. ASSUME failures = 0 PROVE slots[at] = origin
    BY <1>1, <2>1, <2>2 DEF Progress, HubInv, ListIsExact
  <2>3. \A i \in 1..last : i # at => (i < at <=> i < at')
    BY <1>1 DEF HubInv, TypeOK
  <2>4. QED
    BY <1>1, <2>1, <2>2, <2>3 DEF Progress
<1>4. QED
  BY <1>1, <1>2, <1>3 DEF HubInv, LoopOk, Idle

LEMMA SendJsonInv ==
  ASSUME HubInv, SendJson
  PROVE  HubInv'
<1>1. /\ ~Idle /\ at \in 1..last /\ Current \in Handlers /\ Current = slots[at]
      /\ Current # origin /\ Open(Current)
      /\ sent' = [sent EXCEPT ![slots[at]] = @ + 1]
      /\ at' = at + 1 /\ at' \in Nat \ {0}
      /\ UNCHANGED <<slots, size, socket, doomed, deleted, origin, last, failures, audience>>
  BY CursorInWindow DEF SendJson, list, Current
<1>2. sent \in [Handlers -> Nat]
  BY DEF HubInv, TypeOK
<1>3. sent' \in [Handlers -> Nat]
  BY <1>1, <1>2
<1>4. TypeOK'
  BY <1>1, <1>3 DEF HubInv, TypeOK
<1>5. Pointers' /\ ListIsExact' /\ GoneIsClosed'
  BY <1>1 DEF HubInv, Pointers, ListIsExact, GoneIsClosed, Idle, Open
<1>6. Progress'
  <2>1. Progress /\ origin \in Handlers
    BY <1>1 DEF HubInv, LoopOk, TypeOK, Idle
  <2>2. sent'[origin] = 0
    BY <1>1, <1>2, <2>1 DEF Progress
  <2>3. SUFFICES ASSUME failures = 0
                 PROVE  \A i \in 1..last :
                          slots[i] # origin => sent'[slots[i]] = IF i < at' THEN 1 ELSE 0
    BY <1>1, <2>1, <2>2 DEF Progress
  <2>4. SUFFICES ASSUME NEW i \in 1..last, slots[i] # origin
                 PROVE  sent'[slots[i]] = IF i < at' THEN 1 ELSE 0
    OBVIOUS
  <2>5. size = last /\ last \in Nat /\ slots[i] \in Handlers
    BY <1>1, <2>1, <2>3 DEF Progress, HubInv, TypeOK, Pointers
  <2>6. CASE i = at
    <3>1. sent[slots[at]] = 0
      BY <1>1, <2>1, <2>3 DEF Progress
    <3>2. sent'[slots[at]] = 1 /\ at < at'
      BY <1>1, <1>2, <3>1
    <3>3. QED
      BY <2>6, <3>2
  <2>7. CASE i # at
    <3>1. slots[i] # slots[at]
      BY <1>1, <2>5, <2>7 DEF HubInv, ListIsExact
    <3>2. sent'[slots[i]] = sent[slots[i]]
      BY <1>1, <1>2, <2>5, <3>1
    <3>3. i < at <=> i < at'
      BY <1>1, <2>5, <2>7
    <3>4. QED
      BY <2>1, <2>3, <2>4, <3>2, <3>3 DEF Progress
  <2>8. QED
    BY <2>6, <2>7
<1>7. QED
  BY <1>1, <1>4, <1>5, <1>6 DEF HubInv, LoopOk, Idle

LEMMA SendJsonFailsInv ==
  ASSUME HubInv, SendJsonFails
  PROVE  HubInv'
<1>1. /\ ~Idle /\ at \in 1..last /\ Current \in Handlers /\ Open(Current)
      /\ OnDisconnected(Current)
      /\ failures' = failures + 1 /\ at' = at + 1 /\ at' \in Nat \ {0}
      /\ UNCHANGED <<origin, last, sent, audience>>
  BY CursorInWindow DEF SendJsonFails, Open
<1>2. failures \in Nat /\ failures' # 0
  BY <1>1 DEF HubInv, TypeOK
<1>3. TypeOK'
  BY <1>1, <1>2, DisconnectedOk DEF HubInv, TypeOK
<1>4. Pointers'
  BY <1>1, DisconnectedOk DEF Pointers
<1>5. ListIsExact' /\ GoneIsClosed'
  BY <1>1, DisconnectedOk
<1>6. LoopOk'
  BY <1>1, <1>2 DEF HubInv, LoopOk, Progress, Idle
<1>7. QED
  BY <1>3, <1>4, <1>5, <1>6 DEF HubInv

LEMMA EndBroadcastInv ==
  ASSUME HubInv, EndBroadcast
  PROVE  HubInv'
<1>1. /\ origin' = NoOne /\ at' = 1 /\ last' = 0 /\ sent' = [h \in Handlers |-> 0]
      /\ failures' = 0 /\ audience' = {}
      /\ UNCHANGED <<slots, size, socket, doomed, deleted>>
  BY DEF EndBroadcast, list
<1>2. TypeOK' /\ Pointers' /\ ListIsExact' /\ GoneIsClosed' /\ LoopOk'
  BY <1>1 DEF HubInv, TypeOK, Pointers, ListIsExact, GoneIsClosed, LoopOk, Progress, Idle, Open
<1>3. QED
  BY <1>2 DEF HubInv

LEMMA StepInv == HubInv /\ [Next]_vars => HubInv'
<1>1. SUFFICES ASSUME HubInv, [Next]_vars PROVE HubInv'
  OBVIOUS
<1>2. ASSUME NEW h \in Handlers, IncomingConnection(h) PROVE HubInv'
  BY <1>1, <1>2, IncomingInv
<1>3. ASSUME NEW h \in Handlers, PeerBreaks(h) PROVE HubInv'
  BY <1>1, <1>3, PeerBreaksInv
<1>4. ASSUME NEW h \in Handlers, PeerCloses(h) PROVE HubInv'
  BY <1>1, <1>4, PeerClosesInv
<1>5. ASSUME NEW h \in Handlers, DeleteLater(h) PROVE HubInv'
  BY <1>1, <1>5, DeleteLaterInv
<1>6. ASSUME NEW h \in Handlers, Broadcast(h) PROVE HubInv'
  BY <1>1, <1>6, BroadcastInv
<1>7. ASSUME NEW h \in Handlers, BroadcastAfterFailedReply(h) PROVE HubInv'
  BY <1>1, <1>7, BroadcastAfterFailedReplyInv
<1>8. CASE SkipClient \/ SendJson \/ SendJsonFails \/ EndBroadcast
  BY <1>1, <1>8, SkipClientInv, SendJsonInv, SendJsonFailsInv, EndBroadcastInv
<1>9. CASE UNCHANGED vars
  BY <1>1, <1>9 DEF vars, HubInv, TypeOK, Pointers, ListIsExact, GoneIsClosed, LoopOk, Progress,
                    Idle, Open
<1>10. QED
  BY <1>1, <1>2, <1>3, <1>4, <1>5, <1>6, <1>7, <1>8, <1>9 DEF Next

LEMMA Invariant == Spec => []HubInv
  BY InitInv, StepInv, PTL DEF Spec

(***************************************************************************)
(* The theorems.                                                           *)
(***************************************************************************)
\* Every variable keeps its type, whatever connections come and go (server.h:24-40).
THEOREM TypeCorrect == Spec => []TypeOK
<1>1. HubInv => TypeOK
  BY DEF HubInv
<1>2. QED
  BY <1>1, Invariant, PTL

\* A broadcast follows no pointer to a deleted handler, however many writes of it fail
\* (server.cpp:26-54).
THEOREM PointersStayGood == Spec => []NoDanglingPointer
<1>1. HubInv => NoDanglingPointer
  <2>1. SUFFICES ASSUME HubInv PROVE NoDanglingPointer
    OBVIOUS
  <2>2. ASSUME ~Idle, NEW i \in at..last PROVE i \in 1..last
    BY <2>1 DEF HubInv, TypeOK
  <2>3. QED
    BY <2>1, <2>2, ListNotDeleted DEF HubInv, Pointers, NoDanglingPointer
<1>2. QED
  BY <1>1, Invariant, PTL

\* The list of clients is the open connections, each once (server.cpp:11-31).
THEOREM ListStaysExact == Spec => []ListIsExact
<1>1. HubInv => ListIsExact
  BY DEF HubInv
<1>2. QED
  BY <1>1, Invariant, PTL

\* A broadcast in which no write fails reaches every other client once and never the
\* sender, also when peers break off while it runs (server.cpp:48-54).
THEOREM QuietBroadcastsReachAll == Spec => []QuietBroadcastReachesAll
<1>1. HubInv => QuietBroadcastReachesAll
  <2>1. SUFFICES ASSUME HubInv, ~Idle, at > last
                 PROVE  /\ sent[origin] = 0
                        /\ failures = 0 => \A c \in audience : sent[c] = 1
    BY DEF QuietBroadcastReachesAll
  <2>2. Progress
    BY <2>1 DEF HubInv, LoopOk
  <2>3. \A i \in 1..last : i < at
    BY <2>1 DEF HubInv, TypeOK
  <2>4. QED
    BY <2>2, <2>3 DEF Progress
<1>2. QED
  BY <1>1, Invariant, PTL

(***************************************************************************)
(* What failed writes cost.                                                *)
(***************************************************************************)
\* A handler that left the list while the loop ran is found behind the end of the list,
\* if at all, and only the last one of the list is there a second time.
Stale ==
  \A i \in (size + 1)..last : Open(slots[i]) => size >= 1 /\ slots[i] = slots[size]

\* Only that one can get the message twice, and only from a slot behind the end.
OneRepeats == \A c, d \in Handlers : sent[c] > 1 /\ sent[d] > 1 => c = d
RepeatsFromStale ==
  \A c \in Handlers :
    /\ sent[c] <= 1 \/ sent[c] + size <= at
    /\ sent[c] > 1 =>
         /\ at > size + 1
         /\ \A i \in (size + 1)..last : Open(slots[i]) => slots[i] = c

\* Who is connected, has not got the message, and is not ahead of the cursor.
Passed ==
  { c \in audience : /\ Open(c) /\ sent[c] = 0
                     /\ \A i \in at..size : slots[i] # c }

\* Every failed write has taken one pointer out of the list, and has moved at most one
\* client over to the part the cursor is through with.
Losses ==
  /\ at <= last + 1
  /\ size + failures = last
  /\ \A i \in at..size : sent[slots[i]] = 0
  /\ Stale
  /\ RepeatsFromStale
  /\ OneRepeats
  /\ origin \notin audience
  /\ IsFiniteSet(audience)
  /\ Cardinality(Passed) <= failures

LossInv == ~Idle => Losses

\* A set is no larger than a finite one that holds it.
LEMMA Larger ==
  ASSUME NEW T, IsFiniteSet(T), NEW S, S \subseteq T
  PROVE  /\ IsFiniteSet(S)
         /\ Cardinality(S) \in Nat /\ Cardinality(T) \in Nat
         /\ Cardinality(S) <= Cardinality(T)
<1>1. S \in SUBSET T
  OBVIOUS
<1>2. IsFiniteSet(S) /\ Cardinality(S) <= Cardinality(T)
  BY <1>1, FS_Subset
<1>3. QED
  BY <1>2, FS_CardinalityType

\* What sits in finitely many slots is a finite set.
LEMMA SlotsFinite ==
  ASSUME NEW n \in Nat, NEW f, NEW S, \A c \in S : \E i \in 1..n : f[i] = c
  PROVE  IsFiniteSet(S)
<1>. DEFINE T == { f[i] : i \in 1..n }
            g == [i \in 1..n |-> f[i]]
<1>1. g \in Surjection(1..n, T)
  BY DEF Surjection
<1>2. IsFiniteSet(1..n)
  BY FS_Interval
<1>3. IsFiniteSet(T)
  BY <1>1, <1>2, FS_Surjection
<1>4. S \subseteq T
  OBVIOUS
<1>5. QED
  BY <1>3, <1>4, Larger

\* The numbers a running loop works with.
LEMMA LoopNumbers ==
  ASSUME HubInv
  PROVE  /\ at \in Nat /\ at >= 1 /\ last \in Nat /\ size \in Nat /\ failures \in Nat
         /\ size <= Capacity /\ last <= Capacity /\ Capacity \in Nat
         /\ sent \in [Handlers -> Nat] /\ audience \subseteq Handlers
         /\ \A i \in 1..size : slots[i] \in Handlers /\ Open(slots[i])
         /\ ~Idle => \A i \in 1..last : slots[i] \in Handlers
<1>1. \A i \in 1..size : slots[i] \in Handlers
  BY DEF HubInv, Pointers
<1>2. \A i \in 1..size : Open(slots[i])
  BY <1>1 DEF HubInv, ListIsExact
<1>3. QED
  BY <1>1, <1>2 DEF HubInv, TypeOK, Pointers

\* A broadcast begins with everybody ahead of it.
LEMMA StartLoses ==
  ASSUME HubInv, HubInv', Idle, NEW h \in Handlers, StartLoop(h)
  PROVE  LossInv'
<1>1. /\ at' = 1 /\ last' = size' /\ origin' = h /\ UNCHANGED <<sent, failures>>
      /\ audience' = { c \in Handlers : Open(c)' } \ {h}
  BY DEF StartLoop, Open
<1>2. /\ failures' = 0 /\ size' \in Nat
      /\ \A c \in Handlers : sent'[c] = 0
      /\ \A c \in Handlers : Open(c)' => \E i \in 1..size' : slots'[i] = c
      /\ \A i \in 1..size' : slots'[i] \in Handlers
  BY <1>1 DEF HubInv, LoopOk, TypeOK, ListIsExact, Pointers
<1>3. IsFiniteSet(audience')
  BY <1>1, <1>2, SlotsFinite
<1>4. Passed' = {}
  BY <1>1, <1>2 DEF Passed
<1>5. Cardinality(Passed') <= failures'
  BY <1>2, <1>4, FS_EmptySet
<1>6. Stale' /\ RepeatsFromStale' /\ OneRepeats'
  <2>1. (size' + 1)..last' = {}
    <3>1. PICK k \in Nat : k = size'
      BY <1>2
    <3>2. (k + 1)..k = {}
      OBVIOUS
    <3>3. last' = k
      BY <1>1, <3>1
    <3>4. QED
      BY <3>1, <3>2, <3>3
  <2>2. \A c \in Handlers : sent'[c] <= 1 /\ ~(sent'[c] > 1)
    BY <1>2
  <2>3. Stale'
    BY <2>1 DEF Stale
  <2>4. RepeatsFromStale' /\ OneRepeats'
    BY <2>2 DEF RepeatsFromStale, OneRepeats
  <2>5. QED
    BY <2>3, <2>4
<1>7. at' <= last' + 1 /\ size' + failures' = last'
  <2>1. PICK k \in Nat : k = size'
    BY <1>2
  <2>2. at' = 1 /\ last' = k /\ size' = k /\ failures' = 0
    BY <1>1, <1>2, <2>1
  <2>3. 1 <= k + 1 /\ k + 0 = k
    OBVIOUS
  <2>4. QED
    BY <2>2, <2>3
<1>8. \A i \in at'..size' : sent'[slots'[i]] = 0
  BY <1>1, <1>2
<1>9. origin' \notin audience'
  BY <1>1
<1>10. QED
  BY <1>3, <1>5, <1>6, <1>7, <1>8, <1>9 DEF LossInv, Losses

\* The clients that were passed over stay so few when no new one is.
LEMMA PassedShrinks ==
  ASSUME HubInv, Losses, IsFiniteSet(audience'), failures' \in Nat, failures' >= failures,
         Passed' \subseteq Passed
  PROVE  Cardinality(Passed') <= failures'
<1>1. IsFiniteSet(Passed)
  BY Larger DEF Losses, Passed
<1>2. QED
  BY <1>1, Larger, LoopNumbers DEF Losses

LEMMA SkipLoses ==
  ASSUME HubInv, LossInv, SkipClient
  PROVE  LossInv'
<1>1. /\ ~Idle /\ at \in 1..last /\ Current \in Handlers /\ Current = slots[at]
      /\ Current = origin \/ ~Open(Current)
      /\ at' = at + 1
      /\ UNCHANGED <<slots, size, socket, doomed, deleted, origin, last, sent, failures, audience>>
  BY CursorInWindow DEF SkipClient, list, history, Current
<1>2. Losses
  BY <1>1 DEF LossInv
<1>3. \A c : Open(c)' <=> Open(c)
  BY <1>1 DEF Open
<1>4. Passed' \subseteq Passed
  <2>1. SUFFICES ASSUME NEW c \in Passed' PROVE c \in Passed
    OBVIOUS
  <2>2. /\ c \in audience /\ Open(c) /\ sent[c] = 0 /\ c # origin
        /\ \A i \in (at + 1)..size : slots[i] # c
    BY <1>1, <1>2, <1>3, <2>1 DEF Passed, Losses
  <2>3. slots[at] # c
    BY <1>1, <2>2
  <2>4. \A i \in at..size : i = at \/ i \in (at + 1)..size
    BY LoopNumbers
  <2>5. QED
    BY <2>2, <2>3, <2>4 DEF Passed
<1>5. Cardinality(Passed') <= failures'
  BY <1>1, <1>2, <1>4, PassedShrinks, LoopNumbers DEF Losses
<1>6. Stale' /\ RepeatsFromStale' /\ OneRepeats'
  BY <1>1, <1>2, <1>3, LoopNumbers DEF Losses, Stale, RepeatsFromStale, OneRepeats
<1>7. /\ at' <= last' + 1 /\ size' + failures' = last'
      /\ \A i \in at'..size' : sent'[slots'[i]] = 0
      /\ origin' \notin audience' /\ IsFiniteSet(audience')
  BY <1>1, <1>2, LoopNumbers DEF Losses
<1>8. QED
  BY <1>5, <1>6, <1>7 DEF LossInv, Losses

LEMMA SendLoses ==
  ASSUME HubInv, LossInv, SendJson
  PROVE  LossInv'
<1>. DEFINE h == slots[at]
<1>1. /\ ~Idle /\ at \in 1..last /\ h \in Handlers
      /\ h # origin /\ Open(h)
      /\ sent' = [sent EXCEPT ![h] = @ + 1]
      /\ at' = at + 1
      /\ UNCHANGED <<slots, size, socket, doomed, deleted, origin, last, failures, audience>>
  BY CursorInWindow DEF SendJson, list, Current
<1>2. Losses
  BY <1>1 DEF LossInv
<1>3. \A c : Open(c)' <=> Open(c)
  BY <1>1 DEF Open
<1>4. /\ sent \in [Handlers -> Nat] /\ sent'[h] = sent[h] + 1
      /\ \A c \in Handlers : c # h => sent'[c] = sent[c]
  BY <1>1, LoopNumbers
<1>5. /\ at \in Nat /\ size \in Nat /\ last \in Nat /\ at <= last
      /\ audience \subseteq Handlers
  BY <1>1, LoopNumbers
<1>6. at <= size => sent[h] = 0
  BY <1>2, <1>5 DEF Losses
<1>7. at > size => \A i \in (size + 1)..last : Open(slots[i]) => slots[i] = h
  <2>1. at > size => at \in (size + 1)..last
    BY <1>5
  <2>2. QED
    BY <1>1, <1>2, <2>1 DEF Losses, Stale
<1>8. Passed' \subseteq Passed
  <2>1. SUFFICES ASSUME NEW c \in Passed' PROVE c \in Passed
    OBVIOUS
  <2>2. /\ c \in audience /\ Open(c) /\ sent'[c] = 0
        /\ \A i \in (at + 1)..size : slots[i] # c
    BY <1>1, <1>3, <2>1 DEF Passed
  <2>3. c # h /\ sent[c] = 0
    BY <1>4, <1>5, <2>2
  <2>4. \A i \in at..size : i = at \/ i \in (at + 1)..size
    BY <1>5
  <2>5. QED
    BY <2>2, <2>3, <2>4 DEF Passed
<1>9. Cardinality(Passed') <= failures'
  BY <1>1, <1>2, <1>8, PassedShrinks, LoopNumbers DEF Losses
<1>10. Stale'
  BY <1>1, <1>2, <1>3 DEF Losses, Stale
<1>11. RepeatsFromStale'
  <2>1. SUFFICES ASSUME NEW c \in Handlers
                 PROVE  /\ sent'[c] <= 1 \/ sent'[c] + size <= at + 1
                        /\ sent'[c] > 1 =>
                             /\ at + 1 > size + 1
                             /\ \A i \in (size + 1)..last : Open(slots[i]) => slots[i] = c
    BY <1>1, <1>3 DEF RepeatsFromStale
  <2>2. /\ sent[c] <= 1 \/ sent[c] + size <= at
        /\ sent[c] > 1 =>
             /\ at > size + 1
             /\ \A i \in (size + 1)..last : Open(slots[i]) => slots[i] = c
    BY <1>2 DEF Losses, RepeatsFromStale
  <2>3. CASE c # h
    BY <1>4, <1>5, <2>2, <2>3
  <2>4. CASE c = h /\ at <= size
    BY <1>4, <1>5, <1>6, <2>4
  <2>5. CASE c = h /\ at > size
    BY <1>4, <1>5, <1>7, <2>2, <2>5
  <2>6. QED
    BY <1>5, <2>3, <2>4, <2>5
<1>12. \A i \in at'..size' : sent'[slots'[i]] = 0
  <2>1. SUFFICES ASSUME NEW i \in (at + 1)..size PROVE sent'[slots[i]] = 0
    BY <1>1
  <2>2. i \in 1..size /\ at \in 1..size /\ i # at /\ i \in at..size
    BY <1>1, <1>5
  <2>3. slots[i] # h /\ slots[i] \in Handlers
    BY <2>2 DEF HubInv, ListIsExact, Pointers
  <2>4. QED
    BY <1>2, <1>4, <2>2, <2>3 DEF Losses
<1>13. /\ at' <= last' + 1 /\ size' + failures' = last'
       /\ origin' \notin audience' /\ IsFiniteSet(audience')
  BY <1>1, <1>2, <1>5 DEF Losses
<1>14. OneRepeats'
  <2>1. SUFFICES ASSUME NEW c \in Handlers, NEW d \in Handlers,
                        sent'[c] > 1, sent'[d] > 1, d # h
                 PROVE  c = d
    BY DEF OneRepeats
  <2>2. sent[d] > 1
    BY <1>4, <2>1
  <2>3. CASE c # h
    BY <1>2, <1>4, <2>1, <2>2, <2>3 DEF Losses, OneRepeats
  <2>4. CASE c = h
    <3>1. at > size + 1 /\ at \in (size + 1)..last
      BY <1>2, <1>5, <2>2 DEF Losses, RepeatsFromStale
    <3>2. QED
      BY <1>1, <1>2, <2>1, <2>2, <3>1 DEF Losses, RepeatsFromStale
  <2>5. QED
    BY <2>3, <2>4
<1>15. QED
  BY <1>9, <1>10, <1>11, <1>12, <1>13, <1>14 DEF LossInv, Losses

\* removeAll at the cursor moves everything behind it down by a slot.
LEMMA CutAtCursor ==
  ASSUME HubInv, at \in 1..size, RemoveAll(slots[at])
  PROVE  \A i \in 1..Capacity :
           slots'[i] = IF at <= i /\ i < size THEN slots[i + 1] ELSE slots[i]
<1>1. SUFFICES ASSUME NEW i \in 1..Capacity
               PROVE  slots'[i] = IF at <= i /\ i < size THEN slots[i + 1] ELSE slots[i]
  OBVIOUS
<1>2. slots'[i] = IF i < size /\ \E p \in 1..i : slots[p] = slots[at]
                  THEN slots[i + 1] ELSE slots[i]
  BY DEF RemoveAll
<1>3. \A p \in 1..size : slots[p] = slots[at] => p = at
  BY DEF HubInv, ListIsExact
<1>4. i < size => ((\E p \in 1..i : slots[p] = slots[at]) <=> at <= i)
  BY <1>3, LoopNumbers
<1>5. QED
  BY <1>2, <1>4

\* removeAll of a handler that is last in the list moves nothing.
LEMMA CutAtEnd ==
  ASSUME HubInv, size >= 1, RemoveAll(slots[size])
  PROVE  \A i \in 1..Capacity : slots'[i] = slots[i]
<1>1. SUFFICES ASSUME NEW i \in 1..Capacity PROVE slots'[i] = slots[i]
  OBVIOUS
<1>2. slots'[i] = IF i < size /\ \E p \in 1..i : slots[p] = slots[size]
                  THEN slots[i + 1] ELSE slots[i]
  BY DEF RemoveAll
<1>3. \A p \in 1..size : slots[p] = slots[size] => p = size
  BY LoopNumbers DEF HubInv, ListIsExact
<1>4. i < size => ~ \E p \in 1..i : slots[p] = slots[size]
  BY <1>3, LoopNumbers
<1>5. QED
  BY <1>2, <1>4

LEMMA FailLosesAtCursor ==
  ASSUME HubInv, HubInv', LossInv, SendJsonFails, at <= size
  PROVE  LossInv'
<1>. DEFINE h == slots[at]
            n == size
<1>1. /\ ~Idle /\ at \in 1..last /\ h \in Handlers /\ Open(h)
      /\ RemoveAll(h) /\ socket' = [socket EXCEPT ![h] = "closed"]
      /\ failures' = failures + 1 /\ at' = at + 1
      /\ UNCHANGED <<origin, last, sent, audience>>
  BY CursorInWindow DEF SendJsonFails, OnDisconnected, Current, Open
<1>2. Losses
  BY <1>1 DEF LossInv
<1>3. /\ at \in Nat /\ n \in Nat /\ last \in Nat /\ at <= last /\ failures \in Nat
      /\ at \in 1..n /\ n <= last /\ last <= Capacity /\ Capacity \in Nat
      /\ audience \subseteq Handlers /\ size' = n - 1
      /\ sent \in [Handlers -> Nat]
  BY <1>1, <1>2, LoopNumbers DEF Losses, RemoveAll
<1>4. \A i \in 1..Capacity :
        slots'[i] = IF at <= i /\ i < n THEN slots[i + 1] ELSE slots[i]
  BY <1>1, <1>3, CutAtCursor
<1>5. \A c \in Handlers : Open(c)' <=> c # h /\ Open(c)
  <2>1. socket \in [Handlers -> {"none", "connected", "broken", "closed"}]
    BY DEF HubInv, TypeOK
  <2>2. QED
    BY <1>1, <2>1 DEF Open
<1>6. \A i \in (at + 1)..(n - 1) : slots'[i] = slots[i + 1] /\ i + 1 \in at..n
  BY <1>3, <1>4
<1>7. Cardinality(Passed') <= failures'
  <2>. DEFINE next == IF at < n THEN { slots[at + 1] } ELSE {}
  <2>1. Passed' \subseteq Passed \cup next
    <3>1. SUFFICES ASSUME NEW c \in Passed', c \notin Passed PROVE c \in next
      OBVIOUS
    <3>2. /\ c \in audience /\ c \in Handlers /\ c # h /\ Open(c) /\ sent[c] = 0
          /\ \A i \in (at + 1)..(n - 1) : slots'[i] # c
      BY <1>1, <1>3, <1>5, <3>1 DEF Passed
    <3>3. PICK j \in at..n : slots[j] = c
      BY <3>1, <3>2 DEF Passed
    <3>4. j # at
      BY <3>2, <3>3
    <3>5. ~(j >= at + 2)
      <4>1. SUFFICES ASSUME j >= at + 2 PROVE FALSE
        OBVIOUS
      <4>2. j - 1 \in (at + 1)..(n - 1) /\ (j - 1) + 1 = j
        BY <1>3, <4>1
      <4>3. slots'[j - 1] = slots[(j - 1) + 1]
        BY <1>6, <4>2
      <4>4. QED
        BY <3>2, <3>3, <4>2, <4>3
    <3>6. j = at + 1 /\ at < n
      BY <1>3, <3>4, <3>5
    <3>7. QED
      BY <3>3, <3>6
  <2>2. IsFiniteSet(Passed)
    BY <1>2, Larger DEF Losses, Passed
  <2>3. /\ IsFiniteSet(Passed \cup { slots[at + 1] })
        /\ Cardinality(Passed \cup { slots[at + 1] }) <= Cardinality(Passed) + 1
    <3>. DEFINE x == slots[at + 1]
    <3>1. /\ IsFiniteSet(Passed \cup {x})
          /\ Cardinality(Passed \cup {x}) =
               IF x \in Passed THEN Cardinality(Passed) ELSE Cardinality(Passed) + 1
          /\ Cardinality(Passed) \in Nat
      BY <2>2, FS_AddElement, FS_CardinalityType
    <3>. HIDE DEF x
    <3>2. IsFiniteSet(Passed \cup {x}) /\ Cardinality(Passed \cup {x}) <= Cardinality(Passed) + 1
      BY <3>1
    <3>3. QED
      BY <3>2 DEF x
  <2>4. Passed' \subseteq Passed \cup { slots[at + 1] }
    BY <2>1
  <2>5. QED
    <3>1. /\ Cardinality(Passed \cup { slots[at + 1] }) <= Cardinality(Passed) + 1
          /\ Cardinality(Passed') <= Cardinality(Passed \cup { slots[at + 1] })
          /\ Cardinality(Passed') \in Nat /\ Cardinality(Passed) \in Nat
          /\ Cardinality(Passed \cup { slots[at + 1] }) \in Nat
      BY <2>2, <2>3, <2>4, Larger, FS_CardinalityType
    <3>2. Cardinality(Passed) <= failures
      BY <1>2 DEF Losses
    <3>. HIDE DEF n
    <3>3. QED
      BY <1>1, <1>3, <3>1, <3>2
<1>8. Stale'
  <2>1. SUFFICES ASSUME NEW i \in n..last, Open(slots[i])'
                 PROVE  n - 1 >= 1 /\ slots'[i] = slots'[n - 1]
    BY <1>1, <1>3 DEF Stale
  <2>2. i \in 1..Capacity /\ slots'[i] = slots[i] /\ slots[i] \in Handlers
    BY <1>1, <1>3, <1>4, LoopNumbers
  <2>3. slots[i] # h /\ Open(slots[i])
    BY <1>5, <2>1, <2>2
  <2>4. slots[i] = slots[n]
    <3>1. CASE i = n
      BY <3>1
    <3>2. CASE i # n
      <4>1. i \in (n + 1)..last
        BY <1>3, <3>2
      <4>2. QED
        BY <1>2, <2>3, <4>1 DEF Losses, Stale
    <3>3. QED
      BY <3>1, <3>2
  <2>5. n # at
    BY <2>3, <2>4
  <2>6. n - 1 \in 1..Capacity /\ at <= n - 1 /\ n - 1 < n /\ (n - 1) + 1 = n
    BY <1>3, <2>5
  <2>7. slots'[n - 1] = slots[n]
    BY <1>4, <2>6
  <2>8. QED
    BY <1>3, <2>2, <2>4, <2>6, <2>7
<1>9. RepeatsFromStale'
  <2>1. SUFFICES ASSUME NEW c \in Handlers PROVE sent'[c] <= 1 /\ ~(sent'[c] > 1)
    BY DEF RepeatsFromStale
  <2>2. QED
    BY <1>1, <1>2, <1>3 DEF Losses, RepeatsFromStale
<1>10. \A i \in at'..size' : sent'[slots'[i]] = 0
  <2>1. at'..size' = (at + 1)..(n - 1)
    BY <1>1, <1>3
  <2>2. \A j \in at..n : sent[slots[j]] = 0
    BY <1>2 DEF Losses
  <2>3. QED
    BY <1>1, <1>6, <2>1, <2>2
<1>11. at' <= last' + 1 /\ size' + failures' = last'
  <2>1. size + failures = last
    BY <1>2 DEF Losses
  <2>2. QED
    BY <1>1, <1>3, <2>1
<1>12. origin' \notin audience' /\ IsFiniteSet(audience') /\ OneRepeats'
  BY <1>1, <1>2 DEF Losses, OneRepeats
<1>13. QED
  BY <1>7, <1>8, <1>9, <1>10, <1>11, <1>12 DEF LossInv, Losses

LEMMA FailLosesBehind ==
  ASSUME HubInv, HubInv', LossInv, SendJsonFails, at > size
  PROVE  LossInv'
<1>. DEFINE h == slots[at]
            n == size
<1>1. /\ ~Idle /\ at \in 1..last /\ h \in Handlers /\ Open(h)
      /\ RemoveAll(h) /\ socket' = [socket EXCEPT ![h] = "closed"]
      /\ failures' = failures + 1 /\ at' = at + 1
      /\ UNCHANGED <<origin, last, sent, audience>>
  BY CursorInWindow DEF SendJsonFails, OnDisconnected, Current, Open
<1>2. Losses
  BY <1>1 DEF LossInv
<1>3. /\ at \in Nat /\ n \in Nat /\ last \in Nat /\ at <= last /\ failures \in Nat
      /\ at > n /\ last <= Capacity /\ Capacity \in Nat
      /\ audience \subseteq Handlers /\ size' = n - 1
      /\ sent \in [Handlers -> Nat]
  BY <1>1, LoopNumbers DEF RemoveAll
<1>4. n >= 1 /\ h = slots[n]
  <2>1. at \in (n + 1)..last
    BY <1>3
  <2>2. QED
    BY <1>1, <1>2, <2>1 DEF Losses, Stale
<1>5. \A i \in 1..Capacity : slots'[i] = slots[i]
  BY <1>1, <1>4, CutAtEnd
<1>6. \A c \in Handlers : Open(c)' <=> c # h /\ Open(c)
  <2>1. socket \in [Handlers -> {"none", "connected", "broken", "closed"}]
    BY DEF HubInv, TypeOK
  <2>2. QED
    BY <1>1, <2>1 DEF Open
<1>7. Cardinality(Passed') <= failures'
  <2>1. Passed' \subseteq Passed
    <3>1. SUFFICES ASSUME NEW c \in Passed' PROVE c \in Passed
      OBVIOUS
    <3>2. c \in audience /\ Open(c) /\ sent[c] = 0
      BY <1>1, <1>3, <1>6, <3>1 DEF Passed
    <3>3. at..n = {}
      BY <1>3
    <3>4. QED
      BY <3>2, <3>3 DEF Passed
  <2>2. QED
    BY <1>1, <1>2, <1>3, <2>1, PassedShrinks DEF Losses
<1>8. \A i \in n..last : ~Open(slots[i])'
  <2>1. SUFFICES ASSUME NEW i \in n..last, Open(slots[i])' PROVE FALSE
    OBVIOUS
  <2>2. i \in 1..Capacity /\ slots'[i] = slots[i] /\ slots[i] \in Handlers
    BY <1>1, <1>3, <1>4, <1>5, LoopNumbers
  <2>3. slots[i] # h /\ Open(slots[i])
    BY <1>6, <2>1, <2>2
  <2>4. i # n
    BY <1>4, <2>3
  <2>5. i \in (n + 1)..last
    BY <1>3, <2>4
  <2>6. QED
    BY <1>2, <1>4, <2>3, <2>5 DEF Losses, Stale
<1>9. Stale'
  BY <1>1, <1>3, <1>8 DEF Stale
<1>10. RepeatsFromStale'
  <2>1. SUFFICES ASSUME NEW c \in Handlers
                 PROVE  /\ sent[c] <= 1 \/ sent[c] + (n - 1) <= at + 1
                        /\ sent[c] > 1 => at + 1 > (n - 1) + 1
    BY <1>1, <1>3, <1>8 DEF RepeatsFromStale
  <2>2. sent[c] <= 1 \/ sent[c] + n <= at
    BY <1>2 DEF Losses, RepeatsFromStale
  <2>3. sent[c] \in Nat
    BY <1>3
  <2>4. QED
    BY <1>3, <1>4, <2>2, <2>3
<1>11. at'..size' = {}
  BY <1>1, <1>3
<1>12. at' <= last' + 1 /\ size' + failures' = last'
  <2>1. size + failures = last
    BY <1>2 DEF Losses
  <2>2. QED
    BY <1>1, <1>3, <1>4, <2>1
<1>13. origin' \notin audience' /\ IsFiniteSet(audience') /\ OneRepeats'
  BY <1>1, <1>2 DEF Losses, OneRepeats
<1>14. QED
  BY <1>7, <1>9, <1>10, <1>11, <1>12, <1>13 DEF LossInv, Losses

LEMMA LossStep == HubInv /\ HubInv' /\ LossInv /\ [Next]_vars => LossInv'
<1>1. SUFFICES ASSUME HubInv, HubInv', LossInv, [Next]_vars PROVE LossInv'
  OBVIOUS
<1>2. ASSUME NEW h \in Handlers,
             IncomingConnection(h) \/ PeerCloses(h) \/ DeleteLater(h)
      PROVE  LossInv'
  BY <1>2 DEF IncomingConnection, PeerCloses, DeleteLater, LossInv, Idle, loop
<1>3. ASSUME NEW h \in Handlers, Broadcast(h) PROVE LossInv'
  BY <1>1, <1>3, StartLoses DEF Broadcast
<1>4. ASSUME NEW h \in Handlers, BroadcastAfterFailedReply(h) PROVE LossInv'
  BY <1>1, <1>4, StartLoses DEF BroadcastAfterFailedReply
<1>5. CASE SendJsonFails
  BY <1>1, <1>5, FailLosesAtCursor, FailLosesBehind, LoopNumbers
<1>6. CASE EndBroadcast
  BY <1>6 DEF EndBroadcast, LossInv, Idle
<1>7. ASSUME UNCHANGED <<slots, size, loop, history>>,
             \A h \in Handlers : Open(h)' <=> Open(h)
      PROVE  LossInv'
  <2>1. SUFFICES ASSUME ~Idle PROVE Losses'
    BY <1>7 DEF LossInv, Idle, loop
  <2>2. Losses
    BY <1>1, <2>1 DEF LossInv
  <2>3. Passed' = Passed
    BY <1>1, <1>7, LoopNumbers DEF Passed, loop, history
  <2>4. Stale'
    <3>1. \A i \in (size + 1)..last : Open(slots[i])' <=> Open(slots[i])
      BY <1>1, <1>7, <2>1, LoopNumbers
    <3>2. QED
      BY <1>7, <2>2, <3>1 DEF Losses, Stale, loop
  <2>5. RepeatsFromStale' /\ OneRepeats'
    <3>1. \A i \in (size + 1)..last : Open(slots[i])' <=> Open(slots[i])
      BY <1>1, <1>7, <2>1, LoopNumbers
    <3>2. QED
      BY <1>7, <2>2, <3>1 DEF Losses, RepeatsFromStale, OneRepeats, loop, history
  <2>6. QED
    BY <1>7, <2>2, <2>3, <2>4, <2>5 DEF Losses, loop, history
<1>8. ASSUME NEW h \in Handlers, PeerBreaks(h) PROVE LossInv'
  <2>1. /\ UNCHANGED <<slots, size, loop, history>>
        /\ socket[h] = "connected" /\ socket' = [socket EXCEPT ![h] = "broken"]
        /\ socket \in [Handlers -> {"none", "connected", "broken", "closed"}]
    BY <1>1, <1>8 DEF PeerBreaks, HubInv, TypeOK
  <2>2. \A g \in Handlers : Open(g)' <=> Open(g)
    BY <2>1 DEF Open
  <2>3. QED
    BY <1>7, <2>1, <2>2
<1>9. CASE UNCHANGED vars
  <2>1. UNCHANGED <<slots, size, loop, history>> /\ \A g \in Handlers : Open(g)' <=> Open(g)
    BY <1>9 DEF vars, loop, history, Open
  <2>2. QED
    BY <1>7, <2>1
<1>10. QED
  BY <1>1, <1>2, <1>3, <1>4, <1>5, <1>6, <1>8, <1>9, SkipLoses, SendLoses DEF Next

\* However many writes of a broadcast fail, each of them costs at most one client the
\* message and repeats it at most once for another one (server.cpp:48-54).
THEOREM LossStaysBounded == Spec => []LossIsBounded
<1>1. Init => LossInv
  BY DEF Init, LossInv, Idle
<1>2. HubInv /\ LossInv => LossIsBounded
  <2>1. SUFFICES ASSUME HubInv, LossInv, ~Idle, at > last
                 PROVE  /\ Cardinality(Missed) <= failures
                        /\ Cardinality(Repeated) <= failures
                        /\ \A c \in audience : sent[c] <= 1 + failures
    BY DEF LossIsBounded
  <2>2. Losses
    BY <2>1 DEF LossInv
  <2>3. /\ at = last + 1 /\ size + failures = last /\ at - size = failures + 1
        /\ at..size = {}
        /\ at \in Nat /\ size \in Nat /\ failures \in Nat
        /\ sent \in [Handlers -> Nat] /\ audience \subseteq Handlers
    BY <2>1, <2>2, LoopNumbers DEF Losses
  <2>4. Missed = Passed
    BY <2>3 DEF Missed, Passed
  <2>5. \A c \in audience : sent[c] <= 1 + failures
    <3>1. SUFFICES ASSUME NEW c \in Handlers PROVE sent[c] <= 1 + failures
      BY <2>3
    <3>2. sent[c] <= 1 \/ sent[c] + size <= at
      BY <2>2 DEF Losses, RepeatsFromStale
    <3>3. sent[c] \in Nat
      BY <2>3
    <3>4. QED
      BY <2>3, <3>2, <3>3
  <2>6. Cardinality(Repeated) <= failures
    <3>1. CASE Repeated = {}
      BY <2>3, <3>1, FS_EmptySet
    <3>2. CASE Repeated # {}
      <4>1. PICK d \in Repeated : TRUE
        BY <3>2
      <4>2. d \in Handlers /\ sent[d] > 1
        BY <2>3, <4>1 DEF Repeated
      <4>3. failures >= 1
        BY <2>2, <2>3, <4>2 DEF Losses, RepeatsFromStale
      <4>4. \A c \in Repeated : c = d
        BY <2>2, <2>3, <4>2 DEF Losses, OneRepeats, Repeated
      <4>5. Repeated = {d}
        BY <4>1, <4>4
      <4>6. QED
        BY <2>3, <4>3, <4>5, FS_Singleton
    <3>3. QED
      BY <3>1, <3>2
  <2>7. QED
    BY <2>2, <2>4, <2>5, <2>6 DEF Losses
<1>3. QED
  BY <1>1, <1>2, LossStep, Invariant, PTL DEF Spec

=============================================================================
