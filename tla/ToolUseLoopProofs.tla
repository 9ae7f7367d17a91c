-------------------------- MODULE ToolUseLoopProofs --------------------------
(***************************************************************************)
(* Theorems about ToolUseLoop for every value of its constants: any number *)
(* of turns and tools, batches of any size, any budgets and limits.        *)
(***************************************************************************)
EXTENDS ToolUseLoop, SequenceTheorems, FiniteSetTheorems, WellFoundedInduction, TLAPS

-----------------------------------------------------------------------------
(***************************************************************************)
(* Counting up.  The loops of the code over a batch or a history are       *)
(* recursive functions on 0..N here; a set that holds 0 and goes on up to  *)
(* N holds them all, and such a function exists.                           *)
(***************************************************************************)
LEMMA LeastExists ==
  ASSUME NEW S, S \subseteq Nat, S # {}, IsFiniteSet(S)
  PROVE  \E m \in S : \A s \in S : m =< s
<1>. DEFINE below(u) == {v \in S : v =< u}
            family == {below(u) : u \in S}
<1>1. IsWellFoundedOn(StrictSubsetOrdering(S), SUBSET S)
  BY FS_StrictSubsetOrderingWellFounded, FS_FiniteSubsetsOfFinite
<1>2. family \subseteq SUBSET S /\ family # {}
  OBVIOUS
<1>3. PICK T \in family : \A U \in family : ~ (<<U, T>> \in StrictSubsetOrdering(S))
  <2>. HIDE DEF family
  <2>. QED
    BY <1>1, <1>2, WFMin
<1>4. PICK m \in S : T = below(m)
  BY <1>3
<1>5. ASSUME NEW s \in S, ~(m =< s)
      PROVE  FALSE
  <2>0. m \in Nat /\ s \in Nat /\ \A v \in S : v \in Nat
    OBVIOUS
  <2>1. below(s) \subseteq T /\ m \in T /\ m \notin below(s)
    <3>1. \A v \in S : v =< s => v =< m
      BY <1>5, <2>0
    <3>2. m =< m
      BY <2>0
    <3>. QED
      BY <1>4, <1>5, <3>1, <3>2
  <2>2. below(s) \in family /\ below(s) \in SUBSET S /\ T \in SUBSET S
    BY <1>4
  <2>. HIDE DEF below, family
  <2>3. <<below(s), T>> \in StrictSubsetOrdering(S)
    BY <2>1, <2>2 DEF StrictSubsetOrdering
  <2>. QED
    BY <1>3, <2>2, <2>3
<1>. QED
  BY <1>5

\* Induction up to a bound: a first number outside S would follow one inside.
LEMMA CountingUp ==
  ASSUME NEW N \in Nat, NEW S, 0 \in S,
         \A n \in 1..N : n - 1 \in S => n \in S
  PROVE  \A n \in 0..N : n \in S
<1>. DEFINE rest == (0..N) \ S
<1>1. SUFFICES ASSUME rest # {} PROVE FALSE
  OBVIOUS
<1>2. rest \subseteq Nat /\ IsFiniteSet(rest)
  <2>1. IsFiniteSet(0..N) /\ rest \in SUBSET (0..N)
    BY FS_Interval
  <2>. QED
    BY <2>1, FS_Subset
<1>3. PICK m \in rest : \A n \in rest : m =< n
  <2>. HIDE DEF rest
  <2>. QED
    BY <1>1, <1>2, LeastExists
<1>4. m \in 1..N /\ m - 1 \in 0..N
  BY <1>3
<1>5. m - 1 \notin rest
  <2>1. ~(m =< m - 1)
    BY <1>4
  <2>. QED
    BY <1>3, <2>1
<1>. QED
  BY <1>3, <1>4, <1>5

\* The least member of a set of positions.
LEMMA MinIsLeast ==
  ASSUME NEW n \in Nat, NEW S, S \subseteq 1..n, S # {}
  PROVE  Min(S) \in S /\ \A s \in S : Min(S) =< s
<1>1. IsFiniteSet(1..n)
  BY FS_Interval
<1>2. IsFiniteSet(S)
  BY <1>1, FS_Subset
<1>3. S \subseteq Nat
  OBVIOUS
<1>. QED
  BY <1>2, <1>3, LeastExists DEF Min

\* f is what comes of a, step by step.
Stepwise(f, N, a, step) == f[0] = a /\ \A n \in 1..N : f[n] = step[n][f[n - 1]]

\* A function that is defined step by step exists.
LEMMA StepwiseExists ==
  ASSUME NEW N \in Nat, NEW S, NEW a \in S, NEW step \in [1..N -> [S -> S]]
  PROVE  \E f \in [0..N -> S] : Stepwise(f, N, a, step)
<1>. DEFINE fold(f, m) == Stepwise(f, m, a, step)
            folds == {m \in 0..N : \E f \in [0..m -> S] : fold(f, m)}
<1>. USE DEF Stepwise
<1>1. 0 \in folds
  <2>. DEFINE g == [n \in 0..0 |-> a]
  <2>1. g \in [0..0 -> S] /\ fold(g, 0)
    OBVIOUS
  <2>2. 0 \in 0..N
    OBVIOUS
  <2>. HIDE DEF g, fold
  <2>. QED
    BY <2>1, <2>2
<1>2. ASSUME NEW m \in 1..N, m - 1 \in folds
      PROVE  m \in folds
  <2>1. PICK f \in [0..(m - 1) -> S] : fold(f, m - 1)
    BY <1>2
  <2>. DEFINE g == [n \in 0..m |-> IF n = m THEN step[m][f[m - 1]] ELSE f[n]]
  <2>2. m - 1 \in 0..(m - 1) /\ \A n \in 0..m : n # m => n \in 0..(m - 1)
    BY <1>2
  <2>3. step[m][f[m - 1]] \in S
    BY <2>2
  <2>4. g \in [0..m -> S]
    BY <2>2, <2>3
  <2>5. g[0] = a
    BY <1>2, <2>1, <2>2
  <2>6. ASSUME NEW n \in 1..m
        PROVE  g[n] = step[n][g[n - 1]]
    <3>1. n \in 0..m /\ n - 1 \in 0..m /\ n - 1 # m
      BY <1>2
    <3>2. n # m => n \in 1..(m - 1)
      BY <1>2
    <3>. QED
      BY <2>1, <3>1, <3>2
  <2>7. fold(g, m)
    BY <2>5, <2>6
  <2>8. m \in 0..N
    BY <1>2
  <2>. HIDE DEF g, fold
  <2>. QED
    BY <2>4, <2>7, <2>8
<1>3. N \in folds
  <2>. HIDE DEF folds
  <2>1. \A n \in 1..N : n - 1 \in folds => n \in folds
    BY <1>2
  <2>2. \A n \in 0..N : n \in folds
    BY <1>1, <2>1, CountingUp
  <2>. QED
    BY <2>2
<1>. QED
  BY <1>3

\* The calls of a batch that run together, one call of the batch after the other.
LEMMA ReadsStepwise ==
  ASSUME NEW cs \in Seq(Tools)
  PROVE  \E f \in [0..Len(cs) -> Seq(Tools)] :
           /\ f[0] = <<>> /\ Reads(cs) = f[Len(cs)]
           /\ \A n \in 1..Len(cs) :
                f[n] = IF cs[n] \in Readonly THEN Append(f[n - 1], cs[n]) ELSE f[n - 1]
<1>. DEFINE N == Len(cs)
            body(x, n) == IF cs[n] \in Readonly THEN Append(x, cs[n]) ELSE x
            step == [n \in 1..N |-> [x \in Seq(Tools) |-> body(x, n)]]
            upto == CHOOSE g : g = [n \in 0..N |-> IF n = 0 THEN <<>> ELSE body(g[n - 1], n)]
<1>0. N \in Nat /\ \A n \in 1..N : cs[n] \in Tools
  OBVIOUS
<1>1. step \in [1..N -> [Seq(Tools) -> Seq(Tools)]]
  BY <1>0
<1>2. PICK f \in [0..N -> Seq(Tools)] :
        Stepwise(f, N, <<>>, step)
  <2>. DEFINE S == Seq(Tools)
              a == <<>>
  <2>0. N \in Nat
    BY <1>0
  <2>1. a \in S /\ step \in [1..N -> [S -> S]]
    BY <1>1
  <2>. HIDE DEF step, N, S, a
  <2>2. \E f \in [0..N -> S] : Stepwise(f, N, a, step)
    BY <2>0, <2>1, StepwiseExists
  <2>. QED
    BY <2>2 DEF S, a
<1>3. \A n \in 1..N : n \in 0..N /\ n - 1 \in 0..N /\ n # 0
  BY <1>0
<1>4. \A n \in 1..N : step[n][f[n - 1]] = body(f[n - 1], n)
  BY <1>3
<1>5. f = [n \in 0..N |-> IF n = 0 THEN <<>> ELSE body(f[n - 1], n)]
  <2>. HIDE DEF step, body, N
  <2>1. \A n \in 0..N : n # 0 => n \in 1..N
    BY <1>0
  <2>. QED
    BY <1>2, <1>4, <2>1 DEF Stepwise
<1>6. upto = [n \in 0..N |-> IF n = 0 THEN <<>> ELSE body(upto[n - 1], n)]
  <2>. HIDE DEF body, N
  <2>. QED
    BY <1>5
<1>7. upto[0] = <<>> /\ \A n \in 1..N : upto[n] = body(upto[n - 1], n)
  <2>. HIDE DEF body, upto, N
  <2>. QED
    BY <1>0, <1>3, <1>6
<1>8. \A n \in 0..N : n \in {k \in 0..N : upto[k] \in Seq(Tools)}
  <2>. DEFINE S == {k \in 0..N : upto[k] \in Seq(Tools)}
  <2>. HIDE DEF upto
  <2>1. 0 \in S
    <3>1. upto[0] \in Seq(Tools) /\ 0 \in 0..N
      BY <1>0, <1>7
    <3>. QED
      BY <3>1
  <2>2. ASSUME NEW n \in 1..N, n - 1 \in S
        PROVE  n \in S
    <3>1. upto[n - 1] \in Seq(Tools) /\ cs[n] \in Tools
      BY <1>0, <2>2
    <3>2. body(upto[n - 1], n) \in Seq(Tools)
      BY <3>1
    <3>. QED
      BY <1>3, <1>7, <3>2
  <2>3. \A n \in 0..N : n \in S
    <3>. HIDE DEF S, N
    <3>. QED
      BY <1>0, <2>1, <2>2, CountingUp
  <2>. QED
    BY <2>3
<1>9. upto \in [0..N -> Seq(Tools)]
  <2>. HIDE DEF body, N
  <2>. QED
    BY <1>6, <1>8
<1>10. Reads(cs) = upto[N]
  BY DEF Reads
<1>. QED
  BY <1>7, <1>9, <1>10

-----------------------------------------------------------------------------
(***************************************************************************)
(* Types: what each operator makes of a turn.                              *)
(***************************************************************************)
Hows == {"none", "answer", "guard", "limit", "error"}

\* Ending a run changes its position and how it ended.
LEMMA EndedTurn ==
  ASSUME NEW r \in Turn, NEW how \in Hows
  PROVE  /\ Ended(r, how) \in Turn
         /\ Ended(r, how).at = "review" /\ Ended(r, how).end = how
         /\ Ended(r, how).deep = r.deep /\ Ended(r, how).log = r.log
         /\ Ended(r, how).first = r.first /\ Ended(r, how).need = r.need
         /\ Ended(r, how).iter = r.iter /\ Ended(r, how).asked = r.asked
         /\ Ended(r, how).kept = r.kept /\ Ended(r, how).stored = r.stored
         /\ Ended(r, how).tries = r.tries
<1>1. /\ <<>> \in Seq(Tools) /\ [c \in Tools |-> 0] \in [Tools -> Nat]
  OBVIOUS
<1>2. Ended(r, how) \in Turn
  BY <1>1 DEF Ended, Turn, Hows
<1>. QED
  BY <1>2 DEF Ended, Turn

\* Returning from a run keeps its messages for the turn.
LEMMA ReturnTurn ==
  ASSUME NEW r \in Turn, NEW how \in Hows
  PROVE  /\ Return(r, how) \in Turn
         /\ Return(r, how).at = "review" /\ Return(r, how).end = how
         /\ Return(r, how).deep = r.deep /\ Return(r, how).log = r.log
         /\ Return(r, how).first = r.first /\ Return(r, how).need = r.need
         /\ Return(r, how).iter = r.iter /\ Return(r, how).asked = r.asked
         /\ Return(r, how).kept = r.log /\ Return(r, how).tries = r.tries
<1>. DEFINE s == Ended(r, how)
<1>1. /\ s \in Turn /\ s.at = "review" /\ s.end = how /\ s.deep = r.deep /\ s.log = r.log
      /\ s.first = r.first /\ s.need = r.need /\ s.iter = r.iter /\ s.asked = r.asked
      /\ s.tries = r.tries
  BY EndedTurn
<1>2. r.log \in Seq(Batch)
  BY DEF Turn
<1>. HIDE DEF s
<1>3. Return(r, how) = [s EXCEPT !.kept = r.log, !.returned = TRUE]
  BY DEF Return, s
<1>. QED
  BY <1>1, <1>2, <1>3, ZenonT(60) DEF Turn

\* One more result of the last batch.
Heard(log, i) == [log EXCEPT ![Len(log)].answered = Append(@, i)]

\* A result is added to the last batch.
LEMMA HeardLog ==
  ASSUME NEW log \in Seq(Batch), log # <<>>, NEW i \in Nat
  PROVE  /\ Heard(log, i) \in Seq(Batch) /\ Len(Heard(log, i)) = Len(log)
         /\ Len(log) \in Nat \ {0} /\ log[Len(log)] \in Batch
         /\ \A j \in 1..(Len(log) - 1) : Heard(log, i)[j] = log[j]
         /\ Heard(log, i)[Len(log)].calls = log[Len(log)].calls
         /\ Heard(log, i)[Len(log)].answered = Append(log[Len(log)].answered, i)
<1>1. Len(log) \in Nat \ {0} /\ log[Len(log)] \in Batch
  BY EmptySeq
<1>. DEFINE last == log[Len(log)]
            b == [last EXCEPT !.answered = Append(@, i)]
<1>2. b \in Batch /\ b.calls = last.calls /\ b.answered = Append(last.answered, i)
  <2>1. last \in Batch
    BY <1>1
  <2>. HIDE DEF last
  <2>2. last.calls \in Seq(Tools) /\ last.answered \in Seq(Nat)
    BY <2>1 DEF Batch
  <2>3. Append(last.answered, i) \in Seq(Nat)
    BY <2>2, AppendProperties
  <2>. QED
    BY <2>1, <2>2, <2>3 DEF Batch
<1>3. Heard(log, i) = [log EXCEPT ![Len(log)] = b]
  BY DEF Heard
<1>. HIDE DEF b
<1>4. Len(log) \in 1..Len(log)
  BY <1>1
<1>5. /\ [log EXCEPT ![Len(log)] = b] \in Seq(Batch)
      /\ Len([log EXCEPT ![Len(log)] = b]) = Len(log)
      /\ \A j \in 1..Len(log) : [log EXCEPT ![Len(log)] = b][j] = IF j = Len(log) THEN b ELSE log[j]
  BY <1>2, <1>4, ExceptSeq
<1>6. Heard(log, i)[Len(log)] = b
  BY <1>3, <1>4, <1>5
<1>7. \A j \in 1..(Len(log) - 1) : Heard(log, i)[j] = log[j]
  <2>1. \A j \in 1..(Len(log) - 1) : j \in 1..Len(log) /\ j # Len(log)
    BY <1>1
  <2>. QED
    BY <1>3, <1>5, <2>1
<1>. QED
  BY <1>1, <1>2, <1>3, <1>5, <1>6, <1>7

\* Assessing a result changes the counters of the guard alone.
LEMMA AssessedTurn ==
  ASSUME NEW r \in Turn, NEW c \in Tools, NEW outcome
  PROVE  LET s == Assessed(r, c, outcome)
         IN  /\ s \in Turn /\ s.log = r.log /\ s.deep = r.deep /\ s.first = r.first
             /\ s.need = r.need /\ s.iter = r.iter /\ s.asked = r.asked /\ s.tries = r.tries
             /\ s.end = r.end /\ s.at = r.at /\ s.queue = r.queue /\ s.kept = r.kept
             /\ s.count = r.count /\ s.recent = r.recent
<1>. DEFINE stalls == CASE outcome = "blocker" -> r.stalls
                        [] outcome = "nothing" -> r.stalls + 1 [] OTHER -> 0
            seen == [r.seen EXCEPT ![c] = IF outcome = "evidence" THEN @ + 1 ELSE @]
<1>1. r.stalls \in Nat /\ r.seen \in [Tools -> Nat]
  BY DEF Turn
<1>2. stalls \in Nat
  <2>1. CASE outcome = "blocker"
    BY <1>1, <2>1
  <2>2. CASE outcome = "nothing"
    BY <1>1, <2>2
  <2>3. CASE outcome \notin {"blocker", "nothing"}
    BY <1>1, <2>3
  <2>. QED
    BY <2>1, <2>2, <2>3
<1>3. seen \in [Tools -> Nat]
  BY <1>1
<1>4. Assessed(r, c, outcome) = [r EXCEPT !.stalls = stalls, !.seen = seen]
  BY DEF Assessed
<1>. HIDE DEF stalls, seen
<1>. QED
  BY <1>2, <1>3, <1>4 DEF Turn

Verdicts == {"progress", "nothing", "blocker", "evidence"}

\* Recording a result appends it, and goes on or ends the run.
LEMMA RecordTurn ==
  ASSUME NEW r \in Turn, r.log # <<>>, r.end # "guard",
         NEW i \in 1..Len(Last(r.log).calls), NEW outcome
  PROVE  LET s == Record(r, i, outcome)
         IN  /\ s \in Turn /\ s.log = Heard(r.log, i)
             /\ s.deep = r.deep /\ s.first = r.first /\ s.need = r.need /\ s.iter = r.iter
             /\ s.asked = r.asked /\ s.tries = r.tries /\ s.kept \in {r.kept, s.log}
             /\ \/ s.end = "guard" /\ s.at = "review"
                \/ /\ s.end = r.end /\ s.at = r.at /\ s.queue = r.queue
                   /\ s.count = r.count /\ s.recent = r.recent /\ s.kept = r.kept
<1>. DEFINE x == [r EXCEPT !.log[Len(r.log)].answered = Append(@, i)]
            c == Last(r.log).calls[i]
            y == Assessed(x, c, outcome)
            s == Record(r, i, outcome)
<1>1. r.log \in Seq(Batch) /\ Len(r.log) \in Nat \ {0} /\ Last(r.log) = r.log[Len(r.log)]
      /\ Last(r.log) \in Batch
  BY EmptySeq DEF Turn, Last
<1>2. Last(r.log).calls \in Seq(Tools) /\ i \in Nat
  BY <1>1 DEF Batch
<1>3. c \in Tools
  BY <1>2
<1>4. x = [r EXCEPT !.log = Heard(r.log, i)]
  BY DEF Heard, Turn
<1>5. Heard(r.log, i) \in Seq(Batch)
  BY <1>1, <1>2, HeardLog
<1>. HIDE DEF x, c
<1>6. /\ x \in Turn /\ x.log = Heard(r.log, i)
      /\ x.deep = r.deep /\ x.first = r.first /\ x.need = r.need /\ x.iter = r.iter
      /\ x.asked = r.asked /\ x.tries = r.tries /\ x.end = r.end /\ x.at = r.at
      /\ x.queue = r.queue /\ x.count = r.count /\ x.recent = r.recent /\ x.kept = r.kept
  BY <1>4, <1>5 DEF Turn
<1>8. /\ y \in Turn /\ y.log = x.log
      /\ y.deep = x.deep /\ y.first = x.first /\ y.need = x.need /\ y.iter = x.iter
      /\ y.asked = x.asked /\ y.tries = x.tries /\ y.end = x.end /\ y.at = x.at
      /\ y.queue = x.queue /\ y.count = x.count /\ y.recent = x.recent /\ y.kept = x.kept
  BY <1>3, <1>6, AssessedTurn
<1>9. s = IF Stops(y, c, outcome) THEN Return(y, "guard") ELSE y
  BY DEF Record, x, c
<1>. HIDE DEF y, s
<1>10. "guard" \in Hows
  BY DEF Hows
<1>11. CASE Stops(y, c, outcome)
  <2>1. s = Return(y, "guard")
    BY <1>9, <1>11
  <2>. QED
    BY <1>6, <1>8, <1>10, <2>1, ReturnTurn DEF s
<1>12. CASE ~ Stops(y, c, outcome)
  BY <1>6, <1>8, <1>9, <1>12 DEF s
<1>. QED
  BY <1>11, <1>12

\* The latest calls are calls.
LEMMA LatestCalls ==
  ASSUME NEW s \in Seq(Tools)
  PROVE  Latest(s) \in Seq(Tools)
<1>. DEFINE m == IF Len(s) > Window THEN Len(s) - Window + 1 ELSE 1
<1>1. Window \in Nat \ {0} /\ Len(s) \in Nat
  BY LoopAssumption DEF LoopAssumption
<1>2. m \in Nat \ {0} /\ Len(s) \in Int
  BY <1>1
<1>3. \A k \in m..Len(s) : s[k] \in Tools
  BY <1>1, <1>2
<1>4. Latest(s) = SubSeq(s, m, Len(s))
  BY DEF Latest
<1>. HIDE DEF m
<1>. QED
  BY <1>2, <1>3, <1>4, SubSeqProperties

\* Counting calls changes the guard's count and its latest calls alone.
LEMMA CountedTurn ==
  ASSUME NEW r \in Turn, NEW cs \in Seq(Tools)
  PROVE  /\ Counted(r, cs) \in Turn
         /\ Counted(r, cs).count = r.count + Len(cs)
         /\ Counted(r, cs).recent = Latest(r.recent \o cs)
         /\ \A f \in DOMAIN Fresh \ {"count", "recent"} : Counted(r, cs)[f] = r[f]
<1>.  DEFINE n == r.count + Len(cs)
             s == Latest(r.recent \o cs)
<1>1. r.recent \in Seq(Tools) /\ r.count \in Nat /\ Len(cs) \in Nat
  BY DEF Turn
<1>2. r.recent \o cs \in Seq(Tools)
  BY <1>1, ConcatProperties
<1>3. Latest(r.recent \o cs) \in Seq(Tools)
  BY <1>2, LatestCalls
<1>4. Counted(r, cs) = [r EXCEPT !.count = n, !.recent = s]
  BY DEF Counted
<1>5. n \in Nat /\ s \in Seq(Tools)
  BY <1>1, <1>3
<1>. HIDE DEF n, s
<1>6. Counted(r, cs) \in Turn /\ Counted(r, cs).count = n /\ Counted(r, cs).recent = s
  BY <1>4, <1>5 DEF Turn
<1>7. \A f \in DOMAIN Fresh \ {"count", "recent"} : Counted(r, cs)[f] = r[f]
  BY <1>4 DEF Turn, Fresh
<1>. QED
  BY <1>6, <1>7 DEF n, s

\* The head of the loop asks the model once more, or the run is at its limit.
LEMMA IterateTurn ==
  ASSUME NEW t \in Turns, NEW r \in Turn
  PROVE  LET s == Iterate(t, r)
         IN  /\ s \in Turn /\ s.deep = r.deep /\ s.log = r.log /\ s.first = r.first
             /\ s.need = r.need /\ s.asked = r.asked /\ s.tries = r.tries
             /\ s.kept \in {r.kept, s.log}
             /\ \/ /\ s.at = "model" /\ s.iter = r.iter + 1 /\ r.iter < MaxIterations[t]
                   /\ s.recent = r.recent /\ s.count = r.count /\ s.queue = r.queue
                   /\ s.end = r.end
                \/ s.at = "review" /\ s.end = "limit" /\ s.iter = r.iter
<1>. DEFINE s == Iterate(t, r)
<1>1. CASE r.iter < MaxIterations[t]
  <2>. DEFINE n == r.iter + 1
  <2>1. s = [r EXCEPT !.iter = n, !.at = "model"]
    BY <1>1 DEF Iterate
  <2>2. n \in Nat
    BY DEF Turn
  <2>. HIDE DEF s, n
  <2>3. /\ s \in Turn /\ s.deep = r.deep /\ s.log = r.log /\ s.first = r.first
        /\ s.need = r.need /\ s.asked = r.asked /\ s.tries = r.tries
        /\ s.at = "model" /\ s.iter = n
        /\ s.recent = r.recent /\ s.count = r.count /\ s.queue = r.queue /\ s.end = r.end
        /\ s.kept = r.kept
    BY <2>1, <2>2 DEF Turn, Running
  <2>. QED
    BY <1>1, <2>3 DEF s, n
<1>2. CASE ~ (r.iter < MaxIterations[t])
  <2>1. s = Return(r, "limit") /\ "limit" \in Hows
    BY <1>2 DEF Iterate, Hows
  <2>. HIDE DEF s
  <2>. QED
    BY <2>1, ReturnTurn DEF s
<1>. QED
  BY <1>1, <1>2

\* The calls that ran together are judged one after the other.
LEMMA JudgedStepwise ==
  ASSUME NEW r \in Turn, r.log # <<>>, NEW outcome
  PROVE  LET N == Len(Last(r.log).calls)
         IN  \E f \in [0..N -> Turn] :
               /\ f[0] = r /\ Judged(r, outcome) = f[N]
               /\ \A n \in 1..N :
                    f[n] = IF n \in DOMAIN outcome THEN Record(f[n - 1], n, outcome[n])
                           ELSE f[n - 1]
<1>. DEFINE N == Len(Last(r.log).calls)
            S == {x \in Turn : x.log # <<>> /\ Len(Last(x.log).calls) = N}
            body(x, n) == IF n \in DOMAIN outcome THEN Record(x, n, outcome[n]) ELSE x
            step == [n \in 1..N |-> [x \in S |-> body(x, n)]]
            after == CHOOSE g : g = [n \in 0..N |-> IF n = 0 THEN r ELSE body(g[n - 1], n)]
<1>0. N \in Nat /\ r \in S
  <2>1. r.log \in Seq(Batch) /\ Len(r.log) \in 1..Len(r.log)
    BY EmptySeq DEF Turn
  <2>2. Last(r.log) \in Batch
    BY <2>1 DEF Last
  <2>. QED
    BY <2>2 DEF Batch
<1>1. ASSUME NEW n \in 1..N, NEW x \in S
      PROVE  body(x, n) \in S
  <2>1. CASE n \in DOMAIN outcome /\ x.end # "guard"
    <3>. DEFINE s == Record(x, n, outcome[n])
    <3>1. s \in Turn /\ s.log = Heard(x.log, n)
      BY <2>1, RecordTurn
    <3>2. x.log \in Seq(Batch) /\ x.log # <<>> /\ n \in Nat
      BY DEF Turn
    <3>3. s.log # <<>> /\ Last(s.log).calls = Last(x.log).calls
      <4>1. /\ Heard(x.log, n) \in Seq(Batch) /\ Len(Heard(x.log, n)) = Len(x.log)
            /\ Len(x.log) \in Nat \ {0}
            /\ Heard(x.log, n)[Len(x.log)].calls = x.log[Len(x.log)].calls
        BY <3>2, HeardLog
      <4>. HIDE DEF s
      <4>2. Heard(x.log, n) # <<>>
        BY <4>1, EmptySeq
      <4>. QED
        BY <3>1, <4>1, <4>2 DEF Last
    <3>. HIDE DEF s
    <3>4. s \in S
      BY <3>1, <3>3
    <3>. QED
      BY <2>1, <3>4 DEF s
  <2>2. CASE n \notin DOMAIN outcome \/ x.end = "guard"
    BY <2>2 DEF Record
  <2>. QED
    BY <2>1, <2>2
<1>. HIDE DEF body
<1>2. step \in [1..N -> [S -> S]]
  BY <1>1
<1>3. PICK f \in [0..N -> S] : Stepwise(f, N, r, step)
  <2>. HIDE DEF N, S, step
  <2>. QED
    BY <1>0, <1>2, StepwiseExists
<1>4. \A n \in 1..N : n \in 0..N /\ n - 1 \in 0..N /\ n # 0
  BY <1>0
<1>5. f[0] = r /\ \A n \in 1..N : f[n] = body(f[n - 1], n)
  <2>1. \A n \in 1..N : f[n - 1] \in S
    <3>. HIDE DEF S
    <3>. QED
      BY <1>3, <1>4
  <2>2. \A n \in 1..N : step[n][f[n - 1]] = body(f[n - 1], n)
    <3>. HIDE DEF S
    <3>. QED
      BY <2>1
  <2>. HIDE DEF step, S
  <2>. QED
    BY <1>3, <2>2 DEF Stepwise
<1>. HIDE DEF N
<1>6. f = [n \in 0..N |-> IF n = 0 THEN r ELSE body(f[n - 1], n)]
  <2>1. \A n \in 0..N : n # 0 => n \in 1..N
    BY <1>0
  <2>. HIDE DEF S, step
  <2>. QED
    BY <1>3, <1>5, <2>1
<1>7. after = [n \in 0..N |-> IF n = 0 THEN r ELSE body(after[n - 1], n)]
  BY <1>6
<1>8. Judged(r, outcome) = after[N]
  BY DEF Judged, body, N
<1>. HIDE DEF after, step
<1>9. after[0] = r /\ \A n \in 1..N : after[n] = body(after[n - 1], n)
  BY <1>0, <1>4, <1>7
<1>10. \A n \in 0..N : after[n] \in S
  <2>. DEFINE T == {n \in 0..N : after[n] \in S}
  <2>. HIDE DEF S
  <2>1. 0 \in T
    BY <1>0, <1>9
  <2>2. \A n \in 1..N : n - 1 \in T => n \in T
    BY <1>1, <1>4, <1>9
  <2>3. \A n \in 0..N : n \in T
    <3>. HIDE DEF T
    <3>. QED
      BY <1>0, <2>1, <2>2, CountingUp
  <2>. QED
    BY <2>3
<1>11. after \in [0..N -> Turn]
  <2>1. \A n \in 0..N : after[n] \in Turn
    BY <1>10
  <2>. HIDE DEF S
  <2>. QED
    BY <1>7, <2>1
<1>. QED
  BY <1>8, <1>9, <1>11 DEF body, N

\* The last batch, and the call of it that comes next.
LEMMA LastBatch ==
  ASSUME NEW log \in Seq(Batch), log # <<>>
  PROVE  /\ Len(log) \in Nat \ {0} /\ Last(log) = log[Len(log)] /\ Last(log) \in Batch
         /\ Last(log).calls \in Seq(Tools) /\ Last(log).answered \in Seq(Nat)
         /\ Len(Last(log).calls) \in Nat
         /\ \A i \in 1..Len(Last(log).calls) : Last(log).calls[i] \in Tools
<1>1. Len(log) \in Nat \ {0} /\ Last(log) = log[Len(log)] /\ Last(log) \in Batch
  BY EmptySeq DEF Last
<1>. QED
  BY <1>1 DEF Batch

Upcoming(r) == <<Last(r.log).calls[Min(r.queue)]>>

\* The next serial call is the least of those queued.
LEMMA UpcomingCall ==
  ASSUME NEW r \in Turn, r.log # <<>>, r.queue \subseteq 1..Len(Last(r.log).calls), r.queue # {}
  PROVE  /\ Min(r.queue) \in r.queue /\ \A i \in r.queue : Min(r.queue) =< i
         /\ Min(r.queue) \in Nat
         /\ Last(r.log).calls[Min(r.queue)] \in Tools
         /\ Upcoming(r) \in Seq(Tools) /\ Len(Upcoming(r)) = 1
<1>1. r.log \in Seq(Batch)
  BY DEF Turn
<1>2. Len(Last(r.log).calls) \in Nat
      /\ \A i \in 1..Len(Last(r.log).calls) : Last(r.log).calls[i] \in Tools
  BY <1>1, LastBatch
<1>3. Min(r.queue) \in r.queue /\ \A i \in r.queue : Min(r.queue) =< i
  BY <1>2, MinIsLeast
<1>4. Min(r.queue) \in 1..Len(Last(r.log).calls)
  BY <1>3
<1>5. Last(r.log).calls[Min(r.queue)] \in Tools
  BY <1>2, <1>4
<1>. QED
  BY <1>3, <1>4, <1>5 DEF Upcoming

\* The next serial call is made, or the batch is over, or a guard stops the run.
LEMMA NextCallTurn ==
  ASSUME NEW t \in Turns, NEW r \in Turn, r.log # <<>>,
         r.queue \subseteq 1..Len(Last(r.log).calls)
  PROVE  LET s == NextCall(t, r)
         IN  /\ s \in Turn /\ s.log = r.log /\ s.first = r.first /\ s.need = r.need
             /\ s.asked = r.asked /\ s.tries = r.tries /\ s.kept \in {r.kept, s.log}
             /\ r.deep => s.deep
             /\ \/ /\ r.queue = {} /\ s.at = "model" /\ s.iter = r.iter + 1
                   /\ r.iter < MaxIterations[t] /\ s.recent = r.recent /\ s.end = r.end
                \/ s.at = "review" /\ s.end \in {"limit", "guard"}
                \/ /\ r.queue # {} /\ s.at = "call" /\ s.queue = r.queue /\ s.end = r.end
                   /\ s.iter = r.iter /\ ~ Trips(t, r, Upcoming(r))
                   /\ s.recent = Latest(r.recent \o Upcoming(r))
<1>. DEFINE s == NextCall(t, r)
<1>1. CASE r.queue = {}
  <2>. DEFINE d == (r.deep \/ r.count >= FocusDepth)
              x == [r EXCEPT !.deep = @ \/ r.count >= FocusDepth]
  <2>1. s = Iterate(t, x)
    BY <1>1 DEF NextCall
  <2>2. x = [r EXCEPT !.deep = d] /\ d \in BOOLEAN /\ (r.deep => d)
    BY DEF Turn
  <2>. HIDE DEF x, s, d
  <2>3. /\ x \in Turn /\ x.log = r.log /\ x.first = r.first /\ x.need = r.need
        /\ x.asked = r.asked /\ x.tries = r.tries /\ x.kept = r.kept /\ x.iter = r.iter
        /\ x.recent = r.recent /\ x.end = r.end /\ x.deep = d
    BY <2>2 DEF Turn
  <2>4. /\ s \in Turn /\ s.deep = x.deep /\ s.log = x.log /\ s.first = x.first
        /\ s.need = x.need /\ s.asked = x.asked /\ s.tries = x.tries
        /\ s.kept \in {x.kept, s.log}
        /\ \/ /\ s.at = "model" /\ s.iter = x.iter + 1 /\ x.iter < MaxIterations[t]
              /\ s.recent = x.recent /\ s.end = x.end
           \/ s.at = "review" /\ s.end = "limit"
    BY <2>1, <2>3, IterateTurn
  <2>. QED
    BY <1>1, <2>2, <2>3, <2>4 DEF s
<1>2. CASE r.queue # {} /\ Trips(t, r, Upcoming(r))
  <2>1. s = Return(r, "guard") /\ "guard" \in Hows
    BY <1>2 DEF NextCall, Upcoming, Hows
  <2>. HIDE DEF s
  <2>. QED
    BY <1>2, <2>1, ReturnTurn DEF s
<1>3. CASE r.queue # {} /\ ~ Trips(t, r, Upcoming(r))
  <2>. DEFINE x == Counted(r, Upcoming(r))
  <2>1. s = [x EXCEPT !.at = "call"]
    BY <1>3 DEF NextCall, Upcoming
  <2>2. Upcoming(r) \in Seq(Tools)
    BY <1>3, UpcomingCall
  <2>3. /\ x \in Turn /\ x.recent = Latest(r.recent \o Upcoming(r))
        /\ \A f \in DOMAIN Fresh \ {"count", "recent"} : x[f] = r[f]
    BY <2>2, CountedTurn
  <2>. HIDE DEF x, s
  <2>4. /\ x.log = r.log /\ x.first = r.first /\ x.need = r.need /\ x.asked = r.asked
        /\ x.tries = r.tries /\ x.kept = r.kept /\ x.deep = r.deep /\ x.queue = r.queue
        /\ x.end = r.end /\ x.iter = r.iter
    BY <2>3 DEF Fresh
  <2>5. s \in Turn
    BY <2>1, <2>3 DEF Turn, Running
  <2>. QED
    BY <1>3, <2>1, <2>3, <2>4, <2>5, ZenonT(60) DEF Turn, s
<1>. QED
  BY <1>1, <1>2, <1>3

\* What runs together are calls, and without any every call runs by itself.
LEMMA ReadsOrSerial ==
  ASSUME NEW cs \in Seq(Tools)
  PROVE  /\ Reads(cs) \in Seq(Tools) /\ Serial(cs) \subseteq 1..Len(cs)
         /\ Reads(cs) = <<>> => Serial(cs) = 1..Len(cs)
<1>. DEFINE N == Len(cs)
<1>0. N \in Nat /\ DOMAIN cs = 1..N /\ \A n \in 1..N : n \in 0..N /\ n - 1 \in 0..N
  OBVIOUS
<1>1. PICK f \in [0..N -> Seq(Tools)] :
        /\ f[0] = <<>> /\ Reads(cs) = f[N]
        /\ \A n \in 1..N : f[n] = IF cs[n] \in Readonly THEN Append(f[n - 1], cs[n]) ELSE f[n - 1]
  BY ReadsStepwise
<1>. HIDE DEF N
<1>. DEFINE S == {n \in 0..N : f[n] = <<>> => \A i \in 1..n : cs[i] \notin Readonly}
<1>2. 0 \in S
  BY <1>0
<1>3. ASSUME NEW n \in 1..N, n - 1 \in S
      PROVE  n \in S
  <2>1. SUFFICES ASSUME f[n] = <<>> PROVE \A i \in 1..n : cs[i] \notin Readonly
    BY <1>0
  <2>2. f[n - 1] \in Seq(Tools) /\ cs[n] \in Tools
    BY <1>0 DEF N
  <2>3. Append(f[n - 1], cs[n]) # <<>>
    BY <2>2, AppendProperties
  <2>4. cs[n] \notin Readonly /\ f[n - 1] = <<>>
    BY <1>1, <2>1, <2>3
  <2>5. \A i \in 1..n : i = n \/ i \in 1..(n - 1)
    BY <1>0
  <2>. QED
    BY <1>3, <2>4, <2>5
<1>4. \A n \in 0..N : n \in S
  <2>. HIDE DEF S
  <2>. QED
    BY <1>0, <1>2, <1>3, CountingUp
<1>5. N \in S /\ N \in 0..N
  BY <1>0, <1>4
<1>6. Reads(cs) = <<>> => \A i \in 1..N : cs[i] \notin Readonly
  BY <1>1, <1>5
<1>. QED
  BY <1>0, <1>1, <1>5, <1>6 DEF Serial, N

\* The batch cs as it is posed, before any guard looks at it.
Posed(r, cs) ==
  [r EXCEPT !.log = Append(@, [calls |-> cs, answered |-> <<>>]), !.queue = Serial(cs)]

\* A batch is added with no results and its serial calls queued.
LEMMA PosedTurn ==
  ASSUME NEW r \in Turn, NEW cs \in Seq(Tools)
  PROVE  LET x == Posed(r, cs)
             b == [calls |-> cs, answered |-> <<>>]
         IN  /\ x \in Turn /\ x.log = Append(r.log, b) /\ x.log # <<>> /\ x.queue = Serial(cs)
             /\ Last(x.log) = b /\ b \in Batch
             /\ Len(x.log) = Len(r.log) + 1 /\ Len(r.log) \in Nat
             /\ \A i \in 1..Len(r.log) : x.log[i] = r.log[i]
             /\ x.first = r.first /\ x.need = r.need /\ x.asked = r.asked
             /\ x.tries = r.tries /\ x.kept = r.kept /\ x.deep = r.deep /\ x.at = r.at
             /\ x.end = r.end /\ x.iter = r.iter /\ x.count = r.count /\ x.recent = r.recent
<1>. DEFINE b == [calls |-> cs, answered |-> <<>>]
            log == Append(r.log, b)
            x == Posed(r, cs)
<1>1. b \in Batch
  BY EmptySeq DEF Batch
<1>2. r.log \in Seq(Batch)
  BY DEF Turn
<1>. HIDE DEF b
<1>3. /\ log \in Seq(Batch) /\ log # <<>> /\ Len(log) = Len(r.log) + 1 /\ Len(r.log) \in Nat
      /\ \A i \in 1..Len(r.log) : log[i] = r.log[i]
      /\ log[Len(r.log) + 1] = b
  BY <1>1, <1>2, AppendProperties
<1>4. Last(log) = b
  BY <1>3 DEF Last
<1>5. Serial(cs) \subseteq Nat
  BY ReadsOrSerial
<1>6. x = [r EXCEPT !.log = log, !.queue = Serial(cs)]
  BY DEF Posed, b
<1>. HIDE DEF log, x
<1>7. x \in Turn /\ x.log = log /\ x.queue = Serial(cs)
  BY <1>3, <1>5, <1>6 DEF Turn
<1>8. /\ x.first = r.first /\ x.need = r.need /\ x.asked = r.asked
      /\ x.tries = r.tries /\ x.kept = r.kept /\ x.deep = r.deep /\ x.at = r.at
      /\ x.end = r.end /\ x.iter = r.iter /\ x.count = r.count /\ x.recent = r.recent
  BY <1>6 DEF Turn
<1>. QED
  BY <1>1, <1>3, <1>4, <1>7, <1>8 DEF x, b, log

\* A batch goes to its first serial call, to its parallel calls, or trips the guard.
LEMMA DispatchTurn ==
  ASSUME NEW t \in Turns, NEW r \in Turn, NEW cs \in Seq(Tools)
  PROVE  LET s == Dispatch(t, r, cs)
         IN  \/ Reads(cs) = <<>> /\ s = NextCall(t, Posed(r, cs))
             \/ /\ Reads(cs) # <<>> /\ s \in Turn /\ s.log = Posed(r, cs).log
                /\ s.first = r.first /\ s.need = r.need /\ s.asked = r.asked
                /\ s.tries = r.tries /\ s.kept \in {r.kept, s.log} /\ s.deep = r.deep
                /\ s.iter = r.iter
                /\ \/ s.at = "review" /\ s.end = "guard"
                   \/ /\ s.at = "tools" /\ s.queue = Serial(cs) /\ s.end = r.end
                      /\ ~ Trips(t, r, Reads(cs))
                      /\ s.recent = Latest(r.recent \o Reads(cs))
<1>. DEFINE s == Dispatch(t, r, cs)
            x == Posed(r, cs)
<1>1. CASE Reads(cs) = <<>>
  BY <1>1 DEF Dispatch, Posed
<1>2. CASE Reads(cs) # <<>>
  <2>1. s = IF Trips(t, x, Reads(cs)) THEN Return(x, "guard")
            ELSE [Counted(x, Reads(cs)) EXCEPT !.at = "tools"]
    BY <1>2 DEF Dispatch, Posed
  <2>2. /\ x \in Turn /\ x.queue = Serial(cs) /\ x.first = r.first /\ x.need = r.need
        /\ x.asked = r.asked /\ x.tries = r.tries /\ x.kept = r.kept /\ x.deep = r.deep
        /\ x.end = r.end /\ x.iter = r.iter /\ x.count = r.count /\ x.recent = r.recent
    BY PosedTurn
  <2>3. Trips(t, x, Reads(cs)) <=> Trips(t, r, Reads(cs))
    BY <2>2 DEF Trips
  <2>. HIDE DEF s, x
  <2>4. CASE Trips(t, x, Reads(cs))
    <3>1. s = Return(x, "guard") /\ "guard" \in Hows
      BY <2>1, <2>4 DEF Hows
    <3>. QED
      BY <1>2, <2>2, <3>1, ReturnTurn DEF s, x
  <2>5. CASE ~ Trips(t, x, Reads(cs))
    <3>. DEFINE y == Counted(x, Reads(cs))
    <3>1. s = [y EXCEPT !.at = "tools"]
      BY <2>1, <2>5
    <3>2. /\ y \in Turn /\ y.recent = Latest(x.recent \o Reads(cs))
          /\ \A f \in DOMAIN Fresh \ {"count", "recent"} : y[f] = x[f]
      BY <2>2, ReadsOrSerial, CountedTurn
    <3>. HIDE DEF y
    <3>3. /\ y.log = x.log /\ y.first = x.first /\ y.need = x.need /\ y.asked = x.asked
          /\ y.tries = x.tries /\ y.kept = x.kept /\ y.deep = x.deep /\ y.queue = x.queue
          /\ y.end = x.end /\ y.iter = x.iter
      BY <3>2 DEF Fresh
    <3>4. s \in Turn
      BY <3>1, <3>2 DEF Turn, Running
    <3>. QED
      BY <1>2, <2>2, <2>3, <2>5, <3>1, <3>2, <3>3, <3>4 DEF Turn, s, x
  <2>. QED
    BY <2>4, <2>5
<1>. QED
  BY <1>1, <1>2

\* A turn before its first run.
LEMMA FreshTurn ==
  /\ Fresh \in Turn /\ Fresh.at = "idle" /\ Fresh.end = "none" /\ Fresh.recent = <<>>
  /\ Fresh.deep = FALSE /\ Fresh.iter = 0 /\ Fresh.log = <<>> /\ Fresh.kept = <<>>
  /\ Fresh.first = 0 /\ Fresh.stored = <<>>
<1>. DEFINE zero == [c \in Tools |-> 0]
            empty == <<>>
<1>1. empty \in Seq(Tools) /\ empty \in Seq(Batch) /\ zero \in [Tools -> Nat]
  OBVIOUS
<1>2. Fresh = [at |-> "idle", need |-> "none", asked |-> FALSE, iter |-> 0, count |-> 0,
               recent |-> empty, stalls |-> 0, seen |-> zero, queue |-> {}, deep |-> FALSE,
               log |-> empty, first |-> 0, end |-> "none", kept |-> empty,
               returned |-> FALSE, tries |-> 0, stored |-> empty]
  BY DEF Fresh
<1>. HIDE DEF zero, empty
<1>. USE <1>1, <1>2
<1>3. Fresh \in Turn
  BY DEF Turn, Needs
<1>. QED
  BY <1>3 DEF empty

\* A run begins with the given messages, and nothing else of the run before it.
LEMMA StartedTurn ==
  ASSUME NEW t \in Turns, NEW r \in Turn, NEW log \in Seq(Batch), NEW need \in Needs
  PROVE  LET s == Started(t, r, log, need)
         IN  /\ s \in Turn /\ s.log = log /\ s.first = Len(log) /\ s.kept = r.kept
             /\ s.at = "model" /\ s.end = "none" /\ s.recent = <<>> /\ s.deep = FALSE
             /\ s.iter =< MaxIterations[t]
<1>. DEFINE s == Started(t, r, log, need)
            x == [Fresh EXCEPT !.need = need, !.log = log, !.first = Len(log),
                               !.kept = r.kept, !.returned = r.returned, !.tries = r.tries]
<1>. DEFINE n == Len(log)
            zero == [c \in Tools |-> 0]
            empty == <<>>
<1>2. /\ empty \in Seq(Tools) /\ empty \in Seq(Batch) /\ zero \in [Tools -> Nat] /\ n \in Nat
      /\ r.kept \in Seq(Batch) /\ r.returned \in BOOLEAN /\ r.tries \in Nat
  BY DEF Turn
<1>2a. Fresh \in Turn /\ Fresh.end = "none" /\ Fresh.recent = empty /\ Fresh.deep = FALSE
       /\ Fresh.iter = 0
  BY FreshTurn
<1>2b. x = [Fresh EXCEPT !.need = need, !.log = log, !.first = n,
                        !.kept = r.kept, !.returned = r.returned, !.tries = r.tries]
  OBVIOUS
<1>1. s = Iterate(t, x)
  BY DEF Started
<1>. HIDE DEF n, zero, empty, x
<1>3. /\ x \in Turn /\ x.log = log /\ x.first = n /\ x.kept = r.kept
      /\ x.end = "none" /\ x.recent = empty /\ x.deep = FALSE /\ x.iter = 0
  BY <1>2, <1>2a, <1>2b DEF Turn
<1>4. MaxIterations[t] \in Nat \ {0}
  BY LoopAssumption DEF LoopAssumption
<1>. HIDE DEF s, x
<1>5. /\ s \in Turn /\ s.deep = x.deep /\ s.log = x.log /\ s.first = x.first
      /\ s.kept \in {x.kept, s.log}
      /\ \/ /\ s.at = "model" /\ s.iter = x.iter + 1
            /\ s.recent = x.recent /\ s.end = x.end
         \/ s.at = "review" /\ s.end = "limit" /\ s.iter = x.iter
  BY <1>1, <1>3, IterateTurn
<1>6. s.at = "model" /\ s.kept = x.kept
  BY <1>1, <1>3, <1>4, SMTT(30) DEF Iterate, Turn
<1>. QED
  BY <1>3, <1>4, <1>5, <1>6 DEF s, n, empty

\* The results of a batch are results of its calls.
Fitting(b) == b.answered \in Seq(1..Len(b.calls))
Sane(log) == \A i \in 1..Len(log) : Fitting(log[i])
Paired == {b \in Batch : Fitting(b) /\ Open(b) = {}}
Mended(b) == [calls |-> Made(b), answered |-> [i \in DOMAIN b.answered |-> i]]

\* The calls a batch made are those its results answer, in that order.
LEMMA MadeCalls ==
  ASSUME NEW b \in Batch, Fitting(b)
  PROVE  /\ Made(b) \in Seq(Tools) /\ Len(Made(b)) = Len(b.answered)
         /\ Len(b.answered) \in Nat
         /\ \A i \in 1..Len(b.answered) :
              b.answered[i] \in 1..Len(b.calls) /\ Made(b)[i] = b.calls[b.answered[i]]
<1>1. b.calls \in Seq(Tools) /\ b.answered \in Seq(1..Len(b.calls))
  BY DEF Batch, Fitting
<1>2. Len(b.answered) \in Nat /\ DOMAIN b.answered = 1..Len(b.answered)
      /\ \A i \in 1..Len(b.answered) : b.answered[i] \in 1..Len(b.calls)
  BY <1>1
<1>3. \A i \in 1..Len(b.answered) : b.calls[b.answered[i]] \in Tools
  BY <1>1, <1>2
<1>4. Made(b) = [i \in 1..Len(b.answered) |-> b.calls[b.answered[i]]]
  BY <1>2 DEF Made
<1>5. Made(b) \in Seq(Tools) /\ Len(Made(b)) = Len(b.answered)
  BY <1>2, <1>3, <1>4
<1>. QED
  BY <1>2, <1>4, <1>5

\* Stripped of the calls without a result, a batch has a result for every call,
\* and the calls that were made are the same.
LEMMA MendedBatch ==
  ASSUME NEW b \in Batch, Fitting(b)
  PROVE  Mended(b) \in Paired /\ Made(Mended(b)) = Made(b)
<1>. DEFINE n == Len(b.answered)
            calls == Made(b)
            all == [i \in 1..n |-> i]
            m == Mended(b)
<1>1. calls \in Seq(Tools) /\ Len(calls) = n /\ n \in Nat
  BY MadeCalls
<1>2. DOMAIN b.answered = 1..n
  BY DEF Batch
<1>3. m = [calls |-> calls, answered |-> all]
  BY <1>2 DEF Mended
<1>. HIDE DEF n, calls, m
<1>4. all \in Seq(1..n) /\ all \in Seq(Nat) /\ Len(all) = n /\ DOMAIN all = 1..n
  BY <1>1
<1>5. Range(all) = 1..n
  BY DEF Range
<1>6. m.calls = calls /\ m.answered = all
  BY <1>3
<1>. HIDE DEF all
<1>7. m \in Batch
  BY <1>1, <1>3, <1>4 DEF Batch
<1>8. Fitting(m)
  BY <1>1, <1>4, <1>6 DEF Fitting
<1>9. Open(m) = {}
  BY <1>1, <1>5, <1>6 DEF Open, Answered
<1>10. Made(m) = calls
  <2>1. Made(m) = [i \in 1..n |-> calls[all[i]]]
    BY <1>4, <1>6 DEF Made
  <2>2. \A i \in 1..n : all[i] = i
    BY DEF all
  <2>3. Made(m) = [i \in 1..n |-> calls[i]]
    BY <2>1, <2>2
  <2>. QED
    BY <1>1, <2>3
<1>. QED
  BY <1>7, <1>8, <1>9, <1>10 DEF Paired, m, calls

\* The history that is stored, one batch after the other.
LEMMA RepairStepwise ==
  ASSUME NEW log \in Seq(Batch), Sane(log)
  PROVE  \E f \in [0..Len(log) -> Seq(Paired)] :
           /\ f[0] = <<>> /\ Repair(log) = f[Len(log)]
           /\ \A n \in 1..Len(log) : f[n] = IF log[n].answered = <<>> THEN f[n - 1]
                                                  ELSE Append(f[n - 1], Mended(log[n]))
<1>. DEFINE N == Len(log)
            body(x, n) == IF log[n].answered = <<>> THEN x ELSE Append(x, Mended(log[n]))
            step == [n \in 1..N |-> [x \in Seq(Paired) |-> body(x, n)]]
            upto == CHOOSE g : g = [n \in 0..N |-> IF n = 0 THEN <<>> ELSE body(g[n - 1], n)]
<1>0. N \in Nat /\ \A n \in 1..N : log[n] \in Batch /\ Fitting(log[n])
  BY DEF Sane
<1>1. ASSUME NEW x \in Seq(Paired), NEW n \in 1..N
      PROVE  body(x, n) \in Seq(Paired)
  BY <1>0, MendedBatch, AppendProperties
<1>2. PICK f \in [0..N -> Seq(Paired)] : Stepwise(f, N, <<>>, step)
  <2>. DEFINE T == Seq(Paired)
              a == <<>>
  <2>1. a \in T /\ step \in [1..N -> [T -> T]]
    <3>1. <<>> \in Seq(Paired)
      OBVIOUS
    <3>. HIDE DEF body, N
    <3>. QED
      BY <1>1, <3>1
  <2>. HIDE DEF step, N, T, a
  <2>2. \E f \in [0..N -> T] : Stepwise(f, N, a, step)
    BY <1>0, <2>1, StepwiseExists
  <2>. QED
    BY <2>2 DEF T, a
<1>3. \A n \in 1..N : n \in 0..N /\ n - 1 \in 0..N /\ n # 0
  BY <1>0
<1>4. \A n \in 1..N : step[n][f[n - 1]] = body(f[n - 1], n)
  BY <1>3
<1>. HIDE DEF body, N
<1>5. f = [n \in 0..N |-> IF n = 0 THEN <<>> ELSE body(f[n - 1], n)]
  <2>. HIDE DEF step
  <2>1. \A n \in 0..N : n # 0 => n \in 1..N
    BY <1>0
  <2>. QED
    BY <1>2, <1>4, <2>1 DEF Stepwise
<1>6. upto = [n \in 0..N |-> IF n = 0 THEN <<>> ELSE body(upto[n - 1], n)]
  BY <1>5
<1>. HIDE DEF step
<1>7. upto[0] = <<>> /\ \A n \in 1..N : upto[n] = body(upto[n - 1], n)
  <2>. HIDE DEF upto
  <2>. QED
    BY <1>0, <1>3, <1>6
<1>8. Repair(log) = upto[N]
  BY DEF Repair, Mended, body, N
<1>. HIDE DEF upto
<1>. DEFINE T == {k \in 0..N : upto[k] \in Seq(Paired)}
<1>9. 0 \in T
  <2>1. upto[0] \in Seq(Paired) /\ 0 \in 0..N
    BY <1>0, <1>7
  <2>. QED
    BY <2>1
<1>10. \A n \in 1..N : n - 1 \in T => n \in T
  BY <1>1, <1>3, <1>7
<1>11. \A n \in 0..N : n \in T
  <2>. HIDE DEF T
  <2>. QED
    BY <1>0, <1>9, <1>10, CountingUp
<1>12. upto \in [0..N -> Seq(Paired)]
  BY <1>6, <1>11
<1>. QED
  BY <1>7, <1>8, <1>12 DEF body, N


\* The calls that were made, one batch after the other.
LEMMA RanStepwise ==
  ASSUME NEW log \in Seq(Batch), Sane(log)
  PROVE  \E f \in [0..Len(log) -> Seq(Tools)] :
           /\ f[0] = <<>> /\ Ran(log) = f[Len(log)]
           /\ \A n \in 1..Len(log) : f[n] = f[n - 1] \o Made(log[n])
<1>. DEFINE N == Len(log)
            body(x, n) == x \o Made(log[n])
            step == [n \in 1..N |-> [x \in Seq(Tools) |-> body(x, n)]]
            upto == CHOOSE g : g = [n \in 0..N |-> IF n = 0 THEN <<>> ELSE body(g[n - 1], n)]
<1>0. N \in Nat /\ \A n \in 1..N : log[n] \in Batch /\ Fitting(log[n])
  BY DEF Sane
<1>1. ASSUME NEW x \in Seq(Tools), NEW n \in 1..N
      PROVE  body(x, n) \in Seq(Tools)
  BY <1>0, MadeCalls, ConcatProperties
<1>2. PICK f \in [0..N -> Seq(Tools)] : Stepwise(f, N, <<>>, step)
  <2>. DEFINE T == Seq(Tools)
              a == <<>>
  <2>1. a \in T /\ step \in [1..N -> [T -> T]]
    <3>1. <<>> \in Seq(Tools)
      OBVIOUS
    <3>. HIDE DEF body, N
    <3>. QED
      BY <1>1, <3>1
  <2>. HIDE DEF step, N, T, a
  <2>2. \E f \in [0..N -> T] : Stepwise(f, N, a, step)
    BY <1>0, <2>1, StepwiseExists
  <2>. QED
    BY <2>2 DEF T, a
<1>3. \A n \in 1..N : n \in 0..N /\ n - 1 \in 0..N /\ n # 0
  BY <1>0
<1>4. \A n \in 1..N : step[n][f[n - 1]] = body(f[n - 1], n)
  BY <1>3
<1>. HIDE DEF body, N
<1>5. f = [n \in 0..N |-> IF n = 0 THEN <<>> ELSE body(f[n - 1], n)]
  <2>. HIDE DEF step
  <2>1. \A n \in 0..N : n # 0 => n \in 1..N
    BY <1>0
  <2>. QED
    BY <1>2, <1>4, <2>1 DEF Stepwise
<1>6. upto = [n \in 0..N |-> IF n = 0 THEN <<>> ELSE body(upto[n - 1], n)]
  BY <1>5
<1>. HIDE DEF step
<1>7. upto[0] = <<>> /\ \A n \in 1..N : upto[n] = body(upto[n - 1], n)
  <2>. HIDE DEF upto
  <2>. QED
    BY <1>0, <1>3, <1>6
<1>8. Ran(log) = upto[N]
  BY DEF Ran, body, N
<1>. HIDE DEF upto
<1>. DEFINE T == {k \in 0..N : upto[k] \in Seq(Tools)}
<1>9. 0 \in T
  <2>1. upto[0] \in Seq(Tools) /\ 0 \in 0..N
    BY <1>0, <1>7
  <2>. QED
    BY <2>1
<1>10. \A n \in 1..N : n - 1 \in T => n \in T
  BY <1>1, <1>3, <1>7
<1>11. \A n \in 0..N : n \in T
  <2>. HIDE DEF T
  <2>. QED
    BY <1>0, <1>9, <1>10, CountingUp
<1>12. upto \in [0..N -> Seq(Tools)]
  BY <1>6, <1>11
<1>. QED
  BY <1>7, <1>8, <1>12 DEF body, N

\* A fitting batch may be added.
LEMMA SaneAppend ==
  ASSUME NEW log \in Seq(Batch), Sane(log), NEW b \in Batch, Fitting(b)
  PROVE  Append(log, b) \in Seq(Batch) /\ Sane(Append(log, b))
<1>1. /\ Append(log, b) \in Seq(Batch) /\ Len(Append(log, b)) = Len(log) + 1 /\ Len(log) \in Nat
      /\ \A i \in 1..Len(log) : Append(log, b)[i] = log[i]
      /\ Append(log, b)[Len(log) + 1] = b
  BY AppendProperties
<1>2. \A i \in 1..(Len(log) + 1) : i \in 1..Len(log) \/ i = Len(log) + 1
  BY <1>1
<1>. QED
  BY <1>1, <1>2 DEF Sane

\* One more batch adds the calls of it that were made.
LEMMA RanAppend ==
  ASSUME NEW log \in Seq(Batch), Sane(log), NEW b \in Batch, Fitting(b)
  PROVE  Ran(log) \in Seq(Tools) /\ Ran(Append(log, b)) = Ran(log) \o Made(b)
<1>. DEFINE N == Len(log)
            more == Append(log, b)
<1>1. /\ more \in Seq(Batch) /\ Sane(more) /\ Len(more) = N + 1 /\ N \in Nat
      /\ \A i \in 1..N : more[i] = log[i]
      /\ more[N + 1] = b
  BY SaneAppend, AppendProperties
<1>2. PICK f \in [0..N -> Seq(Tools)] :
        /\ f[0] = <<>> /\ Ran(log) = f[N]
        /\ \A n \in 1..N : f[n] = f[n - 1] \o Made(log[n])
  BY RanStepwise
<1>3. PICK g \in [0..(N + 1) -> Seq(Tools)] :
        /\ g[0] = <<>> /\ Ran(more) = g[N + 1]
        /\ \A n \in 1..(N + 1) : g[n] = g[n - 1] \o Made(more[n])
  <2>. DEFINE M == Len(more)
  <2>1. M = N + 1
    BY <1>1
  <2>2. \E g \in [0..M -> Seq(Tools)] :
          /\ g[0] = <<>> /\ Ran(more) = g[M]
          /\ \A n \in 1..M : g[n] = g[n - 1] \o Made(more[n])
    <3>. HIDE DEF more
    <3>. QED
      BY <1>1, RanStepwise
  <2>. HIDE DEF more, N, M
  <2>. QED
    BY <2>1, <2>2
<1>. HIDE DEF more, N
<1>. DEFINE S == {n \in 0..N : f[n] = g[n]}
<1>4. 0 \in S
  BY <1>1, <1>2, <1>3
<1>5. ASSUME NEW n \in 1..N, n - 1 \in S
      PROVE  n \in S
  <2>1. n \in 0..N /\ n \in 1..(N + 1) /\ f[n - 1] = g[n - 1]
    BY <1>1, <1>5
  <2>2. f[n] = f[n - 1] \o Made(log[n]) /\ g[n] = g[n - 1] \o Made(more[n])
    BY <1>2, <1>3, <2>1
  <2>3. more[n] = log[n]
    BY <1>1
  <2>. QED
    BY <2>1, <2>2, <2>3
<1>6. \A n \in 0..N : n \in S
  <2>. HIDE DEF S
  <2>. QED
    BY <1>1, <1>4, <1>5, CountingUp
<1>7. N \in S /\ N + 1 \in 1..(N + 1) /\ (N + 1) - 1 = N /\ N \in 0..N
  BY <1>1, <1>6
<1>. QED
  BY <1>1, <1>2, <1>3, <1>7 DEF more

\* No messages, no calls.
LEMMA RanNothing == Ran(<<>>) = <<>>
<1>1. <<>> \in Seq(Batch) /\ Len(<<>>) = 0
  OBVIOUS
<1>2. Sane(<<>>)
  BY <1>1 DEF Sane
<1>. QED
  BY <1>1, <1>2, RanStepwise

\* What is stored pairs every call with a result and keeps every result.
LEMMA RepairedHistory ==
  ASSUME NEW log \in Seq(Batch), Sane(log)
  PROVE  Repair(log) \in Seq(Paired) /\ Ran(Repair(log)) = Ran(log)
<1>. DEFINE N == Len(log)
<1>0. N \in Nat /\ \A n \in 1..N : log[n] \in Batch /\ Fitting(log[n])
  BY DEF Sane
<1>1. PICK f \in [0..N -> Seq(Paired)] :
        /\ f[0] = <<>> /\ Repair(log) = f[N]
        /\ \A n \in 1..N : f[n] = IF log[n].answered = <<>> THEN f[n - 1]
                                  ELSE Append(f[n - 1], Mended(log[n]))
  BY RepairStepwise
<1>2. PICK g \in [0..N -> Seq(Tools)] :
        /\ g[0] = <<>> /\ Ran(log) = g[N]
        /\ \A n \in 1..N : g[n] = g[n - 1] \o Made(log[n])
  BY RanStepwise
<1>. HIDE DEF N
<1>3. \A n \in 1..N : n \in 0..N /\ n - 1 \in 0..N
  BY <1>0
<1>4. ASSUME NEW s \in Seq(Paired)
      PROVE  s \in Seq(Batch) /\ Sane(s)
  BY DEF Paired, Sane
<1>. DEFINE S == {n \in 0..N : Ran(f[n]) = g[n]}
<1>5. 0 \in S
  BY <1>0, <1>1, <1>2, RanNothing
<1>6. ASSUME NEW n \in 1..N, n - 1 \in S
      PROVE  n \in S
  <2>1. f[n - 1] \in Seq(Paired) /\ g[n - 1] \in Seq(Tools) /\ Ran(f[n - 1]) = g[n - 1]
    BY <1>1, <1>2, <1>3, <1>6
  <2>2. CASE log[n].answered = <<>>
    <3>1. Len(Made(log[n])) = 0 /\ Made(log[n]) \in Seq(Tools)
      BY <1>0, <2>2, MadeCalls
    <3>2. Made(log[n]) = <<>>
      BY <3>1, EmptySeq
    <3>3. g[n] = g[n - 1]
      BY <1>2, <2>1, <3>2, ConcatEmptySeq
    <3>. QED
      BY <1>1, <1>3, <2>1, <2>2, <3>3
  <2>3. CASE log[n].answered # <<>>
    <3>1. Mended(log[n]) \in Paired /\ Made(Mended(log[n])) = Made(log[n])
      BY <1>0, MendedBatch
    <3>2. Mended(log[n]) \in Batch /\ Fitting(Mended(log[n]))
      BY <3>1 DEF Paired
    <3>3. f[n - 1] \in Seq(Batch) /\ Sane(f[n - 1])
      BY <1>4, <2>1
    <3>4. Ran(Append(f[n - 1], Mended(log[n]))) = g[n - 1] \o Made(log[n])
      BY <2>1, <3>1, <3>2, <3>3, RanAppend
    <3>. QED
      BY <1>1, <1>2, <1>3, <2>3, <3>4
  <2>. QED
    BY <2>2, <2>3
<1>7. \A n \in 0..N : n \in S
  <2>. HIDE DEF S
  <2>. QED
    BY <1>0, <1>5, <1>6, CountingUp
<1>. QED
  BY <1>0, <1>1, <1>2, <1>7

\* One more result: one more call that was made.
LEMMA HeardBatch ==
  ASSUME NEW b \in Batch, Fitting(b), NEW i \in 1..Len(b.calls), NEW c \in Batch,
         c.calls = b.calls, c.answered = Append(b.answered, i)
  PROVE  /\ Fitting(c) /\ Made(c) = Append(Made(b), b.calls[i])
         /\ Answered(c) = Answered(b) \cup {i}
<1>. DEFINE n == Len(b.answered)
<1>1. b.answered \in Seq(1..Len(b.calls)) /\ n \in Nat
  BY DEF Fitting
<1>2. /\ c.answered \in Seq(1..Len(b.calls)) /\ Len(c.answered) = n + 1
      /\ \A k \in 1..n : c.answered[k] = b.answered[k]
      /\ c.answered[n + 1] = i
  BY <1>1, AppendProperties
<1>3. Fitting(c)
  BY <1>2 DEF Fitting
<1>4. DOMAIN b.answered = 1..n /\ DOMAIN c.answered = 1..(n + 1)
  BY <1>1, <1>2
<1>5. \A k \in 1..(n + 1) : k \in 1..n \/ k = n + 1
  BY <1>1
<1>6. \A k \in 1..n : k \in 1..(n + 1)
  BY <1>1
<1>. DEFINE x == Made(b)
            y == Made(c)
            e == b.calls[i]
<1>7. x \in Seq(Tools) /\ Len(x) = n /\ \A k \in 1..n : x[k] = b.calls[b.answered[k]]
  BY MadeCalls
<1>8. y \in Seq(Tools) /\ Len(y) = n + 1 /\ \A k \in 1..(n + 1) : y[k] = b.calls[c.answered[k]]
  BY <1>2, <1>3, MadeCalls, ZenonT(60)
<1>9. e \in Tools
  BY DEF Batch
<1>10. /\ Append(x, e) \in Seq(Tools) /\ Len(Append(x, e)) = n + 1
       /\ \A k \in 1..n : Append(x, e)[k] = x[k]
       /\ Append(x, e)[n + 1] = e
  BY <1>7, <1>9, AppendProperties
<1>11. y = Append(x, e)
  <2>1. \A k \in 1..(n + 1) : y[k] = Append(x, e)[k]
    BY <1>2, <1>5, <1>6, <1>7, <1>8, <1>10, <1>1
  <2>. HIDE DEF x, y, e
  <2>. QED
    BY <1>8, <1>10, <2>1, SeqEqual
<1>12. Range(c.answered) = Range(b.answered) \cup {i}
  <2>. HIDE DEF n
  <2>1. \A k \in 1..n : c.answered[k] = b.answered[k] /\ k \in 1..(n + 1)
    BY <1>2, <1>6
  <2>2. n + 1 \in 1..(n + 1)
    BY <1>1
  <2>. QED
    BY <1>2, <1>4, <1>5, <2>1, <2>2 DEF Range
<1>. QED
  BY <1>3, <1>11, <1>12 DEF Answered

\* s is r with other results of its last batch.
Alike(r, s) ==
  /\ s \in Turn /\ s.deep = r.deep /\ s.first = r.first /\ s.need = r.need
  /\ s.iter = r.iter /\ s.asked = r.asked /\ s.tries = r.tries
  /\ Len(s.log) = Len(r.log) /\ s.log # <<>>
  /\ \A j \in 1..(Len(r.log) - 1) : s.log[j] = r.log[j]
  /\ Last(s.log).calls = Last(r.log).calls

\* Recording a result answers one call of the last batch, and may end the run.
LEMMA RecordAlike ==
  ASSUME NEW r \in Turn, r.log # <<>>, r.end # "guard", Fitting(Last(r.log)),
         NEW i \in 1..Len(Last(r.log).calls), NEW outcome
  PROVE  LET s == Record(r, i, outcome)
         IN  /\ Alike(r, s) /\ Fitting(Last(s.log))
             /\ Made(Last(s.log)) = Append(Made(Last(r.log)), Last(r.log).calls[i])
             /\ Answered(Last(s.log)) = Answered(Last(r.log)) \cup {i}
             /\ \/ s.end = "guard" /\ s.at = "review" /\ s.kept \in {r.kept, s.log}
                \/ /\ s.end = r.end /\ s.at = r.at /\ s.queue = r.queue
                   /\ s.recent = r.recent /\ s.kept = r.kept
<1>. DEFINE s == Record(r, i, outcome)
            log == Heard(r.log, i)
            b == Last(r.log)
            c == Last(log)
<1>1. /\ s \in Turn /\ s.log = log
      /\ s.deep = r.deep /\ s.first = r.first /\ s.need = r.need /\ s.iter = r.iter
      /\ s.asked = r.asked /\ s.tries = r.tries /\ s.kept \in {r.kept, s.log}
      /\ \/ s.end = "guard" /\ s.at = "review"
         \/ /\ s.end = r.end /\ s.at = r.at /\ s.queue = r.queue
            /\ s.count = r.count /\ s.recent = r.recent /\ s.kept = r.kept
  BY RecordTurn
<1>2. r.log \in Seq(Batch)
  BY DEF Turn
<1>3. b \in Batch /\ b = r.log[Len(r.log)] /\ Len(b.calls) \in Nat
  BY <1>2, LastBatch
<1>4. /\ log \in Seq(Batch) /\ Len(log) = Len(r.log) /\ Len(r.log) \in Nat \ {0}
      /\ \A j \in 1..(Len(r.log) - 1) : log[j] = r.log[j]
      /\ log[Len(r.log)].calls = r.log[Len(r.log)].calls
      /\ log[Len(r.log)].answered = Append(r.log[Len(r.log)].answered, i)
  <2>1. i \in Nat
    BY <1>3
  <2>. QED
    BY <1>2, <2>1, HeardLog
<1>. HIDE DEF s, log, b
<1>5. log # <<>>
  BY <1>4, EmptySeq
<1>6. c \in Batch /\ c.calls = b.calls /\ c.answered = Append(b.answered, i)
  BY <1>3, <1>4, <1>5, LastBatch
<1>. HIDE DEF c
<1>7. /\ Fitting(c) /\ Made(c) = Append(Made(b), b.calls[i])
      /\ Answered(c) = Answered(b) \cup {i}
  BY <1>3, <1>6, HeardBatch DEF b
<1>8. Alike(r, s)
  BY <1>1, <1>4, <1>5, <1>6 DEF Alike, b, c
<1>. QED
  BY <1>1, <1>7, <1>8 DEF s, b, c

Begins(p, s) == Len(p) =< Len(s) /\ \A i \in 1..Len(p) : p[i] = s[i]

\* The calls of a batch that run together, up to any of its calls, come first.
LEMMA ReadsBegin ==
  ASSUME NEW N \in Nat, NEW cs \in [1..N -> Tools], NEW g \in [0..N -> Seq(Tools)],
         \A n \in 1..N : g[n] = IF cs[n] \in Readonly THEN Append(g[n - 1], cs[n]) ELSE g[n - 1]
  PROVE  \A k \in 0..N : Begins(g[k], g[N])
<1>. DEFINE S == {n \in 0..N : \A k \in 0..n : Begins(g[k], g[n])}
<1>0. \A s \in Seq(Tools) : Begins(s, s)
  BY DEF Begins
<1>1. 0 \in S
  BY <1>0
<1>2. ASSUME NEW n \in 1..N, n - 1 \in S
      PROVE  n \in S
  <2>0. n \in 0..N /\ n - 1 \in 0..N /\ g[n] \in Seq(Tools) /\ g[n - 1] \in Seq(Tools)
        /\ cs[n] \in Tools
    OBVIOUS
  <2>1. Begins(g[n - 1], g[n])
    <3>1. CASE cs[n] \in Readonly
      <4>1. g[n] = Append(g[n - 1], cs[n])
        BY <3>1
      <4>2. /\ Len(Append(g[n - 1], cs[n])) = Len(g[n - 1]) + 1
            /\ \A i \in 1..Len(g[n - 1]) : Append(g[n - 1], cs[n])[i] = g[n - 1][i]
        BY <2>0, AppendProperties
      <4>3. Len(g[n - 1]) \in Nat
        BY <2>0
      <4>. QED
        BY <4>1, <4>2, <4>3 DEF Begins
    <3>2. CASE cs[n] \notin Readonly
      BY <1>0, <2>0, <3>2
    <3>. QED
      BY <3>1, <3>2
  <2>2. ASSUME NEW k \in 0..n
        PROVE  Begins(g[k], g[n])
    <3>1. CASE k = n
      BY <1>0, <2>0, <3>1
    <3>2. CASE k # n
      <4>1. k \in 0..(n - 1) /\ k \in 0..N
        BY <3>2
      <4>2. Begins(g[k], g[n - 1]) /\ g[k] \in Seq(Tools)
        BY <1>2, <4>1
      <4>. QED
        BY <2>0, <2>1, <4>2 DEF Begins
    <3>. QED
      BY <3>1, <3>2
  <2>. QED
    BY <2>0, <2>2
<1>3. \A n \in 0..N : n \in S
  <2>. HIDE DEF S
  <2>. QED
    BY <1>1, <1>2, CountingUp
<1>. QED
  BY <1>3

\* Judging goes through every result, unless a guard stops it on the way.
LEMMA JudgedAlike ==
  ASSUME NEW r \in Turn, r.log # <<>>, r.end = "none", Fitting(Last(r.log)),
         Last(r.log).answered = <<>>, r.queue = Serial(Last(r.log).calls),
         NEW outcome, DOMAIN outcome = DOMAIN Last(r.log).calls \ r.queue
  PROVE  LET s == Judged(r, outcome)
             calls == Last(r.log).calls
         IN  /\ Alike(r, s) /\ Fitting(Last(s.log))
             /\ \/ /\ s.end = "guard" /\ s.at = "review" /\ s.kept \in {r.kept, s.log}
                   /\ Begins(Made(Last(s.log)), Reads(calls))
                \/ /\ s.end = "none" /\ s.queue = r.queue /\ s.recent = r.recent
                   /\ s.kept = r.kept /\ Open(Last(s.log)) = s.queue
                   /\ Made(Last(s.log)) = Reads(calls)
<1>. DEFINE cs == Last(r.log).calls
            N == Len(cs)
<1>0. /\ cs \in Seq(Tools) /\ N \in Nat /\ DOMAIN cs = 1..N /\ Last(r.log) \in Batch
      /\ Serial(cs) \subseteq 1..N
  <2>1. r.log \in Seq(Batch)
    BY DEF Turn
  <2>2. cs \in Seq(Tools) /\ Last(r.log) \in Batch
    BY <2>1, LastBatch
  <2>3. Serial(cs) \subseteq 1..N
    <3>. HIDE DEF cs
    <3>. QED
      BY <2>2, ReadsOrSerial
  <2>. QED
    BY <2>2, <2>3
<1>1. PICK f \in [0..N -> Turn] :
        /\ f[0] = r /\ Judged(r, outcome) = f[N]
        /\ \A n \in 1..N :
             f[n] = IF n \in DOMAIN outcome THEN Record(f[n - 1], n, outcome[n]) ELSE f[n - 1]
  BY JudgedStepwise
<1>2. PICK g \in [0..N -> Seq(Tools)] :
        /\ g[0] = <<>> /\ Reads(cs) = g[N]
        /\ \A n \in 1..N : g[n] = IF cs[n] \in Readonly THEN Append(g[n - 1], cs[n]) ELSE g[n - 1]
  BY <1>0, ReadsStepwise
<1>3. DOMAIN outcome = {n \in 1..N : cs[n] \in Readonly}
  BY <1>0 DEF Serial
<1>4. \A k \in 0..N : Begins(g[k], g[N])
  <2>1. cs \in [1..N -> Tools]
    BY <1>0
  <2>. HIDE DEF cs, N
  <2>. QED
    BY <1>0, <1>2, <2>1, ReadsBegin
<1>. HIDE DEF N
<1>. DEFINE told(n) == {i \in 1..n : cs[i] \in Readonly}
            stopped(s, n) == /\ s.end = "guard" /\ s.at = "review" /\ s.kept \in {r.kept, s.log}
                             /\ \E k \in 0..n : Made(Last(s.log)) = g[k]
            going(s, n) == /\ s.end = "none" /\ s.queue = r.queue /\ s.recent = r.recent
                           /\ s.kept = r.kept /\ Answered(Last(s.log)) = told(n)
                           /\ Made(Last(s.log)) = g[n]
            good(s, n) == Alike(r, s) /\ Fitting(Last(s.log)) /\ (stopped(s, n) \/ going(s, n))
            S == {n \in 0..N : good(f[n], n)}
<1>5. \A n \in 1..N : n \in 0..N /\ n - 1 \in 0..N /\ n # 0
  BY <1>0
<1>6. 0 \in S
  <2>1. Len(Last(r.log).answered) = 0
    OBVIOUS
  <2>2. Made(Last(r.log)) \in Seq(Tools) /\ Len(Made(Last(r.log))) = 0
    BY <1>0, <2>1, MadeCalls
  <2>3. Made(Last(r.log)) = <<>>
    BY <2>2, EmptySeq
  <2>4. Answered(Last(r.log)) = {}
    BY DEF Answered, Range
  <2>5. Alike(r, r)
    BY DEF Alike
  <2>6. told(0) = {}
    OBVIOUS
  <2>. HIDE DEF told, cs
  <2>7. good(r, 0)
    BY <1>2, <2>3, <2>4, <2>5, <2>6
  <2>. HIDE DEF good
  <2>. QED
    BY <1>0, <1>1, <2>7
<1>7. ASSUME NEW n \in 1..N, n - 1 \in S
      PROVE  n \in S
  <2>. DEFINE x == f[n - 1]
              s == f[n]
  <2>1. x \in Turn /\ good(x, n - 1)
    BY <1>1, <1>5, <1>7
  <2>2. Last(x.log).calls = cs /\ x.log # <<>>
    BY <2>1 DEF Alike
  <2>3. \A k \in 0..(n - 1) : k \in 0..n
    BY <1>0
  <2>. HIDE DEF x
  <2>4. CASE n \in DOMAIN outcome /\ x.end = "guard"
    <3>1. s = x
      BY <1>1, <2>4 DEF Record, x
    <3>2. stopped(x, n - 1)
      BY <2>1, <2>4
    <3>3. stopped(s, n)
      BY <2>3, <3>1, <3>2
    <3>. HIDE DEF stopped, going, s
    <3>4. good(s, n)
      BY <2>1, <3>1, <3>3
    <3>. QED
      BY <1>5, <3>4 DEF s
  <2>5. CASE n \in DOMAIN outcome /\ x.end # "guard"
    <3>1. s = Record(x, n, outcome[n])
      BY <1>1, <2>5 DEF x
    <3>2. going(x, n - 1)
      BY <2>1, <2>5
    <3>3. Fitting(Last(x.log)) /\ Alike(r, x)
      BY <2>1
    <3>. HIDE DEF cs, s
    <3>4. /\ Alike(x, s) /\ Fitting(Last(s.log))
          /\ Made(Last(s.log)) = Append(Made(Last(x.log)), Last(x.log).calls[n])
          /\ Answered(Last(s.log)) = Answered(Last(x.log)) \cup {n}
          /\ \/ s.end = "guard" /\ s.at = "review" /\ s.kept \in {x.kept, s.log}
             \/ /\ s.end = x.end /\ s.at = x.at /\ s.queue = x.queue
                /\ s.recent = x.recent /\ s.kept = x.kept
      <4>1. n \in 1..Len(Last(x.log).calls)
        BY <2>2 DEF N
      <4>2. x \in Turn /\ x.log # <<>> /\ x.end # "guard" /\ Fitting(Last(x.log))
        BY <2>1, <2>2, <2>5, <3>3
      <4>. DEFINE e == outcome[n]
                  i == n
      <4>3. i \in 1..Len(Last(x.log).calls) /\ s = Record(x, i, e)
        BY <3>1, <4>1
      <4>. HIDE DEF e, i, good, S
      <4>4. LET y == Record(x, i, e)
            IN  /\ Alike(x, y) /\ Fitting(Last(y.log))
                /\ Made(Last(y.log)) = Append(Made(Last(x.log)), Last(x.log).calls[i])
                /\ Answered(Last(y.log)) = Answered(Last(x.log)) \cup {i}
                /\ \/ y.end = "guard" /\ y.at = "review" /\ y.kept \in {x.kept, y.log}
                   \/ /\ y.end = x.end /\ y.at = x.at /\ y.queue = x.queue
                      /\ y.recent = x.recent /\ y.kept = x.kept
        BY <4>2, <4>3, RecordAlike
      <4>. QED
        BY <4>3, <4>4 DEF i
    <3>5. Alike(r, s)
      BY <3>3, <3>4 DEF Alike
    <3>6. cs[n] \in Readonly
      BY <1>3, <2>5
    <3>7. Made(Last(s.log)) = g[n]
      BY <1>2, <2>2, <3>2, <3>4, <3>6
    <3>8. told(n) = told(n - 1) \cup {n}
      <4>1. \A i \in Nat : i \in 1..n <=> i \in 1..(n - 1) \/ i = n
        BY <1>0
      <4>. QED
        BY <1>0, <3>6, <4>1
    <3>9. n \in 0..n
      BY <1>0
    <3>. HIDE DEF told
    <3>10. stopped(s, n) \/ going(s, n)
      BY <3>2, <3>4, <3>7, <3>8, <3>9
    <3>. HIDE DEF stopped, going
    <3>11. good(s, n)
      BY <3>4, <3>5, <3>10
    <3>. QED
      BY <1>5, <3>11 DEF s
  <2>6. CASE n \notin DOMAIN outcome
    <3>1. s = x
      BY <1>1, <2>6 DEF x
    <3>2. cs[n] \notin Readonly
      BY <1>3, <2>6
    <3>3. g[n] = g[n - 1]
      BY <1>2, <3>2
    <3>4. told(n) = told(n - 1)
      <4>1. \A i \in Nat : i \in 1..n <=> i \in 1..(n - 1) \/ i = n
        BY <1>0
      <4>. QED
        BY <1>0, <3>2, <4>1
    <3>. HIDE DEF told, s
    <3>5. stopped(s, n) \/ going(s, n)
      BY <2>1, <2>3, <3>1, <3>3, <3>4
    <3>. HIDE DEF stopped, going
    <3>6. good(s, n)
      BY <2>1, <3>1, <3>5
    <3>. QED
      BY <1>5, <3>6 DEF s
  <2>. QED
    BY <2>4, <2>5, <2>6
<1>8. \A n \in 0..N : n \in S
  <2>. HIDE DEF S
  <2>. QED
    BY <1>0, <1>6, <1>7, CountingUp
<1>9. good(f[N], N)
  BY <1>0, <1>8
<1>. DEFINE s == Judged(r, outcome)
<1>10. CASE stopped(f[N], N)
  BY <1>1, <1>2, <1>4, <1>9, <1>10
<1>11. CASE going(f[N], N)
  <2>1. Last(f[N].log).calls = cs
    BY <1>9 DEF Alike
  <2>2. DOMAIN cs \ told(N) = r.queue
    BY <1>0, <1>3
  <2>3. Open(Last(f[N].log)) = r.queue
    <3>. HIDE DEF told, cs
    <3>. QED
      BY <1>11, <2>1, <2>2 DEF Open
  <2>. HIDE DEF told
  <2>. QED
    BY <1>1, <1>2, <1>9, <1>11, <2>3
<1>. QED
  BY <1>9, <1>10, <1>11

-----------------------------------------------------------------------------
(***************************************************************************)
(* The results of a run and what it still has to do.  Wherever a run is,   *)
(* the batches before its last one are answered; the last one lacks just   *)
(* the calls that are under way or queued.                                 *)
(***************************************************************************)
Whole(r, n) == \A i \in 1..n : i > r.first => Open(r.log[i]) = {}

\* What HistoryPaired says of a turn.
History(r) ==
  /\ \A i \in DOMAIN r.stored : Open(r.stored[i]) = {}
  /\ r.returned => Ran(r.stored) = Ran(r.kept)

Sound(t, r) ==
  /\ r.first =< Len(r.log) /\ Sane(r.log) /\ Sane(r.kept)
  /\ r.at = "model" => Whole(r, Len(r.log))
  /\ r.at \in {"tools", "call"} =>
       /\ r.first < Len(r.log) /\ Whole(r, Len(r.log) - 1)
       /\ r.queue \subseteq 1..Len(Last(r.log).calls)
  /\ r.at = "tools" => Last(r.log).answered = <<>> /\ r.queue = Serial(Last(r.log).calls)
  /\ r.at = "call" => r.queue # {} /\ Open(Last(r.log)) = r.queue
  /\ r.at \in Running => r.end = "none" /\ r.iter =< MaxIterations[t]
  /\ r.at = "stored" => History(r)

\* Between two calls of a batch.
Midway(t, r) ==
  /\ r.log # <<>> /\ r.first < Len(r.log) /\ Whole(r, Len(r.log) - 1)
  /\ Sane(r.log) /\ Sane(r.kept)
  /\ r.queue \subseteq 1..Len(Last(r.log).calls) /\ Open(Last(r.log)) = r.queue
  /\ r.end = "none" /\ r.iter =< MaxIterations[t]

\* A step of a run: a deep run that goes on stays deep.
Onward(t, r, s) == s \in Turn /\ Sound(t, s) /\ (r.deep /\ s.at \in Running => s.deep)

\* A run that was stopped is sound if its messages are.
LEMMA StoppedSound ==
  ASSUME NEW t \in Turns, NEW r \in Turn, r.at = "review", r.end # "answer",
         r.first =< Len(r.log), Sane(r.log), Sane(r.kept)
  PROVE  Sound(t, r)
BY DEF Sound, Running

\* A run with every call answered may go on, or end at its limit.
LEMMA IterateSound ==
  ASSUME NEW t \in Turns, NEW r \in Turn, r.end = "none", r.first =< Len(r.log),
         Sane(r.log), Sane(r.kept), Whole(r, Len(r.log))
  PROVE  Onward(t, r, Iterate(t, r))
<1>. DEFINE s == Iterate(t, r)
<1>1. /\ s \in Turn /\ s.deep = r.deep /\ s.log = r.log /\ s.first = r.first
      /\ s.kept \in {r.kept, s.log}
      /\ \/ /\ s.at = "model" /\ s.iter = r.iter + 1 /\ r.iter < MaxIterations[t]
            /\ s.end = r.end
         \/ s.at = "review" /\ s.end = "limit"
  BY IterateTurn
<1>. HIDE DEF s
<1>2. Sane(s.kept)
  BY <1>1
<1>3. CASE s.at = "model"
  <2>1. s.iter =< MaxIterations[t]
    <3>1. MaxIterations[t] \in Nat /\ r.iter \in Nat
      BY LoopAssumption DEF LoopAssumption, Turn
    <3>. QED
      BY <1>1, <1>3, <3>1
  <2>2. Whole(s, Len(s.log))
    BY <1>1 DEF Whole
  <2>3. Sound(t, s)
    BY <1>1, <1>2, <1>3, <2>1, <2>2 DEF Sound
  <2>. QED
    BY <1>1, <2>3 DEF Onward, s
<1>4. CASE s.at = "review" /\ s.end = "limit"
  <2>1. Sound(t, s)
    BY <1>1, <1>2, <1>4, StoppedSound
  <2>. QED
    BY <1>1, <2>1 DEF Onward, s
<1>. QED
  BY <1>1, <1>3, <1>4

\* A run goes from one serial call to the next, or to the model.
LEMMA NextCallSound ==
  ASSUME NEW t \in Turns, NEW r \in Turn, Midway(t, r)
  PROVE  Onward(t, r, NextCall(t, r))
<1>. DEFINE s == NextCall(t, r)
<1>1. /\ s \in Turn /\ s.log = r.log /\ s.first = r.first
      /\ s.kept \in {r.kept, s.log}
      /\ r.deep => s.deep
      /\ \/ /\ r.queue = {} /\ s.at = "model" /\ s.iter = r.iter + 1
            /\ r.iter < MaxIterations[t] /\ s.end = r.end
         \/ s.at = "review" /\ s.end \in {"limit", "guard"}
         \/ /\ r.queue # {} /\ s.at = "call" /\ s.queue = r.queue /\ s.end = r.end
            /\ s.iter = r.iter
  BY NextCallTurn DEF Midway
<1>. HIDE DEF s
<1>2. /\ r.log # <<>> /\ r.first < Len(r.log) /\ Whole(r, Len(r.log) - 1)
      /\ Sane(r.log) /\ Sane(r.kept)
      /\ r.queue \subseteq 1..Len(Last(r.log).calls) /\ Open(Last(r.log)) = r.queue
      /\ r.end = "none" /\ r.iter =< MaxIterations[t]
  BY DEF Midway
<1>3. Len(r.log) \in Nat \ {0} /\ Last(r.log) = r.log[Len(r.log)] /\ r.first \in Nat
  BY <1>2, LastBatch DEF Turn
<1>4. Sane(s.kept)
  BY <1>1, <1>2
<1>5. MaxIterations[t] \in Nat /\ r.iter \in Nat
  BY LoopAssumption DEF LoopAssumption, Turn
<1>6. CASE r.queue = {} /\ s.at = "model"
  <2>1. \A i \in 1..Len(r.log) : i = Len(r.log) \/ i \in 1..(Len(r.log) - 1)
    BY <1>3
  <2>2. Whole(s, Len(s.log))
    BY <1>1, <1>2, <1>3, <1>6, <2>1 DEF Whole
  <2>3. s.iter =< MaxIterations[t] /\ s.end = "none"
    BY <1>1, <1>2, <1>5, <1>6
  <2>4. Sound(t, s)
    BY <1>1, <1>2, <1>3, <1>4, <1>6, <2>2, <2>3 DEF Sound
  <2>. QED
    BY <1>1, <2>4 DEF Onward, s
<1>7. CASE s.at = "review" /\ s.end \in {"limit", "guard"}
  <2>1. s.first =< Len(s.log)
    BY <1>1, <1>2, <1>3
  <2>2. Sound(t, s)
    BY <1>1, <1>2, <1>4, <1>7, <2>1, StoppedSound
  <2>. QED
    BY <1>1, <2>2 DEF Onward, s
<1>8. CASE /\ r.queue # {} /\ s.at = "call" /\ s.queue = r.queue /\ s.end = r.end
           /\ s.iter = r.iter
  <2>0. Whole(s, Len(s.log) - 1)
    BY <1>1, <1>2 DEF Whole
  <2>1. s.first =< Len(s.log)
    BY <1>1, <1>2, <1>3
  <2>2. Sound(t, s)
    BY <1>1, <1>2, <1>4, <1>8, <2>0, <2>1 DEF Sound
  <2>. QED
    BY <1>1, <2>2 DEF Onward, s
<1>. QED
  BY <1>1, <1>6, <1>7, <1>8

\* A batch from the model leaves a sound run.
LEMMA DispatchSound ==
  ASSUME NEW t \in Turns, NEW r \in Turn, r.at = "model", Sound(t, r), NEW cs \in Seq(Tools)
  PROVE  Onward(t, r, Dispatch(t, r, cs))
<1>. DEFINE x == Posed(r, cs)
            s == Dispatch(t, r, cs)
            b == [calls |-> cs, answered |-> <<>>]
<1>1. /\ x \in Turn /\ x.log = Append(r.log, b) /\ x.log # <<>> /\ x.queue = Serial(cs)
      /\ Last(x.log) = b /\ b \in Batch
      /\ Len(x.log) = Len(r.log) + 1 /\ Len(r.log) \in Nat
      /\ \A i \in 1..Len(r.log) : x.log[i] = r.log[i]
      /\ x.first = r.first /\ x.kept = r.kept /\ x.deep = r.deep
      /\ x.end = r.end /\ x.iter = r.iter
  BY PosedTurn
<1>2. /\ r.first =< Len(r.log) /\ Sane(r.log) /\ Sane(r.kept) /\ Whole(r, Len(r.log))
      /\ r.end = "none" /\ r.iter =< MaxIterations[t]
  BY DEF Sound, Running
<1>3. /\ b.calls = cs /\ b.answered = <<>> /\ Len(cs) \in Nat /\ DOMAIN cs = 1..Len(cs)
  OBVIOUS
<1>4. Fitting(b) /\ Open(b) = 1..Len(cs)
  BY <1>3 DEF Fitting, Open, Answered, Range
<1>. HIDE DEF b, x, s
<1>5. r.log \in Seq(Batch) /\ r.first \in Nat
  BY DEF Turn
<1>6. Sane(x.log)
  BY <1>1, <1>2, <1>4, <1>5, SaneAppend
<1>7. x.first < Len(x.log) /\ Whole(x, Len(x.log) - 1)
  <2>1. Len(x.log) - 1 = Len(r.log) /\ x.first < Len(x.log)
    BY <1>1, <1>2, <1>5
  <2>2. Whole(x, Len(r.log))
    BY <1>1, <1>2 DEF Whole
  <2>. QED
    BY <2>1, <2>2
<1>8. Serial(cs) \subseteq 1..Len(cs) /\ (Reads(cs) = <<>> => Serial(cs) = 1..Len(cs))
  BY ReadsOrSerial
<1>9. CASE Reads(cs) = <<>> /\ s = NextCall(t, x)
  <2>1. Midway(t, x)
    BY <1>1, <1>2, <1>3, <1>4, <1>6, <1>7, <1>8, <1>9 DEF Midway
  <2>2. Onward(t, x, NextCall(t, x))
    BY <1>1, <2>1, NextCallSound
  <2>. QED
    BY <1>1, <1>9, <2>2 DEF Onward, s
<1>10. CASE /\ Reads(cs) # <<>> /\ s \in Turn /\ s.log = x.log
            /\ s.first = r.first /\ s.kept \in {r.kept, s.log} /\ s.deep = r.deep
            /\ s.iter = r.iter
            /\ \/ s.at = "review" /\ s.end = "guard"
               \/ s.at = "tools" /\ s.queue = Serial(cs) /\ s.end = r.end
  <2>0. s.first < Len(s.log) /\ s.first \in Nat /\ Len(s.log) \in Nat
    BY <1>1, <1>5, <1>7, <1>10
  <2>1. Sane(s.log) /\ Sane(s.kept) /\ s.first =< Len(s.log) /\ s.first < Len(s.log)
    BY <1>2, <1>6, <1>10, <2>0
  <2>2. CASE s.at = "review" /\ s.end = "guard"
    <3>1. Sound(t, s)
      BY <1>10, <2>1, <2>2, StoppedSound
    <3>. QED
      BY <1>10, <3>1 DEF Onward, s
  <2>3. CASE s.at = "tools" /\ s.queue = Serial(cs) /\ s.end = r.end
    <3>1. Whole(s, Len(s.log) - 1)
      BY <1>1, <1>7, <1>10 DEF Whole
    <3>2. Last(s.log) = b
      BY <1>1, <1>10
    <3>3. Sound(t, s)
      BY <1>2, <1>3, <1>8, <1>10, <2>1, <2>3, <3>1, <3>2 DEF Sound
    <3>. QED
      BY <1>10, <3>3 DEF Onward, s
  <2>. QED
    BY <1>10, <2>2, <2>3
<1>11. \/ Reads(cs) = <<>> /\ s = NextCall(t, x)
       \/ /\ Reads(cs) # <<>> /\ s \in Turn /\ s.log = x.log
          /\ s.first = r.first /\ s.kept \in {r.kept, s.log} /\ s.deep = r.deep
          /\ s.iter = r.iter
          /\ \/ s.at = "review" /\ s.end = "guard"
             \/ s.at = "tools" /\ s.queue = Serial(cs) /\ s.end = r.end
  BY DispatchTurn DEF s, x
<1>. QED
  BY <1>9, <1>10, <1>11

\* A change of the last batch's results alone keeps the messages sane.
LEMMA AlikeSane ==
  ASSUME NEW r \in Turn, r.log # <<>>, Sane(r.log), Whole(r, Len(r.log) - 1),
         NEW s, Alike(r, s), Fitting(Last(s.log))
  PROVE  Sane(s.log) /\ Whole(s, Len(s.log) - 1)
<1>1. r.log \in Seq(Batch) /\ s.log \in Seq(Batch) /\ s.log # <<>>
  BY DEF Turn, Alike
<1>2. /\ Len(r.log) \in Nat \ {0} /\ Len(s.log) = Len(r.log) /\ Last(s.log) = s.log[Len(s.log)]
      /\ s.first = r.first
      /\ \A j \in 1..(Len(r.log) - 1) : s.log[j] = r.log[j]
  BY <1>1, LastBatch DEF Alike
<1>3. \A i \in 1..Len(r.log) : i = Len(r.log) \/ i \in 1..(Len(r.log) - 1)
  BY <1>2
<1>4. Sane(s.log)
  BY <1>2, <1>3 DEF Sane
<1>5. Whole(s, Len(s.log) - 1)
  BY <1>2 DEF Whole
<1>. QED
  BY <1>4, <1>5

\* What comes after the results of a batch that ran together.
LEMMA ToolsReturnSound ==
  ASSUME NEW t \in Turns, NEW r \in Turn, r.at = "tools", Sound(t, r),
         NEW outcome, DOMAIN outcome = DOMAIN Last(r.log).calls \ r.queue
  PROVE  LET s == Judged(r, outcome)
         IN  Onward(t, r, IF s.end = "guard" THEN s ELSE NextCall(t, s))
<1>. DEFINE s == Judged(r, outcome)
<1>1. /\ r.first < Len(r.log) /\ Sane(r.log) /\ Sane(r.kept) /\ Whole(r, Len(r.log) - 1)
      /\ r.queue \subseteq 1..Len(Last(r.log).calls)
      /\ Last(r.log).answered = <<>> /\ r.queue = Serial(Last(r.log).calls)
      /\ r.end = "none" /\ r.iter =< MaxIterations[t]
  BY DEF Sound, Running
<1>2. r.log \in Seq(Batch) /\ r.first \in Nat
  BY DEF Turn
<1>3. r.log # <<>>
  <2>1. Len(r.log) # 0
    BY <1>1, <1>2
  <2>. QED
    BY <2>1
<1>4. Len(r.log) \in Nat \ {0} /\ Last(r.log) = r.log[Len(r.log)]
  BY <1>2, <1>3, LastBatch
<1>5. Fitting(Last(r.log))
  BY <1>1, <1>4 DEF Sane
<1>6. /\ Alike(r, s) /\ Fitting(Last(s.log))
      /\ \/ s.end = "guard" /\ s.at = "review" /\ s.kept \in {r.kept, s.log}
         \/ /\ s.end = "none" /\ s.queue = r.queue /\ s.kept = r.kept
            /\ Open(Last(s.log)) = s.queue
  BY <1>1, <1>3, <1>5, JudgedAlike
<1>. HIDE DEF s
<1>7. Sane(s.log) /\ Whole(s, Len(s.log) - 1)
  BY <1>1, <1>3, <1>6, AlikeSane
<1>8. /\ s \in Turn /\ s.deep = r.deep /\ s.first < Len(s.log) /\ s.first =< Len(s.log)
      /\ s.log # <<>> /\ s.iter = r.iter /\ Last(s.log).calls = Last(r.log).calls
  BY <1>1, <1>2, <1>4, <1>6 DEF Alike
<1>9. CASE s.end = "guard"
  <2>1. Sound(t, s)
    BY <1>1, <1>6, <1>7, <1>8, <1>9, StoppedSound
  <2>. QED
    BY <1>8, <1>9, <2>1 DEF Onward, s
<1>10. CASE s.end # "guard"
  <2>1. Midway(t, s)
    BY <1>1, <1>6, <1>7, <1>8, <1>10 DEF Midway
  <2>2. Onward(t, s, NextCall(t, s))
    BY <1>8, <2>1, NextCallSound
  <2>. QED
    BY <1>8, <1>10, <2>2 DEF Onward, s
<1>. QED
  BY <1>9, <1>10

\* The serial call of a batch that is under way is no longer queued when its
\* result is recorded.
Taken(r) == [r EXCEPT !.queue = @ \ {Min(r.queue)}]

\* Taking a call from the queue changes the queue alone.
LEMMA TakenTurn ==
  ASSUME NEW r \in Turn
  PROVE  /\ Taken(r) \in Turn /\ Taken(r).queue = r.queue \ {Min(r.queue)}
         /\ Taken(r).log = r.log /\ Taken(r).kept = r.kept /\ Taken(r).first = r.first
         /\ Taken(r).end = r.end /\ Taken(r).at = r.at /\ Taken(r).iter = r.iter
         /\ Taken(r).deep = r.deep /\ Taken(r).recent = r.recent /\ Taken(r).count = r.count
         /\ Taken(r).need = r.need /\ Taken(r).asked = r.asked /\ Taken(r).tries = r.tries
BY DEF Taken, Turn

\* What comes after the result of a call that ran by itself.
LEMMA ToolReturnsSound ==
  ASSUME NEW t \in Turns, NEW r \in Turn, r.at = "call", Sound(t, r), NEW outcome
  PROVE  LET s == Record(Taken(r), Min(r.queue), outcome)
         IN  Onward(t, r, IF s.end = "guard" THEN s ELSE NextCall(t, s))
<1>. DEFINE x == Taken(r)
            i == Min(r.queue)
            s == Record(x, i, outcome)
<1>1. /\ r.first < Len(r.log) /\ Sane(r.log) /\ Sane(r.kept) /\ Whole(r, Len(r.log) - 1)
      /\ r.queue \subseteq 1..Len(Last(r.log).calls)
      /\ r.queue # {} /\ Open(Last(r.log)) = r.queue
      /\ r.end = "none" /\ r.iter =< MaxIterations[t]
  BY DEF Sound, Running
<1>2. r.log \in Seq(Batch) /\ r.first \in Nat
  BY DEF Turn
<1>3. r.log # <<>>
  <2>1. Len(r.log) # 0
    BY <1>1, <1>2
  <2>. QED
    BY <2>1
<1>4. Len(r.log) \in Nat \ {0} /\ Last(r.log) = r.log[Len(r.log)]
  BY <1>2, <1>3, LastBatch
<1>5. Fitting(Last(r.log))
  BY <1>1, <1>4 DEF Sane
<1>6. i \in r.queue
  BY <1>1, <1>3, UpcomingCall
<1>7. /\ x \in Turn /\ x.queue = r.queue \ {i} /\ x.log = r.log /\ x.kept = r.kept
      /\ x.first = r.first /\ x.end = r.end /\ x.iter = r.iter /\ x.deep = r.deep
  BY TakenTurn
<1>. HIDE DEF x, i
<1>8. /\ Alike(x, s) /\ Fitting(Last(s.log))
      /\ Answered(Last(s.log)) = Answered(Last(x.log)) \cup {i}
      /\ \/ s.end = "guard" /\ s.at = "review" /\ s.kept \in {x.kept, s.log}
         \/ s.end = x.end /\ s.queue = x.queue /\ s.kept = x.kept
  <2>1. i \in 1..Len(Last(x.log).calls) /\ x.end # "guard" /\ x.log # <<>>
        /\ Fitting(Last(x.log))
    BY <1>1, <1>3, <1>5, <1>6, <1>7
  <2>. QED
    BY <1>7, <2>1, RecordAlike, ZenonT(60)
<1>. HIDE DEF s
<1>9. Sane(s.log) /\ Whole(s, Len(s.log) - 1)
  <2>1. Whole(x, Len(x.log) - 1) /\ Sane(x.log) /\ x.log # <<>>
    BY <1>1, <1>3, <1>7 DEF Whole
  <2>. QED
    BY <1>7, <1>8, <2>1, AlikeSane
<1>10. /\ s \in Turn /\ s.deep = r.deep /\ s.first < Len(s.log) /\ s.first =< Len(s.log)
       /\ s.log # <<>> /\ s.iter = r.iter /\ Last(s.log).calls = Last(r.log).calls
  BY <1>1, <1>2, <1>4, <1>7, <1>8 DEF Alike
<1>11. CASE s.end = "guard"
  <2>1. s.at = "review" /\ s.kept \in {r.kept, s.log}
    BY <1>1, <1>7, <1>8, <1>11
  <2>2. Sound(t, s)
    BY <1>1, <1>9, <1>10, <1>11, <2>1, StoppedSound
  <2>. QED
    BY <1>10, <1>11, <2>2 DEF Onward, s, x, i
<1>12. CASE s.end # "guard"
  <2>1. s.end = "none" /\ s.queue = r.queue \ {i} /\ s.kept = r.kept
    BY <1>1, <1>7, <1>8, <1>12
  <2>2. Open(Last(s.log)) = Open(Last(r.log)) \ {i}
    BY <1>7, <1>8, <1>10 DEF Open
  <2>3. Midway(t, s)
    BY <1>1, <1>9, <1>10, <2>1, <2>2 DEF Midway
  <2>4. Onward(t, s, NextCall(t, s))
    BY <1>10, <2>3, NextCallSound
  <2>. QED
    BY <1>10, <1>12, <2>4 DEF Onward, s, x, i
<1>. QED
  BY <1>11, <1>12

\* An answer ends a run whose batches are all answered.
LEMMA AnswerSound ==
  ASSUME NEW t \in Turns, NEW r \in Turn, r.at = "model", Sound(t, r)
  PROVE  Onward(t, r, Return(r, "answer"))
<1>. DEFINE s == Return(r, "answer")
<1>1. /\ s \in Turn /\ s.at = "review" /\ s.end = "answer"
      /\ s.deep = r.deep /\ s.log = r.log /\ s.first = r.first /\ s.need = r.need
      /\ s.iter = r.iter /\ s.asked = r.asked /\ s.kept = r.log
  BY ReturnTurn DEF Hows
<1>. HIDE DEF s
<1>2. /\ r.first =< Len(r.log) /\ Sane(r.log) /\ r.iter =< MaxIterations[t]
  BY DEF Sound, Running
<1>3. Sound(t, s)
  BY <1>1, <1>2 DEF Sound, Running
<1>. QED
  BY <1>1, <1>3 DEF Onward, s

\* A run whose model fails is sound.
LEMMA FailedSound ==
  ASSUME NEW t \in Turns, NEW r \in Turn, r.at = "model", Sound(t, r)
  PROVE  Onward(t, r, Ended(r, "error"))
<1>. DEFINE s == Ended(r, "error")
<1>1. /\ s \in Turn /\ s.at = "review" /\ s.end = "error"
      /\ s.deep = r.deep /\ s.log = r.log /\ s.first = r.first /\ s.kept = r.kept
  BY EndedTurn DEF Hows
<1>. HIDE DEF s
<1>2. Sound(t, s)
  BY <1>1, StoppedSound DEF Sound
<1>. QED
  BY <1>1, <1>2 DEF Onward, s

\* A run that was asked for evidence is sound.
LEMMA AskedSound ==
  ASSUME NEW t \in Turns, NEW r \in Turn, r.at = "model", Sound(t, r)
  PROVE  Onward(t, r, Iterate(t, [r EXCEPT !.asked = TRUE]))
<1>. DEFINE x == [r EXCEPT !.asked = TRUE]
<1>1. /\ x \in Turn /\ x.log = r.log /\ x.first = r.first /\ x.kept = r.kept
      /\ x.end = r.end /\ x.deep = r.deep /\ x.iter = r.iter
  BY DEF Turn
<1>. HIDE DEF x
<1>2. /\ r.first =< Len(r.log) /\ Sane(r.log) /\ Sane(r.kept) /\ Whole(r, Len(r.log))
      /\ r.end = "none"
  BY DEF Sound, Running
<1>3. Whole(x, Len(x.log))
  BY <1>1, <1>2 DEF Whole
<1>4. Onward(t, x, Iterate(t, x))
  BY <1>1, <1>2, <1>3, IterateSound
<1>. QED
  BY <1>1, <1>4 DEF Onward, x

\* A run that is started from sane messages is sound.
LEMMA StartedSound ==
  ASSUME NEW t \in Turns, NEW r \in Turn, Sane(r.kept), NEW log \in Seq(Batch), Sane(log),
         NEW need \in Needs
  PROVE  /\ Started(t, r, log, need) \in Turn /\ Sound(t, Started(t, r, log, need))
         /\ Started(t, r, log, need).at \in Running /\ ~ Started(t, r, log, need).deep
<1>. DEFINE s == Started(t, r, log, need)
<1>1. /\ s \in Turn /\ s.log = log /\ s.first = Len(log) /\ s.kept = r.kept
      /\ s.at = "model" /\ s.end = "none" /\ s.deep = FALSE /\ s.iter =< MaxIterations[t]
  <2>1. LET x == Started(t, r, log, need)
        IN  /\ x \in Turn /\ x.log = log /\ x.first = Len(log) /\ x.kept = r.kept
            /\ x.at = "model" /\ x.end = "none" /\ x.recent = <<>> /\ x.deep = FALSE
            /\ x.iter =< MaxIterations[t]
    BY StartedTurn
  <2>. QED
    BY <2>1
<1>. HIDE DEF s
<1>2. Len(log) \in Nat
  OBVIOUS
<1>3. Whole(s, Len(s.log)) /\ s.first =< Len(s.log)
  BY <1>1, <1>2 DEF Whole
<1>4. Sound(t, s)
  BY <1>1, <1>3 DEF Sound
<1>. QED
  BY <1>1, <1>4 DEF Running, s

\* What is stored of sane messages is a paired history.
LEMMA SavedSound ==
  ASSUME NEW t \in Turns, NEW r \in Turn, Sane(r.kept)
  PROVE  /\ Saved(r) \in Turn /\ Sound(t, Saved(r))
         /\ Saved(r).at = "stored" /\ ~ Saved(r).deep /\ Saved(r).log = <<>>
<1>. DEFINE s == Saved(r)
            stored == IF r.returned THEN Repair(r.kept) ELSE <<>>
<1>1. r.kept \in Seq(Batch) /\ r.returned \in BOOLEAN
  BY DEF Turn
<1>2. Repair(r.kept) \in Seq(Paired) /\ Ran(Repair(r.kept)) = Ran(r.kept)
  BY <1>1, RepairedHistory
<1>3. stored \in Seq(Paired)
  <2>1. <<>> \in Seq(Paired)
    OBVIOUS
  <2>. QED
    BY <1>2, <2>1
<1>4. stored \in Seq(Batch) /\ \A i \in DOMAIN stored : Open(stored[i]) = {}
  <2>. HIDE DEF stored
  <2>. QED
    BY <1>3 DEF Paired
<1>5. r.returned => Ran(stored) = Ran(r.kept)
  BY <1>2
<1>6. s = [Fresh EXCEPT !.at = "stored", !.kept = r.kept, !.returned = r.returned,
                        !.stored = stored]
  BY DEF Saved
<1>. HIDE DEF s, stored
<1>7. /\ s \in Turn /\ s.at = "stored" /\ s.kept = r.kept /\ s.returned = r.returned
      /\ s.stored = stored /\ s.log = <<>> /\ s.first = 0 /\ s.deep = FALSE
  BY <1>1, <1>4, <1>6, FreshTurn DEF Turn
<1>8. Len(<<>>) = 0
  OBVIOUS
<1>9. Sane(s.log) /\ s.first =< Len(s.log)
  BY <1>7, <1>8 DEF Sane
<1>10. History(s)
  BY <1>4, <1>5, <1>7 DEF History
<1>11. Sound(t, s)
  BY <1>7, <1>9, <1>10 DEF Sound, Running
<1>. QED
  BY <1>7, <1>11 DEF s

-----------------------------------------------------------------------------
(***************************************************************************)
(* The invariant of the loop.                                              *)
(***************************************************************************)
LoopInv == LoopTypeOK /\ (\A t \in Turns : Sound(t, turn[t])) /\ FocusOwned

\* A step of one turn keeps the invariant if what it makes of that turn is sound.
LEMMA StepInv ==
  ASSUME LoopInv, NEW t \in Turns, NEW s \in Turn, Sound(t, s), Step(t, s),
         turn[t].at \in Running /\ turn[t].deep /\ s.at \in Running => s.deep
  PROVE  LoopInv'
<1>1. /\ turn' = [turn EXCEPT ![t] = s] /\ focus' = FocusAfter(turn[t], s)
      /\ turn \in [Turns -> Turn] /\ focus \in BOOLEAN
  BY DEF LoopInv, LoopTypeOK, Step
<1>2. turn'[t] = s /\ \A u \in Turns : u # t => turn'[u] = turn[u]
  BY <1>1
<1>3. s.deep \in BOOLEAN /\ turn[t].deep \in BOOLEAN
  BY <1>1 DEF Turn
<1>4. LoopTypeOK'
  BY <1>1, <1>3 DEF LoopTypeOK, FocusAfter
<1>5. (\A u \in Turns : Sound(u, turn[u]))'
  BY <1>2 DEF LoopInv
<1>6. FocusOwned'
  <2>1. SUFFICES ASSUME focus' PROVE \E u \in Turns : turn'[u].deep /\ turn'[u].at \in Running
    BY DEF FocusOwned
  <2>2. CASE focus
    <3>1. PICK u \in Turns : turn[u].deep /\ turn[u].at \in Running
      BY <2>2 DEF LoopInv, FocusOwned
    <3>2. CASE u # t
      BY <1>2, <3>1, <3>2
    <3>3. CASE u = t
      <4>1. s.at \in Running
        BY <1>1, <2>1, <3>1, <3>3 DEF FocusAfter
      <4>2. s.deep
        BY <3>1, <3>3, <4>1
      <4>. QED
        BY <1>2, <4>1, <4>2
    <3>. QED
      BY <3>2, <3>3
  <2>3. CASE ~ focus
    <3>1. s.at \in Running /\ s.deep
      BY <1>1, <2>1, <2>3 DEF FocusAfter
    <3>. QED
      BY <1>2, <3>1
  <2>. QED
    BY <2>2, <2>3
<1>. QED
  BY <1>4, <1>5, <1>6 DEF LoopInv

\* A step onward keeps the invariant.
LEMMA OnwardInv ==
  ASSUME LoopInv, NEW t \in Turns, NEW s, Onward(t, turn[t], s), Step(t, s)
  PROVE  LoopInv'
BY StepInv DEF Onward

\* The invariant holds in the beginning.
LEMMA LoopInvInit ==
  LoopInit => LoopInv
<1>. SUFFICES ASSUME LoopInit PROVE LoopInv
  OBVIOUS
<1>1. /\ Fresh \in Turn /\ Fresh.at = "idle" /\ Fresh.log = <<>> /\ Fresh.kept = <<>>
      /\ Fresh.first = 0
  BY FreshTurn
<1>2. turn = [t \in Turns |-> Fresh] /\ focus = FALSE
  BY DEF LoopInit
<1>3. Len(<<>>) = 0
  OBVIOUS
<1>4. \A t \in Turns : Sound(t, Fresh)
  BY <1>1, <1>3 DEF Sound, Running, Sane
<1>. HIDE DEF Fresh
<1>. QED
  BY <1>1, <1>2, <1>4 DEF LoopInv, LoopTypeOK, FocusOwned

\* A turn begins.
LEMMA BeginInv ==
  ASSUME LoopInv, NEW t \in Turns, Begin(t)
  PROVE  LoopInv'
<1>. DEFINE r == turn[t]
            empty == <<>>
<1>1. r \in Turn /\ r.at = "idle" /\ Sane(r.kept)
  BY DEF LoopInv, LoopTypeOK, Begin, Sound
<1>2. PICK need \in Needs : Step(t, Started(t, r, empty, need))
  BY DEF Begin
<1>3. empty \in Seq(Batch) /\ Sane(empty)
  <2>1. Len(<<>>) = 0
    OBVIOUS
  <2>. QED
    BY <2>1 DEF Sane
<1>4. r.at \notin Running
  BY <1>1 DEF Running
<1>. HIDE DEF r, empty
<1>. DEFINE s == Started(t, r, empty, need)
<1>5. s \in Turn /\ Sound(t, s)
  BY <1>1, <1>3, StartedSound
<1>. HIDE DEF s
<1>. QED
  BY <1>2, <1>4, <1>5, StepInv DEF r, s

\* The model calls tools.
LEMMA ModelCallsToolsInv ==
  ASSUME LoopInv, NEW t \in Turns, ModelCallsTools(t)
  PROVE  LoopInv'
<1>1. turn[t] \in Turn /\ turn[t].at = "model" /\ Sound(t, turn[t])
  BY DEF LoopInv, LoopTypeOK, ModelCallsTools
<1>2. PICK cs \in UNION {[1..n -> Tools] : n \in 1..MaxBatch[t]} :
        Step(t, Dispatch(t, turn[t], cs))
  BY DEF ModelCallsTools
<1>3. cs \in Seq(Tools)
  <2>1. MaxBatch[t] \in Nat
    BY LoopAssumption DEF LoopAssumption
  <2>. QED
    BY <2>1
<1>. QED
  BY <1>1, <1>2, <1>3, DispatchSound, OnwardInv

\* An answer without evidence is sent back.
LEMMA AskForEvidenceInv ==
  ASSUME LoopInv, NEW t \in Turns, AskForEvidence(t)
  PROVE  LoopInv'
<1>1. turn[t] \in Turn /\ turn[t].at = "model" /\ Sound(t, turn[t])
  BY DEF LoopInv, LoopTypeOK, AskForEvidence
<1>. QED
  BY <1>1, AskedSound, OnwardInv DEF AskForEvidence

\* The loop looks for evidence itself.
LEMMA RouteEvidenceInv ==
  ASSUME LoopInv, NEW t \in Turns, RouteEvidence(t)
  PROVE  LoopInv'
<1>1. turn[t] \in Turn /\ turn[t].at = "model" /\ Sound(t, turn[t])
  BY DEF LoopInv, LoopTypeOK, RouteEvidence
<1>2. <<Search>> \in Seq(Tools)
  BY LoopAssumption DEF LoopAssumption
<1>. QED
  BY <1>1, <1>2, DispatchSound, OnwardInv DEF RouteEvidence

\* The model answers.
LEMMA AnswerInv ==
  ASSUME LoopInv, NEW t \in Turns, Answer(t)
  PROVE  LoopInv'
<1>1. turn[t] \in Turn /\ turn[t].at = "model" /\ Sound(t, turn[t])
  BY DEF LoopInv, LoopTypeOK, Answer
<1>. QED
  BY <1>1, AnswerSound, OnwardInv DEF Answer

\* The model fails.
LEMMA ModelFailsInv ==
  ASSUME LoopInv, NEW t \in Turns, ModelFails(t)
  PROVE  LoopInv'
<1>1. turn[t] \in Turn /\ turn[t].at = "model" /\ Sound(t, turn[t])
  BY DEF LoopInv, LoopTypeOK, ModelFails
<1>2. CASE Step(t, Ended(turn[t], "error"))
  BY <1>1, <1>2, FailedSound, OnwardInv
<1>3. CASE Step(t, Saved(turn[t]))
  <2>1. Sane(turn[t].kept)
    BY <1>1 DEF Sound
  <2>2. /\ Saved(turn[t]) \in Turn /\ Sound(t, Saved(turn[t]))
        /\ Saved(turn[t]).at \notin Running
    BY <1>1, <2>1, SavedSound DEF Running
  <2>. QED
    BY <1>3, <2>2, StepInv
<1>. QED
  BY <1>2, <1>3 DEF ModelFails

\* The parallel calls return.
LEMMA ToolsReturnInv ==
  ASSUME LoopInv, NEW t \in Turns, ToolsReturn(t)
  PROVE  LoopInv'
<1>1. turn[t] \in Turn /\ turn[t].at = "tools" /\ Sound(t, turn[t])
  BY DEF LoopInv, LoopTypeOK, ToolsReturn
<1>2. PICK outcome :
        /\ DOMAIN outcome = DOMAIN Last(turn[t].log).calls \ turn[t].queue
        /\ LET s == Judged(turn[t], outcome)
           IN  Step(t, IF s.end = "guard" THEN s ELSE NextCall(t, s))
  BY DEF ToolsReturn
<1>. QED
  BY <1>1, <1>2, ToolsReturnSound, OnwardInv

\* A serial call returns.
LEMMA ToolReturnsInv ==
  ASSUME LoopInv, NEW t \in Turns, ToolReturns(t)
  PROVE  LoopInv'
<1>1. turn[t] \in Turn /\ turn[t].at = "call" /\ Sound(t, turn[t])
  BY DEF LoopInv, LoopTypeOK, ToolReturns
<1>2. PICK outcome :
        LET s == Record(Taken(turn[t]), Min(turn[t].queue), outcome)
        IN  Step(t, IF s.end = "guard" THEN s ELSE NextCall(t, s))
  BY DEF ToolReturns, Taken
<1>. QED
  BY <1>1, <1>2, ToolReturnsSound, OnwardInv

\* A turn runs again for evidence.
LEMMA RetryForEvidenceInv ==
  ASSUME LoopInv, NEW t \in Turns, RetryForEvidence(t)
  PROVE  LoopInv'
<1>. DEFINE r == [turn[t] EXCEPT !.tries = @ + 1]
            log == IF r.returned THEN r.kept ELSE r.log
<1>1. turn[t] \in Turn /\ turn[t].at = "review" /\ Sound(t, turn[t])
  BY DEF LoopInv, LoopTypeOK, RetryForEvidence
<1>2. PICK need \in Needs : Step(t, Started(t, r, log, need))
  BY DEF RetryForEvidence
<1>3. r \in Turn /\ r.kept = turn[t].kept /\ r.log = turn[t].log
  <2>. DEFINE x == turn[t]
              n == x.tries + 1
  <2>1. n \in Nat /\ x \in Turn
    BY <1>1 DEF Turn
  <2>2. r = [x EXCEPT !.tries = n]
    OBVIOUS
  <2>. HIDE DEF x, n, r
  <2>3. r \in Turn /\ r.kept = x.kept /\ r.log = x.log
    BY <2>1, <2>2 DEF Turn
  <2>. QED
    BY <2>3 DEF x
<1>4. Sane(turn[t].kept) /\ Sane(turn[t].log)
  BY <1>1 DEF Sound
<1>5. log \in Seq(Batch) /\ Sane(log) /\ Sane(r.kept)
  <2>. HIDE DEF r
  <2>1. r.kept \in Seq(Batch) /\ r.log \in Seq(Batch)
    BY <1>3 DEF Turn
  <2>. QED
    BY <1>3, <1>4, <2>1
<1>6. turn[t].at \notin Running
  BY <1>1 DEF Running
<1>. HIDE DEF r, log
<1>. DEFINE s == Started(t, r, log, need)
<1>7. s \in Turn /\ Sound(t, s)
  BY <1>3, <1>5, StartedSound
<1>. HIDE DEF s
<1>. QED
  BY <1>2, <1>6, <1>7, StepInv DEF s

\* A turn stores its history.
LEMMA StoreInv ==
  ASSUME LoopInv, NEW t \in Turns, Store(t)
  PROVE  LoopInv'
<1>1. turn[t] \in Turn /\ turn[t].at = "review" /\ Sound(t, turn[t]) /\ turn \in [Turns -> Turn]
      /\ focus \in BOOLEAN
  BY DEF LoopInv, LoopTypeOK, Store
<1>2. Saved(turn[t]) \in Turn /\ Sound(t, Saved(turn[t]))
  <2>1. Sane(turn[t].kept)
    BY <1>1 DEF Sound
  <2>. QED
    BY <1>1, <2>1, SavedSound
<1>3. turn' = [turn EXCEPT ![t] = Saved(turn[t])] /\ focus' = focus
  BY DEF Store
<1>4. \A u \in Turns : turn'[u] = IF u = t THEN Saved(turn[t]) ELSE turn[u]
  BY <1>1, <1>3
<1>5. LoopTypeOK'
  BY <1>1, <1>2, <1>3 DEF LoopTypeOK
<1>6. (\A u \in Turns : Sound(u, turn[u]))'
  BY <1>2, <1>4 DEF LoopInv
<1>7. FocusOwned'
  <2>1. turn[t].at \notin Running
    BY <1>1 DEF Running
  <2>. QED
    BY <1>3, <1>4, <2>1 DEF LoopInv, FocusOwned
<1>. QED
  BY <1>5, <1>6, <1>7 DEF LoopInv

\* Focus mode expires.
LEMMA FocusExpiresInv ==
  ASSUME LoopInv, FocusExpires
  PROVE  LoopInv'
BY DEF LoopInv, LoopTypeOK, FocusOwned, FocusExpires

\* Every step keeps the invariant.
LEMMA LoopStepInv ==
  LoopInv /\ [LoopNext]_loopVars => LoopInv'
<1>. SUFFICES ASSUME LoopInv, [LoopNext]_loopVars PROVE LoopInv'
  OBVIOUS
<1>1. CASE FocusExpires
  BY <1>1, FocusExpiresInv
<1>2. CASE UNCHANGED loopVars
  BY <1>2 DEF loopVars, LoopInv, LoopTypeOK, FocusOwned
<1>3. ASSUME NEW t \in Turns, Begin(t) \/ Work(t)
      PROVE  LoopInv'
  BY <1>3, BeginInv, ModelCallsToolsInv, AskForEvidenceInv, RouteEvidenceInv, AnswerInv,
     ModelFailsInv, ToolsReturnInv, ToolReturnsInv, RetryForEvidenceInv, StoreInv DEF Work
<1>. QED
  BY <1>1, <1>2, <1>3 DEF LoopNext

\* Every turn is sound at all times, whatever the turns beside it do.
THEOREM LoopInvariant == LoopSpec => []LoopInv
BY LoopInvInit, LoopStepInv, PTL DEF LoopSpec

\* The state of every turn has its type.
THEOREM LoopTypesCorrect == LoopSpec => []LoopTypeOK
<1>1. LoopInv => LoopTypeOK
  BY DEF LoopInv
<1>. QED
  BY <1>1, LoopInvariant, PTL

\* A sound turn that asks the model has no call of its own open.
LEMMA CallsFollow == LoopInv => OwnCallsAnswered
<1>1. SUFFICES ASSUME LoopInv, NEW t \in Turns, turn[t].at = "model"
               PROVE  \A i \in DOMAIN turn[t].log : i > turn[t].first => Open(turn[t].log[i]) = {}
  BY DEF OwnCallsAnswered
<1>2. turn[t].log \in Seq(Batch) /\ Whole(turn[t], Len(turn[t].log))
  BY <1>1 DEF LoopInv, LoopTypeOK, Sound, Turn
<1>. DEFINE r == turn[t]
<1>. HIDE DEF r
<1>3. DOMAIN r.log = 1..Len(r.log)
  BY <1>2 DEF r
<1>. QED
  BY <1>2, <1>3 DEF Whole, r

\* Whenever a run asks the model, every call it made itself has its result,
\* however the batches mix the calls that run together and one by one.
THEOREM CallsAnswered == LoopSpec => []OwnCallsAnswered
<1>. QED
  BY CallsFollow, LoopInvariant, PTL

\* What a turn leaves behind has a result for every call and every result that
\* came in, wherever a guard, a limit or an error ended its runs.
THEOREM HistoryStaysPaired == LoopSpec => []HistoryPaired
<1>1. LoopInv => HistoryPaired
  BY DEF LoopInv, Sound, History, HistoryPaired
<1>. QED
  BY <1>1, LoopInvariant, PTL

\* Focus mode is on only while a deep run is in progress, whatever the turns
\* that share it do.
THEOREM FocusAlwaysOwned == LoopSpec => []FocusOwned
<1>1. LoopInv => FocusOwned
  BY DEF LoopInv
<1>. QED
  BY <1>1, LoopInvariant, PTL

-----------------------------------------------------------------------------
(***************************************************************************)
(* The guard against runaways.  It sees the last calls of a run, and what  *)
(* it has seen of them together with the calls it is asked about is enough *)
(* to tell whether the run would do the same thing Window times in a row.  *)
(***************************************************************************)
\* Nowhere in s is a call made Window times in a row.
Varied(s) == \A i \in 1..(Len(s) + 1 - Window) : ~ AllAlike(SubSeq(s, i, i + Window - 1))

Repeats(s, i) == \A j, k \in i..(i + Window - 1) : s[j] = s[k]

\* The guard's window is a positive number.
LEMMA WindowNat == Window \in Nat \ {0}
BY LoopAssumption DEF LoopAssumption

\* Varied, said of positions.
LEMMA VariedCalls ==
  ASSUME NEW s \in Seq(Tools)
  PROVE  Varied(s) <=> \A i \in 1..(Len(s) + 1 - Window) : ~ Repeats(s, i)
<1>1. Window \in Nat \ {0} /\ Len(s) \in Nat
  BY WindowNat
<1>2. ASSUME NEW i \in 1..(Len(s) + 1 - Window)
      PROVE  AllAlike(SubSeq(s, i, i + Window - 1)) <=> Repeats(s, i)
  <2>. DEFINE m == i + Window - 1
              u == SubSeq(s, i, m)
  <2>1. i \in Int /\ m \in Int /\ i =< m /\ m - i + 1 = Window
    BY <1>1
  <2>2. \A k \in i..m : s[k] \in Tools
    BY <1>1
  <2>3. u \in Seq(Tools) /\ Len(u) = Window /\ \A k \in 1..Window : u[k] = s[i + k - 1]
    <3>. HIDE DEF m
    <3>. QED
      BY <2>1, <2>2, SubSeqProperties
  <2>4. DOMAIN u = 1..Window
    BY <2>3
  <2>. HIDE DEF u
  <2>5. AllAlike(u) <=> \A j, k \in 1..Window : u[j] = u[k]
    <3>1. Len(u) >= Window
      BY <1>1, <2>3
    <3>. QED
      BY <2>4, <3>1, Zenon DEF AllAlike
  <2>6. ASSUME Repeats(s, i)
        PROVE  \A j, k \in 1..Window : u[j] = u[k]
    <3>1. SUFFICES ASSUME NEW j \in 1..Window, NEW k \in 1..Window
                   PROVE  u[j] = u[k]
      OBVIOUS
    <3>2. i + j - 1 \in i..m /\ i + k - 1 \in i..m
      BY <1>1
    <3>3. u[j] = s[i + j - 1] /\ u[k] = s[i + k - 1]
      BY <2>3
    <3>4. s[i + j - 1] = s[i + k - 1]
      BY <2>6, <3>2 DEF Repeats
    <3>. QED
      BY <3>3, <3>4
  <2>7. ASSUME \A j, k \in 1..Window : u[j] = u[k]
        PROVE  Repeats(s, i)
    <3>1. SUFFICES ASSUME NEW j \in i..m, NEW k \in i..m
                   PROVE  s[j] = s[k]
      BY DEF Repeats
    <3>2. /\ j - i + 1 \in 1..Window /\ k - i + 1 \in 1..Window
          /\ i + (j - i + 1) - 1 = j /\ i + (k - i + 1) - 1 = k
      BY <1>1
    <3>3. u[j - i + 1] = s[j] /\ u[k - i + 1] = s[k]
      BY <2>3, <3>2
    <3>. QED
      BY <2>7, <3>2, <3>3
  <2>. QED
    BY <2>5, <2>6, <2>7 DEF u
<1>. QED
  BY <1>2 DEF Varied

\* The latest calls are the end of a sequence, a window long at most.
LEMMA LatestOf ==
  ASSUME NEW s \in Seq(Tools)
  PROVE  /\ Latest(s) \in Seq(Tools)
         /\ Len(Latest(s)) = IF Len(s) > Window THEN Window ELSE Len(s)
         /\ \A k \in 1..Len(Latest(s)) : Latest(s)[k] = s[Len(s) - Len(Latest(s)) + k]
<1>. DEFINE m == IF Len(s) > Window THEN Len(s) - Window + 1 ELSE 1
            n == Len(s)
<1>1. Window \in Nat \ {0} /\ n \in Nat
  BY WindowNat
<1>2. m \in Nat \ {0} /\ n \in Int /\ m =< n + 1
      /\ n - m + 1 = IF n > Window THEN Window ELSE n
  BY <1>1
<1>3. \A k \in m..n : s[k] \in Tools
  BY <1>1, <1>2
<1>4. Latest(s) = SubSeq(s, m, n)
  BY DEF Latest
<1>. HIDE DEF m, n
<1>. DEFINE u == SubSeq(s, m, n)
<1>5. /\ u \in Seq(Tools) /\ Len(u) = (IF m =< n THEN n - m + 1 ELSE 0)
      /\ \A k \in 1..(n - m + 1) : u[k] = s[m + k - 1]
  <2>1. m \in Int
    BY <1>2
  <2>. QED
    BY <1>2, <1>3, <2>1, SubSeqProperties
<1>. HIDE DEF u
<1>6. Len(u) = n - m + 1
  BY <1>1, <1>2, <1>5
<1>7. \A k \in 1..Len(u) : u[k] = s[n - Len(u) + k]
  <2>1. \A k \in 1..Len(u) : m + k - 1 = n - Len(u) + k
    BY <1>1, <1>2, <1>6
  <2>. QED
    BY <1>5, <1>6, <2>1
<1>. QED
  BY <1>2, <1>4, <1>5, <1>6, <1>7 DEF n, u

\* The last calls are alike: a call was made Window times up to the end.
LEMMA LatestAlike ==
  ASSUME NEW s \in Seq(Tools), Len(s) >= Window, Repeats(s, Len(s) - Window + 1)
  PROVE  AllAlike(Latest(s))
<1>1. Window \in Nat \ {0} /\ Len(s) \in Nat
  BY WindowNat
<1>. DEFINE u == Latest(s)
<1>2. u \in Seq(Tools) /\ Len(u) = Window
      /\ \A k \in 1..Window : u[k] = s[Len(s) - Window + k]
  <2>1. Len(u) = Window
    BY <1>1, LatestOf
  <2>. QED
    BY <2>1, LatestOf
<1>. HIDE DEF u
<1>3. \A k \in 1..Window :
        Len(s) - Window + k \in (Len(s) - Window + 1)..(Len(s) - Window + 1 + Window - 1)
  BY <1>1
<1>4. ASSUME NEW j \in 1..Window, NEW k \in 1..Window
      PROVE  u[j] = u[k]
  <2>1. s[Len(s) - Window + j] = s[Len(s) - Window + k]
    BY <1>3 DEF Repeats
  <2>. QED
    BY <1>2, <2>1
<1>5. DOMAIN u = 1..Window
  BY <1>2
<1>. QED
  BY <1>1, <1>2, <1>4, <1>5 DEF AllAlike, u

\* What the guard remembers is enough to know the last calls later on.
LEMMA LatestLatest ==
  ASSUME NEW s \in Seq(Tools), NEW u \in Seq(Tools)
  PROVE  Latest(Latest(s) \o u) = Latest(s \o u)
<1>. DEFINE x == Latest(s)
            n == Len(s)
            m == Len(x)
            l == Len(u)
            y == x \o u
            z == s \o u
<1>1. Window \in Nat \ {0} /\ n \in Nat /\ l \in Nat
  BY WindowNat
<1>2. x \in Seq(Tools) /\ m = (IF n > Window THEN Window ELSE n)
      /\ \A k \in 1..m : x[k] = s[n - m + k]
  BY LatestOf
<1>. HIDE DEF x
<1>3. /\ y \in Seq(Tools) /\ Len(y) = m + l
      /\ \A i \in 1..(m + l) : y[i] = IF i =< m THEN x[i] ELSE u[i - m]
  BY <1>2, ConcatProperties
<1>4. /\ z \in Seq(Tools) /\ Len(z) = n + l
      /\ \A i \in 1..(n + l) : z[i] = IF i =< n THEN s[i] ELSE u[i - n]
  BY ConcatProperties
<1>. HIDE DEF n, m, l, y, z
<1>5. m \in Nat /\ m =< n
  BY <1>1, <1>2
<1>6. ASSUME NEW i \in 1..(m + l)
      PROVE  y[i] = z[n - m + i]
  <2>1. n - m + i \in 1..(n + l)
    BY <1>1, <1>5
  <2>2. CASE i =< m
    <3>1. i \in 1..m /\ n - m + i =< n
      BY <1>1, <1>5, <2>2
    <3>. QED
      BY <1>2, <1>3, <1>4, <2>1, <2>2, <3>1
  <2>3. CASE ~ (i =< m)
    <3>1. ~ (n - m + i =< n) /\ (n - m + i) - n = i - m
      BY <1>1, <1>5, <2>3
    <3>. QED
      BY <1>3, <1>4, <2>1, <2>3, <3>1
  <2>. QED
    BY <2>2, <2>3
<1>. DEFINE a == Latest(y)
            b == Latest(z)
<1>7. /\ a \in Seq(Tools) /\ Len(a) = (IF m + l > Window THEN Window ELSE m + l)
      /\ \A k \in 1..Len(a) : a[k] = y[(m + l) - Len(a) + k]
  BY <1>3, LatestOf, ZenonT(60)
<1>8. /\ b \in Seq(Tools) /\ Len(b) = (IF n + l > Window THEN Window ELSE n + l)
      /\ \A k \in 1..Len(b) : b[k] = z[(n + l) - Len(b) + k]
  BY <1>4, LatestOf, ZenonT(60)
<1>. HIDE DEF a, b
<1>9. Len(a) = Len(b)
  BY <1>1, <1>2, <1>5, <1>7, <1>8
<1>10. ASSUME NEW k \in 1..Len(a)
       PROVE  a[k] = b[k]
  <2>1. Len(a) \in Nat /\ Len(a) =< m + l
    BY <1>1, <1>5, <1>7
  <2>2. /\ (m + l) - Len(a) + k \in 1..(m + l)
        /\ n - m + ((m + l) - Len(a) + k) = (n + l) - Len(b) + k
    BY <1>1, <1>5, <1>9, <2>1
  <2>3. a[k] = y[(m + l) - Len(a) + k]
    BY <1>7
  <2>4. b[k] = z[(n + l) - Len(b) + k]
    BY <1>8, <1>9
  <2>. QED
    BY <1>6, <2>2, <2>3, <2>4
<1>11. a = b
  BY <1>7, <1>8, <1>9, <1>10, SeqEqual
<1>. QED
  BY <1>11 DEF a, b, x, y, z

\* What is varied was varied before.
LEMMA VariedPrefix ==
  ASSUME NEW s \in Seq(Tools), NEW p \in Seq(Tools), Begins(p, s), Varied(s)
  PROVE  Varied(p)
<1>1. Window \in Nat \ {0} /\ Len(s) \in Nat /\ Len(p) \in Nat /\ Len(p) =< Len(s)
      /\ \A i \in 1..Len(p) : p[i] = s[i]
  BY WindowNat DEF Begins
<1>2. ASSUME NEW i \in 1..(Len(p) + 1 - Window), Repeats(p, i)
      PROVE  FALSE
  <2>1. i \in 1..(Len(s) + 1 - Window)
    BY <1>1
  <2>2. \A j \in i..(i + Window - 1) : j \in 1..Len(p)
    BY <1>1
  <2>3. Repeats(s, i)
    BY <1>1, <1>2, <2>2 DEF Repeats
  <2>. QED
    BY <2>1, <2>3, VariedCalls
<1>. QED
  BY <1>2, VariedCalls

\* No calls are varied.
LEMMA VariedNothing == Varied(<<>>) /\ Latest(<<>>) = <<>>
<1>1. <<>> \in Seq(Tools) /\ Len(<<>>) = 0
  OBVIOUS
<1>2. Varied(<<>>)
  BY <1>1, WindowNat DEF Varied
<1>. DEFINE s == <<>>
<1>3. s \in Seq(Tools) /\ Len(s) = 0
  BY <1>1
<1>. HIDE DEF s
<1>4. Latest(s) \in Seq(Tools) /\ Len(Latest(s)) = IF Len(s) > Window THEN Window ELSE Len(s)
  BY <1>3, LatestOf
<1>5. Len(Latest(s)) = 0
  BY <1>3, <1>4, WindowNat
<1>6. Latest(s) = <<>>
  BY <1>4, <1>5, EmptySeq
<1>. QED
  BY <1>2, <1>6 DEF s

\* If the guard, which remembers the last calls, lets cs pass, nothing repeats.
LEMMA GuardExtends ==
  ASSUME NEW t \in Turns, NEW r \in Turn, NEW s \in Seq(Tools), Varied(s),
         r.recent = Latest(s), NEW cs \in Seq(Tools), ~ Trips(t, r, cs)
  PROVE  Varied(s \o cs) /\ Latest(r.recent \o cs) = Latest(s \o cs)
<1>. DEFINE z == s \o cs
<1>1. Window \in Nat \ {0} /\ Len(s) \in Nat /\ Len(cs) \in Nat
  BY WindowNat
<1>2. /\ z \in Seq(Tools) /\ Len(z) = Len(s) + Len(cs)
      /\ \A i \in 1..(Len(s) + Len(cs)) : z[i] = IF i =< Len(s) THEN s[i] ELSE cs[i - Len(s)]
  BY ConcatProperties
<1>. HIDE DEF z
<1>3. ASSUME NEW i \in 1..(Len(z) + 1 - Window), Repeats(z, i)
      PROVE  FALSE
  <2>. DEFINE e == i + Window - 1
              n == e - Len(s)
              u == SubSeq(cs, 1, n)
              v == s \o u
  <2>1. e \in 1..(Len(s) + Len(cs)) /\ e >= i /\ i \in Nat \ {0} /\ e - Window + 1 = i
    BY <1>1, <1>2
  <2>2. CASE e =< Len(s)
    <3>1. i \in 1..(Len(s) + 1 - Window)
      BY <1>1, <2>1, <2>2
    <3>2. \A j \in i..(i + Window - 1) : j \in 1..(Len(s) + Len(cs)) /\ j =< Len(s)
      BY <1>1, <2>1, <2>2
    <3>3. \A j \in i..(i + Window - 1) : z[j] = s[j]
      BY <1>2, <3>2
    <3>4. Repeats(s, i)
      BY <1>3, <3>3 DEF Repeats
    <3>. QED
      BY <3>1, <3>4, VariedCalls
  <2>3. CASE ~ (e =< Len(s))
    <3>1. n \in 1..Len(cs) /\ Len(s) + n = e
      BY <1>1, <2>1, <2>3
    <3>2. u \in Seq(Tools) /\ Len(u) = n /\ \A k \in 1..n : u[k] = cs[k]
      <4>1. \A k \in 1..n : cs[k] \in Tools
        BY <1>1, <3>1
      <4>2. n \in Int /\ 1 =< n /\ n - 1 + 1 = n
        BY <1>1, <3>1
      <4>. HIDE DEF n
      <4>3. /\ SubSeq(cs, 1, n) \in Seq(Tools)
            /\ Len(SubSeq(cs, 1, n)) = IF 1 =< n THEN n - 1 + 1 ELSE 0
            /\ \A k \in 1..(n - 1 + 1) : SubSeq(cs, 1, n)[k] = cs[1 + k - 1]
        BY <4>1, <4>2, SubSeqProperties
      <4>4. \A k \in 1..n : 1 + k - 1 = k
        BY <4>2
      <4>. QED
        BY <4>2, <4>3, <4>4
    <3>3. ~ AllAlike(Latest(r.recent \o u))
      BY <3>1 DEF Trips
    <3>. HIDE DEF u, n, e
    <3>4. /\ v \in Seq(Tools) /\ Len(v) = e
          /\ \A j \in 1..e : v[j] = IF j =< Len(s) THEN s[j] ELSE u[j - Len(s)]
      BY <3>1, <3>2, ConcatProperties
    <3>5. Latest(r.recent \o u) = Latest(v)
      BY <3>2, LatestLatest
    <3>. HIDE DEF v
    <3>6. ASSUME NEW j \in 1..e
          PROVE  v[j] = z[j]
      <4>1. j \in 1..(Len(s) + Len(cs))
        BY <1>1, <3>1
      <4>2. CASE j =< Len(s)
        BY <1>2, <3>4, <4>1, <4>2
      <4>3. CASE ~ (j =< Len(s))
        <5>1. j - Len(s) \in 1..n
          BY <1>1, <3>1, <4>3
        <5>. QED
          BY <1>2, <3>2, <3>4, <4>1, <4>3, <5>1
      <4>. QED
        BY <4>2, <4>3
    <3>7. \A j \in i..(i + Window - 1) : j \in 1..e
      BY <1>1, <2>1 DEF e
    <3>8. Repeats(v, i)
      BY <1>3, <3>6, <3>7 DEF Repeats
    <3>9. Len(v) >= Window /\ Len(v) - Window + 1 = i
      BY <1>1, <2>1, <3>4
    <3>. QED
      BY <3>3, <3>4, <3>5, <3>8, <3>9, LatestAlike
  <2>. QED
    BY <2>2, <2>3
<1>4. Varied(z)
  BY <1>2, <1>3, VariedCalls
<1>. QED
  BY <1>4, LatestLatest DEF z

\* The calls of a run, and those of its batches before the last one.
Mine(r) == SubSeq(r.log, r.first + 1, Len(r.log))
MyCalls(r) == Ran(Mine(r))
Past(r) == Ran(SubSeq(r.log, r.first + 1, Len(r.log) - 1))

\* A part of sane messages is sane.
LEMMA PartSane ==
  ASSUME NEW log \in Seq(Batch), Sane(log), NEW first \in Nat, NEW n \in 0..Len(log)
  PROVE  LET part == SubSeq(log, first + 1, n)
         IN  part \in Seq(Batch) /\ Sane(part) /\ Ran(part) \in Seq(Tools)
<1>. DEFINE m == first + 1
            part == SubSeq(log, m, n)
<1>1. Len(log) \in Nat /\ m \in Nat \ {0} /\ n \in Int
  OBVIOUS
<1>2. \A i \in m..n : i \in 1..Len(log)
  BY <1>1
<1>3. \A i \in m..n : log[i] \in Paired \cup {b \in Batch : Fitting(b)}
  BY <1>2 DEF Sane
<1>. DEFINE S == Paired \cup {b \in Batch : Fitting(b)}
<1>. HIDE DEF m
<1>4. part \in Seq(S)
  <2>1. m \in Int /\ \A i \in m..n : log[i] \in S
    BY <1>1, <1>3
  <2>. HIDE DEF S
  <2>. QED
    BY <1>1, <2>1, SubSeqProperties
<1>. HIDE DEF part
<1>5. part \in Seq(Batch) /\ Sane(part)
  BY <1>4 DEF Paired, Sane
<1>6. Ran(part) \in Seq(Tools)
  <2>1. Len(part) \in Nat
    BY <1>5
  <2>2. \E f \in [0..Len(part) -> Seq(Tools)] : Ran(part) = f[Len(part)]
    BY <1>5, RanStepwise
  <2>. QED
    BY <2>1, <2>2
<1>. QED
  BY <1>5, <1>6 DEF part, m

\* The calls of a run are those of the batches before, then those of the last.
LEMMA MyCallsLast ==
  ASSUME NEW r \in Turn, Sane(r.log), r.first < Len(r.log)
  PROVE  /\ Past(r) \in Seq(Tools) /\ Fitting(Last(r.log)) /\ r.log # <<>>
         /\ Made(Last(r.log)) \in Seq(Tools)
         /\ MyCalls(r) = Past(r) \o Made(Last(r.log))
<1>. DEFINE log == r.log
            n == Len(log)
            m == r.first + 1
            before == SubSeq(log, m, n - 1)
<1>1. log \in Seq(Batch) /\ r.first \in Nat /\ n \in Nat \ {0} /\ m \in 1..n
  BY DEF Turn
<1>2. log # <<>>
  BY <1>1
<1>3. Last(log) = log[n] /\ Last(log) \in Batch
  BY <1>1, <1>2, LastBatch
<1>4. Fitting(Last(log))
  BY <1>1, <1>3 DEF Sane
<1>5. before \in Seq(Batch) /\ Sane(before) /\ Past(r) = Ran(before) /\ Past(r) \in Seq(Tools)
  BY <1>1, PartSane DEF Past
<1>6. SubSeq(log, m, n) = before \o <<log[n]>>
  <2>1. m \in 1..Len(log) /\ n \in m..Len(log)
    BY <1>1
  <2>. HIDE DEF m, n, log
  <2>. QED
    BY <1>1, <2>1, SubSeqRecursiveSecond
<1>7. SubSeq(log, m, n) = Append(before, Last(log))
  BY <1>3, <1>5, <1>6, AppendIsConcat
<1>8. Ran(Append(before, Last(log))) = Ran(before) \o Made(Last(log))
  <2>. HIDE DEF before, log
  <2>. QED
    BY <1>3, <1>4, <1>5, RanAppend
<1>9. MyCalls(r) = Past(r) \o Made(Last(log))
  BY <1>5, <1>7, <1>8 DEF MyCalls, Mine
<1>. QED
  BY <1>2, <1>3, <1>4, <1>5, <1>9, MadeCalls

\* More results of the last batch leave the batches before it alone.
LEMMA AlikePast ==
  ASSUME NEW r \in Turn, Sane(r.log), r.first < Len(r.log), NEW s, Alike(r, s)
  PROVE  Past(s) = Past(r)
<1>. DEFINE n == Len(r.log) - 1
            m == r.first + 1
            x == SubSeq(r.log, m, n)
            y == SubSeq(s.log, m, n)
<1>1. /\ r.log \in Seq(Batch) /\ s.log \in Seq(Batch) /\ r.first \in Nat
      /\ n \in Nat /\ m \in Nat \ {0} /\ Len(s.log) = Len(r.log) /\ s.first = r.first
  BY DEF Turn, Alike
<1>2. \A i \in 1..n : r.log[i] \in Batch /\ s.log[i] = r.log[i]
  BY <1>1 DEF Alike
<1>3. \A i \in m..n : r.log[i] \in Batch /\ s.log[i] = r.log[i]
  BY <1>1, <1>2
<1>. HIDE DEF n, m
<1>4. m \in Int /\ n \in Int
  BY <1>1
<1>5. /\ x \in Seq(Batch) /\ Len(x) = (IF m =< n THEN n - m + 1 ELSE 0)
      /\ \A i \in 1..(n - m + 1) : x[i] = r.log[m + i - 1]
  BY <1>3, <1>4, SubSeqProperties
<1>6. /\ y \in Seq(Batch) /\ Len(y) = (IF m =< n THEN n - m + 1 ELSE 0)
      /\ \A i \in 1..(n - m + 1) : y[i] = s.log[m + i - 1]
  <2>1. \A i \in m..n : s.log[i] \in Batch
    BY <1>3
  <2>. QED
    BY <1>4, <2>1, SubSeqProperties
<1>. HIDE DEF x, y
<1>7. \A i \in 1..Len(x) : x[i] = y[i]
  <2>1. \A i \in 1..Len(x) : i \in 1..(n - m + 1) /\ m + i - 1 \in m..n
    BY <1>4, <1>5
  <2>. QED
    BY <1>3, <1>5, <1>6, <2>1
<1>8. x = y
  BY <1>5, <1>6, <1>7, SeqEqual
<1>9. n = Len(s.log) - 1 /\ m = s.first + 1
  BY <1>1 DEF n, m
<1>. QED
  BY <1>8, <1>9 DEF Past, x, y, n, m

\* A batch that is posed has made no call yet.
LEMMA PosedCalls ==
  ASSUME NEW r \in Turn, Sane(r.log), r.first =< Len(r.log), NEW cs \in Seq(Tools)
  PROVE  /\ MyCalls(r) \in Seq(Tools)
         /\ LET b == [calls |-> cs, answered |-> <<>>]
            IN  \A x \in Turn : x.log = Append(r.log, b) /\ x.first = r.first
                                => MyCalls(x) = MyCalls(r) /\ Past(x) = MyCalls(r)
<1>. DEFINE b == [calls |-> cs, answered |-> <<>>]
            n == Len(r.log)
            m == r.first + 1
<1>1. r.log \in Seq(Batch) /\ r.first \in Nat /\ n \in Nat /\ n \in 0..n /\ m \in Nat \ {0}
  BY DEF Turn
<1>2. MyCalls(r) \in Seq(Tools)
  BY <1>1, PartSane DEF MyCalls, Mine
<1>3. b \in Batch /\ Fitting(b) /\ Made(b) = <<>>
  <2>1. b.calls = cs /\ b.answered = <<>> /\ Len(<<>>) = 0
    OBVIOUS
  <2>2. b \in Batch /\ Fitting(b)
    BY <2>1 DEF Batch, Fitting
  <2>. HIDE DEF b
  <2>3. Made(b) \in Seq(Tools) /\ Len(Made(b)) = 0
    BY <2>1, <2>2, MadeCalls
  <2>. QED
    BY <2>2, <2>3, EmptySeq
<1>. HIDE DEF b
<1>4. ASSUME NEW x \in Turn, x.log = Append(r.log, b), x.first = r.first
      PROVE  MyCalls(x) = MyCalls(r) /\ Past(x) = MyCalls(r)
  <2>1. /\ Len(x.log) = n + 1 /\ \A i \in 1..n : x.log[i] = r.log[i]
        /\ x.log[n + 1] = b /\ x.log \in Seq(Batch) /\ x.log # <<>> /\ Sane(x.log)
    BY <1>1, <1>3, <1>4, AppendProperties, SaneAppend
  <2>2. x.first < Len(x.log) /\ Last(x.log) = b /\ Len(x.log) - 1 = n
    BY <1>1, <1>4, <2>1 DEF Last
  <2>3. SubSeq(x.log, m, n) = SubSeq(r.log, m, n)
    <3>. DEFINE y == SubSeq(x.log, m, n)
                z == SubSeq(r.log, m, n)
    <3>. HIDE DEF m, n
    <3>0. m \in Int /\ n \in Int
      BY <1>1
    <3>1. \A i \in m..n : i \in 1..n
      BY <1>1
    <3>2. \A i \in m..n : r.log[i] \in Batch /\ x.log[i] \in Batch /\ x.log[i] = r.log[i]
      BY <1>1, <2>1, <3>1 DEF n
    <3>3. /\ y \in Seq(Batch) /\ Len(y) = (IF m =< n THEN n - m + 1 ELSE 0)
          /\ \A i \in 1..(n - m + 1) : y[i] = x.log[m + i - 1]
      BY <3>0, <3>2, SubSeqProperties
    <3>4. /\ z \in Seq(Batch) /\ Len(z) = (IF m =< n THEN n - m + 1 ELSE 0)
          /\ \A i \in 1..(n - m + 1) : z[i] = r.log[m + i - 1]
      BY <3>0, <3>2, SubSeqProperties
    <3>. HIDE DEF y, z
    <3>5. \A i \in 1..Len(y) : i \in 1..(n - m + 1) /\ m + i - 1 \in m..n
      BY <3>0, <3>3
    <3>6. \A i \in 1..Len(y) : y[i] = z[i]
      BY <3>2, <3>3, <3>4, <3>5
    <3>7. y = z
      BY <3>3, <3>4, <3>6, SeqEqual
    <3>. QED
      BY <3>7 DEF y, z
  <2>4. Past(x) = MyCalls(r)
    BY <1>4, <2>2, <2>3 DEF Past, MyCalls, Mine
  <2>5. MyCalls(x) = Past(x) \o Made(b)
    BY <2>1, <2>2, MyCallsLast
  <2>. QED
    BY <1>2, <1>3, <2>4, <2>5, ConcatEmptySeq
<1>. QED
  BY <1>2, <1>4 DEF b

\* The guard knows the calls that are under way as well.
Pending(r, cs) == Varied(MyCalls(r) \o cs) /\ r.recent = Latest(MyCalls(r) \o cs)

Guarded(r) ==
  /\ Varied(MyCalls(r))
  /\ r.at = "model" => r.recent = Latest(MyCalls(r))
  /\ r.at = "tools" => Pending(r, Reads(Last(r.log).calls))
  /\ r.at = "call" => Pending(r, Upcoming(r))

\* The calls of a run are calls.
LEMMA MyCallsTyped ==
  ASSUME NEW r \in Turn, Sane(r.log), r.first =< Len(r.log)
  PROVE  MyCalls(r) \in Seq(Tools)
<1>1. r.log \in Seq(Batch) /\ r.first \in Nat /\ Len(r.log) \in 0..Len(r.log)
  BY DEF Turn
<1>. QED
  BY <1>1, PartSane DEF MyCalls, Mine

\* A run whose messages stay is guarded as before.
LEMMA SameGuarded ==
  ASSUME NEW r, NEW s, s.log = r.log, s.first = r.first, Varied(MyCalls(r)),
         s.at = "review" \/ (s.at = "model" /\ s.recent = Latest(MyCalls(r)))
  PROVE  Guarded(s)
<1>1. MyCalls(s) = MyCalls(r)
  BY DEF MyCalls, Mine
<1>. QED
  BY <1>1 DEF Guarded

\* Going on to the model keeps the guard's view.
LEMMA IterateGuarded ==
  ASSUME NEW t \in Turns, NEW r \in Turn, Varied(MyCalls(r)), r.recent = Latest(MyCalls(r))
  PROVE  Guarded(Iterate(t, r))
<1>. DEFINE s == Iterate(t, r)
<1>1. /\ s.log = r.log /\ s.first = r.first
      /\ \/ s.at = "model" /\ s.recent = r.recent
         \/ s.at = "review"
  BY IterateTurn
<1>. HIDE DEF s
<1>2. Guarded(s)
  BY <1>1, SameGuarded
<1>. QED
  BY <1>2 DEF s

\* The guard sees a serial call before it is made.
LEMMA NextCallGuarded ==
  ASSUME NEW t \in Turns, NEW r \in Turn, r.log # <<>>, Sane(r.log), r.first =< Len(r.log),
         r.queue \subseteq 1..Len(Last(r.log).calls),
         Varied(MyCalls(r)), r.recent = Latest(MyCalls(r))
  PROVE  Guarded(NextCall(t, r))
<1>. DEFINE s == NextCall(t, r)
<1>1. /\ s.log = r.log /\ s.first = r.first
      /\ \/ s.at = "model" /\ s.recent = r.recent
         \/ s.at = "review"
         \/ /\ r.queue # {} /\ s.at = "call" /\ s.queue = r.queue
            /\ ~ Trips(t, r, Upcoming(r)) /\ s.recent = Latest(r.recent \o Upcoming(r))
  BY NextCallTurn
<1>. HIDE DEF s
<1>2. CASE (s.at = "model" /\ s.recent = r.recent) \/ s.at = "review"
  <2>1. Guarded(s)
    BY <1>1, <1>2, SameGuarded
  <2>. QED
    BY <2>1 DEF s
<1>3. CASE /\ r.queue # {} /\ s.at = "call" /\ s.queue = r.queue
           /\ ~ Trips(t, r, Upcoming(r)) /\ s.recent = Latest(r.recent \o Upcoming(r))
  <2>1. MyCalls(r) \in Seq(Tools) /\ Upcoming(r) \in Seq(Tools)
    BY <1>3, MyCallsTyped, UpcomingCall
  <2>2. /\ Varied(MyCalls(r) \o Upcoming(r))
        /\ Latest(r.recent \o Upcoming(r)) = Latest(MyCalls(r) \o Upcoming(r))
    BY <1>3, <2>1, GuardExtends
  <2>3. MyCalls(s) = MyCalls(r) /\ Upcoming(s) = Upcoming(r)
    BY <1>1, <1>3 DEF MyCalls, Mine, Upcoming
  <2>4. Guarded(s)
    BY <1>3, <2>2, <2>3 DEF Guarded, Pending
  <2>. QED
    BY <2>4 DEF s
<1>. QED
  BY <1>1, <1>2, <1>3

\* The guard sees the parallel calls before they are made.
LEMMA DispatchGuarded ==
  ASSUME NEW t \in Turns, NEW r \in Turn, r.at = "model", Sound(t, r), Guarded(r),
         NEW cs \in Seq(Tools)
  PROVE  Guarded(Dispatch(t, r, cs))
<1>. DEFINE x == Posed(r, cs)
            s == Dispatch(t, r, cs)
            b == [calls |-> cs, answered |-> <<>>]
<1>1. /\ x \in Turn /\ x.log = Append(r.log, b) /\ x.log # <<>> /\ x.queue = Serial(cs)
      /\ Last(x.log) = b /\ b \in Batch
      /\ Len(x.log) = Len(r.log) + 1 /\ Len(r.log) \in Nat
      /\ x.first = r.first /\ x.recent = r.recent
  BY PosedTurn
<1>2. r.first =< Len(r.log) /\ Sane(r.log)
  BY DEF Sound
<1>3. Varied(MyCalls(r)) /\ r.recent = Latest(MyCalls(r))
  BY DEF Guarded
<1>4. b.calls = cs /\ b.answered = <<>> /\ Fitting(b)
  BY DEF Fitting
<1>5. MyCalls(r) \in Seq(Tools)
      /\ \A y \in Turn : y.log = Append(r.log, b) /\ y.first = r.first
                         => MyCalls(y) = MyCalls(r)
  BY <1>2, PosedCalls
<1>. HIDE DEF b, x, s
<1>6. r.log \in Seq(Batch) /\ r.first \in Nat
  BY DEF Turn
<1>7. Sane(x.log) /\ x.first =< Len(x.log)
  <2>1. Sane(x.log)
    BY <1>1, <1>2, <1>4, <1>6, SaneAppend
  <2>. QED
    BY <1>1, <1>2, <1>6, <2>1
<1>8. MyCalls(x) = MyCalls(r)
  BY <1>1, <1>5
<1>9. Reads(cs) \in Seq(Tools) /\ Serial(cs) \subseteq 1..Len(cs)
  BY ReadsOrSerial
<1>10. CASE s = NextCall(t, x)
  <2>1. Guarded(NextCall(t, x))
    BY <1>1, <1>3, <1>4, <1>7, <1>8, <1>9, NextCallGuarded
  <2>. QED
    BY <1>10, <2>1 DEF s
<1>11. CASE /\ s.log = x.log /\ s.first = r.first
            /\ s.at = "review" /\ s.end = "guard"
  <2>1. Guarded(s)
    BY <1>1, <1>3, <1>8, <1>11, SameGuarded
  <2>. QED
    BY <2>1 DEF s
<1>12. CASE /\ s \in Turn /\ s.log = x.log /\ s.first = r.first /\ s.at = "tools"
            /\ ~ Trips(t, r, Reads(cs)) /\ s.recent = Latest(r.recent \o Reads(cs))
  <2>1. /\ Varied(MyCalls(r) \o Reads(cs))
        /\ Latest(r.recent \o Reads(cs)) = Latest(MyCalls(r) \o Reads(cs))
    BY <1>3, <1>5, <1>9, <1>12, GuardExtends
  <2>2. MyCalls(s) = MyCalls(r) /\ Last(s.log).calls = cs
    BY <1>1, <1>4, <1>5, <1>12
  <2>3. Guarded(s)
    BY <1>3, <1>12, <2>1, <2>2 DEF Guarded, Pending
  <2>. QED
    BY <2>3 DEF s
<1>13. \/ s = NextCall(t, x)
       \/ s.log = x.log /\ s.first = r.first /\ s.at = "review" /\ s.end = "guard"
       \/ /\ s \in Turn /\ s.log = x.log /\ s.first = r.first /\ s.at = "tools"
          /\ ~ Trips(t, r, Reads(cs)) /\ s.recent = Latest(r.recent \o Reads(cs))
  BY DispatchTurn DEF s, x
<1>. QED
  BY <1>10, <1>11, <1>12, <1>13

\* The results of calls that ran together: the guard knew all of them.
LEMMA ToolsReturnGuarded ==
  ASSUME NEW t \in Turns, NEW r \in Turn, r.at = "tools", Sound(t, r), Guarded(r),
         NEW outcome, DOMAIN outcome = DOMAIN Last(r.log).calls \ r.queue
  PROVE  LET s == Judged(r, outcome)
         IN  Guarded(IF s.end = "guard" THEN s ELSE NextCall(t, s))
<1>. DEFINE s == Judged(r, outcome)
            cs == Last(r.log).calls
<1>1. /\ r.first < Len(r.log) /\ Sane(r.log) /\ Whole(r, Len(r.log) - 1)
      /\ r.queue \subseteq 1..Len(cs)
      /\ Last(r.log).answered = <<>> /\ r.queue = Serial(cs) /\ r.end = "none"
  BY DEF Sound, Running
<1>2. /\ Past(r) \in Seq(Tools) /\ Fitting(Last(r.log)) /\ r.log # <<>>
      /\ Made(Last(r.log)) \in Seq(Tools)
      /\ MyCalls(r) = Past(r) \o Made(Last(r.log))
  BY <1>1, MyCallsLast
<1>3. /\ Alike(r, s) /\ Fitting(Last(s.log))
      /\ \/ /\ s.end = "guard" /\ s.at = "review"
            /\ Begins(Made(Last(s.log)), Reads(cs))
         \/ /\ s.end = "none" /\ s.queue = r.queue /\ s.recent = r.recent
            /\ Made(Last(s.log)) = Reads(cs)
  BY <1>1, <1>2, JudgedAlike
<1>4. Varied(MyCalls(r) \o Reads(cs)) /\ r.recent = Latest(MyCalls(r) \o Reads(cs))
  BY DEF Guarded, Pending
<1>5. cs \in Seq(Tools) /\ Reads(cs) \in Seq(Tools) /\ Last(r.log) \in Batch
  <2>1. r.log \in Seq(Batch)
    BY DEF Turn
  <2>. QED
    BY <1>2, <2>1, LastBatch, ReadsOrSerial
<1>6. MyCalls(r) = Past(r)
  <2>1. Len(Last(r.log).answered) = 0
    BY <1>1
  <2>2. Len(Made(Last(r.log))) = 0
    BY <1>2, <1>5, <2>1, MadeCalls
  <2>3. Made(Last(r.log)) = <<>>
    BY <1>2, <2>2, EmptySeq
  <2>. QED
    BY <1>2, <2>3, ConcatEmptySeq
<1>. HIDE DEF s, cs
<1>7. /\ s \in Turn /\ s.first = r.first /\ Len(s.log) = Len(r.log)
      /\ Last(s.log).calls = cs /\ s.log # <<>>
  BY <1>3 DEF Alike, cs
<1>8. Sane(s.log) /\ s.first < Len(s.log) /\ Past(s) = Past(r)
  BY <1>1, <1>2, <1>3, <1>7, AlikeSane, AlikePast
<1>9. /\ Made(Last(s.log)) \in Seq(Tools)
      /\ MyCalls(s) = Past(r) \o Made(Last(s.log))
  BY <1>7, <1>8, MyCallsLast
<1>10. CASE s.end = "guard"
  <2>. DEFINE p == Made(Last(s.log))
              q == Reads(cs)
  <2>1. Begins(p, q) /\ s.at = "review"
    BY <1>3, <1>10
  <2>2. p \in Seq(Tools) /\ q \in Seq(Tools)
    BY <1>5, <1>9
  <2>. HIDE DEF p, q
  <2>3. Begins(Past(r) \o p, Past(r) \o q)
    <3>. DEFINE a == Past(r) \o p
                b == Past(r) \o q
                n == Len(Past(r))
    <3>1. /\ a \in Seq(Tools) /\ Len(a) = n + Len(p)
          /\ \A i \in 1..(n + Len(p)) : a[i] = IF i =< n THEN Past(r)[i] ELSE p[i - n]
      BY <1>2, <2>2, ConcatProperties
    <3>2. /\ b \in Seq(Tools) /\ Len(b) = n + Len(q)
          /\ \A i \in 1..(n + Len(q)) : b[i] = IF i =< n THEN Past(r)[i] ELSE q[i - n]
      BY <1>2, <2>2, ConcatProperties
    <3>3. n \in Nat /\ Len(p) \in Nat /\ Len(q) \in Nat /\ Len(p) =< Len(q)
          /\ \A i \in 1..Len(p) : p[i] = q[i]
      BY <1>2, <2>1, <2>2 DEF Begins
    <3>. HIDE DEF a, b, n
    <3>4. ASSUME NEW i \in 1..Len(a)
          PROVE  a[i] = b[i]
      <4>1. i \in 1..(n + Len(p)) /\ i \in 1..(n + Len(q))
        BY <3>1, <3>3
      <4>2. CASE i =< n
        BY <3>1, <3>2, <4>1, <4>2
      <4>3. CASE ~ (i =< n)
        <5>1. i - n \in 1..Len(p)
          BY <3>3, <4>1, <4>3
        <5>. QED
          BY <3>1, <3>2, <3>3, <4>1, <4>3, <5>1
      <4>. QED
        BY <4>2, <4>3
    <3>5. Len(a) =< Len(b)
      BY <3>1, <3>2, <3>3
    <3>. QED
      BY <3>4, <3>5 DEF Begins, a, b
  <2>4. Past(r) \o p \in Seq(Tools) /\ Past(r) \o q \in Seq(Tools)
    BY <1>2, <2>2, ConcatProperties
  <2>5. Varied(Past(r) \o q)
    BY <1>4, <1>6 DEF q
  <2>6. Varied(Past(r) \o p)
    BY <2>3, <2>4, <2>5, VariedPrefix
  <2>7. Varied(MyCalls(s))
    BY <1>9, <2>6 DEF p
  <2>8. Guarded(s)
    BY <2>1, <2>7, SameGuarded
  <2>. QED
    BY <1>10, <2>8 DEF s
<1>11. CASE s.end # "guard"
  <2>1. s.queue = r.queue /\ s.recent = r.recent /\ Made(Last(s.log)) = Reads(cs)
    BY <1>3, <1>11
  <2>2. Varied(MyCalls(s)) /\ s.recent = Latest(MyCalls(s))
    BY <1>4, <1>6, <1>9, <2>1
  <2>3. s.first =< Len(s.log)
    BY <1>7, <1>8, SMTT(30) DEF Turn
  <2>4. s.queue \subseteq 1..Len(Last(s.log).calls)
    BY <1>1, <1>7, <2>1
  <2>5. Guarded(NextCall(t, s))
    BY <1>7, <1>8, <2>2, <2>3, <2>4, NextCallGuarded
  <2>. QED
    BY <1>11, <2>5 DEF s
<1>. QED
  BY <1>10, <1>11

\* A serial call that returns becomes one that was made.
LEMMA ToolReturnsGuarded ==
  ASSUME NEW t \in Turns, NEW r \in Turn, r.at = "call", Sound(t, r), Guarded(r), NEW outcome
  PROVE  LET s == Record(Taken(r), Min(r.queue), outcome)
         IN  Guarded(IF s.end = "guard" THEN s ELSE NextCall(t, s))
<1>. DEFINE x == Taken(r)
            i == Min(r.queue)
            c == Last(r.log).calls[i]
            s == Record(x, i, outcome)
<1>1. /\ r.first < Len(r.log) /\ Sane(r.log) /\ Whole(r, Len(r.log) - 1)
      /\ r.queue \subseteq 1..Len(Last(r.log).calls) /\ r.queue # {} /\ r.end = "none"
  BY DEF Sound, Running
<1>2. /\ Past(r) \in Seq(Tools) /\ Fitting(Last(r.log)) /\ r.log # <<>>
      /\ Made(Last(r.log)) \in Seq(Tools)
      /\ MyCalls(r) = Past(r) \o Made(Last(r.log))
  BY <1>1, MyCallsLast
<1>3. i \in r.queue /\ c \in Tools /\ Upcoming(r) = <<c>>
  BY <1>1, <1>2, UpcomingCall DEF Upcoming
<1>4. Varied(MyCalls(r) \o <<c>>) /\ r.recent = Latest(MyCalls(r) \o <<c>>)
  BY <1>3 DEF Guarded, Pending
<1>5. /\ x \in Turn /\ x.queue = r.queue \ {i} /\ x.log = r.log
      /\ x.first = r.first /\ x.end = r.end /\ x.recent = r.recent
  BY TakenTurn
<1>. HIDE DEF x, i, c
<1>6. /\ Alike(x, s) /\ Fitting(Last(s.log))
      /\ Made(Last(s.log)) = Append(Made(Last(r.log)), c)
      /\ \/ s.end = "guard" /\ s.at = "review"
         \/ s.end = x.end /\ s.queue = x.queue /\ s.recent = x.recent
  <2>1. i \in 1..Len(Last(x.log).calls) /\ x.end # "guard" /\ x.log # <<>>
        /\ Fitting(Last(x.log))
    BY <1>1, <1>2, <1>3, <1>5
  <2>2. LET y == Record(x, i, outcome)
        IN  /\ Alike(x, y) /\ Fitting(Last(y.log))
            /\ Made(Last(y.log)) = Append(Made(Last(x.log)), Last(x.log).calls[i])
            /\ \/ y.end = "guard" /\ y.at = "review"
               \/ y.end = x.end /\ y.queue = x.queue /\ y.recent = x.recent
    BY <1>5, <2>1, RecordAlike
  <2>. QED
    BY <1>5, <2>2 DEF c
<1>. HIDE DEF s
<1>7. /\ s \in Turn /\ s.first = r.first /\ Len(s.log) = Len(r.log)
      /\ Last(s.log).calls = Last(r.log).calls /\ s.log # <<>>
  BY <1>5, <1>6 DEF Alike
<1>8. Sane(s.log) /\ s.first < Len(s.log) /\ Past(s) = Past(r)
  <2>1. Whole(x, Len(x.log) - 1) /\ Sane(x.log) /\ x.log # <<>> /\ x.first < Len(x.log)
    BY <1>1, <1>2, <1>5 DEF Whole
  <2>2. Past(x) = Past(r)
    BY <1>5 DEF Past
  <2>. QED
    BY <1>1, <1>5, <1>6, <1>7, <2>1, <2>2, AlikeSane, AlikePast
<1>9. MyCalls(s) = MyCalls(r) \o <<c>>
  <2>1. MyCalls(s) = Past(r) \o Append(Made(Last(r.log)), c)
    BY <1>6, <1>7, <1>8, MyCallsLast
  <2>2. <<c>> \in Seq(Tools) /\ Append(Made(Last(r.log)), c) = Made(Last(r.log)) \o <<c>>
    BY <1>2, <1>3, AppendIsConcat
  <2>. QED
    BY <1>2, <2>1, <2>2, ConcatAssociative
<1>10. Varied(MyCalls(s)) /\ r.recent = Latest(MyCalls(s))
  BY <1>4, <1>9
<1>11. CASE s.end = "guard"
  <2>1. s.at = "review"
    BY <1>1, <1>5, <1>6, <1>11
  <2>2. Guarded(s)
    BY <1>10, <2>1, SameGuarded
  <2>. QED
    BY <1>11, <2>2 DEF s, x, i
<1>12. CASE s.end # "guard"
  <2>1. s.queue = r.queue \ {i} /\ s.recent = r.recent
    BY <1>5, <1>6, <1>12
  <2>2. s.first =< Len(s.log)
    BY <1>7, <1>8, SMTT(30) DEF Turn
  <2>3. s.queue \subseteq 1..Len(Last(s.log).calls)
    BY <1>1, <1>7, <2>1
  <2>4. Guarded(NextCall(t, s))
    BY <1>7, <1>8, <1>10, <2>1, <2>2, <2>3, NextCallGuarded
  <2>. QED
    BY <1>12, <2>4 DEF s, x, i
<1>. QED
  BY <1>11, <1>12

\* A run that has just begun has made no call.
LEMMA NewGuarded ==
  ASSUME NEW s, NEW n \in Nat, s.first = n, Len(s.log) = n,
         (s.at = "model" /\ s.recent = <<>>) \/ s.at \in {"idle", "stored"}
  PROVE  Guarded(s)
<1>1. Mine(s) = <<>>
  BY SubSeqEmpty DEF Mine
<1>2. MyCalls(s) = <<>>
  BY <1>1, RanNothing DEF MyCalls
<1>. QED
  BY <1>2, VariedNothing DEF Guarded

GuardInv == LoopInv /\ \A t \in Turns : Guarded(turn[t])

\* No run has made a call in the beginning.
LEMMA GuardInvInit == LoopInit => GuardInv
<1>. SUFFICES ASSUME LoopInit PROVE GuardInv
  OBVIOUS
<1>1. Fresh.at = "idle" /\ Fresh.log = <<>> /\ Fresh.first = 0
  BY FreshTurn
<1>2. Len(<<>>) = 0
  OBVIOUS
<1>. HIDE DEF Fresh
<1>3. Guarded(Fresh)
  BY <1>1, <1>2, NewGuarded
<1>4. \A t \in Turns : turn[t] = Fresh
  BY DEF LoopInit
<1>. QED
  BY <1>3, <1>4, LoopInvInit DEF GuardInv

\* A step of one turn leaves the others guarded.
LEMMA StepGuarded ==
  ASSUME GuardInv, NEW t \in Turns, NEW s, turn' = [turn EXCEPT ![t] = s], Guarded(s)
  PROVE  (\A u \in Turns : Guarded(turn[u]))'
<1>1. \A u \in Turns : turn'[u] = IF u = t THEN s ELSE turn[u]
  BY DEF GuardInv, LoopInv, LoopTypeOK
<1>. QED
  BY <1>1 DEF GuardInv

\* What each step makes of its turn.
LEMMA BeginGuarded ==
  ASSUME GuardInv, NEW t \in Turns, Begin(t)
  PROVE  (\A u \in Turns : Guarded(turn[u]))'
<1>1. PICK need \in Needs : Step(t, Started(t, turn[t], <<>>, need))
  BY DEF Begin
<1>. DEFINE empty == <<>>
            s == Started(t, turn[t], empty, need)
<1>2. empty \in Seq(Batch) /\ Len(empty) = 0 /\ turn[t] \in Turn
  BY DEF GuardInv, LoopInv, LoopTypeOK
<1>. HIDE DEF empty
<1>3. s.log = empty /\ s.first = 0 /\ s.at = "model" /\ s.recent = <<>>
  <2>1. LET x == Started(t, turn[t], empty, need)
        IN  /\ x \in Turn /\ x.log = empty /\ x.first = Len(empty) /\ x.kept = turn[t].kept
            /\ x.at = "model" /\ x.end = "none" /\ x.recent = <<>> /\ x.deep = FALSE
            /\ x.iter =< MaxIterations[t]
    BY <1>2, StartedTurn
  <2>. QED
    BY <1>2, <2>1
<1>. HIDE DEF s
<1>4. Guarded(s)
  BY <1>2, <1>3, NewGuarded
<1>. QED
  BY <1>1, <1>4, StepGuarded DEF Step, s, empty

\* What follows an answer of the model keeps runs guarded.
LEMMA ModelGuarded ==
  ASSUME GuardInv, NEW t \in Turns,
         ModelCallsTools(t) \/ AskForEvidence(t) \/ RouteEvidence(t) \/ Answer(t)
  PROVE  (\A u \in Turns : Guarded(turn[u]))'
<1>. DEFINE r == turn[t]
<1>1. r \in Turn /\ r.at = "model" /\ Sound(t, r) /\ Guarded(r)
  BY DEF GuardInv, LoopInv, LoopTypeOK, ModelCallsTools, AskForEvidence, RouteEvidence,
     Answer
<1>2. Varied(MyCalls(r)) /\ r.recent = Latest(MyCalls(r))
  BY <1>1 DEF Guarded
<1>3. ASSUME NEW cs \in Seq(Tools), Step(t, Dispatch(t, r, cs))
      PROVE  (\A u \in Turns : Guarded(turn[u]))'
  <2>1. Guarded(Dispatch(t, r, cs))
    BY <1>1, DispatchGuarded
  <2>. QED
    BY <1>3, <2>1, StepGuarded DEF Step
<1>4. CASE ModelCallsTools(t)
  <2>1. PICK cs \in UNION {[1..n -> Tools] : n \in 1..MaxBatch[t]} : Step(t, Dispatch(t, r, cs))
    BY <1>4 DEF ModelCallsTools
  <2>2. MaxBatch[t] \in Nat
    BY LoopAssumption DEF LoopAssumption
  <2>3. cs \in Seq(Tools)
    BY <2>2
  <2>. QED
    BY <1>3, <2>1, <2>3
<1>5. CASE RouteEvidence(t)
  <2>1. <<Search>> \in Seq(Tools)
    BY LoopAssumption DEF LoopAssumption
  <2>. QED
    BY <1>3, <1>5, <2>1 DEF RouteEvidence
<1>6. CASE AskForEvidence(t)
  <2>. DEFINE x == [r EXCEPT !.asked = TRUE]
  <2>1. x \in Turn /\ x.log = r.log /\ x.first = r.first /\ x.recent = r.recent
    BY <1>1 DEF Turn
  <2>2. Step(t, Iterate(t, x))
    BY <1>6 DEF AskForEvidence
  <2>. HIDE DEF x
  <2>3. MyCalls(x) = MyCalls(r)
    BY <2>1 DEF MyCalls, Mine
  <2>4. Guarded(Iterate(t, x))
    BY <1>2, <2>1, <2>3, IterateGuarded
  <2>. QED
    BY <2>2, <2>4, StepGuarded DEF Step
<1>7. CASE Answer(t)
  <2>. DEFINE s == Return(r, "answer")
  <2>1. s.at = "review" /\ s.log = r.log /\ s.first = r.first
    BY <1>1, ReturnTurn DEF Hows
  <2>2. Step(t, s)
    BY <1>7 DEF Answer
  <2>. HIDE DEF s
  <2>3. Guarded(s)
    BY <1>2, <2>1, SameGuarded
  <2>. QED
    BY <2>2, <2>3, StepGuarded DEF Step
<1>. QED
  BY <1>4, <1>5, <1>6, <1>7

\* A stored turn makes no calls.
LEMMA SavedGuarded ==
  ASSUME NEW t \in Turns, NEW r \in Turn, Sound(t, r)
  PROVE  Guarded(Saved(r))
<1>. DEFINE s == Saved(r)
<1>1. s.at = "stored" /\ s.log = <<>> /\ s.first = 0
  BY FreshTurn DEF Saved, Turn
<1>2. Len(<<>>) = 0
  OBVIOUS
<1>. HIDE DEF s
<1>3. Guarded(s)
  BY <1>1, <1>2, NewGuarded
<1>. QED
  BY <1>3 DEF s

\* The end of a run keeps runs guarded.
LEMMA EndGuarded ==
  ASSUME GuardInv, NEW t \in Turns, ModelFails(t) \/ RetryForEvidence(t) \/ Store(t)
  PROVE  (\A u \in Turns : Guarded(turn[u]))'
<1>. DEFINE r == turn[t]
<1>1. r \in Turn /\ Sound(t, r) /\ Guarded(r)
  BY DEF GuardInv, LoopInv, LoopTypeOK
<1>2. Guarded(Saved(r))
  BY <1>1, SavedGuarded
<1>3. CASE ModelFails(t)
  <2>. DEFINE s == Ended(r, "error")
  <2>1. s.at = "review" /\ s.log = r.log /\ s.first = r.first
    BY <1>1, EndedTurn DEF Hows
  <2>2. Step(t, s) \/ Step(t, Saved(r))
    BY <1>3 DEF ModelFails
  <2>. HIDE DEF s
  <2>3. Guarded(s)
    BY <1>1, <2>1, SameGuarded DEF Guarded
  <2>. QED
    BY <1>2, <2>2, <2>3, StepGuarded DEF Step
<1>4. CASE Store(t)
  BY <1>2, <1>4, StepGuarded DEF Store
<1>5. CASE RetryForEvidence(t)
  <2>. DEFINE x == [r EXCEPT !.tries = @ + 1]
              n == r.tries + 1
              log == IF x.returned THEN x.kept ELSE x.log
  <2>1. PICK need \in Needs : Step(t, Started(t, x, log, need))
    BY <1>5 DEF RetryForEvidence
  <2>2. n \in Nat /\ x = [r EXCEPT !.tries = n]
    BY <1>1 DEF Turn
  <2>. HIDE DEF n, x, r
  <2>3. x \in Turn
    BY <1>1, <2>2 DEF Turn
  <2>4. log \in Seq(Batch)
    BY <2>3 DEF Turn
  <2>5. Len(log) \in Nat
    BY <2>4
  <2>. HIDE DEF log
  <2>. DEFINE s == Started(t, x, log, need)
  <2>6. s.log = log /\ s.first = Len(log) /\ s.at = "model" /\ s.recent = <<>>
    <3>1. LET y == Started(t, x, log, need)
          IN  /\ y \in Turn /\ y.log = log /\ y.first = Len(log) /\ y.kept = x.kept
              /\ y.at = "model" /\ y.end = "none" /\ y.recent = <<>> /\ y.deep = FALSE
              /\ y.iter =< MaxIterations[t]
      BY <2>3, <2>4, StartedTurn
    <3>. QED
      BY <3>1
  <2>. HIDE DEF s
  <2>7. Guarded(s)
    BY <2>5, <2>6, NewGuarded
  <2>. QED
    BY <2>1, <2>7, StepGuarded DEF Step, s
<1>. QED
  BY <1>3, <1>4, <1>5

\* Results that come in keep runs guarded.
LEMMA ReturnsGuarded ==
  ASSUME GuardInv, NEW t \in Turns, ToolsReturn(t) \/ ToolReturns(t)
  PROVE  (\A u \in Turns : Guarded(turn[u]))'
<1>1. turn[t] \in Turn /\ Sound(t, turn[t]) /\ Guarded(turn[t])
  BY DEF GuardInv, LoopInv, LoopTypeOK
<1>2. CASE ToolsReturn(t)
  <2>1. PICK outcome :
          /\ DOMAIN outcome = DOMAIN Last(turn[t].log).calls \ turn[t].queue
          /\ LET s == Judged(turn[t], outcome)
             IN  Step(t, IF s.end = "guard" THEN s ELSE NextCall(t, s))
    BY <1>2 DEF ToolsReturn
  <2>2. LET s == Judged(turn[t], outcome)
        IN  Guarded(IF s.end = "guard" THEN s ELSE NextCall(t, s))
    BY <1>1, <1>2, <2>1, ToolsReturnGuarded DEF ToolsReturn
  <2>. QED
    BY <2>1, <2>2, StepGuarded DEF Step
<1>3. CASE ToolReturns(t)
  <2>1. PICK outcome :
          LET s == Record(Taken(turn[t]), Min(turn[t].queue), outcome)
          IN  Step(t, IF s.end = "guard" THEN s ELSE NextCall(t, s))
    BY <1>3 DEF ToolReturns, Taken
  <2>2. LET s == Record(Taken(turn[t]), Min(turn[t].queue), outcome)
        IN  Guarded(IF s.end = "guard" THEN s ELSE NextCall(t, s))
    BY <1>1, <1>3, ToolReturnsGuarded DEF ToolReturns
  <2>. QED
    BY <2>1, <2>2, StepGuarded DEF Step
<1>. QED
  BY <1>2, <1>3

\* Every step keeps runs guarded.
LEMMA GuardStepInv == GuardInv /\ [LoopNext]_loopVars => GuardInv'
<1>. SUFFICES ASSUME GuardInv, [LoopNext]_loopVars PROVE GuardInv'
  OBVIOUS
<1>1. LoopInv'
  BY LoopStepInv DEF GuardInv
<1>2. CASE FocusExpires \/ UNCHANGED loopVars
  BY <1>1, <1>2 DEF FocusExpires, loopVars, GuardInv
<1>3. ASSUME NEW t \in Turns, Begin(t) \/ Work(t)
      PROVE  (\A u \in Turns : Guarded(turn[u]))'
  BY <1>3, BeginGuarded, ModelGuarded, EndGuarded, ReturnsGuarded DEF Work
<1>. QED
  BY <1>1, <1>2, <1>3 DEF LoopNext, GuardInv

\* In no run is a call made Window times in a row, whatever the model asks for,
\* in batches of whatever size, and whichever of the calls run together.
THEOREM NeverRunsAway == LoopSpec => []NoRunaway
<1>1. GuardInv => NoRunaway
  BY DEF GuardInv, Guarded, Varied, MyCalls, Mine, NoRunaway
<1>. QED
  BY <1>1, GuardInvInit, GuardStepInv, PTL DEF LoopSpec

=============================================================================
