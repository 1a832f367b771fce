---------------------------- MODULE Services_proofs ----------------------------
(***************************************************************************)
(* Theorems about the three pieces that the threads call on: the log, for  *)
(* any set of threads; the orbit prediction, for any years that two digits *)
(* can name, any periods and any margins; and the payload list, for any    *)
(* finite set of handles and any names and ids.                            *)
(***************************************************************************)
EXTENDS SysLog, PosDet, PlList, FiniteSetTheorems, SequenceTheorems, TLAPS

-----------------------------------------------------------------------------
(* SysLog *)

(***************************************************************************)
(* The invariant is inductive: the mutex is owned exactly while a thread   *)
(* is inside a log call or after a call has leaked it, and whatever is on  *)
(* the stream of an unfinished line is its owner's.                        *)
(***************************************************************************)
LEMMA LogStarts == Init => IInv
BY NoThreadIsNoThread DEF Init, IInv, TypeOK, LockOwned, LinesWhole, Critical

LEMMA LogSteps == IInv /\ [Next]_vars => IInv'
<1> SUFFICES ASSUME IInv, [Next]_vars PROVE IInv'
  OBVIOUS
<1> USE NoThreadIsNoThread DEF IInv, TypeOK, LockOwned, LinesWhole, Critical, Goto
<1>1. ASSUME NEW t \in Threads, Call(t) PROVE IInv'
  BY <1>1 DEF Call
<1>2. ASSUME NEW t \in Threads, Lock(t) PROVE IInv'
  BY <1>2 DEF Lock
<1>3. ASSUME NEW t \in Threads, Inside(t) PROVE IInv'
  <2>1. CASE Open(t)
    BY <2>1 DEF Open
  <2>2. CASE OpenFails(t)
    BY <2>2 DEF OpenFails
  <2>3. CASE PrintPrefix(t)
    BY <2>3 DEF PrintPrefix, Put
  <2>4. CASE PrintBody(t)
    BY <2>4 DEF PrintBody, Put
  <2>5. CASE PrintNewline(t)
    BY <2>5 DEF PrintNewline
  <2>6. CASE Unlock(t)
    BY <2>6 DEF Unlock
  <2>7. QED
    BY <1>3, <2>1, <2>2, <2>3, <2>4, <2>5, <2>6 DEF Inside
<1>4. CASE UNCHANGED vars
  BY <1>4 DEF vars
<1>5. QED
  BY <1>1, <1>2, <1>3, <1>4 DEF Next

(* The inductive invariant of the log holds.                                  *)
THEOREM LogInvariance == Spec => []IInv
<1>1. QED
  BY LogStarts, LogSteps, PTL DEF Spec

(* Every variable of the log keeps its type.                                  *)
THEOREM LogTyped == Spec => []TypeOK
<1>1. IInv => TypeOK
  BY DEF IInv
<1>2. QED
  BY <1>1, LogInvariance, PTL

(* At most one thread is between taking log_mutex and giving it back, and     *)
(* none is once a failed fopen has kept it.                                   *)
THEOREM Exclusive == Spec => []MutualExclusion
<1>1. IInv => MutualExclusion
  BY DEF IInv, LockOwned, MutualExclusion
<1>2. QED
  BY <1>1, LogInvariance, PTL

(* No line of the log mixes the parts of two calls.                           *)
THEOREM WholeLines == Spec => []LinesWhole
<1>1. IInv => LinesWhole
  BY DEF IInv
<1>2. QED
  BY <1>1, LogInvariance, PTL

(* After one failed fopen no log call of any thread ever returns.             *)
THEOREM LeakFinal == Spec => LeakIsFinal
<1>1. IInv /\ [Next]_vars =>
        [leaked => \A t \in Threads : pc[t] # "idle" => pc'[t] # "idle"]_vars
  <2> SUFFICES ASSUME IInv, [Next]_vars, leaked, NEW u \in Threads, pc[u] # "idle"
               PROVE pc'[u] # "idle" \/ UNCHANGED vars
    OBVIOUS
  <2> USE DEF IInv, TypeOK, LockOwned, Critical, Goto
  <2>1. ASSUME NEW t \in Threads, Call(t) PROVE pc'[u] # "idle"
    BY <2>1 DEF Call
  <2>2. ASSUME NEW t \in Threads, Lock(t) PROVE pc'[u] # "idle"
    BY <2>2 DEF Lock
  <2>3. ASSUME NEW t \in Threads, Inside(t) PROVE FALSE
    BY <2>3 DEF Inside, Open, OpenFails, PrintPrefix, PrintBody, PrintNewline, Unlock
  <2>4. QED
    BY <2>1, <2>2, <2>3 DEF Next
<1>2. QED
  BY <1>1, LogInvariance, PTL DEF Spec, LeakIsFinal

-----------------------------------------------------------------------------
(* A set of numbers that is not empty has a least element: what is false of   *)
(* some year, or of some place of a walk, is false of a first one.            *)
LEMMA Least ==
  ASSUME NEW T \in SUBSET Nat, T # {}
  PROVE  \E m \in T : \A n \in T : m <= n
<1>1. IsWellFoundedOn(OpToRel(<, Nat), Nat)
  BY NatLessThanWellFounded
<1>2. PICK m \in T : \A n \in T : <<n, m>> \notin OpToRel(<, Nat)
  BY <1>1, WFMin
<1>3. \A n \in T : ~ (n < m)
  BY <1>2 DEF OpToRel
<1>4. \A n \in T : n \in Nat
  OBVIOUS
<1>5. QED
  BY <1>3, <1>4


-----------------------------------------------------------------------------
(* PosDet *)

\* The days from 1970-01-01 to the first of January in closed form, with the terms of
\* Julian_Date_of_Year.
JanuaryFirst(y) == (1461 * (y - 1)) \div 4 - (y - 1) \div 100 + ((y - 1) \div 100) \div 4 - 719162

(* From year to year the closed form grows by the days of the year.           *)
LEMMA Calendar ==
  /\ JanuaryFirst(1957) = -4748
  /\ \A y \in 1958 .. 2056 : JanuaryFirst(y) = JanuaryFirst(y - 1) + DaysIn(y - 1)
BY DEF JanuaryFirst, DaysIn

(* The calendar satisfies the equation that defines it.                       *)
LEMMA NewYearDef ==
  NewYear = [y \in 1957 .. 2056 |-> IF y = 1957 THEN -4748 ELSE NewYear[y - 1] + DaysIn(y - 1)]
<1> DEFINE F(f) == [y \in 1957 .. 2056 |-> IF y = 1957 THEN -4748 ELSE f[y - 1] + DaysIn(y - 1)]
           G == [y \in 1957 .. 2056 |-> JanuaryFirst(y)]
<1>1. G = F(G)
  BY Calendar
<1>2. NewYear = CHOOSE f : f = F(f)
  BY DEF NewYear
<1> HIDE DEF F, G
<1>3. \E f : f = F(f)
  BY <1>1
<1>4. NewYear = F(NewYear)
  BY <1>2, <1>3
<1>5. QED
  BY <1>4 DEF F

(* So it is the closed form: a first year in which it were not would follow   *)
(* one in which it is.                                                        *)
LEMMA NewYears == \A y \in 1957 .. 2056 : NewYear[y] = JanuaryFirst(y)
<1> DEFINE T == {y \in 1957 .. 2056 : NewYear[y] # JanuaryFirst(y)}
<1>1. SUFFICES ASSUME T # {} PROVE FALSE
  OBVIOUS
<1>2. PICK m \in T : \A n \in T : m <= n
  <2>1. T \in SUBSET Nat
    OBVIOUS
  <2> HIDE DEF T
  <2>2. QED
    BY <1>1, <2>1, Least
<1>3. m # 1957
  <2>1. NewYear[1957] = -4748
    BY NewYearDef
  <2>2. QED
    BY <1>2, <2>1, Calendar
<1>4. m \in 1958 .. 2056 /\ m - 1 \in 1957 .. 2056 /\ m - 1 \notin T
  BY <1>2, <1>3
<1>5. NewYear[m] = NewYear[m - 1] + DaysIn(m - 1)
  BY <1>4, NewYearDef
<1>6. NewYear[m - 1] = JanuaryFirst(m - 1)
  BY <1>4
<1>7. QED
  BY <1>2, <1>4, <1>5, <1>6, Calendar

(* Julian_Date_of_Year counts the same days, from another origin.             *)
LEMMA JulianYear ==
  \A y \in 1957 .. 2056 : JulianDateOfYear(FullYear(y % 100)) = 2 * NewYear[y] + 4881173
<1>1. \A y \in 1957 .. 2056 : FullYear(y % 100) = y
  BY DEF FullYear
<1>2. \A y \in 1957 .. 2056 : JulianDateOfYear(y) = 2 * JanuaryFirst(y) + 4881173
  BY DEF JulianDateOfYear, JanuaryFirst
<1>3. QED
  BY <1>1, <1>2, NewYears

(* There are fourteen fields, and each of them has a position.                *)
LEMMA FieldPositions ==
  /\ Len(Fields) = 14 /\ DOMAIN Fields = 1 .. 14
  /\ \A i \in 1 .. 14 : Fields[i] \in Range(Fields)
  /\ \A f \in Range(Fields) : \E i \in 1 .. 14 : f = Fields[i]
<1>1. Len(Fields) = 14 /\ DOMAIN Fields = 1 .. 14
  BY DEF Fields
<1>2. QED
  BY <1>1 DEF Range

(* The year and the day of a date are what the calendar expects.              *)
LEMMA DateFields ==
  \A date \in Dates : date.year \in 1957 .. 2056 /\ date.doy \in Int
BY PosDetConstants DEF Dates, DaysIn

(* Every date has its day.                                                    *)
LEMMA DayIsInt == \A date \in Dates : NewYear[date.year] \in Int /\ DayOf(date) \in Int
<1>1. ASSUME NEW y \in 1957 .. 2056 PROVE NewYear[y] \in Int
  <2>1. JanuaryFirst(y) \in Int
    BY DEF JanuaryFirst
  <2>2. QED
    BY <2>1, NewYears
<1>2. QED
  BY <1>1, DateFields DEF DayOf

(* The two Julian dates differ by the days of the calendar.                   *)
LEMMA Elapsed ==
  ASSUME NEW epoch \in Dates, NEW date \in Dates
  PROVE  LET minutes == 720 * (JulianOfDay(DayOf(date))
                               - JulianDateOfYear(FullYear(epoch.year % 100)) - 2 * epoch.doy)
         IN minutes \in Int /\ minutes = 1440 * (DayOf(date) - DayOf(epoch))
<1>1. JulianDateOfYear(FullYear(epoch.year % 100)) = 2 * NewYear[epoch.year] + 4881173
  BY DateFields, JulianYear
<1>2. DayOf(epoch) = NewYear[epoch.year] + epoch.doy - 1
  BY DEF DayOf
<1>3. /\ DayOf(date) \in Int /\ DayOf(epoch) \in Int
      /\ NewYear[epoch.year] \in Int /\ epoch.doy \in Int
  BY DayIsInt, DateFields
<1> DEFINE base == JulianDateOfYear(FullYear(epoch.year % 100))
           D == DayOf(date)
           E == DayOf(epoch)
           Y == NewYear[epoch.year]
           d == epoch.doy
<1>4. /\ JulianOfDay(D) = 2 * D + 4881175 /\ base = 2 * Y + 4881173 /\ E = Y + d - 1
      /\ D \in Int /\ E \in Int /\ Y \in Int /\ d \in Int
  BY <1>1, <1>2, <1>3 DEF JulianOfDay
<1> HIDE DEF base, D, E, Y, d
<1>5. JulianOfDay(D) - base - 2 * d = 2 * (D - E) /\ D - E \in Int
  BY <1>4
<1>6. QED
  BY <1>5 DEF base, D, E, d

(* The invariant is inductive: what was parsed, which model was settled and   *)
(* what the last prediction was given.                                        *)
LEMMA PosStarts == PosInit => PosInv
<1> SUFFICES ASSUME PosInit PROVE PosInv
  OBVIOUS
<1>1. RecordOK
  BY FieldPositions DEF PosInit, RecordOK
<1>2. ParsedSoFar
  BY FieldPositions DEF PosInit, ParsedSoFar
<1>3. Settled /\ PredictionOK /\ TsinceIsElapsed
  BY DEF PosInit, Settled, PredictionOK, TsinceIsElapsed
<1>4. QED
  BY <1>1, <1>2, <1>3 DEF PosInv, PosTypeOK

LEMMA PosSteps == PosInv /\ [PosNext]_posVars => PosInv'
<1> SUFFICES ASSUME PosInv, [PosNext]_posVars PROVE PosInv'
  OBVIOUS
<1> USE DEF PosInv, PosTypeOK
<1>1. ASSUME UNCHANGED <<line, now, orbit, eclipsed>>
      PROVE  PredictionOK' /\ TsinceIsElapsed'
  BY <1>1 DEF PredictionOK, TsinceIsElapsed
<1>2. CASE ParseField
  <2> DEFINE f == Fields[parsing]
  <2>1. /\ sat = "parsing" /\ parsing \in 1 .. 14 /\ f \in Range(Fields)
        /\ f \in line.bad => f = "second_derivative_mean_motion"
        /\ parsing' = parsing + 1 /\ UNCHANGED <<line, sat, ready, model, now, orbit, eclipsed>>
    BY <1>2, FieldPositions DEF ParseField, Stops, RecordOK
  <2>2. elements' = [elements EXCEPT ![f] = IF f \notin line.bad THEN "line"
                                            ELSE IF f = "second_derivative_mean_motion" THEN "zero"
                                            ELSE @]
    BY <1>2 DEF ParseField
  <2>3. RecordOK'
    BY <2>1, <2>2, FieldPositions DEF RecordOK
  <2>4. ASSUME NEW i \in 1 .. 14, i < parsing', Fields[i] # "second_derivative_mean_motion"
        PROVE  elements'[Fields[i]] = "line"
    <3>1. CASE Fields[i] = f
      BY <2>1, <2>2, <2>4, <3>1 DEF RecordOK
    <3>2. CASE Fields[i] # f
      <4>1. i < parsing
        BY <2>1, <2>4, <3>2
      <4>2. elements[Fields[i]] = "line"
        BY <2>4, <4>1, FieldPositions DEF ParsedSoFar
      <4>3. QED
        BY <2>1, <2>2, <3>2, <4>2, FieldPositions DEF RecordOK
    <3>3. QED
      BY <3>1, <3>2
  <2>5. ParsedSoFar'
    BY <2>4, FieldPositions DEF ParsedSoFar
  <2>6. Settled'
    BY <2>1 DEF Settled
  <2>7. QED
    BY <1>1, <2>1, <2>3, <2>5, <2>6
<1>3. CASE ParseFails
  <2>1. RecordOK' /\ ParsedSoFar' /\ Settled'
    BY <1>3 DEF ParseFails, RecordOK, ParsedSoFar, Settled
  <2>2. QED
    BY <1>1, <1>3, <2>1 DEF ParseFails
<1>4. CASE SelectModel
  <2>1. ModelFor(line.period) \in {"sgp4", "sdp4"}
    BY DEF ModelFor
  <2>2. RecordOK' /\ ParsedSoFar' /\ Settled'
    BY <1>4, <2>1 DEF SelectModel, Initialised, RecordOK, ParsedSoFar, Settled
  <2>3. QED
    BY <1>1, <1>4, <2>2 DEF SelectModel
<1>5. CASE Pass
  <2>1. /\ sat = "set" /\ orbit'.model = model
        /\ UNCHANGED <<line, elements, parsing, sat, ready, model>>
    BY <1>5 DEF Pass
  <2>2. RecordOK' /\ ParsedSoFar' /\ Settled'
    BY <2>1 DEF RecordOK, ParsedSoFar, Settled
  <2>3. PICK date \in Dates, earth \in 0 .. 1, sun \in 0 .. 1, delta \in 0 .. 1 :
          /\ now' = date
          /\ orbit' =
               [tsince |-> 720 * (JulianOfDay(DayOf(date))
                                  - JulianDateOfYear(FullYear(line.epoch.year % 100)) - 2 * line.epoch.doy),
                model |-> model,
                decayed |-> Decayed(line.epoch, line.margin, JulianOfDay(DayOf(date)))]
          /\ eclipsed' = IsEclipsed(earth, sun, delta)
    BY <1>5 DEF Pass
  <2>4. model \in {"sgp4", "sdp4"}
    BY <2>1 DEF Settled, ModelFor
  <2>5. line.epoch \in Dates
    BY DEF RecordOK
  <2>6. orbit'.tsince \in Int /\ orbit'.tsince = 1440 * (DayOf(date) - DayOf(line.epoch))
    BY <2>3, <2>5, Elapsed
  <2>7. TsinceIsElapsed'
    BY <2>1, <2>3, <2>6 DEF TsinceIsElapsed, DayOf
  <2>8. Decayed(line.epoch, line.margin, JulianOfDay(DayOf(date))) \in BOOLEAN
        /\ IsEclipsed(earth, sun, delta) \in BOOLEAN
    BY DEF Decayed, IsEclipsed
  <2>9. PredictionOK'
    BY <2>3, <2>4, <2>6, <2>8 DEF PredictionOK
  <2>10. QED
    BY <2>2, <2>7, <2>9
<1>6. CASE PassWithout
  <2>1. /\ orbit = <<>> /\ UNCHANGED <<line, elements, parsing, sat, ready, model, orbit, eclipsed>>
        /\ now' \in Dates
    BY <1>6 DEF PassWithout, Settled
  <2>2. RecordOK' /\ ParsedSoFar' /\ Settled'
    BY <2>1 DEF RecordOK, ParsedSoFar, Settled
  <2>3. PredictionOK' /\ TsinceIsElapsed'
    BY <2>1 DEF PredictionOK, TsinceIsElapsed
  <2>4. QED
    BY <2>2, <2>3
<1>7. CASE UNCHANGED posVars
  <2>1. RecordOK' /\ ParsedSoFar' /\ Settled'
    BY <1>7 DEF posVars, RecordOK, ParsedSoFar, Settled
  <2>2. QED
    BY <1>1, <1>7, <2>1 DEF posVars
<1>8. QED
  BY <1>2, <1>3, <1>4, <1>5, <1>6, <1>7 DEF PosNext

(* The inductive invariant of the thread holds.                               *)
THEOREM PosInvariance == PosSpec => []PosInv
<1>1. QED
  BY PosStarts, PosSteps, PTL DEF PosSpec

(* Every variable of the thread keeps its type, whatever was predicted.       *)
THEOREM PosTyped == PosSpec => []PosTypeOK
<1>1. PosInv => PosTypeOK
  BY DEF PosInv
<1>2. QED
  BY <1>1, PosInvariance, PTL

(* In every year that two digits can name, the minutes given to the model are *)
(* those of the calendar between the epoch and the clock.                     *)
THEOREM ElapsedRight == PosSpec => []TsinceIsElapsed
<1>1. PosInv => TsinceIsElapsed
  BY DEF PosInv
<1>2. QED
  BY <1>1, PosInvariance, PTL

(* A prediction reads no element that was not read from the lines, whichever  *)
(* fields of them cannot be read.                                             *)
THEOREM ElementsRead == PosSpec => []ElementsFromLines
<1>1. PosInv => ElementsFromLines
  <2> SUFFICES ASSUME PosInv, orbit # <<>>, NEW f \in Used PROVE elements[f] = "line"
    BY DEF ElementsFromLines
  <2>1. parsing > 14
    BY FieldPositions DEF PosInv, Settled
  <2>2. PICK i \in 1 .. 14 : f = Fields[i]
    BY FieldPositions DEF Used
  <2>3. i < parsing
    BY <2>1 DEF PosInv, PosTypeOK, RecordOK
  <2>4. QED
    BY <2>2, <2>3, FieldPositions DEF PosInv, ParsedSoFar, Used
<1>2. QED
  BY <1>1, PosInvariance, PTL

-----------------------------------------------------------------------------
(* PlList *)

(* There are finitely many handles, and no handle is NULL.                    *)
LEMMA StepsNat == Cardinality(Payloads) \in Nat /\ NULL \notin Payloads
BY PlListConstants, FS_CardinalityType

(* A sequence of handles that do not clash is no longer than they are many.   *)
LEMMA DistinctFits ==
  ASSUME NEW s \in Seq(Payloads), Distinct(s)
  PROVE  Len(s) <= Cardinality(Payloads)
<1> DEFINE n == Len(s)
<1>0. n \in Nat /\ s \in [1 .. n -> Payloads]
  OBVIOUS
<1>1. IsFiniteSet(1 .. n) /\ Cardinality(1 .. n) = n
  <2> HIDE DEF n
  <2>1. IsFiniteSet(1 .. n) /\ Cardinality(1 .. n) = IF 1 > n THEN 0 ELSE n - 1 + 1
    BY <1>0, FS_Interval
  <2>2. QED
    BY <1>0, <2>1
<1>2. SUFFICES ASSUME Cardinality(Payloads) < Cardinality(1 .. n) PROVE FALSE
  BY <1>0, <1>1, StepsNat
<1>3. PICK j, k \in 1 .. n : j # k /\ s[j] = s[k]
  <2> HIDE DEF n
  <2>1. QED
    BY <1>0, <1>1, <1>2, PlListConstants, FS_PigeonHole
<1>4. QED
  BY <1>0, <1>3 DEF Distinct, Clash

(* The walk along a path meets its handles and then NULL.                     *)
LEMMA NthIs ==
  ASSUME NEW s \in Seq(Payloads), Path(s)
  PROVE  \A k \in Steps : Nth[k] = IF k <= Len(s) THEN s[k] ELSE NULL
<1> DEFINE F(f) == [k \in Steps |-> IF k = 1 THEN payload_list
                                    ELSE IF f[k - 1] = NULL THEN NULL ELSE next[f[k - 1]]]
           G == [k \in Steps |-> IF k <= Len(s) THEN s[k] ELSE NULL]
<1>1. \A k \in Steps : k \in Nat /\ k >= 1 /\ (k = 1 \/ k - 1 \in Steps)
  BY StepsNat DEF Steps
<1>2. G = F(G)
  <2> SUFFICES ASSUME NEW k \in Steps PROVE G[k] = F(G)[k]
    OBVIOUS
  <2>1. CASE k = 1
    BY <2>1 DEF Path
  <2>2. CASE k # 1
    <3>1. k - 1 \in Steps /\ k - 1 \in Nat /\ k - 1 >= 1
      BY <1>1, <2>2
    <3>2. CASE k - 1 <= Len(s)
      <4>1. s[k - 1] \in Payloads /\ k - 1 \in DOMAIN s
        BY <3>1, <3>2
      <4>2. next[s[k - 1]] = IF k - 1 = Len(s) THEN NULL ELSE s[k]
        BY <4>1, <1>1 DEF Path
      <4>3. QED
        BY <2>2, <3>1, <3>2, <4>1, <4>2, <1>1, StepsNat
    <3>3. CASE ~(k - 1 <= Len(s))
      BY <2>2, <3>1, <3>3, <1>1
    <3>4. QED
      BY <3>2, <3>3
  <2>3. QED
    BY <2>1, <2>2
<1>3. Nth = CHOOSE f : f = F(f)
  BY DEF Nth
<1>4. Nth = F(Nth)
  <2> HIDE DEF F, G
  <2>1. \E f : f = F(f)
    BY <1>2
  <2>2. QED
    BY <1>3, <2>1
<1> DEFINE T == {k \in Steps : Nth[k] # G[k]}
<1>5. SUFFICES ASSUME T # {} PROVE FALSE
  OBVIOUS
<1>6. PICK m \in T : \A n \in T : m <= n
  <2>1. T \in SUBSET Nat
    BY <1>1
  <2> HIDE DEF T
  <2>2. QED
    BY <1>5, <2>1, Least
<1>7. m \in Steps /\ Nth[m] # G[m]
  OBVIOUS
<1>8. m = 1 \/ (m - 1 \in Steps /\ Nth[m - 1] = G[m - 1])
  BY <1>1, <1>6
<1>9. F(Nth)[m] = F(G)[m]
  <2> HIDE DEF G
  <2>1. QED
    BY <1>7, <1>8
<1>10. QED
  <2> HIDE DEF F, G
  <2>1. QED
    BY <1>2, <1>4, <1>7, <1>9

(* A path of handles that do not clash is what a walk meets ...               *)
LEMMA PathIsWalk ==
  \A s \in Seq(Payloads) : Path(s) /\ Distinct(s) => Walk = s
<1> SUFFICES ASSUME NEW s \in Seq(Payloads), Path(s), Distinct(s) PROVE Walk = s
  OBVIOUS
<1>1. {j \in Steps : Nth[j] # NULL} = 1 .. Len(s)
  <2>1. Len(s) \in Nat /\ Len(s) <= Cardinality(Payloads)
    BY DistinctFits
  <2>2. \A k \in 1 .. Len(s) : s[k] # NULL
    BY StepsNat
  <2>3. QED
    BY <2>1, <2>2, NthIs, StepsNat DEF Steps
<1>2. \A k \in 1 .. Len(s) : k \in Steps /\ Nth[k] = s[k]
  BY <1>1, NthIs
<1>3. Walk = [k \in 1 .. Len(s) |-> s[k]]
  BY <1>1, <1>2 DEF Walk
<1>4. QED
  BY <1>3

(* ... in the next state as well.                                             *)
LEMMA PathIsWalkNext ==
  \A s \in Seq(Payloads) : Path(s)' /\ Distinct(s) => Walk' = s
<1>1. (\A s \in Seq(Payloads) : Path(s) /\ Distinct(s) => Walk = s)'
  BY PathIsWalk, PTL
<1>2. QED
  BY <1>1 DEF Distinct, Clash

(* To know the walk after a step it is enough to name the path it follows.    *)
LEMMA Reached ==
  ASSUME NEW s \in Seq(Payloads), Path(s)', Distinct(s)
  PROVE  Walk' = s /\ (Walk \in Seq(Payloads) /\ Path(Walk) /\ Distinct(Walk))'
<1>1. Walk' = s
  BY PathIsWalkNext
<1>2. QED
  BY <1>1 DEF Path, Distinct, Clash

(* A sequence without its k-th element.                                       *)
LEMMA Without ==
  ASSUME NEW s \in Seq(Payloads), NEW k \in 1 .. Len(s)
  PROVE  LET t == SubSeq(s, 1, k - 1) \o SubSeq(s, k + 1, Len(s))
         IN /\ t \in Seq(Payloads) /\ Len(t) = Len(s) - 1
            /\ \A j \in 1 .. Len(s) - 1 : t[j] = IF j < k THEN s[j] ELSE s[j + 1]
<1> DEFINE a == SubSeq(s, 1, k - 1)
           b == SubSeq(s, k + 1, Len(s))
<1>1. a \in Seq(Payloads) /\ Len(a) = k - 1 /\ \A i \in 1 .. k - 1 : a[i] = s[i]
  <2>1. \A i \in 1 .. k - 1 : s[i] \in Payloads
    OBVIOUS
  <2>2. QED
    BY <2>1, SubSeqProperties
<1>2. /\ b \in Seq(Payloads) /\ Len(b) = Len(s) - k
      /\ \A i \in 1 .. Len(s) - k : b[i] = s[k + i]
  <2>1. \A i \in k + 1 .. Len(s) : s[i] \in Payloads
    OBVIOUS
  <2>2. QED
    BY <2>1, SubSeqProperties
<1> HIDE DEF a, b
<1>3. a \o b \in Seq(Payloads) /\ Len(a \o b) = Len(s) - 1
  BY <1>1, <1>2
<1>4. ASSUME NEW j \in 1 .. Len(s) - 1
      PROVE  (a \o b)[j] = IF j < k THEN s[j] ELSE s[j + 1]
  <2>1. CASE j < k
    BY <2>1, <1>1, <1>2
  <2>2. CASE ~(j < k)
    <3>1. (a \o b)[j] = b[j - (k - 1)]
      BY <2>2, <1>1, <1>2
    <3>2. j - (k - 1) \in 1 .. Len(s) - k
      BY <2>2
    <3>3. b[j - (k - 1)] = s[k + (j - (k - 1))]
      BY <1>2, <3>2
    <3>4. k + (j - (k - 1)) = j + 1
      OBVIOUS
    <3>5. QED
      BY <2>2, <3>1, <3>3, <3>4
  <2>3. QED
    BY <2>1, <2>2
<1>5. QED
  BY <1>3, <1>4 DEF a, b

(* Handles that do not clash are different handles.                           *)
LEMMA Apart ==
  ASSUME NEW s \in Seq(Payloads), Distinct(s)
  PROVE  \A j, k \in 1 .. Len(s) : s[j] = s[k] => j = k
BY DEF Distinct, Clash

(* A handle that clashes with none goes to the end.                           *)
LEMMA AddsAtEnd ==
  ASSUME ListTypeOK, NEW s \in Seq(Payloads), Path(s), Distinct(s), s = Walk,
         NEW pl \in Payloads, Add(pl), \A q \in Listed : ~Clash(pl, q)
  PROVE  LET t == Append(s, pl) IN t \in Seq(Payloads) /\ Path(t)' /\ Distinct(t)
<1> DEFINE t == Append(s, pl)
<1>1. /\ t \in Seq(Payloads) /\ Len(t) = Len(s) + 1 /\ t[Len(s) + 1] = pl
      /\ DOMAIN t = 1 .. Len(s) + 1 /\ Len(s) \in Nat
      /\ \A k \in 1 .. Len(s) : t[k] = s[k] /\ s[k] \in Payloads
  OBVIOUS
<1>2. \A k \in 1 .. Len(s) : ~Clash(pl, s[k]) /\ pl # s[k]
  BY DEF Listed, Clash
<1> HIDE DEF t
<1>3. Distinct(t)
  BY <1>1, <1>2 DEF Distinct, Clash
<1>4. CASE s = <<>>
  <2>1. Len(s) = 0 /\ payload_list = NULL
    BY <1>4 DEF Path
  <2>2. payload_list' = pl /\ next' = [next EXCEPT ![pl] = NULL]
    BY <2>1 DEF Add
  <2>3. t # <<>> /\ t[1] = pl /\ \A k \in DOMAIN t : k = 1
    BY <1>1, <2>1
  <2>4. next'[pl] = NULL
    BY <2>2 DEF ListTypeOK
  <2>5. Path(t)'
    BY <1>1, <2>1, <2>2, <2>3, <2>4 DEF Path
  <2>6. QED
    BY <1>1, <1>3, <2>5 DEF t
<1>5. CASE s # <<>>
  <2>1. /\ Len(s) >= 1 /\ payload_list = s[1] /\ payload_list # NULL
        /\ s[Len(s)] \in Payloads /\ s[Len(s)] # pl
    BY <1>1, <1>2, <1>5, StepsNat DEF Path
  <2>2. payload_list' = payload_list /\ next' = [[next EXCEPT ![pl] = NULL] EXCEPT ![s[Len(s)]] = pl]
    BY <2>1 DEF Add, Last
  <2>3. /\ next'[pl] = NULL /\ next'[s[Len(s)]] = pl
        /\ \A p \in Payloads : p # pl /\ p # s[Len(s)] => next'[p] = next[p]
    BY <2>1, <2>2 DEF ListTypeOK
  <2>4. \A k \in 1 .. Len(s) : k # Len(s) => next'[s[k]] = s[k + 1]
    <3> SUFFICES ASSUME NEW k \in 1 .. Len(s), k # Len(s) PROVE next'[s[k]] = s[k + 1]
      OBVIOUS
    <3>1. s[k] \in Payloads /\ s[k] # pl /\ s[k] # s[Len(s)]
      BY <1>1, <1>2, Apart
    <3>2. next[s[k]] = s[k + 1]
      BY <1>1 DEF Path
    <3>3. QED
      BY <2>3, <3>1, <3>2
  <2>5. t # <<>> /\ t[1] = s[1]
    BY <1>1, <2>1
  <2>6. \A k \in DOMAIN t : next'[t[k]] = IF k = Len(t) THEN NULL ELSE t[k + 1]
    BY <1>1, <2>1, <2>3, <2>4
  <2>7. Path(t)'
    BY <2>1, <2>2, <2>5, <2>6 DEF Path
  <2>8. QED
    BY <1>1, <1>3, <2>7 DEF t
<1>6. QED
  BY <1>4, <1>5

(* A handle that is not listed and clashes with one leaves the list alone.    *)
LEMMA AddRefused ==
  ASSUME ListTypeOK, NEW s \in Seq(Payloads), Path(s), s = Walk,
         NEW pl \in Payloads \ Listed, Add(pl), \E q \in Listed : Clash(pl, q)
  PROVE  Path(s)'
<1>1. s # <<>>
  BY DEF Listed
<1>2. payload_list' = payload_list /\ next' = [next EXCEPT ![pl] = NULL]
  BY <1>1, StepsNat DEF Add, Path
<1>3. \A k \in DOMAIN s : s[k] \in Payloads /\ s[k] # pl
  BY DEF Listed
<1>4. \A k \in DOMAIN s : next'[s[k]] = next[s[k]]
  BY <1>2, <1>3 DEF ListTypeOK
<1>5. QED
  BY <1>2, <1>4 DEF Path

(* A listed handle becomes the last one.                                      *)
LEMMA AddCuts ==
  ASSUME ListTypeOK, NEW s \in Seq(Payloads), Path(s), Distinct(s), s = Walk,
         NEW n \in 1 .. Len(s), Add(s[n])
  PROVE  LET t == SubSeq(s, 1, n) IN t \in Seq(Payloads) /\ Path(t)' /\ Distinct(t)
<1> DEFINE t == SubSeq(s, 1, n)
<1>1. /\ t \in Seq(Payloads) /\ Len(t) = n /\ DOMAIN t = 1 .. n
      /\ \A k \in 1 .. n : t[k] = s[k] /\ s[k] \in Payloads /\ k \in DOMAIN s
  <2>1. \A k \in 1 .. n : s[k] \in Payloads /\ k \in DOMAIN s
    OBVIOUS
  <2>2. t \in Seq(Payloads) /\ Len(t) = n /\ \A k \in 1 .. n : t[k] = s[k]
    BY <2>1, SubSeqProperties
  <2> HIDE DEF t
  <2>3. QED
    BY <2>1, <2>2
<1> HIDE DEF t
<1>2. Distinct(t)
  BY <1>1 DEF Distinct
<1>3. payload_list = s[1] /\ s[1] # NULL /\ s[n] \in Listed
  BY StepsNat DEF Path, Listed
<1>4. payload_list' = payload_list /\ next' = [next EXCEPT ![s[n]] = NULL]
  BY <1>3 DEF Add, Clash
<1>5. next'[s[n]] = NULL
  BY <1>1, <1>4 DEF ListTypeOK
<1>6. ASSUME NEW k \in 1 .. n - 1 PROVE next'[s[k]] = s[k + 1]
  <2>1. s[k] # s[n] /\ s[k] \in Payloads
    BY Apart, <1>1
  <2>2. next[s[k]] = s[k + 1]
    BY <1>1 DEF Path
  <2>3. QED
    BY <1>4, <2>1, <2>2 DEF ListTypeOK
<1>7. t # <<>> /\ t[1] = s[1]
  BY <1>1
<1>8. \A k \in DOMAIN t : next'[t[k]] = IF k = Len(t) THEN NULL ELSE t[k + 1]
  BY <1>1, <1>5, <1>6
<1>9. Path(t)'
  BY <1>3, <1>4, <1>7, <1>8 DEF Path
<1>10. QED
  BY <1>1, <1>2, <1>9 DEF t

(* A listed handle is unlinked.                                               *)
LEMMA RemoveUnlinks ==
  ASSUME ListTypeOK, NEW s \in Seq(Payloads), Path(s), Distinct(s), s = Walk,
         NEW n \in 1 .. Len(s), Remove(s[n])
  PROVE  LET t == SubSeq(s, 1, n - 1) \o SubSeq(s, n + 1, Len(s))
         IN t \in Seq(Payloads) /\ Path(t)' /\ Distinct(t)
<1> DEFINE t == SubSeq(s, 1, n - 1) \o SubSeq(s, n + 1, Len(s))
<1>1. /\ t \in Seq(Payloads) /\ Len(t) = Len(s) - 1
      /\ \A j \in 1 .. Len(s) - 1 : t[j] = IF j < n THEN s[j] ELSE s[j + 1]
  BY Without
<1> HIDE DEF t
<1>2. /\ Len(s) \in Nat /\ Len(s) >= 1 /\ DOMAIN s = 1 .. Len(s) /\ DOMAIN t = 1 .. Len(s) - 1
      /\ \A k \in 1 .. Len(s) : s[k] \in Payloads
  BY <1>1
<1>0. Len(s) \in Nat /\ Len(s) >= 1 /\ n \in Nat /\ n >= 1 /\ n <= Len(s)
  OBVIOUS
<1>3. Distinct(t)
  <2>1. ASSUME NEW j \in 1 .. Len(s) - 1, NEW k \in 1 .. Len(s) - 1, j # k
        PROVE  ~Clash(t[j], t[k])
    <3> DEFINE Was(i) == IF i < n THEN i ELSE i + 1
    <3>1. Was(j) \in 1 .. Len(s) /\ Was(k) \in 1 .. Len(s) /\ Was(j) # Was(k)
      BY <1>2, <2>1
    <3>2. t[j] = s[Was(j)] /\ t[k] = s[Was(k)]
      BY <1>1
    <3> HIDE DEF Was
    <3>3. QED
      BY <1>2, <3>1, <3>2 DEF Distinct
  <2>2. QED
    BY <1>2, <2>1 DEF Distinct
<1>4. \A k \in 1 .. Len(s) : next[s[k]] = IF k = Len(s) THEN NULL ELSE s[k + 1]
  BY <1>2 DEF Path
<1>5. payload_list = s[1] /\ s[1] # NULL
  BY <1>2, StepsNat DEF Path
<1>6. t = <<>> <=> Len(s) = 1
  BY <1>1, <1>2
<1>7. CASE n = 1
  <2>1. payload_list' = next[s[1]] /\ next' = [next EXCEPT ![s[1]] = NULL]
    BY <1>5, <1>7 DEF Remove
  <2>2. \A k \in 2 .. Len(s) : next'[s[k]] = IF k = Len(s) THEN NULL ELSE s[k + 1]
    <3> SUFFICES ASSUME NEW k \in 2 .. Len(s)
                 PROVE  next'[s[k]] = IF k = Len(s) THEN NULL ELSE s[k + 1]
      OBVIOUS
    <3>1. k \in 1 .. Len(s) /\ s[k] \in Payloads /\ s[k] # s[1]
      BY <1>2, Apart
    <3>2. next'[s[k]] = next[s[k]]
      BY <2>1, <3>1 DEF ListTypeOK
    <3>3. QED
      BY <1>4, <3>1, <3>2
  <2>3. \A j \in 1 .. Len(s) - 1 : t[j] = s[j + 1]
    BY <1>1, <1>7
  <2>4. payload_list' = IF t = <<>> THEN NULL ELSE t[1]
    <3>1. next[s[1]] = IF Len(s) = 1 THEN NULL ELSE s[2]
      <4>1. 1 \in 1 .. Len(s) /\ 1 + 1 = 2
        BY <1>0
      <4>2. QED
        BY <1>4, <4>1
    <3>2. Len(s) # 1 => t[1] = s[2]
      BY <1>2, <2>3
    <3>3. QED
      BY <1>6, <2>1, <3>1, <3>2
  <2>5. \A j \in DOMAIN t : next'[t[j]] = IF j = Len(t) THEN NULL ELSE t[j + 1]
    BY <1>1, <1>2, <2>2, <2>3
  <2>6. QED
    BY <1>1, <1>3, <2>4, <2>5 DEF t, Path
<1>8. CASE n # 1
  <2>0. n - 1 \in 1 .. Len(s) /\ n - 1 # Len(s) /\ (n - 1) + 1 = n /\ 1 \in 1 .. Len(s)
    BY <1>2, <1>8
  <2>1. s[n - 1] \in Listed /\ next[s[n - 1]] = s[n] /\ s[n] # payload_list
    <3>1. s[n - 1] \in Listed
      BY <1>2, <2>0 DEF Listed
    <3>2. next[s[n - 1]] = s[n]
      BY <1>4, <2>0
    <3>3. s[n] # s[1]
      BY <1>8, <2>0, Apart
    <3>4. QED
      BY <1>5, <3>1, <3>2, <3>3
  <2>2. \A c \in Listed : next[c] = s[n] => c = s[n - 1]
    <3> SUFFICES ASSUME NEW k \in 1 .. Len(s), next[s[k]] = s[n] PROVE k = n - 1
      BY <1>2 DEF Listed
    <3>1. k # Len(s) /\ s[k + 1] = s[n]
      BY <1>2, <1>4, StepsNat
    <3>2. k + 1 \in 1 .. Len(s)
      <4>1. k # Len(s)
        BY <3>1
      <4>2. QED
        BY <1>0, <4>1
    <3>3. k + 1 = n
      BY <3>1, <3>2, Apart
    <3>4. QED
      BY <3>3
  <2>3. (CHOOSE c \in Listed : next[c] = s[n]) = s[n - 1]
    BY <2>1, <2>2
  <2>4. /\ payload_list' = payload_list
        /\ next' = [next EXCEPT ![s[n - 1]] = next[s[n]], ![s[n]] = NULL]
    BY <2>1, <2>3 DEF Remove
  <2>5. n - 1 \in 1 .. Len(s) /\ s[n - 1] \in Payloads /\ s[n] \in Payloads /\ s[n - 1] # s[n]
    BY <1>2, <1>8, Apart
  <2>6. /\ next'[s[n - 1]] = next[s[n]]
        /\ \A p \in Payloads : p # s[n - 1] /\ p # s[n] => next'[p] = next[p]
    BY <2>4, <2>5 DEF ListTypeOK
  <2>7. ASSUME NEW k \in 1 .. Len(s), k # n - 1, k # n
        PROVE  next'[s[k]] = IF k = Len(s) THEN NULL ELSE s[k + 1]
    <3>1. s[k] \in Payloads /\ s[k] # s[n - 1] /\ s[k] # s[n]
      BY <1>2, <2>5, <2>7, Apart
    <3>2. QED
      BY <1>4, <2>6, <3>1
  <2>8. next'[s[n - 1]] = IF n = Len(s) THEN NULL ELSE s[n + 1]
    BY <1>4, <2>6
  <2>9. ASSUME NEW j \in 1 .. Len(s) - 1
        PROVE  next'[t[j]] = IF j = Len(s) - 1 THEN NULL ELSE t[j + 1]
    <3>1. CASE j < n - 1
      <4>1. t[j] = s[j] /\ t[j + 1] = s[j + 1] /\ j # Len(s) - 1
        BY <1>1, <1>2, <3>1
      <4>2. j \in 1 .. Len(s) /\ j # n - 1 /\ j # n /\ j # Len(s)
        BY <1>0, <3>1
      <4>3. next'[s[j]] = s[j + 1]
        BY <2>7, <4>2
      <4>4. QED
        BY <4>1, <4>3
    <3>2. CASE j = n - 1
      <4>1. t[j] = s[n - 1] /\ (j # Len(s) - 1 => t[j + 1] = s[n + 1])
        BY <1>1, <1>2, <3>2
      <4>2. j = Len(s) - 1 <=> n = Len(s)
        BY <1>0, <3>2
      <4>3. QED
        BY <1>2, <2>8, <3>2, <4>1, <4>2
    <3>3. CASE j > n - 1
      <4>1. t[j] = s[j + 1] /\ (j # Len(s) - 1 => t[j + 1] = s[j + 2])
        BY <1>1, <1>2, <3>3
      <4>2. next'[s[j + 1]] = IF j + 1 = Len(s) THEN NULL ELSE s[j + 2]
        <5>1. j + 1 \in 1 .. Len(s) /\ j + 1 # n - 1 /\ j + 1 # n /\ (j + 1) + 1 = j + 2
          BY <1>2, <3>3
        <5>2. QED
          BY <2>7, <5>1
      <4>3. j + 1 = Len(s) <=> j = Len(s) - 1
        BY <1>2
      <4>4. QED
        BY <4>1, <4>2, <4>3
    <3>4. QED
      BY <3>1, <3>2, <3>3
  <2>10. t # <<>> /\ t[1] = s[1]
    BY <1>1, <1>2, <1>6, <1>8
  <2>11. Path(t)'
    BY <1>1, <1>2, <1>5, <2>4, <2>9, <2>10 DEF Path
  <2>12. QED
    BY <1>1, <1>3, <2>11 DEF t
<1>9. QED
  BY <1>7, <1>8

(* Every addition keeps the invariant, and is one of the registry's steps or  *)
(* cuts off what is behind a listed handle that is added again.               *)
LEMMA AddStep ==
  ASSUME ListInv, NEW pl \in Payloads, Add(pl), call' = <<"add", pl>>
  PROVE  ListInv' /\ (Registry!Next \/ CutsTail)
<1>1. ListTypeOK'
  <2>1. payload_list' \in Payloads \cup {NULL} /\ next' \in [Payloads -> Payloads \cup {NULL}]
    BY DEF Add, ListInv, ListTypeOK
  <2>2. QED
    BY <2>1 DEF ListTypeOK
<1>2. PICK s \in Seq(Payloads) : s = Walk
  BY DEF ListInv
<1>3. Path(s) /\ Distinct(s) /\ ListTypeOK
  BY <1>2 DEF ListInv
<1>4. Listed = {s[k] : k \in 1 .. Len(s)} /\ DOMAIN s = 1 .. Len(s)
  BY <1>2 DEF Listed
<1>5. CASE \A q \in Listed : ~Clash(pl, q)
  <2>1. Walk' = Append(s, pl) /\ ListInv'
    <3> DEFINE t == Append(s, pl)
    <3>1. t \in Seq(Payloads) /\ Path(t)' /\ Distinct(t)
      BY <1>2, <1>3, <1>5, AddsAtEnd
    <3> HIDE DEF t
    <3>2. Walk' = t /\ (Walk \in Seq(Payloads) /\ Path(Walk) /\ Distinct(Walk))'
      BY <3>1, Reached
    <3>3. QED
      BY <1>1, <3>2 DEF ListInv, t
  <2>2. \A k \in DOMAIN s : pl # s[k] /\ ~Registry!Clash(pl, s[k])
    BY <1>4, <1>5 DEF Clash, Registry!Clash
  <2>3. Registry!Add(pl)
    BY <1>2, <2>1, <2>2 DEF Registry!Add
  <2>4. QED
    BY <2>1, <2>3 DEF Registry!Next
<1>6. CASE pl \in Listed
  <2>1. PICK n \in 1 .. Len(s) : pl = s[n]
    BY <1>4, <1>6
  <2>2. Walk' = SubSeq(s, 1, n) /\ ListInv'
    <3> DEFINE t == SubSeq(s, 1, n)
    <3>1. t \in Seq(Payloads) /\ Path(t)' /\ Distinct(t)
      BY <1>2, <1>3, <2>1, AddCuts
    <3> HIDE DEF t
    <3>2. Walk' = t /\ (Walk \in Seq(Payloads) /\ Path(Walk) /\ Distinct(Walk))'
      BY <3>1, Reached
    <3>3. QED
      BY <1>1, <3>2 DEF ListInv, t
  <2>3. ASSUME n = Len(s) PROVE Registry!Next
    <3>2. Walk' = s
      BY <1>2, <2>2, <2>3
    <3>3. Registry!Clash(pl, s[n])
      BY <2>1 DEF Registry!Clash
    <3>4. Registry!Add(pl)
      BY <1>2, <2>1, <3>2, <3>3 DEF Registry!Add
    <3>5. QED
      BY <3>4 DEF Registry!Next
  <2>4. ASSUME n # Len(s) PROVE CutsTail
    <3>1. n \in 1 .. Len(s) - 1
      BY <1>2, <2>1, <2>4
    <3>2. QED
      BY <1>2, <2>1, <2>2, <3>1 DEF CutsTail
  <2>5. QED
    BY <2>2, <2>3, <2>4
<1>7. CASE pl \notin Listed /\ \E q \in Listed : Clash(pl, q)
  <2>1. Walk' = s /\ ListInv'
    <3>1. Path(s)'
      BY <1>2, <1>3, <1>7, AddRefused
    <3>2. Walk' = s /\ (Walk \in Seq(Payloads) /\ Path(Walk) /\ Distinct(Walk))'
      BY <1>3, <3>1, Reached
    <3>3. QED
      BY <1>1, <3>2 DEF ListInv
  <2>2. PICK n \in DOMAIN s : Registry!Clash(pl, s[n])
    BY <1>4, <1>7 DEF Clash, Registry!Clash
  <2>3. Registry!Add(pl)
    BY <1>2, <2>1, <2>2 DEF Registry!Add
  <2>4. QED
    BY <2>1, <2>3 DEF Registry!Next
<1>8. QED
  BY <1>5, <1>6, <1>7

(* So does every removal.                                                     *)
LEMMA RemoveStep ==
  ASSUME ListInv, NEW pl \in Payloads, Remove(pl), call' = <<"remove", pl>>
  PROVE  ListInv' /\ Registry!Next
<1>1. ListTypeOK'
  <2>1. payload_list' \in Payloads \cup {NULL} /\ next' \in [Payloads -> Payloads \cup {NULL}]
    BY DEF Remove, ListInv, ListTypeOK, list
  <2>2. QED
    BY <2>1 DEF ListTypeOK
<1>2. PICK s \in Seq(Payloads) : s = Walk
  BY DEF ListInv
<1>3. Path(s) /\ Distinct(s) /\ ListTypeOK
  BY <1>2 DEF ListInv
<1>4. Listed = {s[k] : k \in 1 .. Len(s)} /\ DOMAIN s = 1 .. Len(s)
  BY <1>2 DEF Listed
<1>5. CASE pl \in Listed
  <2>1. PICK n \in 1 .. Len(s) : pl = s[n]
    BY <1>4, <1>5
  <2>2. Walk' = SubSeq(s, 1, n - 1) \o SubSeq(s, n + 1, Len(s)) /\ ListInv'
    <3> DEFINE t == SubSeq(s, 1, n - 1) \o SubSeq(s, n + 1, Len(s))
    <3>1. t \in Seq(Payloads) /\ Path(t)' /\ Distinct(t)
      BY <1>2, <1>3, <2>1, RemoveUnlinks
    <3> HIDE DEF t
    <3>2. Walk' = t /\ (Walk \in Seq(Payloads) /\ Path(Walk) /\ Distinct(Walk))'
      BY <3>1, Reached
    <3>3. QED
      BY <1>1, <3>2 DEF ListInv, t
  <2>3. Registry!Remove(pl)
    BY <1>2, <1>4, <2>1, <2>2 DEF Registry!Remove
  <2>4. QED
    BY <2>2, <2>3 DEF Registry!Next
<1>6. CASE pl \notin Listed
  <2>1. \A k \in 1 .. Len(s) : s[k] # pl /\ next[s[k]] # pl
    <3> SUFFICES ASSUME NEW k \in 1 .. Len(s) PROVE s[k] # pl /\ next[s[k]] # pl
      OBVIOUS
    <3>1. next[s[k]] = IF k = Len(s) THEN NULL ELSE s[k + 1]
      BY <1>3, <1>4 DEF Path
    <3>2. k # Len(s) => k + 1 \in 1 .. Len(s)
      OBVIOUS
    <3>3. s[k + 1] # pl \/ k = Len(s)
      BY <1>4, <1>6, <3>2
    <3>4. QED
      BY <1>4, <1>6, <3>1, <3>3, StepsNat
  <2>2. pl # payload_list
    BY <1>3, <2>1, StepsNat DEF Path
  <2>3. ~ \E cur \in Listed : next[cur] = pl
    BY <1>4, <2>1
  <2>4. UNCHANGED list
    BY <2>2, <2>3 DEF Remove
  <2>5. Path(s)'
    BY <1>3, <2>4 DEF list, Path
  <2>6. Walk' = s /\ (Walk \in Seq(Payloads) /\ Path(Walk) /\ Distinct(Walk))'
    BY <1>3, <2>5, Reached
  <2>7. Registry!Remove(pl)
    BY <1>2, <1>4, <2>1, <2>6 DEF Registry!Remove, Registry!Member
  <2>8. QED
    BY <1>1, <2>6, <2>7 DEF ListInv, Registry!Next
<1>7. QED
  BY <1>5, <1>6

(* The empty list is the empty registry.                                      *)
LEMMA ListStarts == ListInit => ListInv /\ Registry!Init
<1> SUFFICES ASSUME ListInit PROVE ListInv /\ Registry!Init
  OBVIOUS
<1>1. ListTypeOK
  BY DEF ListInit, ListTypeOK
<1>2. <<>> \in Seq(Payloads) /\ Path(<<>>) /\ Distinct(<<>>)
  BY DEF ListInit, Path, Distinct
<1>3. Walk = <<>>
  BY <1>2, PathIsWalk
<1>4. QED
  BY <1>1, <1>2, <1>3 DEF ListInit, ListInv, Registry!Init

(* A walk after a step that changes nothing.                                  *)
LEMMA SameWalk == ASSUME ListInv, UNCHANGED listVars PROVE ListInv' /\ Walk' = Walk /\ call' = call
<1>1. PICK s \in Seq(Payloads) : s = Walk
  BY DEF ListInv
<1>2. Path(s)' /\ Distinct(s) /\ ListTypeOK' /\ call' = call
  BY <1>1 DEF ListInv, listVars, Path, ListTypeOK
<1>3. Walk' = s /\ (Walk \in Seq(Payloads) /\ Path(Walk) /\ Distinct(Walk))'
  BY <1>2, Reached
<1>4. QED
  BY <1>1, <1>2, <1>3 DEF ListInv

(* Every call keeps the invariant.                                            *)
LEMMA ListSteps == ListInv /\ [ListNext]_listVars => ListInv'
BY AddStep, RemoveStep, SameWalk DEF ListNext

(* A step of the list is a step of the registry, or none, or such a cut.      *)
LEMMA RegistrySteps ==
  ListInv /\ [ListNext]_listVars => [Registry!Next \/ CutsTail]_<<Walk, call>>
BY AddStep, RemoveStep, SameWalk DEF ListNext

(* The links always form one path from the head, of handles that do not       *)
(* clash, and a walk meets all of it.                                         *)
THEOREM ListInvariance == ListSpec => []ListInv
<1>1. QED
  BY ListStarts, ListSteps, PTL DEF ListSpec

(* Every variable of the list keeps its type.                                 *)
THEOREM ListTyped == ListSpec => []ListTypeOK
<1>1. ListInv => ListTypeOK
  BY DEF ListInv
<1>2. QED
  BY <1>1, ListInvariance, PTL

(* The linked list is a registry step by step, whatever the order of          *)
(* additions and removals: the handles met on a walk are those it keeps, in   *)
(* the order of their addition.  The one step that is not the registry's is   *)
(* an addition of a listed handle again, which cuts off those behind it.      *)
THEOREM ListIsRegistry == ListSpec => ImplementsRegistry
<1>1. ListInit => Registry!Init
  BY ListStarts
<1>2. QED
  BY <1>1, ListInvariance, RegistrySteps, PTL DEF ListSpec, ImplementsRegistry

(* While no addition cuts the list, it implements the registry.               *)
THEOREM UncutIsRegistry == ListSpec /\ [][~CutsTail]_<<Walk, call>> => Registry!Spec
<1>1. [Registry!Next \/ CutsTail]_<<Walk, call>> /\ [~CutsTail]_<<Walk, call>>
        => [Registry!Next]_<<Walk, call>>
  OBVIOUS
<1>2. QED
  BY <1>1, ListIsRegistry, PTL DEF ImplementsRegistry, Registry!Spec

(* Whatever was added and removed, a listed payload is found by its name and  *)
(* by its id.                                                                 *)
THEOREM ListedAreFound == ListSpec => []LookupFindsListed
<1>1. ListInv => LookupFindsListed
  <2> SUFFICES ASSUME ListInv, NEW p \in Listed
               PROVE  GetByName(Name[p]) = p /\ GetById(Id[p]) = p
    BY DEF LookupFindsListed
  <2>1. PICK s \in Seq(Payloads) : s = Walk
    BY DEF ListInv
  <2>2. PICK n \in DOMAIN s : p = s[n]
    BY <2>1 DEF Listed
  <2>3. \A k \in DOMAIN s : k # n => Name[s[k]] # Name[p] /\ Id[s[k]] # Id[p]
    BY <2>1, <2>2 DEF ListInv, Distinct, Clash
  <2>4. \A j \in 1 .. n - 1 : j \in DOMAIN s /\ j # n
    BY <2>2
  <2>5. GetByName(Name[p]) = p
    <3>1. \A k : k \in DOMAIN s /\ Name[s[k]] = Name[p]
                  /\ (\A j \in 1 .. k - 1 : Name[s[j]] # Name[p]) <=> k = n
      BY <2>2, <2>3, <2>4
    <3>2. (CHOOSE k \in DOMAIN s : Name[s[k]] = Name[p]
                    /\ \A j \in 1 .. k - 1 : ~(Name[s[j]] = Name[p])) = n
      BY <3>1
    <3>3. QED
      BY <2>1, <2>2, <3>2 DEF GetByName, FirstWhere
  <2>6. GetById(Id[p]) = p
    <3>1. \A k : k \in DOMAIN s /\ Id[s[k]] = Id[p]
                  /\ (\A j \in 1 .. k - 1 : Id[s[j]] # Id[p]) <=> k = n
      BY <2>2, <2>3, <2>4
    <3>2. (CHOOSE k \in DOMAIN s : Id[s[k]] = Id[p]
                    /\ \A j \in 1 .. k - 1 : ~(Id[s[j]] = Id[p])) = n
      BY <3>1
    <3>3. QED
      BY <2>1, <2>2, <3>2 DEF GetById, FirstWhere
  <2>7. QED
    BY <2>5, <2>6
<1>2. QED
  BY <1>1, ListInvariance, PTL
================================================================================
