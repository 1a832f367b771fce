------------------------------- MODULE PosDet -------------------------------
(***************************************************************************)
(* The position determination thread (src/src/threads/pos_det.c) and the   *)
(* part of libpredict it drives: the fields of a two-line element set are  *)
(* parsed one after the other into a record that nobody initialised        *)
(* (predict_parse_tle), the period selects one of two prediction models,   *)
(* and each pass predicts from the time elapsed since the epoch of the     *)
(* elements (predict_orbit) and publishes whether the satellite is         *)
(* eclipsed.  Dates are whole days and the models of the orbit are outside *)
(* of this specification: what is checked is which elements, which model   *)
(* and which time they are given.                                          *)
(***************************************************************************)
EXTENDS Integers, Sequences, Functions

CONSTANTS
  Years,    \* years of the epoch and of the clock, 1957 to 2056
  Periods,  \* orbital periods, in minutes
  Margins   \* the days that predict_decayed gives an orbit

ASSUME PosDetConstants == Years \subseteq 1957 .. 2056 /\ Periods \subseteq Nat

VARIABLES
  line,     \* the element set: its unreadable fields, its epoch, its period and margin
  elements, \* what each field of the record holds
  parsing,  \* the fields that predict_parse_tle has still to read
  sat,      \* what predict_parse_tle returned
  ready,    \* the models it initialised
  model,    \* the model named by the record
  now,      \* the day the clock shows
  orbit,    \* the last prediction: elapsed minutes, model, decayed
  eclipsed  \* ctx->cond.eclipsed

posVars == <<line, elements, parsing, sat, ready, model, now, orbit, eclipsed>>

\* The numbers predict_parse_tle reads, in its order.
Fields ==
  <<"satellite_number", "element_number", "epoch_year", "epoch_day", "inclination",
    "right_ascension", "eccentricity", "argument_of_perigee", "mean_anomaly", "mean_motion",
    "derivative_mean_motion", "second_derivative_mean_motion", "bstar_drag_term",
    "revolutions_at_epoch">>

\* Those that predict_orbit and the models read.
Used == Range(Fields) \ {"satellite_number", "element_number", "second_derivative_mean_motion"}

-----------------------------------------------------------------------------
\* The calendar, and the days in which it is looked at.
DaysIn(y) == IF y % 4 = 0 /\ (y % 100 # 0 \/ y % 400 = 0) THEN 366 ELSE 365

\* The days from 1970-01-01 to the first of January.
NewYear[y \in 1957 .. 2056] == IF y = 1957 THEN -4748 ELSE NewYear[y - 1] + DaysIn(y - 1)
Dates == UNION {{[year |-> y, doy |-> d] : d \in {1, 60, DaysIn(y)}} : y \in Years}
DayOf(date) == NewYear[date.year] + date.doy - 1

\* Mutation: the next century begins a year late.
FullYear_Pivot(yy) == IF yy < 56 THEN yy + 2000 ELSE yy + 1900

\* Julian_Date_of_Epoch: the year behind the two digits.
FullYear(yy) == IF yy < 57 THEN yy + 2000 ELSE yy + 1900

\* Julian_Date_of_Year, twice, so that it is an integer: the date of January 0.0.
JulianDateOfYear(year) ==
  LET y == year - 1
      a == y \div 100
      b == 2 - a + a \div 4
  IN 2 * ((1461 * y) \div 4 + 428 + b) + 3441989

\* julian_from_timestamp, twice, at midnight.
JulianOfDay(day) == 2 * day + 4881175

\* DayNum, for a two-digit year.  (month is m shifted by a year, but m is what is
\* multiplied by 30: the result is 360 days short in January and February.)
DayNum(m, d, y) ==
  LET month == IF m < 3 THEN m + 12 ELSE m
      shifted == IF m < 3 THEN y - 1 ELSE y
      yy == IF shifted < 57 THEN shifted + 100 ELSE shifted
  IN (1461 * (yy - 80)) \div 4 - (19 + yy \div 100) + (1900 + yy) \div 400 - 16
       + d + 30 * m + (6 * month - 3) \div 10

\* predict_decayed: DayNum counts from 1979, the time is a Julian date.
Decayed(epoch, margin, time) ==
  2 * (DayNum(1, 0, epoch.year % 100) + epoch.doy + margin) < time

-----------------------------------------------------------------------------
RecordOK ==
  /\ line.bad \subseteq Range(Fields) /\ line.epoch \in Dates
  /\ elements \in [Range(Fields) -> {"undefined", "line", "zero"}]
  /\ parsing \in 1 .. Len(Fields) + 1
  /\ sat \in {"parsing", "null", "set"}
  /\ ready \subseteq {"sgp4", "sdp4"} /\ model \in {"undefined", "sgp4", "sdp4"}

PredictionOK ==
  /\ now \in Dates
  /\ orbit \in {<<>>} \cup [tsince : Int, model : {"sgp4", "sdp4"}, decayed : BOOLEAN]
  /\ eclipsed \in BOOLEAN

PosTypeOK == RecordOK /\ PredictionOK

\* At most one field of the lines cannot be read.
PosInit ==
  /\ line \in [bad : {{}} \cup {{f} : f \in Range(Fields)}, epoch : Dates, period : Periods,
               margin : Margins]
  /\ elements = [f \in Range(Fields) |-> "undefined"] /\ parsing = 1
  /\ sat = "parsing" /\ ready = {} /\ model = "undefined"
  /\ now = line.epoch /\ orbit = <<>> /\ eclipsed = FALSE

\* Mutation: the product with 1.0e-5, as the code has it in one field, in every field.
Stops_Never(f) == FALSE

\* A field that cannot be read ends the parsing, but for the second derivative: its
\* error code, -1, is multiplied by 1.0e-5 and becomes 0.
Stops(f) == f \in line.bad /\ f # "second_derivative_mean_motion"

\* parse_tle_field_i32, _i64, _f64: the field is written only when it was read; the second
\* derivative is then computed from the 0 that tempnum starts with.
ParseField ==
  LET f == Fields[parsing]
  IN /\ sat = "parsing" /\ parsing <= Len(Fields) /\ ~Stops(f)
     /\ elements' = [elements EXCEPT ![f] = IF f \notin line.bad THEN "line"
                                            ELSE IF f = "second_derivative_mean_motion" THEN "zero"
                                            ELSE @]
     /\ parsing' = parsing + 1
     /\ UNCHANGED <<line, sat, ready, model, now, orbit, eclipsed>>

ParseFails ==
  /\ sat = "parsing" /\ parsing <= Len(Fields) /\ Stops(Fields[parsing])
  /\ sat' = "null"
  /\ UNCHANGED <<line, elements, parsing, ready, model, now, orbit, eclipsed>>

\* A period of 0.15625 days, which is 225 minutes, or more is deep space (orbit.c:473
\* says "Period > 225 minutes").  The period that the code compares was corrected for
\* the oblateness of the Earth.
ModelFor(period) == IF period >= 225 THEN "sdp4" ELSE "sgp4"

\* sdp4_init, sgp4_init.
Initialised(m) == {m}

SelectModel ==
  /\ sat = "parsing" /\ parsing > Len(Fields)
  /\ sat' = "set"
  /\ model' = ModelFor(line.period) /\ ready' = Initialised(ModelFor(line.period))
  /\ UNCHANGED <<line, elements, parsing, now, orbit, eclipsed>>

\* is_eclipsed, with the angles of the Earth, of the Sun and between them.
IsEclipsed(earth, sun, delta) == earth >= sun /\ earth - sun - delta >= 0

\* One pass of the loop, at any later date: predict_orbit, and what it publishes.
Pass ==
  /\ sat = "set"
  /\ \E date \in Dates, earth, sun, delta \in 0 .. 1 :
       /\ DayOf(date) >= DayOf(now) /\ now' = date
       /\ orbit' =
            [tsince |-> 720 * (JulianOfDay(DayOf(date))
                               - JulianDateOfYear(FullYear(line.epoch.year % 100)) - 2 * line.epoch.doy),
             model |-> model,
             decayed |-> Decayed(line.epoch, line.margin, JulianOfDay(DayOf(date)))]
       /\ eclipsed' = IsEclipsed(earth, sun, delta)
  /\ UNCHANGED <<line, elements, parsing, sat, ready, model>>

\* A pass without elements: the failure is logged, and eclipsed stays what it was.
PassWithout ==
  /\ sat = "null"
  /\ \E date \in Dates : DayOf(date) >= DayOf(now) /\ now' = date
  /\ UNCHANGED <<line, elements, parsing, sat, ready, model, orbit, eclipsed>>

PosNext == ParseField \/ ParseFails \/ SelectModel \/ Pass \/ PassWithout

PosSpec == PosInit /\ [][PosNext]_posVars
-----------------------------------------------------------------------------
\* Every element that a prediction reads was read from the lines: the record is not
\* initialised, and one unreadable field must keep the thread from using any of it.
ElementsFromLines == orbit # <<>> => \A f \in Used : elements[f] = "line"

\* The time given to the model is what the calendar says has passed since the epoch, in
\* every year that two digits can name: the Julian date computed from the clock and the
\* one computed from the epoch's year and day have the same origin and the same leap years.
TsinceIsElapsed == orbit # <<>> => orbit.tsince = 1440 * (DayOf(now) - DayOf(line.epoch))
-----------------------------------------------------------------------------
(* The inductive invariant *)

\* The fields before parsing were read, the second derivative apart.
ParsedSoFar ==
  \A i \in DOMAIN Fields :
    i < parsing => elements[Fields[i]] = "line" \/ Fields[i] = "second_derivative_mean_motion"

\* What predict_parse_tle has settled when it returns the elements, and that only then
\* something was predicted, with the model of the record.
Settled ==
  /\ sat = "set" => /\ parsing > Len(Fields)
                    /\ model = ModelFor(line.period) /\ ready = {model}
  /\ orbit # <<>> => sat = "set" /\ orbit.model = model

PosInv == PosTypeOK /\ ParsedSoFar /\ Settled /\ TsinceIsElapsed
=============================================================================
