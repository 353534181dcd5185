---------------------------- MODULE MetricAlign ----------------------------
(***************************************************************************)
(* How updateData of cmd/metric_display.go puts the series of an answer    *)
(* into the columns of one plot.  A series is the sequence of the times at *)
(* which it has a value, and a value is named by its time.  The columns    *)
(* are those of the longest series; a shorter one is moved to the column   *)
(* of its first time.                                                      *)
(***************************************************************************)
EXTENDS Integers, SequencesExt

CONSTANT MaxSeries   \* len(colors)

ASSUME ColorsAssumption == MaxSeries \in Nat \ {0}

NoValue == 0   \* a column that the series leaves as it was made

\* "avoid color indexing crash".
Colored(matrix) ==
  IF Len(matrix) > MaxSeries THEN SubSeq(matrix, 1, MaxSeries) ELSE matrix

\* One series of the loop that collects maxValuesLen and timestamps: if it is longer
\* than those before it, its times come after theirs.
Collect(seen, series) ==
  IF Len(series) > seen.max
  THEN [max |-> Len(series), times |-> seen.times \o series]
  ELSE seen

\* What is collected after each series.
Scan(matrix) ==
  LET seen[k \in 0..Len(matrix)] ==
        IF k = 0 THEN [max |-> 0, times |-> <<>>] ELSE Collect(seen[k - 1], matrix[k])
  IN  seen[Len(matrix)]

\* A mistake to catch: the time itself does not match, only a later one.
StartAfter(series, times) ==
  LET later == { j \in DOMAIN times : times[j] > series[1] }
  IN  IF later = {} THEN 0 ELSE Min(later) - 1

\* Columns before the series: those before the first time that is not too early.
Start(series, times) ==
  LET later == { j \in DOMAIN times : times[j] >= series[1] }
  IN  IF later = {} THEN 0 ELSE Min(later) - 1

\* Shorter, and no column found: the loop over the series ends here.
EndsLoop(series, seen) == Len(series) < seen.max /\ Start(series, seen.times) = 0

\* A mistake to catch: shorter series start at the first column as well.
ColumnsFromFirst(series, seen) ==
  [c \in 1..seen.max |-> IF c \in DOMAIN series THEN series[c] ELSE NoValue]

Columns(series, seen) ==
  LET start == IF Len(series) < seen.max THEN Start(series, seen.times) ELSE 0
  IN  [c \in 1..seen.max |->
         IF c - start \in DOMAIN series THEN series[c - start] ELSE NoValue]

\* graphs[index].Data: what is drawn of each series, <<>> (nil) for none.
Data(answer) ==
  LET matrix == Colored(answer)
      seen   == Scan(matrix)
  IN  [i \in DOMAIN matrix |->
         IF \E k \in 1..i : EndsLoop(matrix[k], seen)
         THEN <<>>
         ELSE Columns(matrix[i], seen)]

-----------------------------------------------------------------------------

HasNoGap(series) == \A i \in 1..(Len(series) - 1) : series[i + 1] = series[i] + 1

\* Series without gaps are drawn on one time axis, or not at all (if the first is not
\* the longest, its own first time ends the loop): in each column a shorter series has
\* its value of the time that the first series has there, if it has one.
SharesAxis(answer) ==
  LET data == Data(answer) IN
  (\A i \in DOMAIN answer : HasNoGap(answer[i])) =>
    \A i \in DOMAIN data : \A c \in DOMAIN data[i] :
      Len(answer[i]) < Len(data[i]) =>
        data[i][c] = IF data[1][c] \in Range(answer[i]) THEN data[1][c] ELSE NoValue
=============================================================================
