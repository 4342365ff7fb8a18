------------------------------ MODULE Metrics -------------------------------
(***************************************************************************)
(* MetricRegistry, its families of counters, gauges and histograms, and    *)
(* PrometheusExporter::Render. Every operation on a cell, a family or the  *)
(* registry is atomic or under a mutex of its own; a rendering takes many, *)
(* with the program's threads between them.                                *)
(***************************************************************************)
EXTENDS Integers, Sequences, FiniteSets, SequencesExt, Functions

CONSTANTS
  Names, Kinds,  \* numbers for names, in their order; the kinds, in the order of Render
  Keys,          \* values for labels: sequences of numbers
  Bounds,        \* what Histogram may be given; upper_bounds are strictly ascending
  Default,       \* the bounds of a histogram that was given none
  Amounts,       \* added, set and observed
  Precision,     \* the digits of a double that are written: the stream's default
  MaxOperations  \* bound: operations of the program

VARIABLES
  families, \* of a kind and a name: the number of label names, and the bounds
  cells,    \* of a kind, a name and label values: the value, or the histogram
  seen,     \* history of each cell: what was observed, or the values it had
  operations,
  render    \* the rendering: what is left to do, the text, and the cells at its start
vars == <<families, cells, seen, operations, render>>

Extended(f, key, value) == [k \in DOMAIN f \cup {key} |-> IF k = key THEN value ELSE f[k]]
Operation == operations < MaxOperations /\ operations' = operations + 1 /\ UNCHANGED render

-----------------------------------------------------------------------------
(* MetricRegistry::Counter, Gauge, Histogram and Family::Labels: what is not *)
(* there is made, and what is there stays as it was.                         *)

Family(kind, name, labels, bounds) ==
  /\ Operation
  /\ families' = IF <<kind, name>> \in DOMAIN families THEN families
                 ELSE Extended(families, <<kind, name>>,
                               [labels |-> labels, bounds |-> IF bounds = <<>> THEN Default ELSE bounds])
  /\ UNCHANGED <<cells, seen>>

\* Histogram::Histogram; one bucket more is for all.
Empty(bounds) == [counts |-> [i \in 1..Len(bounds) + 1 |-> 0], count |-> 0, sum |-> 0]

Labels(kind, name, values) ==
  LET cell == <<kind, name, values>>
  IN /\ Operation /\ <<kind, name>> \in DOMAIN families
     /\ IF cell \in DOMAIN cells THEN UNCHANGED <<cells, seen>>
        ELSE /\ cells' = Extended(cells, cell,
                          IF kind = "histogram" THEN Empty(families[kind, name].bounds) ELSE 0)
             /\ seen' = Extended(seen, cell, IF kind = "histogram" THEN <<>> ELSE <<0>>)
     /\ UNCHANGED families

\* Counter::Inc; Gauge::Set, Inc and Dec
Become(cell, value) ==
  /\ Operation /\ cells' = [cells EXCEPT ![cell] = value]
  /\ seen' = [seen EXCEPT ![cell] = Append(@, value)] /\ UNCHANGED families
Inc(cell, by) == cell[1] = "counter" /\ Become(cell, cells[cell] + by)
Set(cell, value) == cell[1] = "gauge" /\ Become(cell, value)
Add(cell, by) == cell[1] = "gauge" /\ Become(cell, cells[cell] + by)

\* Observe counts a value in the bucket of the first bound that is not below it, and in
\* all after that.
Counted_Below(counts, bounds, value) ==
  [i \in DOMAIN counts |-> counts[i] + (IF i > Len(bounds) \/ value < bounds[i] THEN 1 ELSE 0)]
Counted(counts, bounds, value) ==
  [i \in DOMAIN counts |-> counts[i] + (IF i > Len(bounds) \/ value <= bounds[i] THEN 1 ELSE 0)]

Observe(cell, value) ==
  LET bounds == families[cell[1], cell[2]].bounds
  IN /\ cell[1] = "histogram" /\ Operation
     /\ cells' = [cells EXCEPT ![cell] =
                    [counts |-> Counted(@.counts, bounds, value), count |-> @.count + 1,
                     sum |-> @.sum + value]]
     /\ seen' = [seen EXCEPT ![cell] = Append(@, value)] /\ UNCHANGED families

-----------------------------------------------------------------------------
(* PrometheusExporter::Render *)

\* The line of a cell names as many of its values as its family has labels.
Named(cell) ==
  LET n == families[cell[1], cell[2]].labels
  IN SubSeq(cell[3], 1, IF n < Len(cell[3]) THEN n ELSE Len(cell[3]))
Line(cell, what, le, value) ==
  [name |-> cell[2], what |-> what, labels |-> Named(cell), le |-> le, value |-> value]

\* FormatDouble, and the stream's operator that writes a sum: a double is rounded to
\* Precision digits, half to even. The unit is what the last of these digits counts.
Unit[n \in Nat] == IF n < 10^Precision THEN 1 ELSE 10 * Unit[n \div 10]
Rounded(n) ==
  LET u == Unit[n]  q == n \div u  r == n % u
  IN u * (IF 2 * r > u \/ (2 * r = u /\ q % 2 = 1) THEN q + 1 ELSE q)
FormatDouble(n) == IF n < 0 THEN -Rounded(-n) ELSE Rounded(n)

\* Snap, under the histogram's mutex
Snap(cell) ==
  LET h == cells[cell]
      bounds == families[cell[1], cell[2]].bounds
  IN [i \in 1..Len(h.counts) |->
        Line(cell, "bucket", IF i > Len(bounds) THEN <<>> ELSE <<FormatDouble(bounds[i])>>,
             h.counts[i])]
     \o <<Line(cell, "sum", <<>>, FormatDouble(h.sum)), Line(cell, "count", <<>>, h.count)>>

LinesOf(cell) == IF cell[1] = "histogram" THEN Snap(cell)
               ELSE <<Line(cell, "value", <<>>, cells[cell])>>

Rests ==
  [on |-> FALSE, kinds |-> <<>>, families |-> <<>>, cells |-> <<>>, text |-> <<>>, before |-> <<>>]

Begin ==
  /\ ~render.on /\ render' = [Rests EXCEPT !.on = TRUE, !.kinds = Kinds, !.before = cells]
  /\ UNCHANGED <<families, cells, seen, operations>>

\* Counters, Gauges and Histograms list the families by their names, ...
ListFamilies ==
  /\ render.cells = <<>> /\ render.families = <<>> /\ render.kinds # <<>>
  /\ LET kind == Head(render.kinds)
         there == {f \in DOMAIN families : f[1] = kind}
     IN render' = [render EXCEPT !.kinds = Tail(@),
                                 !.families = SetToSortSeq(there, LAMBDA f, g : f[2] < g[2])]
  /\ UNCHANGED <<families, cells, seen, operations>>

\* ... All lists the cells of a family, by their values, ...
Earlier(c, d) ==
  \/ IsStrictPrefix(c[3], d[3])
  \/ \E i \in DOMAIN c[3] \cap DOMAIN d[3] :
       SubSeq(c[3], 1, i - 1) = SubSeq(d[3], 1, i - 1) /\ c[3][i] < d[3][i]
ListCells ==
  /\ render.cells = <<>> /\ render.families # <<>>
  /\ LET f == Head(render.families)
         there == {c \in DOMAIN cells : c[1] = f[1] /\ c[2] = f[2]}
     IN render' = [render EXCEPT !.families = Tail(@), !.cells = SetToSortSeq(there, Earlier)]
  /\ UNCHANGED <<families, cells, seen, operations>>

\* ... and each of them is read.
Read ==
  /\ render.cells # <<>>
  /\ render' = [render EXCEPT !.cells = Tail(@), !.text = @ \o LinesOf(Head(render.cells))]
  /\ UNCHANGED <<families, cells, seen, operations>>

Written ==
  render.on /\ render.kinds = <<>> /\ render.families = <<>> /\ render.cells = <<>>
Return ==
  /\ Written /\ render' = Rests
  /\ UNCHANGED <<families, cells, seen, operations>>

-----------------------------------------------------------------------------
(* EscapeLabelValue and WriteLabels, in characters *)

EscapeLabelValue(value) ==
  FlattenSeq([i \in DOMAIN value |->
    CASE value[i] = "newline" -> <<"\\", "n">>
      [] value[i] \in {"\\", "\""} -> <<"\\", value[i]>>
      [] OTHER -> <<value[i]>>])

WriteLabels(names, values) ==
  LET Pair(i) == (IF i = 1 THEN <<>> ELSE <<",">>) \o <<names[i], "=", "\"">>
                 \o EscapeLabelValue(values[i]) \o <<"\"">>
      n == IF Len(names) < Len(values) THEN Len(names) ELSE Len(values)
  IN IF names = <<>> THEN <<>> ELSE <<"{">> \o FlattenSeq([i \in 1..n |-> Pair(i)]) \o <<"}">>

-----------------------------------------------------------------------------
Init ==
  /\ families = <<>> /\ cells = <<>> /\ seen = <<>> /\ operations = 0 /\ render = Rests

Uses ==
  \/ \E kind \in Range(Kinds), name \in Names :
       \/ \E labels \in 0..1, bounds \in Bounds :
            (kind = "histogram" \/ bounds = <<>>) /\ Family(kind, name, labels, bounds)
       \/ \E values \in Keys : Labels(kind, name, values)
  \/ \E cell \in DOMAIN cells, x \in Amounts :
       Inc(cell, x) \/ Set(cell, x) \/ Add(cell, -x) \/ Observe(cell, x)
Next == Uses \/ Begin \/ ListFamilies \/ ListCells \/ Read \/ Return

-----------------------------------------------------------------------------
(* Properties *)

\* "bucket_counts_[i] is observations with value <= bounds_[i]", and the last is all.
Among(values, bound) == Cardinality({k \in DOMAIN values : values[k] <= bound})
Buckets ==
  \A cell \in {c \in DOMAIN cells : c[1] = "histogram"} :
    LET bounds == families[cell[1], cell[2]].bounds
    IN /\ \A i \in DOMAIN bounds : cells[cell].counts[i] = Among(seen[cell], bounds[i])
       /\ Last(cells[cell].counts) = Len(seen[cell]) /\ cells[cell].count = Len(seen[cell])

\* What is written was so at one moment of the rendering for every cell, though not at the
\* same one for all: a histogram agrees with itself. Bounds and sums are the nearest that
\* Precision digits can say; two near bounds may be written alike, on lines of their own.
LinesAbout(cell, what) ==
  SelectSeq(render.text,
            LAMBDA l : l.name = cell[2] /\ l.what = what /\ l.labels = Named(cell))
Writes(cell, what, values) == [i \in DOMAIN LinesAbout(cell, what) |-> LinesAbout(cell, what)[i].value] = values
Abs(n) == IF n < 0 THEN -n ELSE n
Near(written, n) == 2 * Abs(written - n) <= Unit[Abs(n)] /\ written % Unit[Abs(n)] = 0
Since(cell) == LET values == seen[cell] IN
  IF cell[1] = "histogram" THEN render.before[cell].count..Len(values) ELSE DOMAIN values
OneMoment(cell) ==
  \E k \in Since(cell) :
    IF cell[1] # "histogram" THEN Writes(cell, "value", <<seen[cell][k]>>)
    ELSE LET values == SubSeq(seen[cell], 1, k)
             bounds == families[cell[1], cell[2]].bounds
             buckets == LinesAbout(cell, "bucket")
         IN /\ Writes(cell, "count", <<k>>)
            /\ Writes(cell, "bucket",
                      Append([i \in DOMAIN bounds |-> Among(values, bounds[i])], k))
            /\ \A i \in DOMAIN bounds : Near(buckets[i].le[1], bounds[i])
            /\ LET sums == LinesAbout(cell, "sum")
               IN Len(sums) = 1 /\ Near(sums[1].value, FoldLeft(LAMBDA x, y : x + y, 0, values))

\* A cell is written once, if its name is of one kind and every cell of its family has a
\* value for each label.
Regular(name) ==
  /\ Cardinality({f \in DOMAIN families : f[2] = name}) = 1
  /\ \A c \in DOMAIN cells : c[2] = name => Len(c[3]) = families[c[1], c[2]].labels
Exported ==
  Written => \A cell \in DOMAIN render.before : Regular(cell[2]) => OneMoment(cell)

\* The reader of the text format finds the values again: a backslash takes the next
\* character, an n is a line's end, and a quotation mark ends a value.
ReadValue[text \in Seq(STRING)] ==
  IF text = <<>> \/ Head(text) \in {"\"", "newline"} THEN [value |-> <<>>, rest |-> text]
  ELSE LET escapes == Head(text) = "\\" /\ Len(text) > 1
           after == ReadValue[SubSeq(text, IF escapes THEN 3 ELSE 2, Len(text))]
           ch == IF ~escapes THEN Head(text) ELSE IF text[2] = "n" THEN "newline" ELSE text[2]
       IN [after EXCEPT !.value = <<ch>> \o @]
ReadLabels[text \in Seq(STRING)] ==
  IF Len(text) < 5 THEN <<>>
  ELSE LET first == ReadValue[SubSeq(text, 5, Len(text))]
       IN <<<<text[2], first.value>>>> \o ReadLabels[Tail(first.rest)]
LabelsReadBack(names, values) ==
  ReadLabels[WriteLabels(names, values)] = [i \in DOMAIN values |-> <<names[i], values[i]>>]

Safe == Buckets /\ Exported
=============================================================================
