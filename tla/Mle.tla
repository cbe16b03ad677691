-------------------------------- MODULE Mle --------------------------------
(***************************************************************************)
(* The oracles a sumcheck is proved about (crates/oracle-layer): the       *)
(* multilinear extension of a column, several columns folded into one by   *)
(* a challenge, and the evaluations of a constraint over a trace.          *)
(***************************************************************************)
EXTENDS Field

Bit(idx, i) == (idx \div 2^i) % 2

\* The corner of the hypercube with a number, the low bit first.
Corner(idx, n) == [i \in 1 .. n |-> Bit(idx, i - 1)]

Basis(idx, point) ==
  Product([i \in DOMAIN point |-> IF Bit(idx, i - 1) = 1 THEN point[i]
                                  ELSE Minus(1, point[i])])

EvaluateMle(values, point) ==
  Total([k \in DOMAIN values |-> Times(values[k], Basis(k - 1, point))])

Fold(columns, alpha) ==
  [k \in DOMAIN columns[1] |->
     Total([j \in DOMAIN columns |-> Times(Power(alpha, j - 1), columns[j][k])])]

BindPrefix(values, prefix) ==
  LET remaining == Log2(Len(values)) - Len(prefix)
  IN [k \in 1 .. 2^remaining |-> EvaluateMle(values, prefix \o Corner(k - 1, remaining))]

-----------------------------------------------------------------------------
\* The constraints of a last-writer-wins register, over one row of a trace.

Rows(values, selectors) ==
  [v_curr : values, ts_curr : values, v_event : values, ts_event : values,
   v_next : values, ts_next : values, s : selectors]

Select(s, next, event, curr) ==
  Plus(Times(s, Minus(next, event)), Times(Minus(1, s), Minus(next, curr)))

LwwBooleanity(row) == Times(row.s, Minus(1, row.s))
LwwValue(row) == Select(row.s, row.v_next, row.v_event, row.v_curr)

\* Mutant of LwwTimestamp: a new timestamp is compared with the new value.
LwwTimestampOfValue(row) == Select(row.s, row.ts_next, row.v_event, row.ts_curr)

LwwTimestamp(row) == Select(row.s, row.ts_next, row.ts_event, row.ts_curr)

LwwConstraints(row) == <<LwwBooleanity(row), LwwValue(row), LwwTimestamp(row)>>

Composite(row) ==
  LET c == LwwConstraints(row)
  IN Total([i \in DOMAIN c |-> Times(c[i], c[i])])

ConstraintEvals(trace) == [k \in DOMAIN trace |-> Composite(trace[k])]

\* What the constraints mean: the register takes the event or keeps its
\* value, and the selector says which.  The number of parts that are broken.
Broken(row) ==
  LET from == IF row.s = 1 THEN <<row.v_event, row.ts_event>>
              ELSE <<row.v_curr, row.ts_curr>>
  IN {part \in {"value", "timestamp", "selector"} :
        CASE part = "value" -> row.v_next # from[1]
          [] part = "timestamp" -> row.ts_next # from[2]
          [] part = "selector" -> row.s \notin {0, 1}}
=============================================================================
