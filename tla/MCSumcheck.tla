----------------------------- MODULE MCSumcheck -----------------------------
(***************************************************************************)
(* Small jobs for Sumcheck: columns of lengths 0 to 4 (empty, different,   *)
(* no power of two, and oracles of no, one and two variables) and traces   *)
(* of one and two rows, over the field of three elements.                  *)
(***************************************************************************)
EXTENDS Sumcheck

Columns(c0, c1, a) == [kind |-> "columns", col0 |-> c0, col1 |-> c1, alpha |-> a]

MCRequests ==
  {Columns(<<>>, <<1>>, 1), Columns(<<1, 2>>, <<1>>, 1), Columns(<<1, 1, 1>>, <<0, 1, 2>>, 1),
   Columns(<<2>>, <<1>>, 2)}
  \cup {Columns(c, <<0, 2>>, a) : c \in {<<1, 0>>, <<2, 2>>}, a \in Elements}
  \cup {Columns(<<0, 1, 2, 2>>, <<1, 0, 0, 2>>, a) : a \in {0, 2}}

MCRow(v, ts, s) ==
  [v_curr |-> 0, ts_curr |-> 0, v_event |-> 1, ts_event |-> 2,
   v_next |-> v, ts_next |-> ts, s |-> s]

MCTraces ==
  LET rows == {MCRow(v, ts, s) : v \in Elements, ts \in Elements, s \in Elements}
      pairs == {<<MCRow(1, 2, 1), MCRow(v, 0, 0)>> : v \in Elements}
  IN {[kind |-> "trace", trace |-> t] : t \in {<<r>> : r \in rows} \cup pairs}
=============================================================================
