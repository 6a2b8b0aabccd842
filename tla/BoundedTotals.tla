---- MODULE BoundedTotals ----
(* The total of a map of reservations, Python's sum(d.values()), stated so *)
(* that it can be proved about: the number of unit cells under the graph   *)
(* of the map.  No entry of the map may exceed cap.                        *)
EXTENDS Integers, FiniteSets

Cells(f, cap) == {c \in (DOMAIN f) \X (1..cap) : c[2] <= f[c[1]]}

Total(f, cap) == Cardinality(Cells(f, cap))
====
