------------------------------ MODULE RangePlan ------------------------------
(***************************************************************************)
(* planSegments: how a file of known size is cut into the byte ranges that *)
(* the connections of a direct download fetch.  A range is inclusive.      *)
(* The code adds the lengths up in a loop; First is that sum in closed     *)
(* form, and FirstIsTheLoop of MCHttpDownload compares the two.            *)
(***************************************************************************)
EXTENDS Integers, Sequences

\* How many ranges: at least one, and never more than bytes.
Parts(total, conns) ==
  LET n == IF conns < 1 THEN 1 ELSE conns IN IF total < n THEN total ELSE n

\* The length of range i, counted from 0: the first ones take the remainder.
Length(total, n, i) == total \div n + (IF i < total % n THEN 1 ELSE 0)

\* The first byte of range i.
First(total, n, i) == i * (total \div n) + (IF i < total % n THEN i ELSE total % n)

\* Mutant: the ranges are half open.
PlanHalfOpen(total, conns) ==
  IF total <= 0 THEN <<>>
  ELSE LET n == Parts(total, conns) IN
       [i \in 1..n |-> [start |-> First(total, n, i - 1),
                        end |-> First(total, n, i - 1) + Length(total, n, i - 1)]]

planSegments(total, conns) ==
  IF total <= 0 THEN <<>>
  ELSE LET n == Parts(total, conns) IN
       [i \in 1..n |-> [start |-> First(total, n, i - 1),
                        end |-> First(total, n, i - 1) + Length(total, n, i - 1) - 1]]

\* What a plan must be: ranges that are not empty, side by side, and together
\* the whole file.
Tiles(segs, total) ==
  /\ segs[1].start = 0 /\ segs[Len(segs)].end = total - 1
  /\ \A i \in DOMAIN segs : segs[i].start <= segs[i].end
  /\ \A i \in 2 .. Len(segs) : segs[i].start = segs[i - 1].end + 1
=============================================================================
