--------------------------- MODULE MCHttpDownload ---------------------------
(***************************************************************************)
(* Downloads with names of their own or with one name, for the model       *)
(* checker, and the plan of ranges against the loop that makes it.         *)
(***************************************************************************)
EXTENDS HttpDownload
CONSTANTS d1, d2

OwnNames == [d \in Downloads |-> d]
OneName == [d \in Downloads |-> "name"]

\* The closed form of a range's first byte is what the code's loop adds up:
\* the lengths of the ranges before it.
FirstIsTheLoop(total, n) ==
  \A i \in 0 .. (n - 1) :
    First(total, n, i) = FoldFunctionOnSet(LAMBDA j, sum : Length(total, n, j) + sum, 0,
                                           [j \in 0 .. (n - 1) |-> j], 0 .. (i - 1))

ASSUME LoopAssumption == \A total \in 1..40, n \in 1..8 : FirstIsTheLoop(total, n)
=============================================================================
