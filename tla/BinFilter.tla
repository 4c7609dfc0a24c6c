------------------------------ MODULE BinFilter ------------------------------
(* What idxSelect promises: of the bins of a structure, a query on one     *)
(* attribute selects those whose range meets the range asked for, in the   *)
(* order of their ids.  Keys are ints and the index compares them as       *)
(* unsigned numbers, so the promise is made for keys and query bounds that *)
(* stay the same under that conversion.                                    *)
EXTENDS Integers, Sequences, FiniteSets

CONSTANTS
  Inputs,    \* the structures: sequences of ranges, a bin's id is its place
  Queries    \* pairs of ints, the bounds of a query

VARIABLES bins, query, selectedBins

NoQuery == <<>>

Meets(bin, q) == bin.start <= q[2] /\ bin.end >= q[1]

(* The bounds the searches use are q[2] + 1 and q[1] - 1.                  *)
Promised(q) == 1 <= q[1] /\ q[1] <= q[2] /\ \A i \in DOMAIN bins : bins[i].start >= 0

IdsIn(S) ==
  [k \in 1 .. Cardinality(S) |-> CHOOSE i \in S : Cardinality({j \in S : j <= i}) = k]

Init ==
  /\ bins \in Inputs
  /\ query = NoQuery
  /\ selectedBins = <<>>

Ask ==
  /\ query = NoQuery
  /\ query' \in Queries
  /\ UNCHANGED <<bins, selectedBins>>

Answer ==
  /\ query # NoQuery
  /\ \E S \in SUBSET DOMAIN bins :
       /\ Promised(query) => S = {i \in DOMAIN bins : Meets(bins[i], query)}
       /\ selectedBins' = IdsIn(S)
  /\ query' = NoQuery
  /\ UNCHANGED bins

Next == Ask \/ Answer

vars == <<bins, query, selectedBins>>

Answers == Init /\ [][Next]_vars

(* idxSelect returns: the searches follow links and wait for nothing.      *)
Spec == Answers /\ WF_vars(Answer)
=============================================================================
