------------------------------ MODULE MCSession -----------------------------
(* A session with two tables of three and two rows in blocks of two, so    *)
(* that every table needs more than one OCALL in some usage, trees and     *)
(* sparse bins with and without room in the enclave, and one failure of    *)
(* the bridge at any place; or the index on its own (MCBinIndex), which    *)
(* shows what idxSelect computes.                                          *)
EXTENDS MCBinIndex, Session

VARIABLE part    \* which of the two the behaviour is about

MCUsages ==
  [op : {"select"}, jt : {"DO", "HTree"}, pf : {FALSE}]
    \cup [op : {"join"}, jt : {"DO", "HTree", "CZSC21"}, pf : BOOLEAN]
    \cup [op : {"select-join"}, jt : {"HTree"}, pf : BOOLEAN]
MCTableSize == [t \in 0 .. 1 |-> 3 - t]

WholeSession == part = "session" /\ Init /\ bins = <<MCBin(0, 0)>> /\ SessionInit
IndexOnly ==
  /\ part = "index" /\ Init /\ SessionInit
  /\ usage = [op |-> "select", jt |-> "DO", pf |-> FALSE] /\ Len(calls) = 4

InsideIndex == part = "index" /\ Next /\ UNCHANGED <<sessionVars, part>>
InsideSession == part = "session" /\ SessionNext /\ UNCHANGED <<vars, part>>
Over == part = "session" /\ SessionOver /\ UNCHANGED <<vars, sessionVars, part>>
Selecting == part = "index" /\ Select /\ UNCHANGED <<sessionVars, part>>

MCSpec ==
  /\ WholeSession \/ IndexOnly
  /\ [][InsideIndex \/ InsideSession \/ Over]_<<vars, sessionVars, part>>
  /\ WF_<<vars, sessionVars, part>>(Selecting)
=============================================================================
