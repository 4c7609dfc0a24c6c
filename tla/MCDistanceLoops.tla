-------------------------- MODULE MCDistanceLoops ---------------------------
(* The two distance loops on small arrays: compaction of every set of marks *)
(* for a size that is not a power of two, so that the last level works on   *)
(* part of the array only, and expansion of every array that its callers    *)
(* may pass.  The enclave has one thread: a behaviour is one call.          *)
EXTENDS Compaction, Expansion

VARIABLE routine   \* which of the two is called

CallCompact ==
  /\ routine = "compact"
  /\ Init
  /\ dest = [k \in Slots |-> None]
  /\ ExpandInit

CallExpand ==
  /\ routine = "expand"
  /\ marked = {}
  /\ Init
  /\ ExpandInit

InsideCompact == routine = "compact" /\ Next /\ UNCHANGED <<expandVars, routine>>
InsideExpand == routine = "expand" /\ ExpandNext /\ UNCHANGED <<vars, routine>>

CallSpec ==
  /\ CallCompact \/ CallExpand
  /\ [][InsideCompact \/ InsideExpand]_<<vars, expandVars, routine>>
=============================================================================
