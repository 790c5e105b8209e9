------------------------ MODULE MCDiskTypeConversion ------------------------
(***************************************************************************)
(* Instances of DiskTypeConversion: pd takes no performance values, hd     *)
(* does.                                                                   *)
(***************************************************************************)
EXTENDS DiskTypeConversion, TLC

CONSTANTS pd, hd, fast, slow

Of(ty, pf) == [type |-> ty, perf |-> pf]

\* A change of type, the way back, and a class that asks for nothing.
TypeClasses == {Of(hd, None), Of(pd, None), NoIntent}
HalfClasses == {Of(hd, None), NoIntent}

\* Requests that differ in performance only: one works, GCE rejects one and
\* fails the other.  pd does not take performance values, and a class can be
\* invalid.
PerfClasses == {Of(hd, None), Of(hd, fast), Of(hd, slow), Of(pd, fast), Of(Invalid, None)}
Fast == {Of(hd, fast)}
Slow == {Of(hd, slow)}

\* Operations and request IDs are only compared, so their names can be
\* exchanged.  So can the nodes, and the types when none takes performance
\* values and the classes name both.
Names         == Permutations(Ops) \cup Permutations(Reqs) \cup Permutations(Nodes)
NamesAndTypes == Names \cup Permutations(Types)
=============================================================================
