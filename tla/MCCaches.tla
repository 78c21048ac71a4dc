------------------------------ MODULE MCCaches ------------------------------
(***************************************************************************)
(* The two caches of compiled executables, one part of the run each.       *)
(*                                                                         *)
(* The memory cache sees three programs whose keys have different lengths: *)
(* inserting the longest evicts more than one entry, and with options it   *)
(* is bypassed.  The directory is shared by three processes, the third     *)
(* with a namespace and a smaller entry limit of its own; key 2 is larger  *)
(* than key 1, so that which of them is the older decides what a trim      *)
(* removes.  The parts share no state: what one compiler observes of the   *)
(* directory is the variable `disk` of CompilerCache.                      *)
(***************************************************************************)
EXTENDS CompilerCache, DiskCache

CONSTANTS small, medium, large, none, tuned

VARIABLE part

MCProgramBytes == [p \in Programs |-> IF p = small THEN 1
                                      ELSE IF p = medium THEN 2 ELSE 5]
MCRequests == (Programs \X Options) \ {<<medium, tuned>>}
MCEntryBytes == [k \in Keys |-> k]
MCLimit == [p \in Procs |-> IF p = 3 THEN 1 ELSE 2]
MCNamespace == [p \in Procs |-> IF p = 3 THEN 2 ELSE 1]

Init ==
    /\ part \in {"memory", "directory"}
    /\ CompilerInit /\ DirectoryInit

Next ==
    /\ UNCHANGED part
    /\ \/ part = "memory" /\ CompilerNext /\ UNCHANGED directoryVars
       \/ part = "directory" /\ DirectoryNext /\ UNCHANGED compilerVars

Spec == Init /\ [][Next]_<<part, compilerVars, directoryVars>>
=============================================================================
