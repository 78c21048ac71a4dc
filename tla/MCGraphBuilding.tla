--------------------------- MODULE MCGraphBuilding ---------------------------
(***************************************************************************)
(* The three ways a graph comes about, one part of the run each: a model   *)
(* trace with state and conditionals (StateTrace), a structured loop       *)
(* (WhileRegion), and lazy expressions that are evaluated and cut          *)
(* (LazyEvaluation).  The parts share no state.                            *)
(*                                                                         *)
(* A trace has one parameter path.  It is a visible input, or it is a      *)
(* second state slot; then two slots can be exchanged under a mask, or a   *)
(* further visible input is declared.  One run converts it from another    *)
(* stored dtype.                                                           *)
(***************************************************************************)
EXTENDS StateTrace, WhileRegion, LazyEvaluation

CONSTANTS w, t1, t2, e1, e2

VARIABLE part

MCLimits ==
    {[resident |-> {}, values |-> 10, inputs |-> 2, bound |-> 0, slots |-> 1],
     [resident |-> {w}, values |-> 10, inputs |-> 1, bound |-> 1, slots |-> 1],
     [resident |-> {w}, values |-> 8, inputs |-> 2, bound |-> 1, slots |-> 1]}

BuildingInit ==
    /\ part \in {"trace", "loop", "lazy"}
    /\ Init /\ LazyInit
    /\ TraceInit
    /\ part # "trace" => /\ predicateInput = 0 /\ mask = 0
                         /\ limit.resident = {}

BuildingNext ==
    /\ UNCHANGED part
    /\ \/ part = "trace" /\ TraceNext /\ UNCHANGED <<vars, lazyVars>>
       \/ part = "loop" /\ Next /\ UNCHANGED <<stateVars, lazyVars>>
       \/ part = "lazy" /\ LazyNext /\ UNCHANGED <<stateVars, vars>>

BuildingSpec == BuildingInit /\ [][BuildingNext]_<<part, stateVars, vars, lazyVars>>

\* Whatever branches and loop bodies declare, build and write: nothing refers to
\* a value of a region from outside, and types and arguments stay right.
WellScoped ==
    /\ TraceWellScoped
    /\ TypeOK
    /\ CapturesDominate
==============================================================================
