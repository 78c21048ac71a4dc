------------------------------- MODULE SlotStore -------------------------------
(***************************************************************************)
(* What a Session promises its caller: resident state is a store of named  *)
(* values and fixed inputs are a set of named weights.  A run applies the  *)
(* transition to all names at once, or does not happen; switching to       *)
(* another compiled program, moving the state out and in again, or copying *)
(* it to another client never mixes the names up.  Positions, registration *)
(* numbers, pruning and parameter order do not exist at this level.        *)
(***************************************************************************)
EXTENDS Integers

CONSTANTS Sessions, SlotNames, InputNames, Values, Nothing,
          Transition(_, _)   \* new value of a slot from the values of all names

VARIABLES store,     \* per session: value of each slot name, or Nothing
          weights,   \* per session: fixed value of each input name, or Nothing
          kept       \* state held by the caller outside any session, or Nothing

vars == <<store, weights, kept>>

Stores == [SlotNames -> Values]
Zero == [n \in SlotNames |-> 0]
NoWeights == [n \in InputNames |-> Nothing]

Init ==
    /\ store = [s \in Sessions |-> Nothing]
    /\ weights = [s \in Sessions |-> NoWeights]
    /\ kept = Nothing

\* A session starts from zeros or from state the caller kept.
Open(s, values) ==
    /\ store[s] = Nothing
    /\ store' = [store EXCEPT ![s] = values]
    /\ UNCHANGED <<weights, kept>>

\* A session with the weights of s, kept next to it or in its place.
Fork(s, t, values) ==
    /\ store[s] # Nothing
    /\ t = s \/ store[t] = Nothing
    /\ store' = [store EXCEPT ![t] = values]
    /\ weights' = [weights EXCEPT ![t] = weights[s]]
    /\ UNCHANGED kept

Exchange(s, values) ==
    /\ store[s] # Nothing
    /\ store' = [store EXCEPT ![s] = values]
    /\ kept' = store[s]
    /\ UNCHANGED weights

Close(s) ==
    /\ store[s] # Nothing
    /\ kept' = store[s]
    /\ store' = [store EXCEPT ![s] = Nothing]
    /\ weights' = [weights EXCEPT ![s] = NoWeights]

Snapshot(s) ==
    /\ store[s] # Nothing
    /\ kept' = store[s]
    /\ UNCHANGED <<store, weights>>

\* Binding, and switching programs: state is untouched.
Rebind(s, fixed) ==
    /\ store[s] # Nothing
    /\ weights' = [weights EXCEPT ![s] = fixed]
    /\ UNCHANGED <<store, kept>>

Run(s, inputs) ==
    /\ store[s] # Nothing
    /\ \A n \in InputNames : weights[s][n] # Nothing => inputs[n] = weights[s][n]
    /\ LET named == [n \in SlotNames \union InputNames |->
                        IF n \in SlotNames THEN store[s][n] ELSE inputs[n]]
       IN  store' = [store EXCEPT ![s] = [n \in SlotNames |-> Transition(n, named)]]
    /\ UNCHANGED <<weights, kept>>

Next ==
    \E s \in Sessions :
        \/ \E values \in {Zero, kept} \ {Nothing} :
               Open(s, values) \/ Exchange(s, values) \/ \E t \in Sessions : Fork(s, t, values)
        \/ Close(s)
        \/ Snapshot(s)
        \/ \E fixed \in [InputNames -> Values \union {Nothing}] : Rebind(s, fixed)
        \/ \E inputs \in [InputNames -> Values] : Run(s, inputs)

Spec == Init /\ [][Next]_vars
=============================================================================
