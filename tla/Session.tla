-------------------------------- MODULE Session --------------------------------
(***************************************************************************)
(* Session and StateProgram of rxla-core/src/state.rs: resident state      *)
(* behind compiled programs.  A program (Plan) lists its ABI arguments,    *)
(* some visible inputs, some state; slots and inputs are numbered in       *)
(* registration order, and pruning leaves registrations without an         *)
(* argument.  A session keeps one buffer per slot and one binding per      *)
(* registered input, all by position.  Callers hold state outside sessions *)
(* as (slot, buffer) lists and move it between sessions, programs and      *)
(* clients.                                                                *)
(*                                                                         *)
(* Sequences are numbered from 1, where the code counts from 0; parameter  *)
(* number 0 stands for a pruned input.                                     *)
(***************************************************************************)
EXTENDS Integers, Sequences, FiniteSets, SequencesExt

CONSTANTS
    Executables,      \* numbered from 1
    Compiled,      \* per program: owner, client, arguments, parameters (of its
                   \* registered inputs), inputTypes, visible, types of the slots,
                   \* and the caller's names of slots and inputs
    Clients,
    Sessions,
    SlotNames,
    InputNames,
    Values,
    Nothing,
    OtherType,           \* a type no slot or input has
    PayloadBytes(_),            \* host payload of a buffer of a type
    PayloadLimits,       \* limits a caller gives for copies
    Transition(_, _),    \* what the compiled program computes for a slot name
    CallerBindings       \* per program: lists of fixed inputs callers give

VARIABLES session,   \* the live sessions, Nothing otherwise
          held,      \* (slot, buffer) list in the caller's hands, Nothing otherwise
          intended   \* history: the fixed value the caller last gave each input name

sessionVars == <<session, held, intended>>

\* Definitions of their own, so that TLC evaluates the constants once.
Plan == Compiled
BindingLists == CallerBindings

Owners == {Plan[p].owner : p \in Executables}
Slots == [owner : Owners, index : Nat]
Types == {"F32", OtherType} \union
             UNION {Range(Plan[p].types) \union Range(Plan[p].inputTypes) : p \in Executables}
Buffers == [client : Clients, type : Types, value : Values]

Slot(p, i) == [owner |-> Plan[p].owner, index |-> i]
SlotCount(p) == Len(Plan[p].types)
InputCount(p) == Len(Plan[p].parameters)
\* The names behind the arguments of a program.
ArgumentName(p, a) == IF a.kind = "state" THEN Plan[p].slotNames[a.index] ELSE Plan[p].inputNames[a.index]
ArgumentNames(p) == {ArgumentName(p, Plan[p].arguments[k]) : k \in DOMAIN Plan[p].arguments}

\* What StateGraph::prepare makes: a name and a type per slot, an argument per
\* parameter, and for each registered input its parameter, or 0.  All programs
\* keep the same names, and those of one trace the same slots: no slot is
\* registered between two compilations of a trace.
ASSUME PlanAssumption ==
    /\ Executables # {} /\ SlotNames # {} /\ SlotNames \cap InputNames = {} /\ 0 \in Values
    /\ \A p \in Executables :
           /\ Plan[p].client \in Clients /\ Plan[p].visible \in Nat
           /\ Plan[p].types \in Seq(Types) /\ Plan[p].inputTypes \in Seq(Types)
           /\ Plan[p].slotNames \in [1 .. SlotCount(p) -> SlotNames]
           /\ IsInjective(Plan[p].slotNames) /\ Range(Plan[p].slotNames) = SlotNames
           /\ Plan[p].arguments \in Seq([kind : {"state", "input"}, index : Nat])
           /\ Plan[p].parameters \in Seq(0 .. Len(Plan[p].arguments))
           /\ \A k \in DOMAIN Plan[p].arguments :
                  LET a == Plan[p].arguments[k]
                  IN  IF a.kind = "state" THEN a.index \in 1 .. SlotCount(p)
                      ELSE a.index \in 1 .. InputCount(p) /\ Plan[p].parameters[a.index] = k
           /\ DOMAIN Plan[p].inputNames = 1 .. InputCount(p) /\ IsInjective(Plan[p].inputNames)
           /\ \A i \in 1 .. InputCount(p) :
                  Plan[p].parameters[i] # 0 => Plan[p].inputNames[i] \in InputNames
    /\ \A p, q \in Executables : Plan[p].owner = Plan[q].owner => Plan[p].slotNames = Plan[q].slotNames

\* What callers bind are lists of input registrations and buffers.
ASSUME BindingAssumption ==
    \A p \in Executables :
        BindingLists[p] \subseteq
            Seq([owner : Owners, resident : BOOLEAN, index : Nat, buffer : Buffers])

\* A transition depends on nothing that was pruned from its program.
ASSUME TransitionAssumption ==
    \A p \in Executables, n \in SlotNames, v \in [SlotNames \union InputNames -> Values] :
        /\ Transition(n, v) \in Values
        /\ Transition(n, [m \in ArgumentNames(p) |-> v[m]]) = Transition(n, v)

InputBindings == [kind : {"fixed"}, buffer : Buffers] \union [kind : {"unused"}]
                     \union [kind : {"dynamic"}, index : Nat]
LiveSessions == [program : Executables, states : Seq(Buffers), inputs : Seq(InputBindings),
                 dynamic : Nat]
HeldStates == Seq([slot : Slots, buffer : Buffers])

ASSUME NothingAssumption ==
    /\ Nothing \notin LiveSessions /\ Nothing \notin HeldStates
    /\ Nothing \notin Values /\ Nothing \notin [SlotNames -> Values]

Buffer(client, type, value) == [client |-> client, type |-> type, value |-> value]

-----------------------------------------------------------------------------
\* Validation.

ValidSlot(p, slot) == slot.owner = Plan[p].owner /\ slot.index \in 1 .. SlotCount(p)

\* schema_layout: the types in caller order, of a complete, unique list.
CompleteLayout(p, slots) ==
    /\ Len(slots) = SlotCount(p)
    /\ \A k \in DOMAIN slots : ValidSlot(p, slots[k])
    /\ IsInjective(slots)
Layout(p, slots) == [k \in DOMAIN slots |-> Plan[p].types[slots[k].index]]

ValidBuffer(p, buffer, type) == buffer.client = Plan[p].client /\ buffer.type = type

\* StateProgram::bind_states.
BindsStates(p, offer) ==
    /\ CompleteLayout(p, [k \in DOMAIN offer |-> offer[k].slot])
    /\ \A k \in DOMAIN offer :
           ValidBuffer(p, offer[k].buffer, Plan[p].types[offer[k].slot.index])
BindStates(p, offer) ==
    [i \in 1 .. SlotCount(p) |->
        offer[CHOOSE k \in DOMAIN offer : offer[k].slot.index = i].buffer]

IdentifyStates(p, states) == [i \in DOMAIN states |-> [slot |-> Slot(p, i), buffer |-> states[i]]]

\* Session::bind_inputs: the checks, and the bindings that replace the old ones.
\* Inputs left free are numbered in registration order.
ValidBindings(p, bindings) ==
    \A k \in DOMAIN bindings :
        /\ bindings[k].index \in 1 .. InputCount(p)
        /\ \A j \in 1 .. k - 1 : bindings[j].index # bindings[k].index
        /\ Plan[p].parameters[bindings[k].index] # 0
        /\ ValidBuffer(p, bindings[k].buffer,
                       Plan[p].inputTypes[Plan[p].parameters[bindings[k].index]])
Given(bindings, i) == \E k \in DOMAIN bindings : bindings[k].index = i
\* Mutant: pruned inputs are numbered too.
DynamicIndexOfAll(p, bindings, i) == Cardinality({j \in 1 .. i : ~Given(bindings, j)})
DynamicIndex(p, bindings, i) ==
    Cardinality({j \in 1 .. i : Plan[p].parameters[j] # 0 /\ ~Given(bindings, j)})
BindInputs(p, bindings) ==
    [i \in 1 .. InputCount(p) |->
        IF Given(bindings, i)
        THEN [kind |-> "fixed",
              buffer |-> bindings[CHOOSE k \in DOMAIN bindings : bindings[k].index = i].buffer]
        ELSE IF Plan[p].parameters[i] = 0
        THEN [kind |-> "unused"]
        ELSE [kind |-> "dynamic", index |-> DynamicIndex(p, bindings, i)]]
DynamicCount(inputs) == Cardinality({i \in DOMAIN inputs : inputs[i].kind = "dynamic"})

\* input_parameter_bindings: parameter identities to registration numbers.
InputParameters(p, bindings) ==
    \A k \in DOMAIN bindings : bindings[k].owner = Plan[p].owner /\ ~bindings[k].resident

\* History: a list of bindings read by input name.
ValuesByName(p, bindings) ==
    [n \in InputNames |->
        IF \E k \in DOMAIN bindings : Plan[p].inputNames[bindings[k].index] = n
        THEN bindings[CHOOSE k \in DOMAIN bindings : Plan[p].inputNames[bindings[k].index] = n].buffer.value
        ELSE Nothing]

NewSession(p, states, inputs) ==
    [program |-> p, states |-> states, inputs |-> inputs, dynamic |-> DynamicCount(inputs)]

-----------------------------------------------------------------------------
\* What callers supply.

\* StateProgram::zero_state, for the slots in registration order.
ZeroState(p) ==
    [i \in 1 .. SlotCount(p) |->
        [slot |-> Slot(p, i), buffer |-> Buffer(Plan[p].client, Plan[p].types[i], 0)]]

\* The lists of the elements of another list, complete, doubled or one short, in
\* every order.
Lists(list) == UNION {[1 .. n -> Range(list)] : n \in {Len(list) - 1, Len(list)}}
\* A caller offers zeros or what it holds.
Offers(p) == UNION {Lists(l) : l \in {ZeroState(p), held} \ {Nothing}}

NamedSlots(p) == [i \in 1 .. SlotCount(p) |-> <<Plan[p].slotNames[i], Slot(p, i)>>]

\* StateProgram::map_state_by_name: pairs slots of equal name, in source order.
MapsByName(p, source, q, target) ==
    LET names(list) == [k \in DOMAIN list |-> list[k][1]]
        slots(list) == [k \in DOMAIN list |-> list[k][2]]
        At(name) == CHOOSE k \in DOMAIN target : target[k][1] = name
    IN  /\ CompleteLayout(p, slots(source)) /\ CompleteLayout(q, slots(target))
        /\ Len(source) = Len(target)
        /\ IsInjective(names(target)) /\ IsInjective(names(source))
        /\ \A k \in DOMAIN source :
               /\ \E j \in DOMAIN target : target[j][1] = source[k][1]
               /\ Layout(p, slots(source))[k] = Layout(q, slots(target))[At(source[k][1])]
MapStateByName(source, target) ==
    [k \in DOMAIN source |->
        [from |-> source[k][2],
         to |-> target[CHOOSE j \in DOMAIN target : target[j][1] = source[k][1]][2]]]

\* Mappings a caller hands to switch_program: lists of the pairs that
\* map_state_by_name makes.
Mappings(p, q) ==
    IF MapsByName(p, NamedSlots(p), q, NamedSlots(q))
    THEN Lists(MapStateByName(NamedSlots(p), NamedSlots(q))) ELSE {}

-----------------------------------------------------------------------------
\* Operations.  A failing check returns an error and leaves everything alone.

SessionInit ==
    /\ session = [s \in Sessions |-> Nothing]
    /\ held = Nothing
    /\ intended = [s \in Sessions |-> ValuesByName(CHOOSE p \in Executables : TRUE, <<>>)]

Live(s) == session[s] # Nothing

\* StateProgram::session.
Open(s, p) ==
    /\ ~Live(s)
    /\ \E offer \in Offers(p) :
           /\ BindsStates(p, offer)
           /\ session' = [session EXCEPT ![s] =
                              NewSession(p, BindStates(p, offer), BindInputs(p, <<>>))]
    /\ intended' = [intended EXCEPT ![s] = ValuesByName(p, <<>>)]
    /\ UNCHANGED held

\* Session::new_session: the bindings of s, other state.  The caller keeps both
\* sessions, or the new one in place of s.
Fork(s, t) ==
    /\ Live(s) /\ (t = s \/ ~Live(t))
    /\ \E offer \in Offers(session[s].program) :
           /\ BindsStates(session[s].program, offer)
           /\ session' = [session EXCEPT ![t] =
                              [session[s] EXCEPT !.states = BindStates(session[s].program, offer)]]
    /\ intended' = [intended EXCEPT ![t] = intended[s]]
    /\ UNCHANGED held

ReplaceState(s) ==
    /\ Live(s)
    /\ \E offer \in Offers(session[s].program) :
           /\ BindsStates(session[s].program, offer)
           /\ session' = [session EXCEPT ![s].states = BindStates(session[s].program, offer)]
    /\ held' = IdentifyStates(session[s].program, session[s].states)
    /\ UNCHANGED intended

IntoState(s) ==
    /\ Live(s)
    /\ held' = IdentifyStates(session[s].program, session[s].states)
    /\ session' = [session EXCEPT ![s] = Nothing]
    /\ intended' = [intended EXCEPT ![s] = ValuesByName(session[s].program, <<>>)]

\* Session::copy_state_to_client_via_host_with_limits.
CopyState(s, client, perTensor, total) ==
    LET states == session[s].states
        bytes(k) == PayloadBytes(states[k].type)
    IN  /\ Live(s)
        /\ \A k \in DOMAIN states : bytes(k) <= perTensor
        /\ FoldLeftDomain(LAMBDA sum, k : sum + bytes(k), 0, states) <= total
        /\ held' = IdentifyStates(session[s].program,
                                  [k \in DOMAIN states |-> [states[k] EXCEPT !.client = client]])
        /\ UNCHANGED <<session, intended>>

\* Session::bind_parameters and bind_inputs.
BindParameters(s, bindings) ==
    /\ Live(s)
    /\ InputParameters(session[s].program, bindings)
    /\ ValidBindings(session[s].program, bindings)
    /\ LET inputs == BindInputs(session[s].program, bindings)
       IN  session' = [session EXCEPT ![s].inputs = inputs, ![s].dynamic = DynamicCount(inputs)]
    /\ intended' = [intended EXCEPT ![s] = ValuesByName(session[s].program, bindings)]
    /\ UNCHANGED held

\* Mutant: the mapping is applied backwards.
MovedStatesBack(states, mapping) ==
    [i \in DOMAIN states |->
        states[CHOOSE j \in DOMAIN states :
                   \E k \in DOMAIN mapping : mapping[k].to.index = j /\ mapping[k].from.index = i]]
MovedStates(states, mapping) ==
    [i \in DOMAIN states |->
        states[CHOOSE j \in DOMAIN states :
                   \E k \in DOMAIN mapping : mapping[k].from.index = j /\ mapping[k].to.index = i]]

\* Equal layouts, and every live buffer fits the slot it moves to.
Switchable(p, states, q, mapping) ==
    /\ Layout(p, [k \in DOMAIN mapping |-> mapping[k].from])
           = Layout(q, [k \in DOMAIN mapping |-> mapping[k].to])
    /\ \A k \in DOMAIN mapping :
           ValidBuffer(q, states[mapping[k].from.index], Plan[q].types[mapping[k].to.index])

\* Session::switch_program and switch_program_parameters.
SwitchProgram(s, q, mapping, bindings) ==
    LET p == session[s].program
        from == [k \in DOMAIN mapping |-> mapping[k].from]
        to == [k \in DOMAIN mapping |-> mapping[k].to]
    IN  /\ Live(s)
        /\ InputParameters(q, bindings)
        /\ CompleteLayout(p, from) /\ CompleteLayout(q, to)
        /\ Switchable(p, session[s].states, q, mapping)
        /\ ValidBindings(q, bindings)
        /\ session' = [session EXCEPT ![s] =
               NewSession(q, MovedStates(@.states, mapping), BindInputs(q, bindings))]
        /\ intended' = [intended EXCEPT ![s] = ValuesByName(q, bindings)]
        /\ UNCHANGED held

\* The values a caller passes: the free inputs in registration order.
FreeInputs(s) ==
    {i \in DOMAIN session[s].inputs : Plan[session[s].program].parameters[i] # 0
                                      /\ session[s].inputs[i].kind # "fixed"}
OrderIn(i, set) == Cardinality({j \in set : j <= i})
CallValues(s, values) ==
    [k \in 1 .. Cardinality(FreeInputs(s)) |->
        LET i == CHOOSE i \in FreeInputs(s) : OrderIn(i, FreeInputs(s)) = k
        IN  Buffer(Plan[session[s].program].client, "F32",
                   values[Plan[session[s].program].inputNames[i]])]

\* Session::execution_arguments.
ExecutionArguments(s, inputs) ==
    LET p == session[s].program
        argument(a) ==
            IF a.kind = "state" THEN session[s].states[a.index]
            ELSE LET binding == session[s].inputs[a.index]
                 IN  IF binding.kind = "fixed" THEN binding.buffer ELSE inputs[binding.index]
    IN  [k \in DOMAIN Plan[p].arguments |-> argument(Plan[p].arguments[k])]

\* The compiled program reads its parameters by number and computes by meaning.
NamedValues(p, arguments) ==
    [n \in ArgumentNames(p) |->
        arguments[CHOOSE k \in DOMAIN arguments : ArgumentName(p, Plan[p].arguments[k]) = n].value]
Results(p, arguments) ==
    [k \in 1 .. Plan[p].visible |-> Buffer(Plan[p].client, "F32", 0)]
    \o [i \in 1 .. SlotCount(p) |->
           Buffer(Plan[p].client, Plan[p].types[i],
                  Transition(Plan[p].slotNames[i], NamedValues(p, arguments)))]
ResultTypes(p) == [k \in 1 .. Plan[p].visible |-> "F32"] \o Plan[p].types
\* An executable that misbehaves drops a result or returns one of another type.
Executions(p, arguments) ==
    LET right == Results(p, arguments)
    IN  {right, Front(right)}
        \union {[right EXCEPT ![k].type = OtherType] : k \in DOMAIN right}

NewStates(p, outputs) == SubSeq(outputs, Plan[p].visible + 1, Len(outputs))

\* Session::run, run_with: nothing is committed before every result is checked.
Run(s, values) ==
    /\ Live(s)
    /\ Len(CallValues(s, values)) = session[s].dynamic
    /\ LET p == session[s].program
       IN  \E outputs \in Executions(p, ExecutionArguments(s, CallValues(s, values))) :
               /\ Len(outputs) = Len(ResultTypes(p))
               /\ \A k \in DOMAIN outputs : ValidBuffer(p, outputs[k], ResultTypes(p)[k])
               /\ session' = [session EXCEPT ![s].states = NewStates(p, outputs)]
    /\ UNCHANGED <<held, intended>>

SessionNext ==
    \E s \in Sessions :
        \/ \E p \in Executables : Open(s, p)
        \/ \E t \in Sessions : Fork(s, t)
        \/ ReplaceState(s)
        \/ IntoState(s)
        \/ \E c \in Clients, perTensor, total \in PayloadLimits : CopyState(s, c, perTensor, total)
        \/ Live(s) /\ \E bindings \in BindingLists[session[s].program] : BindParameters(s, bindings)
        \/ Live(s) /\ \E q \in Executables : \E mapping \in Mappings(session[s].program, q) :
               \E bindings \in BindingLists[q] : SwitchProgram(s, q, mapping, bindings)
        \/ \E values \in [InputNames -> Values] : Run(s, values)

SessionSpec == SessionInit /\ [][SessionNext]_sessionVars

-----------------------------------------------------------------------------
\* Properties.

\* Types: a session has a buffer per slot and a binding per registered input of
\* its program (struct Session).
SessionTypeOK ==
    /\ session \in [Sessions -> LiveSessions \union {Nothing}]
    /\ \A s \in Sessions : Live(s) =>
           /\ Len(session[s].states) = SlotCount(session[s].program)
           /\ Len(session[s].inputs) = InputCount(session[s].program)
    /\ held \in HeldStates \union {Nothing}
    /\ intended \in [Sessions -> [InputNames -> Values \union {Nothing}]]

\* Whatever was moved, copied, bound or switched before, everything a session
\* would execute with belongs to its program's client and has the type of its
\* slot or parameter (validate_buffer, Session::bind_inputs); the values a run
\* takes are numbered densely, and no argument of the program is a pruned
\* input, so that run never fails with PrunedExecutionInput.
CallsFit ==
    /\ SessionTypeOK
    /\ \A s \in Sessions : Live(s) =>
           LET p == session[s].program
               inputs == session[s].inputs
               Kind(kind) == {i \in DOMAIN inputs : inputs[i].kind = kind}
           IN  /\ \A i \in DOMAIN session[s].states :
                      ValidBuffer(p, session[s].states[i], Plan[p].types[i])
               /\ \A i \in Kind("fixed") :
                      ValidBuffer(p, inputs[i].buffer, Plan[p].inputTypes[Plan[p].parameters[i]])
               /\ {inputs[i].index : i \in Kind("dynamic")} = 1 .. session[s].dynamic
               /\ session[s].dynamic = Cardinality(FreeInputs(s))
               /\ \A k \in DOMAIN Plan[p].arguments :
                      Plan[p].arguments[k].kind = "input" => Plan[p].arguments[k].index \notin Kind("unused")

\* The sessions as stores of named values.
StoreOf(p, states) ==
    [n \in SlotNames |-> states[CHOOSE i \in DOMAIN states : Plan[p].slotNames[i] = n].value]
StoreNow ==
    [s \in Sessions |-> IF Live(s) THEN StoreOf(session[s].program, session[s].states) ELSE Nothing]
KeptOf(list) ==
    IF list = Nothing THEN Nothing
    ELSE StoreOf(CHOOSE p \in Executables : Plan[p].owner = list[1].slot.owner,
                 [k \in DOMAIN list |-> list[k].buffer])

Store == INSTANCE SlotStore WITH store <- StoreNow, weights <- intended, kept <- KeptOf(held)

\* Runs, replacements, moves between sessions, copies between clients and
\* switches between programs act on named values: no reordering of slots,
\* pruning or renumbering of inputs mixes two of them up (switch_program,
\* bind_states, identify_states, bind_inputs, execution_arguments, run_with).
ImplementsSlotStore == Store!Spec
=============================================================================
