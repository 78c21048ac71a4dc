-------------------------------- MODULE ModelAbi --------------------------------
(***************************************************************************)
(* How a model's buffers find their places.  A model function declares     *)
(* inputs, parameters and states in any order (Cx of rxla-nn); the trace   *)
(* numbers them twice, in the ModelSchema and in the StateGraph.  Calls    *)
(* take inputs by position and parameters by path, and must hand them over *)
(* in the order of the executable: compiled with all parameters, with the  *)
(* states hidden, pruned to two stages, or with donated inputs.  A second  *)
(* trace of the model may use a selection of the first one's parameters.   *)
(*                                                                         *)
(* A buffer is known by the declaration it was made for, and all have one  *)
(* type, so that no check of shapes can notice a wrong one.  The model     *)
(* function passes on the error of a declaration that fails.               *)
(***************************************************************************)
EXTENDS Integers, Sequences, FiniteSets, Functions

CONSTANTS ParameterPaths, StatePaths,
          TransformPaths, \* states added after tracing, by an optimizer
          InputLimit,     \* bound: inputs of a model
          RetraceLimit    \* bound: declarations of a model traced twice

ASSUME AbiAssumption ==
    /\ {InputLimit, RetraceLimit} \subseteq Nat
    /\ ParameterPaths \cap StatePaths = {} /\ StatePaths \cap TransformPaths = {}

VARIABLES model,     \* the two traces
          selection, \* a ParameterSelection of the first trace's schema
          call       \* the call just made: what each argument got, and what it is

abiVars == <<model, selection, call>>

NotPassed == [made |-> FALSE]
NoModel == [status |-> "none"]
NoCall == [kind |-> "none", bound |-> <<>>, wanted |-> <<>>]

\* The kinds of ModelArgument, with the position in their list of the schema.
Arg(kind, index) == [kind |-> kind, index |-> index]
Name(kind, which) == [kind |-> kind, which |-> which]

\* The members of a set of positions in ascending order, and a sequence filtered
\* by position.
PlaceIn(position, set) == Cardinality({j \in set : j <= position})
Ascending(set) == [k \in 1 .. Cardinality(set) |-> CHOOSE i \in set : PlaceIn(i, set) = k]
Filter(s, set) == [k \in 1 .. Cardinality(set) |-> s[Ascending(set)[k]]]
Present(values) == Filter(values, {i \in DOMAIN values : values[i] # NotPassed})

-----------------------------------------------------------------------------
\* Tracing.

EmptySchema == [inputs |-> 0, parameters |-> <<>>, states |-> <<>>, arguments |-> <<>>]

\* Cx::init_with_residency.
Fresh(identity, resident) ==
    [status |-> "tracing", identity |-> identity, residency |-> resident,
     schema |-> EmptySchema,
     graph |-> <<>>,      \* StateGraph.arguments
     inputCount |-> 0,    \* StateGraph.input_count
     slots |-> <<>>,      \* StateGraph.slots, by name
     states |-> <<>>,     \* AppliedModel.states: path and slot
     meaning |-> <<>>]    \* the declaration behind each ABI parameter

\* StateGraph::input_with_dtype and StateGraph::state_named.
GraphInput(m, name) ==
    [m EXCEPT !.graph = Append(@, Arg("input", m.inputCount + 1)),
              !.inputCount = @ + 1,
              !.meaning = Append(@, name)]
GraphState(m, name) ==
    [m EXCEPT !.graph = Append(@, Arg("state", Len(m.slots) + 1)),
              !.slots = Append(@, name),
              !.meaning = Append(@, name)]

\* Cx::input_dtype: the schema grows first.
WithInput(m) ==
    LET index == m.schema.inputs + 1
    IN  GraphInput([m EXCEPT !.schema.inputs = index,
                             !.schema.arguments = Append(@, Arg("input", index))],
                   Name("input", index))

\* Cx::param_with_dtypes_impl: the graph grows first, by a state if the residency
\* has the path.  A path already declared returns the same tensor.
WithParameter(m, path) ==
    LET name == Name("parameter", path)
        grown == IF path \in m.residency THEN GraphState(m, name) ELSE GraphInput(m, name)
    IN  [grown EXCEPT !.schema.parameters = Append(@, path),
                      !.schema.arguments = Append(@, Arg("parameter", Len(m.schema.parameters) + 1))]

\* Cx::state_initialized.
WithState(m, path) ==
    LET name == Name("state", path)
        pushed == [m EXCEPT !.schema.states = Append(@, path),
                            !.schema.arguments = Append(@, Arg("state", Len(m.schema.states) + 1)),
                            !.states = Append(@, <<path, Len(m.slots) + 1>>)]
    IN  GraphState(pushed, name)

Declare(t) ==
    /\ model[t].status = "tracing"
    /\ t = 2 => Len(model[t].schema.arguments) < RetraceLimit
    /\ \/ /\ model[t].schema.inputs < InputLimit
          /\ model' = [model EXCEPT ![t] = WithInput(@)]
       \/ \E path \in ParameterPaths \ Range(model[t].schema.parameters) :
              model' = [model EXCEPT ![t] = WithParameter(@, path)]
       \/ \E path \in StatePaths \ Range(model[t].schema.states) :
              model' = [model EXCEPT ![t] = WithState(@, path)]
    /\ call' = NoCall /\ UNCHANGED selection

\* trace_once_with: the trace becomes an AppliedModel.  With a selection
\* (Model::trace_resident) the new schema must equal the selection's, whose
\* identity it takes over; otherwise the model is an error.
EndTrace(t) ==
    /\ model[t].status = "tracing"
    /\ model' = [model EXCEPT ![t] =
          IF t = 1 THEN [@ EXCEPT !.status = "applied"]
          ELSE IF @.schema = selection.schema
               THEN [@ EXCEPT !.status = "applied", !.identity = selection.identity]
               ELSE NoModel]
    /\ call' = NoCall /\ UNCHANGED selection

IsApplied(t) == model[t].status = "applied"
Parameters(m) == m.schema.parameters
Resident(m, index) == Parameters(m)[index] \in m.residency
Stateful(m) == m.slots # <<>>

\* AppliedModel::transform_state.
WithTransformState(m, path) ==
    [GraphState(m, Name("state", path)) EXCEPT !.states = Append(@, <<path, Len(m.slots) + 1>>)]

AddTransformState(t, path) ==
    /\ IsApplied(t) /\ \A i \in DOMAIN model[t].states : model[t].states[i][1] # path
    /\ model' = [model EXCEPT ![t] = WithTransformState(@, path)]
    /\ call' = NoCall /\ UNCHANGED selection

-----------------------------------------------------------------------------
\* Selections.

\* ModelSchema::select_all and the filters, which keep the order of the schema.
Select(ids) ==
    /\ IsApplied(1) /\ ~selection.made
    /\ selection' = [made |-> TRUE, identity |-> model[1].identity,
                     schema |-> model[1].schema, ids |-> Ascending(ids)]
    /\ call' = NoCall /\ UNCHANGED model

SelectedPaths == [i \in DOMAIN selection.ids |-> selection.schema.parameters[selection.ids[i]]]

\* The second trace, with the selected parameters resident.
TraceResident ==
    /\ selection.made /\ model[2].status = "none"
    /\ Len(selection.schema.arguments) <= RetraceLimit
    /\ model' = [model EXCEPT ![2] = Fresh(2, Range(SelectedPaths))]
    /\ call' = NoCall /\ UNCHANGED selection

\* AppliedModel::parameter_tensors; the resident values of the selection
\* (current_resident_parameter_tensors, write_resident_parameters,
\* selected_resident_parameter_buffers) are found the same way.
UseSelection(t) ==
    /\ IsApplied(t) /\ selection.made /\ selection.identity = model[t].identity
    /\ call' = [kind |-> "selection",
                bound |-> [i \in DOMAIN selection.ids |-> Parameters(model[t])[selection.ids[i]]],
                wanted |-> SelectedPaths]
    /\ UNCHANGED <<model, selection>>

-----------------------------------------------------------------------------
\* Calls.  The caller passes the buffer made for input i as i-th input, and each
\* parameter under its path.

InputBuffers(m) == [i \in 1 .. m.schema.inputs |-> Name("input", i)]

\* AppliedModel::order_parameters: in schema order, none for a resident one.
OrderParameters(m) ==
    [i \in DOMAIN Parameters(m) |->
        IF Resident(m, i) THEN NotPassed ELSE Name("parameter", Parameters(m)[i])]

\* Mutant: the inputs first, then the parameters.
AssembleGrouped(m, inputs, parameters) ==
    inputs \o Present(parameters)
\* AppliedModel::assemble: the visible arguments in schema order.
Assemble(m, inputs, parameters) ==
    LET value(a) == CASE a.kind = "input" -> inputs[a.index]
                      [] a.kind = "parameter" -> parameters[a.index]
                      [] OTHER -> NotPassed
        values == [i \in DOMAIN m.schema.arguments |-> value(m.schema.arguments[i])]
    IN  Present(values)

Bind(m) == Assemble(m, InputBuffers(m), OrderParameters(m))

\* CompiledModel::run and BoundModel::run.
RunModel(t) ==
    /\ IsApplied(t) /\ ~Stateful(model[t])
    /\ call' = [kind |-> "run", bound |-> Bind(model[t]), wanted |-> model[t].meaning]
    /\ UNCHANGED <<model, selection>>

\* ModelSession::run_with_parameters: the program takes the states from the
\* session and the visible inputs as they were numbered.
RunSession(t) ==
    /\ IsApplied(t) /\ Stateful(model[t])
    /\ LET m == model[t]
           visible == Bind(m)
       IN  /\ Len(visible) = m.inputCount
           /\ call' = [kind |-> "session",
                       bound |-> [k \in DOMAIN m.graph |->
                           IF m.graph[k].kind = "input" THEN visible[m.graph[k].index]
                           ELSE m.slots[m.graph[k].index]],
                       wanted |-> m.meaning]
    /\ UNCHANGED <<model, selection>>

\* BoundModel::run_donating: the inputs, then the bound parameters.  The aliases
\* the program was compiled with count the executable's arguments.
RunDonating(t, donated) ==
    /\ IsApplied(t) /\ ~Stateful(model[t]) /\ donated # {}
    /\ LET m == model[t]
           arguments == InputBuffers(m) \o Present(OrderParameters(m))
       IN  call' = [kind |-> "donating", bound |-> arguments, wanted |-> m.meaning]
    /\ UNCHANGED <<model, selection>>

\* AppliedModel::compile_staged: `sources` are the arguments a stage still needs,
\* and this is the order it asks its inputs in.
StageInputs(m, sources) ==
    LET ofInput == Filter(sources, {k \in DOMAIN sources : m.schema.arguments[sources[k]].kind = "input"})
    IN  [i \in DOMAIN ofInput |-> m.schema.arguments[ofInput[i]].index]

\* BoundModelStages::original_argument, called for one source after the other:
\* the inputs in the order they are passed, parameters by their number.
StageArguments(m, sources, inputs) ==
    LET position(k) == Cardinality({j \in 1 .. k : m.schema.arguments[sources[j]].kind = "input"})
    IN  [k \in DOMAIN sources |->
            LET argument == m.schema.arguments[sources[k]]
            IN  IF argument.kind = "input" THEN inputs[position(k)]
                ELSE OrderParameters(m)[argument.index]]

\* BoundModelStages::prepare or ::run, on the arguments that are not cut off; the
\* prepared values follow them in the order of the cuts.
RunStage(t, needed) ==
    /\ IsApplied(t) /\ ~Stateful(model[t])
    /\ LET m == model[t]
           sources == Ascending(needed)
           asked == StageInputs(m, sources)
           inputs == [i \in DOMAIN asked |-> Name("input", asked[i])]
       IN  call' = [kind |-> "stage", bound |-> StageArguments(m, sources, inputs),
                    wanted |-> [k \in DOMAIN sources |-> m.meaning[sources[k]]]]
    /\ UNCHANGED <<model, selection>>

-----------------------------------------------------------------------------
AbiInit ==
    /\ \E resident \in SUBSET ParameterPaths :
           model = [t \in {1, 2} |-> IF t = 1 THEN Fresh(1, resident) ELSE NoModel]
    /\ selection = NotPassed
    /\ call = NoCall

AbiNext ==
    \/ \E t \in {1, 2} :
          \/ Declare(t) \/ EndTrace(t)
          \/ \E path \in TransformPaths : AddTransformState(t, path)
          \/ UseSelection(t)
          \/ RunModel(t) \/ RunSession(t)
          \/ /\ IsApplied(t)
             /\ \/ \E donated \in SUBSET (1 .. model[t].schema.inputs) : RunDonating(t, donated)
                \/ \E needed \in SUBSET DOMAIN model[t].schema.arguments : RunStage(t, needed)
    \/ /\ IsApplied(1)
       /\ \E ids \in SUBSET DOMAIN Parameters(model[1]) : Select(ids)
    \/ TraceResident

AbiSpec == AbiInit /\ [][AbiNext]_abiVars

AbiTypeOK ==
    \A t \in {1, 2} : model[t].status # "none" =>
        /\ model[t].schema.arguments \in Seq([kind : {"input", "parameter", "state"}, index : Nat])
        /\ model[t].graph \in Seq([kind : {"input", "state"}, index : Nat])
        /\ Len(model[t].graph) = Len(model[t].meaning)

\* Whatever order the declarations came in, each argument of an executable gets
\* the buffer made for the declaration behind it, and a selection accepted by
\* a model names there the parameters it was made of.  (Calls that donate are
\* considered apart, below.)
CallsBindByName ==
    /\ AbiTypeOK
    /\ call.kind # "donating" => call.bound = call.wanted

\* schema.rs: ModelSchema::arguments "is the authoritative binding order"; so
\* also a call that donates hands its buffers over in that order.
DonatingBindsByName == call.kind = "donating" => call.bound = call.wanted
=============================================================================
