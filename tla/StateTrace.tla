------------------------------- MODULE StateTrace -------------------------------
(***************************************************************************)
(* Functionalization: a model trace records reads and writes of resident   *)
(* state as SSA versions, and compilation turns the final versions into    *)
(* hidden outputs.  Modelled are the effect context `Cx` of rxla-nn, the   *)
(* StateGraph / StateProgram of rxla-core, and the part of rxla-ir's       *)
(* ProgramIr that they use.                                                *)
(*                                                                         *)
(* Beside the recorder runs a reference interpreter: it executes the same  *)
(* user program imperatively, on concrete numbers, writing the slot itself *)
(* and skipping the branch that is not taken.  Visible input i holds       *)
(* InputValue(i) and slot s starts at StateValue(s); the numbers are       *)
(* powers of four, so a sum tells what was added.                          *)
(*                                                                         *)
(* A conditional (Cx::cond_many) is traced one branch after the other;     *)
(* conditionals are not nested here.                                       *)
(***************************************************************************)
EXTENDS Integers, Sequences, FiniteSets, Functions

CONSTANTS Paths,       \* parameter paths of the model
          Converted,   \* paths stored in another dtype than they compute in
          Limits       \* bound: the sizes explored, each with the paths that
                       \* InitResidency makes resident state

\* A size: SSA values, visible inputs besides the parameters, visible inputs a
\* session binds, and state slots declared by the model itself.
ASSUME TraceAssumption ==
    /\ Converted \subseteq Paths
    /\ \A l \in Limits : /\ l.resident \subseteq Paths
                         /\ {l.values, l.inputs, l.bound, l.slots} \subseteq Nat

VARIABLES
    limit,       \* the size of this behaviour
    ssa,       \* ProgramIr.values: operation, operands, region (0 is the root)
    slots,       \* StateGraph.slots: current version of each slot
    arguments,   \* StateGraph.arguments, one per ABI parameter
    inputCount,  \* StateGraph.input_count
    params,      \* Cx.parameter_values: path -> value of the declared parameters
    cond,        \* the conditional being traced
    broken,      \* a conditional has failed and its snapshot could not be restored
    predicateInput, \* the numbers behind inputs 0 and 1, the branch predicate
    mask,        \* and the write mask
    store,       \* reference: value of each slot
    known,       \* reference: value of each SSA handle
    program,     \* StateProgram: parameter numbers, plan arguments, outputs
    fixed,       \* Session.fixed_inputs: the visible inputs that are bound
    ran          \* what one execution of the compiled program produced

graphVars == <<ssa, slots, arguments, inputCount>>
traceVars == <<graphVars, params, cond, store, known>>
runVars == <<limit, program, fixed, ran>>
stateVars == <<traceVars, broken, predicateInput, mask, runVars>>

NoCond == [phase |-> "none"]
NoProgram == [compiled |-> FALSE]
Node(op, args) == [op |-> op, args |-> args, region |-> 0]
IsAbi(i) == ssa[i].op \in {"input", "stateInput"}
ParameterCount == Cardinality({i \in DOMAIN ssa : IsAbi(i)})
InBranch == cond.phase # "none"

\* The numbers the caller supplies.
InputValue(i) == CASE i = 0 -> predicateInput [] i = 1 -> mask [] OTHER -> 4 ^ (2 * i)
StateValue(s) == 4 ^ (2 * s + 1)

\* Is the code being traced executed by the reference interpreter?
Live == \/ cond.phase = "none"
        \/ cond.phase = "then" /\ predicateInput # 0
        \/ cond.phase = "else" /\ predicateInput = 0

TraceInit ==
    /\ limit \in Limits
    /\ predicateInput \in {0, 1}
    /\ mask \in {0, 1}
    /\ ssa = <<Node("input", <<0>>), Node("input", <<1>>)>>
    /\ known = <<predicateInput, mask>>
    /\ arguments = <<[kind |-> "input", index |-> 0], [kind |-> "input", index |-> 1]>>
    /\ inputCount = 2
    /\ slots = <<>>
    /\ store = <<>>
    /\ params = [p \in {} |-> 0]
    /\ cond = NoCond
    /\ broken = FALSE
    /\ program = NoProgram
    /\ fixed = {}
    /\ ran = [done |-> FALSE]

\* Values that may be used here: those made before the conditional, those of
\* the branch being traced, and ABI declarations.
InScope(i) ==
    /\ ssa[i].region = 0
    /\ cond.phase = "else" => i <= cond.thenMarker \/ i > cond.elseMarker \/ IsAbi(i)
\* The values the modelled user program passes on: visible inputs, parameters
\* and state it has just read.  The first two inputs serve as predicate and mask.
Handles == {i \in 3 .. Len(ssa) : InScope(i) /\
              (ssa[i].op = "input" \/ i \in Range(slots) \/ \E p \in DOMAIN params : params[p] = i)}

Room(n) == Len(ssa) + n <= limit.values
Calling == ~program.compiled /\ ~broken
Succeed == UNCHANGED <<broken, predicateInput, mask, runVars>>
\* The call returns an error before it has changed anything.
Refuse == UNCHANGED stateVars

-----------------------------------------------------------------------------
\* Declarations.

InputNode == Node("input", <<ParameterCount>>)

\* StateGraph::input_with_dtype: the argument list and the graph's parameter
\* numbering grow together.
Input ==
    /\ Calling /\ Room(1)
    /\ inputCount - Cardinality(DOMAIN params) < limit.inputs
    /\ ssa' = Append(ssa, InputNode)
    /\ known' = Append(known, InputValue(inputCount))
    /\ arguments' = Append(arguments, [kind |-> "input", index |-> inputCount])
    /\ inputCount' = inputCount + 1
    /\ Succeed
    /\ UNCHANGED <<slots, params, cond, store>>

\* StateGraph::state_named and register_state: an ABI parameter and its read.
RegisterState ==
    /\ ssa' = ssa \o <<Node("stateInput", <<ParameterCount>>),
                           Node("mark", <<Len(ssa) + 1>>)>>
    /\ slots' = Append(slots, Len(ssa) + 2)
    /\ arguments' = Append(arguments, [kind |-> "state", index |-> Len(slots)])
    /\ known' = known \o <<StateValue(Len(slots)), StateValue(Len(slots))>>
    /\ store' = Append(store, StateValue(Len(slots)))
    /\ UNCHANGED inputCount

\* Cx::state_initialized refuses to declare state inside a conditional.
DeclareState ==
    /\ Calling
    /\ \/ /\ ~InBranch
          /\ Room(2)
          /\ Len(slots) < limit.slots
          /\ RegisterState
          /\ Succeed
          /\ UNCHANGED <<params, cond>>
       \/ InBranch /\ Refuse

\* Cx::param_with_dtypes_impl: the first use declares, later uses return the
\* same value.  A resident parameter is a state slot; a converted one is the
\* cast of what is stored.
Param(path) ==
    /\ Calling /\ path \notin DOMAIN params
    /\ Room(3)
    /\ LET base == IF path \in limit.resident THEN 2 ELSE 1
           value == Len(ssa) + base + IF path \in Converted THEN 1 ELSE 0
           declared == IF path \in limit.resident
                       THEN <<Node("stateInput", <<ParameterCount>>),
                              Node("mark", <<Len(ssa) + 1>>)>>
                       ELSE <<InputNode>>
           cast == IF path \in Converted
                   THEN <<Node("mark", <<Len(ssa) + base>>)>> ELSE <<>>
           number == IF path \in limit.resident THEN StateValue(Len(slots))
                     ELSE InputValue(inputCount)
       IN /\ ssa' = ssa \o declared \o cast
          /\ known' = known \o [i \in 1 .. Len(declared \o cast) |-> number]
          /\ params' = [p \in DOMAIN params \cup {path} |->
                          IF p = path THEN value ELSE params[p]]
          /\ IF path \in limit.resident
             THEN /\ slots' = Append(slots, Len(ssa) + 2)
                  /\ store' = Append(store, number)
                  /\ arguments' = Append(arguments, [kind |-> "state", index |-> Len(slots)])
                  /\ UNCHANGED inputCount
             ELSE /\ arguments' = Append(arguments, [kind |-> "input", index |-> inputCount])
                  /\ inputCount' = inputCount + 1
                  /\ UNCHANGED <<slots, store>>
    /\ Succeed
    /\ UNCHANGED cond

-----------------------------------------------------------------------------
\* Updates.  An update is a pair of a slot and the SSA value to put there.

\* StateGraph::record_updates, after the graph has been extended by `extra`: one
\* state_write per update.
Record(extra, updates) ==
    LET at(i) == Len(ssa) + Len(extra) + i
        newest(s) == {i \in DOMAIN updates : updates[i][1] = s}
    IN /\ ssa' = ssa \o extra \o
                     [i \in DOMAIN updates |-> Node("mark", <<updates[i][2]>>)]
       /\ slots' = [s \in DOMAIN slots |->
                      IF newest(s) = {} THEN slots[s]
                      ELSE at(CHOOSE i \in newest(s) : TRUE)]
DistinctSlots(updates) == Cardinality({updates[i][1] : i \in DOMAIN updates}) = Len(updates)
\* The reference interpreter: all slots change together, from old values.
StoreAll(updates, values) ==
    store' = IF Live
             THEN [s \in DOMAIN store |->
                     IF \E i \in DOMAIN updates : updates[i][1] = s
                     THEN values[CHOOSE i \in DOMAIN updates : updates[i][1] = s]
                     ELSE store[s]]
             ELSE store

\* write (one update) and write_many (several): duplicates are refused before
\* any slot changes.
WriteMany(updates) ==
    /\ Calling
    /\ Room(Len(updates))
    /\ \/ /\ DistinctSlots(updates)
          /\ Record(<<>>, updates)
          /\ known' = known \o [i \in DOMAIN updates |-> known[updates[i][2]]]
          /\ StoreAll(updates, [i \in DOMAIN updates |-> known[updates[i][2]]])
          /\ Succeed
          /\ UNCHANGED <<arguments, inputCount, params, cond>>
       \/ ~DistinctSlots(updates) /\ Refuse

\* State::add_ and StateGraph::update: read the current version, add, write.
Add(s, h) ==
    LET sum == store[s] + known[h] IN
    /\ Calling
    /\ Room(2)
    /\ Record(<<Node("add", <<slots[s], h>>)>>, <<<<s, Len(ssa) + 1>>>>)
    /\ known' = known \o <<sum, sum>>
    /\ store' = IF Live THEN [store EXCEPT ![s] = sum] ELSE store
    /\ Succeed
    /\ UNCHANGED <<arguments, inputCount, params, cond>>

\* Mutant: the selection reads versions already advanced by this call.
WriteManyIfSequential(updates) ==
    LET select(i) == Node("select", <<2, updates[i][2],
            IF i = 1 THEN slots[updates[i][1]] ELSE Len(ssa) + i - 1>>)
        kept(i) == IF mask # 0 THEN known[updates[i][2]] ELSE store[updates[i][1]]
    IN
    /\ Calling
    /\ Room(2 * Len(updates))
    /\ \/ /\ DistinctSlots(updates)
          /\ Record([i \in DOMAIN updates |-> select(i)],
                    [i \in DOMAIN updates |-> <<updates[i][1], Len(ssa) + i>>])
          /\ known' = known \o [i \in 1 .. 2 * Len(updates) |->
                                  kept(((i - 1) % Len(updates)) + 1)]
          /\ StoreAll(updates, [i \in DOMAIN updates |-> kept(i)])
          /\ Succeed
          /\ UNCHANGED <<arguments, inputCount, params, cond>>
       \/ ~DistinctSlots(updates) /\ Refuse
\* write_many_if: each proposal is selected against the slot's version at the
\* time of the call, then all are recorded.  Input 1 (node 2) is the mask.
WriteManyIf(updates) ==
    LET select(i) == Node("select", <<2, updates[i][2], slots[updates[i][1]]>>)
        kept(i) == IF mask # 0 THEN known[updates[i][2]] ELSE store[updates[i][1]]
    IN
    /\ Calling
    /\ Room(2 * Len(updates))
    /\ \/ /\ DistinctSlots(updates)
          /\ Record([i \in DOMAIN updates |-> select(i)],
                    [i \in DOMAIN updates |-> <<updates[i][1], Len(ssa) + i>>])
          /\ known' = known \o [i \in 1 .. 2 * Len(updates) |->
                                  kept(((i - 1) % Len(updates)) + 1)]
          /\ StoreAll(updates, [i \in DOMAIN updates |-> kept(i)])
          /\ Succeed
          /\ UNCHANGED <<arguments, inputCount, params, cond>>
       \/ ~DistinctSlots(updates) /\ Refuse

-----------------------------------------------------------------------------
\* Cx::cond_many over Tensor::cond_many_with.  Each branch returns one visible
\* tensor and, behind it, its state versions.

BeginCond ==
    /\ Calling /\ ~InBranch
    /\ cond' = [phase |-> "then", thenMarker |-> Len(ssa), initial |-> slots,
                before |-> store]
    /\ Succeed
    /\ UNCHANGED <<graphVars, params, store, known>>

\* replace_symbolic_state_versions: accepted only while the slot count is the
\* one of the snapshot.
Replaceable(versions) == Len(versions) = Len(slots)

\* The closing calls of cond_many when a branch, or restoring the snapshot
\* after it, has failed.  The snapshot is restored once more if it can be;
\* otherwise the branch's versions stay, and the trace is beyond repair.
AbandonCond ==
    /\ cond' = NoCond
    /\ slots' = IF Replaceable(cond.initial) THEN cond.initial ELSE slots
    /\ store' = IF Replaceable(cond.initial) THEN cond.before ELSE store
    /\ broken' = ~Replaceable(cond.initial)
    /\ UNCHANGED <<ssa, arguments, inputCount, params, known, predicateInput, mask, runVars>>

\* Mutant: the second branch starts where the first one ended.
EndThenKeepingVersions(out) ==
    /\ Calling /\ cond.phase = "then"
    /\ \/ /\ Replaceable(cond.initial)
          /\ cond' = [phase |-> "else", thenMarker |-> cond.thenMarker,
                      initial |-> cond.initial, before |-> cond.before,
                      elseMarker |-> Len(ssa), thenOut |-> out, thenVersions |-> slots]
          /\ Succeed
          /\ UNCHANGED <<graphVars, params, store, known>>
       \/ ~Replaceable(cond.initial) /\ AbandonCond
\* The first branch ends: its versions are kept aside and the snapshot is
\* restored, so that the second branch starts from the same state.
EndThen(out) ==
    /\ Calling /\ cond.phase = "then"
    /\ \/ /\ Replaceable(cond.initial)
          /\ cond' = [phase |-> "else", thenMarker |-> cond.thenMarker,
                      initial |-> cond.initial, before |-> cond.before,
                      elseMarker |-> Len(ssa), thenOut |-> out, thenVersions |-> slots]
          /\ slots' = cond.initial
          /\ Succeed
          /\ UNCHANGED <<ssa, arguments, inputCount, params, store, known>>
       \/ ~Replaceable(cond.initial) /\ AbandonCond

BranchOf(i) ==
    IF i <= cond.thenMarker \/ IsAbi(i) THEN ssa[i].region
    ELSE IF i > cond.elseMarker THEN cond.elseMarker
    ELSE cond.thenMarker

MergedVersions == [s \in DOMAIN slots |-> Len(ssa) + 1 + s]

\* The second branch ends and both are merged: the visible result first, then
\* one result per slot.  Regions are named by their markers.
EndElse(out) ==
    LET thenValues == <<cond.thenOut>> \o cond.thenVersions
        elseValues == <<out>> \o slots
        merged(i) == [op |-> "if", args |-> <<1, thenValues[i], elseValues[i]>>,
                      region |-> 0, then |-> cond.thenMarker, else |-> cond.elseMarker]
    IN
    /\ Calling /\ cond.phase = "else"
    /\ \/ /\ Replaceable(cond.initial)
          /\ Room(Len(thenValues))
          /\ ssa' = [i \in DOMAIN ssa |-> [ssa[i] EXCEPT !.region = BranchOf(i)]]
                        \o [i \in DOMAIN thenValues |-> merged(i)]
          /\ slots' = MergedVersions
          /\ known' = known \o
               <<IF predicateInput # 0 THEN known[cond.thenOut] ELSE known[out]>> \o store
          /\ cond' = NoCond
          /\ Succeed
          /\ UNCHANGED <<arguments, inputCount, params, store>>
       \/ ~Replaceable(cond.initial) /\ AbandonCond

\* A branch closure returns an error of its own.
BranchFails == Calling /\ InBranch /\ AbandonCond

-----------------------------------------------------------------------------
\* Compilation and one execution.

\* IrGraph::reachable_values: operands, and every operand used inside the two
\* regions of a conditional.
Uses(i) ==
    LET args(j) == IF IsAbi(j) THEN {} ELSE Range(ssa[j].args) IN
    args(i) \cup
      IF ssa[i].op = "if"
      THEN UNION {args(j) : j \in {k \in DOMAIN ssa :
                     ssa[k].region # 0 /\ ssa[k].region \in {ssa[i].then, ssa[i].else}}}
      ELSE {}
Reachable(roots) ==
    LET from[i \in DOMAIN ssa] == {i} \cup UNION {from[j] : j \in Uses(i)}
    IN UNION {from[i] : i \in roots}

\* The members of a set of numbers in ascending order.
OrderIn(n, set) == Cardinality({k \in set : k <= n})
Ascending(set) == [k \in 1 .. Cardinality(set) |-> CHOOSE n \in set : OrderIn(n, set) = k]

\* stablehlo_signature: the parameter numbers of the ABI, in ascending order.
Parameters(roots, pruned) ==
    LET kept == {i \in DOMAIN ssa : IsAbi(i) /\ (pruned => i \in Reachable(roots))}
    IN Ascending({ssa[i].args[1] : i \in kept})

\* compile and compile_pruned.
PlanArguments(parameters) == [j \in DOMAIN parameters |-> arguments[parameters[j] + 1]]
Retained(plan) == {plan[j].index : j \in {k \in DOMAIN plan : plan[k].kind = "input"}}

Compile(out, pruned) ==
    LET parameters == Parameters({out} \cup Range(slots), pruned) IN
    /\ Calling /\ ~InBranch
    /\ program' = [compiled |-> TRUE, out |-> out, parameters |-> parameters,
                   arguments |-> PlanArguments(parameters)]
    /\ UNCHANGED <<traceVars, broken, predicateInput, mask, limit, fixed, ran>>

\* Session::bind_inputs fixes one more retained input.
BindInput(i) ==
    /\ program.compiled /\ ~ran.done
    /\ i \in Retained(program.arguments) \ fixed
    /\ Cardinality(fixed) < limit.bound
    /\ fixed' = fixed \cup {i}
    /\ UNCHANGED <<traceVars, broken, predicateInput, mask, limit, program, ran>>

\* It renumbers the inputs that stay dynamic in registration order, and the
\* caller of run passes their values in that order.
DynamicIndex(i) == Cardinality({k \in Retained(program.arguments) \ fixed : k < i}) + 1
DynamicValues ==
    LET order == Ascending(Retained(program.arguments) \ fixed)
    IN [k \in DOMAIN order |-> InputValue(order[k])]
\* Session::execution_arguments.
Argument(a) ==
    IF a.kind = "state" THEN StateValue(a.index)
    ELSE IF a.index \in fixed THEN InputValue(a.index)
    ELSE DynamicValues[DynamicIndex(a.index)]

\* The executable evaluates the recorded dataflow on its arguments.
Value(i) ==
    LET bound(n) == CHOOSE j \in DOMAIN program.parameters : program.parameters[j] = n
        val[k \in DOMAIN ssa] ==
            LET a == ssa[k].args IN
            CASE IsAbi(k) -> Argument(program.arguments[bound(a[1])])
              [] ssa[k].op = "mark" -> val[a[1]]
              [] ssa[k].op = "add" -> val[a[1]] + val[a[2]]
              [] OTHER -> IF val[a[1]] # 0 THEN val[a[2]] ELSE val[a[3]]
    IN val[i]

\* Session::run_with: one execution.
RunSession ==
    /\ program.compiled /\ ~ran.done
    /\ ran' = [done |-> TRUE, visible |-> Value(program.out), wanted |-> known[program.out],
               states |-> [s \in DOMAIN slots |-> Value(slots[s])]]
    /\ UNCHANGED <<traceVars, broken, predicateInput, mask, limit, program, fixed>>

\* One update of any slot by another value than it holds, and two that exchange
\* slots or name one twice.
Updates ==
    {<<<<u[1], u[2]>>>> : u \in {v \in (DOMAIN slots) \X Handles : v[2] # slots[v[1]]}} \cup
    {<<<<s, slots[t]>>, <<t, slots[s]>>>> : s, t \in DOMAIN slots}
TraceEnded == (ran.done \/ broken) /\ UNCHANGED stateVars

TraceNext ==
    \/ Input \/ DeclareState
    \/ \E path \in Paths : Param(path)
    \/ \E u \in Updates : WriteMany(u) \/ WriteManyIf(u)
    \/ \E s \in DOMAIN slots, h \in Handles : Add(s, h)
    \/ BeginCond
    \/ \E out \in Handles : EndThen(out) \/ EndElse(out)
    \/ BranchFails
    \/ \E out \in Handles, pruned \in BOOLEAN : Compile(out, pruned)
    \/ \E i \in 0 .. inputCount - 1 : BindInput(i)
    \/ RunSession
    \/ TraceEnded

TraceSpec == TraceInit /\ [][TraceNext]_stateVars

-----------------------------------------------------------------------------
\* Properties.

TraceTypeOK ==
    /\ \A i \in DOMAIN ssa :
          /\ ssa[i].op \in {"input", "stateInput", "mark", "add", "select", "if"}
          /\ ~IsAbi(i) => Range(ssa[i].args) \subseteq 1 .. i - 1
          /\ ssa[i].region \in Nat
    /\ Len(known) = Len(ssa)
    /\ slots \in Seq(DOMAIN ssa) /\ Len(store) = Len(slots)
    /\ params \in [DOMAIN params -> DOMAIN ssa]
    /\ cond.phase \in {"none", "then", "else"}

\* STATE-DESIGN.md "lowering discharges effects into ordinary ABI inputs and
\* hidden final-state outputs": one execution of the compiled program, pruned
\* or not, with any inputs bound, yields exactly what running the recorded
\* effects imperatively yields, for the visible result and for every slot.
RunIsImperative ==
    ran.done => ran.visible = ran.wanted /\ ran.states = store

\* The ABI: the graph numbers its parameters densely, and the state graph's
\* argument list names for each number the input or slot registered with it,
\* whatever was declared inside branches.
AbiAligned ==
    /\ Len(arguments) = ParameterCount
    /\ \A i \in DOMAIN ssa : IsAbi(i) =>
          known[i] = LET a == arguments[ssa[i].args[1] + 1] IN
                     IF a.kind = "state" THEN StateValue(a.index) ELSE InputValue(a.index)

\* append_conditional: "values before each marker remain legal captures": the
\* current versions always are values of the code being traced, never of a
\* branch that has ended, also when a branch fails.
VersionsInScope ==
    ~broken => \A s \in DOMAIN slots : InScope(slots[s])

\* nn/lib.rs:651-652 "Parameters declared in either branch are hoisted into the
\* model ABI": a declared parameter can be used by all code that follows, so its
\* value is in scope.
ParametersInScope ==
    \A p \in DOMAIN params : InScope(params[p])

\* Nothing that is current refers into a branch that has ended, and every
\* argument is the one its number was registered with.
TraceWellScoped ==
    /\ TraceTypeOK
    /\ AbiAligned
    /\ VersionsInScope
    /\ ParametersInScope
=============================================================================
