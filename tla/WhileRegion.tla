------------------------------ MODULE WhileRegion ------------------------------
(***************************************************************************)
(* Structured loops: Tensor::while_loop of rxla-core traces the condition  *)
(* and the body once, against the initial carry, as ordinary operations of *)
(* the graph; ProgramIr::append_while of rxla-ir then moves the two ranges *)
(* into regions and rewrites the uses of initial carries to the regions'   *)
(* block arguments.                                                        *)
(*                                                                         *)
(* An operand has two forms.  The closure MEANS carry k or a value; the    *)
(* graph only sees the SSA value behind it.  The reference loop evaluates  *)
(* what was meant, the compiled loop what append_while made of it.         *)
(* Nested regions are left out.                                            *)
(***************************************************************************)
EXTENDS Integers, Sequences

CONSTANTS Arity,          \* number of loop carries
          Outer,          \* number of values that exist before the loop
          SharedInitial,  \* may two carries start from one SSA value?
          Modulus,        \* size of the integers computed with
          MaxValues,      \* bound: SSA values
          MaxIterations   \* bound: iterations executed

ASSUME WhileAssumption ==
    /\ {Arity, Outer, Modulus, MaxIterations} \subseteq Nat \ {0}
    /\ MaxValues \in Nat
    /\ SharedInitial \in BOOLEAN

Carry(k) == [at |-> "carry", id |-> k]
Val(i) == [at |-> "value", id |-> i]

VARIABLES
    phase,      \* "start", "condition", "body", "running", "done"
    ops,        \* per SSA value: "outer", "parameter", "add" or "less"
    args,       \* operands as the graph holds them
    meant,      \* operands as the closures mean them
    region,     \* "root", "condition" or "body"
    initial,    \* SSA values of the initial carry
    marks,      \* the condition and the body marker
    predicate,  \* [args, meant]: what the condition returned
    next,       \* [args, meant]: what the body returned
    carry,      \* carries of the compiled loop
    wanted,     \* carries of the reference loop
    iterations

traced == <<ops, args, meant, region, initial, marks, predicate, next>>
vars == <<phase, traced, carry, wanted, iterations>>

Values == DOMAIN ops
Number(i) == i % Modulus          \* of an outer value or a parameter
InitialCarry == [k \in 1 .. Arity |-> Number(initial[k])]

Init ==
    /\ phase = "start"
    /\ ops = [i \in 1 .. Outer |-> "outer"]
    /\ args = [i \in 1 .. Outer |-> <<>>]
    /\ meant = [i \in 1 .. Outer |-> <<>>]
    /\ region = [i \in 1 .. Outer |-> "root"]
    /\ initial = <<>>
    /\ marks = <<>>
    /\ predicate = [args |-> <<>>, meant |-> <<>>]
    /\ next = [args |-> <<>>, meant |-> <<>>]
    /\ carry = <<>>
    /\ wanted = <<>>
    /\ iterations = 0

-----------------------------------------------------------------------------
\* Tracing.

Distinct(values) == \A j, k \in DOMAIN values : values[j] = values[k] => j = k
Initials == {initial[k] : k \in DOMAIN initial}

\* while_loop_many_with_error: the closures receive the initial tensors.
BeginWhile(values) ==
    /\ phase = "start"
    /\ SharedInitial \/ Distinct(values)
    /\ initial' = values
    /\ marks' = <<Len(ops)>>
    /\ phase' = "condition"
    /\ UNCHANGED <<ops, args, meant, region, predicate, next, carry, wanted, iterations>>

\* What a closure can name: carries, values from before the loop, parameters,
\* and what it has built itself.  An initial tensor captured by a closure is a
\* carry, by append_while's comment.
Own(i) == marks # <<>> /\ i > marks[Len(marks)]
Operands ==
    {Carry(k) : k \in 1 .. Arity} \cup
    {Val(i) : i \in {j \in Values :
        /\ Own(j) \/ ops[j] = "parameter" \/ ops[j] = "outer"
        /\ j \notin Initials}}
\* The SSA value behind a handle: a carry is the initial tensor itself.
Ssa(o) == IF o.at = "carry" THEN initial[o.id] ELSE o.id
SsaAll(os) == [j \in DOMAIN os |-> Ssa(os[j])]

\* Graph::push_node, from a closure.
AppendOp(op, os) ==
    /\ phase \in {"condition", "body"}
    /\ Len(ops) < MaxValues
    /\ ops' = Append(ops, op)
    /\ args' = Append(args, SsaAll(os))
    /\ meant' = Append(meant, os)
    /\ region' = Append(region, "root")
    /\ UNCHANGED <<phase, initial, marks, predicate, next, carry, wanted, iterations>>

EndCondition(o) ==
    /\ phase = "condition"
    /\ predicate' = [args |-> <<Ssa(o)>>, meant |-> <<o>>]
    /\ marks' = Append(marks, Len(ops))
    /\ phase' = "body"
    /\ UNCHANGED <<ops, args, meant, region, initial, next, carry, wanted, iterations>>

-----------------------------------------------------------------------------
\* append_while.

\* Operations after a marker move into its region; ABI declarations stay.
RegionOf(i) ==
    IF i <= marks[1] \/ ops[i] = "parameter" THEN "root"
    ELSE IF i <= marks[2] THEN "condition" ELSE "body"

\* `remap`, a HashMap collected from (initial value, block argument) pairs: of
\* two carries that start from one value the later one stays.
Remap(i) ==
    LET same == {k \in DOMAIN initial : initial[k] = i} IN
    IF same = {} THEN Val(i)
    ELSE Carry(CHOOSE k \in same : \A j \in same : j <= k)
RemapAll(is) == [j \in DOMAIN is |-> Remap(is[j])]
\* The regions' yields are rewritten as well.
\* Mutant: they keep the values of the trace.
RemapYieldNothing(is) == [j \in DOMAIN is |-> Val(is[j])]
RemapYield(is) == RemapAll(is)

\* The body returns and the loop is built.
EndBody(os) ==
    /\ phase = "body"
    /\ region' = [i \in Values |-> RegionOf(i)]
    /\ args' = [i \in Values |-> RemapAll(args[i])]
    /\ predicate' = [predicate EXCEPT !.args = RemapYield(@)]
    /\ next' = [args |-> RemapYield(SsaAll(os)), meant |-> os]
    /\ phase' = "running"
    /\ carry' = InitialCarry
    /\ wanted' = InitialCarry
    /\ UNCHANGED <<ops, meant, initial, marks, iterations>>

-----------------------------------------------------------------------------
\* Execution: stablehlo.while on the built regions, and the reference loop.

Compute(op, a, b) == IF op = "add" THEN (a + b) % Modulus
                     ELSE IF a < b THEN 1 ELSE 0
\* The value of operand o when operations have operands `operands` and the
\* carries hold `now`.
Evaluate(o, operands, now) ==
    LET of(x, f) == IF x.at = "carry" THEN now[x.id] ELSE f[x.id]
        f[i \in Values] ==
            IF ops[i] \in {"outer", "parameter"} THEN Number(i)
            ELSE Compute(ops[i], of(operands[i][1], f), of(operands[i][2], f))
    IN of(o, f)

\* One test of the predicate.  Where the reference loop would go on and the
\* compiled one stops, `wanted` becomes the empty sequence.
Iterate ==
    /\ phase = "running"
    /\ iterations < MaxIterations
    /\ IF Evaluate(predicate.args[1], args, carry) # 0
       THEN /\ carry' = [k \in 1 .. Arity |-> Evaluate(next.args[k], args, carry)]
            /\ wanted' = IF Evaluate(predicate.meant[1], meant, wanted) # 0
                         THEN [k \in 1 .. Arity |-> Evaluate(next.meant[k], meant, wanted)]
                         ELSE wanted
            /\ iterations' = iterations + 1
            /\ UNCHANGED phase
       ELSE /\ phase' = "done"
            /\ wanted' = IF Evaluate(predicate.meant[1], meant, wanted) # 0
                         THEN <<>> ELSE wanted
            /\ UNCHANGED <<carry, iterations>>
    /\ UNCHANGED traced

Ended == (phase = "done" \/ iterations = MaxIterations) /\ UNCHANGED vars

Next ==
    \/ \E values \in [1 .. Arity -> 1 .. Outer] : BeginWhile(values)
    \/ \E op \in {"add", "less"}, a, b \in Operands : AppendOp(op, <<a, b>>)
    \/ AppendOp("parameter", <<>>)
    \/ \E o \in Operands : EndCondition(o)
    \/ \E os \in [1 .. Arity -> Operands] : EndBody(os)
    \/ Iterate
    \/ Ended

Spec == Init /\ [][Next]_vars

-----------------------------------------------------------------------------
\* Properties.

Built == phase \in {"running", "done"}

Operand == [at : {"carry", "value"}, id : Nat]
\* Operands of the graph are SSA values until the loop is built.
Held == IF Built THEN Operand ELSE Nat
TypeOK ==
    /\ phase \in {"start", "condition", "body", "running", "done"}
    /\ ops \in Seq({"outer", "parameter", "add", "less"})
    /\ args \in Seq(Seq(Held)) /\ Len(args) = Len(ops)
    /\ meant \in Seq(Seq(Operand)) /\ Len(meant) = Len(ops)
    /\ region \in Seq({"root", "condition", "body"}) /\ Len(region) = Len(ops)
    /\ initial \in IF phase = "start" THEN {<<>>} ELSE [1 .. Arity -> 1 .. Outer]
    /\ marks \in Seq(Nat)
    /\ Len(marks) = IF phase = "start" THEN 0 ELSE IF phase = "condition" THEN 1 ELSE 2
    /\ predicate \in [args : Seq(Held), meant : Seq(Operand)]
    /\ next \in [args : Seq(Held), meant : Seq(Operand)]
    /\ iterations \in 0 .. MaxIterations

\* tensor_handle.rs:678-680, "traced once against the initial carry; execution
\* iterates entirely inside the compiled program": the compiled loop takes the
\* iterations the closures describe, and every carry holds what they describe.
LoopIsReference == Built => carry = wanted

\* Region dominance after the rewriting: an operation, or a region's yield,
\* uses only block arguments, root values and earlier values of its region.
Visible(o, r) == o.at = "carry" \/ region[o.id] \in {"root", r}
CapturesDominate ==
    Built =>
      /\ \A i \in Values : region[i] # "root" =>
            \A j \in DOMAIN args[i] : Visible(args[i][j], region[i])
      /\ Visible(predicate.args[1], "condition")
      /\ \A k \in 1 .. Arity : Visible(next.args[k], "body")
=============================================================================
