----------------------------- MODULE LazyEvaluation -----------------------------
(***************************************************************************)
(* Lazy tensors of rxla-core.  A LazySession holds one growing SSA graph   *)
(* and, next to it under a lock of its own, the list of concrete inputs    *)
(* behind the graph's parameters.  Runtime::eval_many and eval_many_async  *)
(* lease the requested roots, lower what they depend on, execute it, and   *)
(* cut every root to a new parameter bound to its result.                  *)
(*                                                                         *)
(* Tensors are Send + Sync, so evaluations may run on several threads; a   *)
(* session is thread-local, so concrete tensors enter it on one thread     *)
(* only.  Every section under one lock is one step.                        *)
(*                                                                         *)
(* The only operation is a sum; the k-th concrete tensor holds 10^k.       *)
(***************************************************************************)
EXTENDS Integers, Sequences, FiniteSets, SequencesExt

CONSTANTS Threads,
          Home,          \* the thread the session belongs to
          Tasks,         \* evaluations
          SharedLifts,   \* may concrete tensors enter while another
                         \* thread evaluates?
          MaxNodes,      \* bound: SSA values
          MaxLifts,      \* bound: concrete tensors
          MaxRoots       \* bound: roots of one evaluation

ASSUME LazyAssumption ==
    /\ Home \in Threads
    /\ SharedLifts \in BOOLEAN
    /\ {MaxNodes, MaxLifts, MaxRoots} \subseteq Nat

VARIABLES
    nodes,     \* parameter number (None for an operation) and operands
    meaning,   \* the value each SSA node stands for
    handles,   \* nodes whose Tensor the program holds
    bound,     \* TensorDescriptor.binding: concrete value of a node, None before
    inputs,    \* LazySession.inputs
    inFlight,  \* LazySession.in_flight
    lifting,   \* into_lazy between its two locks: the new node, else 0
    task       \* per evaluation: progress and locals

lazyVars == <<nodes, meaning, handles, bound, inputs, inFlight, lifting, task>>

None == -1
Leaf(n) == [param |-> n, args |-> <<>>]
Idle == [pc |-> "idle", thread |-> Home, async |-> FALSE, roots |-> {}, unchecked |-> {},
         leased |-> {}, program |-> <<>>, values |-> <<>>]

\* A thread is inside a call from its first step to its last; an asynchronous
\* evaluation leaves its thread free while it is submitted.
InCall(t) == task[t].pc \notin {"idle", "done"}
             /\ ~(task[t].async /\ task[t].pc = "submitted")
Free(th, t) == /\ \A u \in Tasks \ {t} : ~(InCall(u) /\ task[u].thread = th)
               /\ th = Home => lifting = 0
Running(t, pc) == task[t].pc = pc /\ Free(task[t].thread, t)

LazyInit ==
    /\ nodes = <<>>
    /\ meaning = <<>>
    /\ handles = {}
    /\ bound = <<>>
    /\ inputs = <<>>
    /\ inFlight = {}
    /\ lifting = 0
    /\ task = [t \in Tasks |-> Idle]

-----------------------------------------------------------------------------
\* Building the graph.

Numbers == {nodes[i].param : i \in DOMAIN nodes} \ {None}
ParameterNodes == {i \in DOMAIN nodes : nodes[i].param # None}
\* ProgramIr::parameter_count: the numbers are dense and unique, or it fails.
DenseNumbers == Numbers = 0 .. Cardinality(ParameterNodes) - 1
Lifts == Cardinality({i \in DOMAIN nodes : nodes[i].args = <<>>})
OthersQuiet == \A t \in Tasks : task[t].pc \in {"idle", "done"} \/ task[t].thread = Home
AnyFree(th) == \A u \in Tasks : ~(InCall(u) /\ task[u].thread = th)

\* Tensor::into_lazy, first lock: Graph::parameter.
Lift ==
    /\ lifting = 0 /\ AnyFree(Home)
    /\ SharedLifts \/ OthersQuiet
    /\ Len(nodes) < MaxNodes /\ Lifts < MaxLifts
    /\ DenseNumbers
    /\ nodes' = Append(nodes, Leaf(Cardinality(ParameterNodes)))
    /\ meaning' = Append(meaning, 10 ^ Lifts)
    /\ bound' = Append(bound, 10 ^ Lifts)
    /\ lifting' = Len(nodes) + 1
    /\ UNCHANGED <<handles, inputs, inFlight, task>>

\* Second lock: the concrete tensor is pushed and the handle returned.
LiftPush ==
    /\ lifting # 0
    /\ inputs' = Append(inputs, bound[lifting])
    /\ handles' = handles \cup {lifting}
    /\ lifting' = 0
    /\ UNCHANGED <<nodes, meaning, bound, inFlight, task>>

\* A tensor operation, on any thread: Graph::push_node.
AddNode(th, i, j) ==
    /\ AnyFree(th) /\ (th = Home => lifting = 0)
    /\ Len(nodes) < MaxNodes
    /\ nodes' = Append(nodes, [param |-> None, args |-> <<i, j>>])
    /\ meaning' = Append(meaning, meaning[i] + meaning[j])
    /\ bound' = Append(bound, None)
    /\ handles' = handles \cup {Len(nodes) + 1}
    /\ UNCHANGED <<inputs, inFlight, lifting, task>>

-----------------------------------------------------------------------------
\* Evaluation.

\* eval_many(_async)_on: materialized outputs are left out; nothing else to do
\* when there are no others.
Begin(t, th, outputs, async) ==
    LET pending == {r \in outputs : bound[r] = None} IN
    /\ task[t].pc = "idle" /\ Free(th, t)
    /\ SharedLifts \/ th = Home \/ lifting = 0
    /\ task' = [task EXCEPT ![t] =
         [pc |-> IF pending = {} THEN "done" ELSE "check", thread |-> th, async |-> async,
          roots |-> pending, unchecked |-> pending, leased |-> {}, program |-> <<>>,
          values |-> <<>>]]
    /\ UNCHANGED <<nodes, meaning, handles, bound, inputs, inFlight, lifting>>

\* Mutant: an evaluation waits for the one that has its root.
CheckRootWaiting(t, r) ==
    /\ task[t].pc = "check"
    /\ r \in task[t].unchecked \ inFlight
    /\ task' = [task EXCEPT ![t].unchecked = @ \ {r}]
    /\ UNCHANGED <<nodes, meaning, handles, bound, inputs, inFlight, lifting>>
\* begin_evaluation asks for each root whether it is in flight, taking the lock
\* anew each time, ...
CheckRoot(t, r) ==
    /\ task[t].pc = "check"
    /\ r \in task[t].unchecked
    /\ task' = IF r \in inFlight
               THEN [task EXCEPT ![t] = [Idle EXCEPT !.pc = "done", !.thread = task[t].thread]]
               ELSE [task EXCEPT ![t].unchecked = @ \ {r}]
    /\ UNCHANGED <<nodes, meaning, handles, bound, inputs, inFlight, lifting>>

\* ... and then claims them all.
Lease(t) ==
    /\ task[t].pc = "check"
    /\ task[t].unchecked = {}
    /\ inFlight' = inFlight \cup task[t].roots
    /\ task' = [task EXCEPT ![t].pc = "lower", ![t].leased = task[t].roots]
    /\ UNCHANGED <<nodes, meaning, handles, bound, inputs, lifting>>

\* The parameters a set of roots of a graph depends on.
ParametersOf(graph, roots) ==
    LET from[i \in DOMAIN graph] == {i} \cup UNION {from[j] : j \in Range(graph[i].args)}
    IN {i \in UNION {from[r] : r \in roots} : graph[i].param # None}
\* Graph::direct_program: the program is the graph as it is now; two reachable
\* parameters with one number are an error.
Lower(t) ==
    LET parameters == ParametersOf(nodes, task[t].roots)
        unique == \A i, j \in parameters : nodes[i].param = nodes[j].param => i = j
    IN
    /\ task[t].pc = "lower"
    /\ task' = IF unique
               THEN [task EXCEPT ![t].pc = "gather", ![t].program = nodes]
               ELSE [task EXCEPT ![t].pc = "release"]
    /\ UNCHANGED <<nodes, meaning, handles, bound, inputs, inFlight, lifting>>

\* What the program computes for node i on the inputs.
Computed(program, i) ==
    LET val[k \in DOMAIN program] ==
            IF program[k].param # None THEN inputs[program[k].param + 1]
            ELSE val[program[k].args[1]] + val[program[k].args[2]]
    IN val[i]
\* lazy_inputs under the lock of the list fails when an input is missing;
\* otherwise upload, compile and submit.
Gather(t) ==
    LET program == task[t].program
        supplied == \A i \in ParametersOf(program, task[t].roots) : program[i].param < Len(inputs)
    IN
    /\ task[t].pc = "gather"
    /\ task' = IF supplied
               THEN [task EXCEPT ![t].pc = "submitted", ![t].program = <<>>,
                       ![t].values = [r \in task[t].roots |-> Computed(program, r)]]
               ELSE [task EXCEPT ![t].pc = "release", ![t].program = <<>>]
    /\ UNCHANGED <<nodes, meaning, handles, bound, inputs, inFlight, lifting>>

\* Compilation or execution fails, or a PendingEvaluation is dropped.
GiveUp(t) ==
    /\ task[t].pc \in {"gather", "submitted"} /\ Free(task[t].thread, t)
    /\ task' = [task EXCEPT ![t].pc = "release", ![t].program = <<>>]
    /\ UNCHANGED <<nodes, meaning, handles, bound, inputs, inFlight, lifting>>

\* materialize_all, under the locks of the graph and of the list: every root
\* that is still an operation becomes a parameter for its result, in the order
\* in which the caller listed them.
\* Mutant: a root that another evaluation has cut is cut again.
RootsToCutAll(t) == task[t].roots
RootsToCut(t) == {r \in task[t].roots : nodes[r].param = None}
Orders(S) == Bijection(1 .. Cardinality(S), S)
Place(cut, i) == CHOOSE k \in DOMAIN cut : cut[k] = i
\* Mutant: the new number is the length of the list after the push.
MaterializePushedFirst(t) ==
    /\ Running(t, "submitted")
    /\ \E cut \in Orders(RootsToCut(t)) :
         /\ inputs' = inputs \o [k \in DOMAIN cut |-> task[t].values[cut[k]]]
         /\ nodes' = [i \in DOMAIN nodes |->
                        IF i \in RootsToCut(t) THEN Leaf(Len(inputs) + Place(cut, i)) ELSE nodes[i]]
    /\ task' = [task EXCEPT ![t].pc = "publish", ![t].async = FALSE]
    /\ UNCHANGED <<meaning, handles, bound, inFlight, lifting>>
Materialize(t) ==
    /\ Running(t, "submitted")
    /\ \E cut \in Orders(RootsToCut(t)) :
         /\ inputs' = inputs \o [k \in DOMAIN cut |-> task[t].values[cut[k]]]
         /\ nodes' = [i \in DOMAIN nodes |->
                        IF i \in RootsToCut(t) THEN Leaf(Len(inputs) + Place(cut, i) - 1) ELSE nodes[i]]
    /\ task' = [task EXCEPT ![t].pc = "publish", ![t].async = FALSE]
    /\ UNCHANGED <<meaning, handles, bound, inFlight, lifting>>

\* The handles' bindings are set one after the other, without a lock.
Publish(t, r) ==
    /\ task[t].pc = "publish"
    /\ r \in task[t].roots
    /\ bound' = [bound EXCEPT ![r] = IF @ = None THEN task[t].values[r] ELSE @]
    /\ task' = [task EXCEPT ![t].roots = @ \ {r},
                            ![t].pc = IF task[t].roots = {r} THEN "release" ELSE @]
    /\ UNCHANGED <<nodes, meaning, handles, inputs, inFlight, lifting>>

\* EvaluationLease::drop.
\* Mutant: an evaluation that failed keeps its claim.
ReleaseAfterSuccess(t) ==
    /\ task[t].pc = "release"
    /\ inFlight' = IF task[t].roots = {} THEN inFlight \ task[t].leased ELSE inFlight
    /\ task' = [task EXCEPT ![t] = [Idle EXCEPT !.pc = "done", !.thread = task[t].thread]]
    /\ UNCHANGED <<nodes, meaning, handles, bound, inputs, lifting>>
Release(t) ==
    /\ task[t].pc = "release"
    /\ inFlight' = inFlight \ task[t].leased
    /\ task' = [task EXCEPT ![t] = [Idle EXCEPT !.pc = "done", !.thread = task[t].thread]]
    /\ UNCHANGED <<nodes, meaning, handles, bound, inputs, lifting>>

-----------------------------------------------------------------------------
TaskStep(t) ==
    \/ \E r \in task[t].roots : CheckRoot(t, r) \/ Publish(t, r)
    \/ Lease(t) \/ Lower(t) \/ Gather(t) \/ GiveUp(t) \/ Materialize(t) \/ Release(t)

Roots == {R \in SUBSET handles : R # {} /\ Cardinality(R) <= MaxRoots}

LazyNext ==
    \/ Lift \/ LiftPush
    \/ \E th \in Threads, i, j \in handles : i <= j /\ AddNode(th, i, j)
    \/ \E t \in Tasks, th \in Threads, R \in Roots, async \in BOOLEAN : Begin(t, th, R, async)
    \/ \E t \in Tasks : TaskStep(t)

LazySpec == LazyInit /\ [][LazyNext]_lazyVars

-----------------------------------------------------------------------------
\* Properties.

LazyTypeOK ==
    /\ \A i \in DOMAIN nodes : nodes[i].param \in Nat \cup {None}
                               /\ Range(nodes[i].args) \subseteq 1 .. i - 1
    /\ Len(meaning) = Len(nodes) /\ Len(bound) = Len(nodes)
    /\ handles \subseteq DOMAIN nodes
    /\ inFlight \subseteq handles
    /\ lifting \in {0} \cup DOMAIN nodes
    /\ \A t \in Tasks : task[t].leased \subseteq handles /\ task[t].thread \in Threads

\* frontend.rs:1037 "The returned lease prevents duplicate evaluation of the
\* same roots": as long as one thread evaluates, two evaluations never hold a
\* lease of one root.
LeaseExclusive ==
    (\A t \in Tasks : task[t].thread = Home) =>
        \A t, u \in Tasks : t # u => task[t].leased \cap task[u].leased = {}

\* MLX-LAYOUT-REVIEW.md: "Failed submission, failed waiting, or dropping the
\* pending handle releases the lease ..., so evaluation can be retried": no root
\* is in flight without an evaluation that holds its lease.
NoOrphanLease == inFlight \subseteq UNION {task[t].leased : t \in Tasks}

\* "A materialized Tensor remains usable as a leaf of later lazy expressions":
\* the input list holds, at each parameter's number, the value of that node.
InputsAligned ==
    \A i \in handles : nodes[i].param # None =>
        /\ nodes[i].param < Len(inputs)
        /\ inputs[nodes[i].param + 1] = meaning[i]

\* Leases and the input list together, after any overlap of evaluations.
LeasesSound ==
    /\ LazyTypeOK
    /\ LeaseExclusive
    /\ NoOrphanLease
    /\ InputsAligned

\* A tensor is bound only to the value its expression stands for, however many
\* evaluations of it and of its ancestors overlap.
BoundRight == \A i \in handles : bound[i] # None => bound[i] = meaning[i]

\* A node cut to a parameter keeps that parameter: later expressions, and
\* programs already lowered, rely on its number.
CutOnce ==
    [][\A i \in DOMAIN nodes : nodes[i].param # None => nodes'[i] = nodes[i]]_lazyVars

\* Evaluations never wait for each other in a circle: while one is in progress,
\* some step of an evaluation, or the call that is between its locks, can run.
\* Each evaluation takes finitely many steps, so all of them end.
NobodyStuck ==
    (\E t \in Tasks : task[t].pc \notin {"idle", "done"}) =>
        ENABLED (LiftPush \/ \E t \in Tasks : TaskStep(t))
=============================================================================
