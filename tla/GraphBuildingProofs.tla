--------------------------- MODULE GraphBuildingProofs ---------------------------
(***************************************************************************)
(* Proofs about the two modules of graph building beside tracing.          *)
(*                                                                         *)
(* LazyEvaluation, for any number of threads, evaluations and tensors, as  *)
(* long as concrete tensors do not enter the session while another thread  *)
(* evaluates.                                                              *)
(*                                                                         *)
(* Nodes: every node of the graph is a leaf whose number finds its own     *)
(* value in the input list, or a sum of earlier nodes (NodeRight).  Values *)
(* and inputs are only ever appended, so what is right stays right, also   *)
(* in the older graph an evaluation has lowered; and a graph that is right *)
(* computes the meaning of each of its nodes (Evaluated).  Lifting is the  *)
(* one moment where a leaf has no input yet: then no call is running       *)
(* (CallInv), so nobody lowers, gathers or cuts.                           *)
(*                                                                         *)
(* Leases: what is in flight is leased; and while all evaluations are on   *)
(* one thread, the roots a call has checked stay free until it claims them.*)
(*                                                                         *)
(* WhileRegion, for every arity and every loop: until append_while the     *)
(* graph holds the SSA values behind what the closures meant, afterwards   *)
(* what they meant (Faithful).                                             *)
(*                                                                         *)
(* Regions, also with carries that start from one value: what an operation *)
(* of a closure uses is near it (CaptureInv).                              *)
(***************************************************************************)
EXTENDS WhileRegion, LazyEvaluation, Counting

Nodes == [param : Nat \cup {None}, args : Seq(Nat)]
Added(a, b) == [param |-> None, args |-> <<a, b>>]

\* Node x at place i stands for m[i], given the inputs s.
NodeRight(x, i, m, s) ==
    \/ \E n \in 0 .. Len(s) - 1 : x = Leaf(n) /\ s[n + 1] = m[i]
    \/ \E a, b \in 1 .. i - 1 : x = Added(a, b) /\ m[i] = m[a] + m[b]

GraphRight(g, m, s) ==
    /\ g \in Seq(Nodes) /\ Len(g) <= Len(m)
    /\ \A i \in 1 .. Len(g) : NodeRight(g[i], i, m, s)

\* The graph of the session, its input list and the bindings of its tensors.
SessionInv ==
    /\ nodes \in Seq(Nodes) /\ meaning \in Seq(Int) /\ bound \in Seq(Int) /\ inputs \in Seq(Int)
    /\ Len(meaning) = Len(nodes) /\ Len(bound) = Len(nodes)
    /\ lifting \in 0 .. Len(nodes)
    /\ handles \subseteq (1 .. Len(nodes)) \ {lifting}
    /\ \A i \in 1 .. Len(nodes) : i # lifting => NodeRight(nodes[i], i, meaning, inputs)
    /\ lifting # 0 => nodes[lifting] = Leaf(Len(inputs)) /\ bound[lifting] = meaning[lifting]
    /\ \A n \in 0 .. Len(inputs) - 1 : \E i \in 1 .. Len(nodes) : nodes[i].param = n
    /\ \A i \in handles : bound[i] # None => bound[i] = meaning[i]

\* The locals of an evaluation, given the handles h, the meanings m and the
\* inputs s.
TaskRight(r, h, m, s) ==
    /\ r = [pc |-> r.pc, thread |-> r.thread, async |-> r.async, roots |-> r.roots,
            unchecked |-> r.unchecked, leased |-> r.leased, program |-> r.program,
            values |-> r.values]
    /\ r.pc \in {"idle", "check", "lower", "gather", "submitted", "publish", "release", "done"}
    /\ r.thread \in Threads
    /\ r.roots \subseteq h /\ r.unchecked \subseteq r.roots /\ r.leased \subseteq h
    /\ r.pc # "check" => r.unchecked = {}
    /\ r.pc = "idle" => r.thread = Home
    /\ r.pc \in {"idle", "check", "done"} => r.leased = {}
    /\ r.pc = "gather" => GraphRight(r.program, m, s) /\ r.roots \subseteq 1 .. Len(r.program)
    /\ r.pc \in {"submitted", "publish"} => \A x \in r.roots : r.values[x] = m[x]

TaskInv ==
    /\ task = [t \in Tasks |-> task[t]]
    /\ \A t \in Tasks : TaskRight(task[t], handles, meaning, inputs)

\* InCall of a record, and what an evaluation may be while a tensor is lifted.
Occupied(r) == r.pc \notin {"idle", "done"} /\ ~(r.async /\ r.pc = "submitted")
Quiet(r) == r.pc \in {"idle", "done"} \/ (r.thread = Home /\ ~Occupied(r))

\* A thread is in one call at a time, and in none while it lifts a tensor.
CallInv ==
    /\ \A t, u \in Tasks : t # u /\ Occupied(task[t]) /\ Occupied(task[u])
                             => task[t].thread # task[u].thread
    /\ lifting # 0 => \A t \in Tasks : Quiet(task[t])

OneThread == \A t \in Tasks : task[t].thread = Home
LeaseInv ==
    /\ inFlight \subseteq UNION {task[t].leased : t \in Tasks}
    /\ OneThread =>
          /\ \A t, u \in Tasks : t # u => task[t].leased \cap task[u].leased = {}
          /\ \A t \in Tasks : task[t].leased \subseteq inFlight
          /\ \A t \in Tasks : task[t].pc = "check" =>
                (task[t].roots \ task[t].unchecked) \cap inFlight = {}

LazyInv == SessionInv /\ TaskInv /\ CallInv /\ LeaseInv

-----------------------------------------------------------------------------
\* Appending keeps what is right.

\* q is p with something appended.
Extends(p, q) ==
    /\ p \in Seq(Int) /\ q \in Seq(Int) /\ Len(p) <= Len(q)
    /\ \A i \in 1 .. Len(p) : q[i] = p[i]

\* A node that is right stays right.
LEMMA NodeKept ==
    ASSUME NEW m, NEW m2, Extends(m, m2), NEW s, NEW s2, Extends(s, s2),
           NEW i \in 1 .. Len(m), NEW x, NodeRight(x, i, m, s)
    PROVE  NodeRight(x, i, m2, s2)
<1>1. /\ Len(m) \in Nat /\ Len(s) \in Nat /\ Len(s2) \in Nat /\ Len(s) <= Len(s2)
      /\ \A j \in 1 .. Len(m) : m2[j] = m[j]
      /\ \A j \in 1 .. Len(s) : s2[j] = s[j]
  <2>1. /\ m \in Seq(Int) /\ s \in Seq(Int) /\ s2 \in Seq(Int) /\ Len(s) <= Len(s2)
        /\ \A j \in 1 .. Len(m) : m2[j] = m[j]
        /\ \A j \in 1 .. Len(s) : s2[j] = s[j]
    BY DEF Extends
  <2>2. Len(m) \in Nat /\ Len(s) \in Nat /\ Len(s2) \in Nat
    BY <2>1
  <2>3. QED BY <2>1, <2>2
<1>2. ASSUME NEW n \in 0 .. Len(s) - 1, x = Leaf(n), s[n + 1] = m[i]
      PROVE  NodeRight(x, i, m2, s2)
  <2>1. n + 1 \in 1 .. Len(s) /\ n \in 0 .. Len(s2) - 1
    BY <1>1
  <2>2. s2[n + 1] = m2[i]
    BY <1>1, <1>2, <2>1
  <2>3. QED BY <1>2, <2>1, <2>2 DEF NodeRight
<1>3. ASSUME NEW a \in 1 .. i - 1, NEW b \in 1 .. i - 1, x = Added(a, b), m[i] = m[a] + m[b]
      PROVE  NodeRight(x, i, m2, s2)
  <2>1. a \in 1 .. Len(m) /\ b \in 1 .. Len(m)
    BY <1>1
  <2>2. m2[i] = m2[a] + m2[b]
    BY <1>1, <1>3, <2>1
  <2>3. QED BY <1>3, <2>2 DEF NodeRight
<1>4. QED BY <1>2, <1>3 DEF NodeRight

\* So does a graph.
LEMMA GraphKept ==
    ASSUME NEW m, NEW m2, Extends(m, m2), NEW s, NEW s2, Extends(s, s2),
           NEW g, GraphRight(g, m, s)
    PROVE  GraphRight(g, m2, s2)
<1>1. Len(g) \in Nat /\ Len(m) \in Nat /\ Len(m2) \in Nat /\ Len(m) <= Len(m2) /\ Len(g) <= Len(m)
  BY DEF Extends, GraphRight
<1>2. ASSUME NEW i \in 1 .. Len(g) PROVE NodeRight(g[i], i, m2, s2)
  <2>1. i \in 1 .. Len(m) /\ NodeRight(g[i], i, m, s)
    BY <1>1 DEF GraphRight
  <2>2. QED BY <2>1, NodeKept
<1>3. QED BY <1>1, <1>2 DEF GraphRight

\* And so do the locals of every evaluation.
LEMMA TaskKept ==
    ASSUME NEW m, NEW m2, Extends(m, m2), NEW s, NEW s2, Extends(s, s2),
           NEW h, NEW h2, h \subseteq h2, h \subseteq 1 .. Len(m),
           NEW r, TaskRight(r, h, m, s)
    PROVE  TaskRight(r, h2, m2, s2)
<1>1. r.pc = "gather" => GraphRight(r.program, m2, s2)
  BY GraphKept DEF TaskRight
<1>2. r.pc \in {"submitted", "publish"} => \A x \in r.roots : r.values[x] = m2[x]
  BY DEF TaskRight, Extends
<1>3. r.roots \subseteq h2 /\ r.leased \subseteq h2
  BY DEF TaskRight
<1>4. QED BY <1>1, <1>2, <1>3 DEF TaskRight

-----------------------------------------------------------------------------
\* What a right graph computes.

\* What each node of a right graph is, by its fields.
LEMMA NodeFields ==
    ASSUME NEW x, NEW i \in Nat, NEW m, NEW s \in Seq(Int), NodeRight(x, i, m, s)
    PROVE  \/ /\ x.param # None /\ x.args = <<>>
              /\ x.param \in 0 .. Len(s) - 1 /\ s[x.param + 1] = m[i]
           \/ /\ x.param = None /\ Len(x.args) = 2
              /\ x.args[1] \in 1 .. i - 1 /\ x.args[2] \in 1 .. i - 1
              /\ m[i] = m[x.args[1]] + m[x.args[2]]
<1>1. ASSUME NEW n \in 0 .. Len(s) - 1, x = Leaf(n), s[n + 1] = m[i]
      PROVE  /\ x.param # None /\ x.args = <<>>
             /\ x.param \in 0 .. Len(s) - 1 /\ s[x.param + 1] = m[i]
  BY <1>1 DEF Leaf, None
<1>2. ASSUME NEW a \in 1 .. i - 1, NEW b \in 1 .. i - 1, x = Added(a, b), m[i] = m[a] + m[b]
      PROVE  /\ x.param = None /\ Len(x.args) = 2
             /\ x.args[1] \in 1 .. i - 1 /\ x.args[2] \in 1 .. i - 1
             /\ m[i] = m[x.args[1]] + m[x.args[2]]
  BY <1>2 DEF Added
<1>3. QED BY <1>1, <1>2 DEF NodeRight

\* The program lowered from a right graph computes the meaning of each node: the
\* meanings solve the program's equations, and no solution differs from them
\* anywhere, as it would have to differ at some first node.
LEMMA Evaluated ==
    ASSUME NEW g, GraphRight(g, meaning, inputs), meaning \in Seq(Int), inputs \in Seq(Int),
           NEW r \in 1 .. Len(g)
    PROVE  Computed(g, r) = meaning[r]
<1> DEFINE n == Len(g)
           Solves(f) == f = [k \in DOMAIN g |->
               IF g[k].param # None THEN inputs[g[k].param + 1]
               ELSE f[g[k].args[1]] + f[g[k].args[2]]]
<1>1. n \in Nat /\ DOMAIN g = 1 .. n
  BY DEF GraphRight
<1>2. \A k \in 1 .. n :
         \/ g[k].param # None /\ inputs[g[k].param + 1] = meaning[k]
         \/ /\ g[k].param = None
            /\ g[k].args[1] \in 1 .. k - 1 /\ g[k].args[2] \in 1 .. k - 1
            /\ meaning[k] = meaning[g[k].args[1]] + meaning[g[k].args[2]]
  <2> SUFFICES ASSUME NEW k \in 1 .. n
               PROVE  \/ g[k].param # None /\ inputs[g[k].param + 1] = meaning[k]
                      \/ /\ g[k].param = None
                         /\ g[k].args[1] \in 1 .. k - 1 /\ g[k].args[2] \in 1 .. k - 1
                         /\ meaning[k] = meaning[g[k].args[1]] + meaning[g[k].args[2]]
    OBVIOUS
  <2>1. NodeRight(g[k], k, meaning, inputs) /\ k \in Nat
    BY <1>1 DEF GraphRight
  <2>2. QED BY <2>1, NodeFields
<1>3. \E f : Solves(f)
  <2> DEFINE h == [k \in 1 .. n |-> meaning[k]]
  <2>1. \A k \in 1 .. n :
           h[k] = IF g[k].param # None THEN inputs[g[k].param + 1]
                  ELSE h[g[k].args[1]] + h[g[k].args[2]]
    <3> SUFFICES ASSUME NEW k \in 1 .. n
                 PROVE  h[k] = IF g[k].param # None THEN inputs[g[k].param + 1]
                               ELSE h[g[k].args[1]] + h[g[k].args[2]]
      OBVIOUS
    <3>1. CASE g[k].param # None
      BY <1>2, <3>1
    <3>2. CASE g[k].param = None
      <4>1. g[k].args[1] \in 1 .. n /\ g[k].args[2] \in 1 .. n
        BY <1>1, <1>2, <3>2
      <4>2. QED BY <1>2, <3>2, <4>1
    <3>3. QED BY <3>1, <3>2
  <2>2. Solves(h)
    BY <1>1, <2>1
  <2>3. QED BY <2>2
<1>4. PICK v : Solves(v) /\ Computed(g, r) = v[r]
  <2>1. Computed(g, r) = (CHOOSE f : Solves(f))[r]
    BY DEF Computed
  <2> HIDE DEF Solves
  <2>2. Solves(CHOOSE f : Solves(f))
    BY <1>3
  <2>3. QED BY <2>1, <2>2
<1>5. \A k \in 1 .. n :
         v[k] = IF g[k].param # None THEN inputs[g[k].param + 1]
                ELSE v[g[k].args[1]] + v[g[k].args[2]]
  BY <1>1, <1>4
<1> DEFINE T == {k \in 1 .. n : v[k] # meaning[k]}
<1>6. T = {}
  <2>1. SUFFICES ASSUME T # {} PROVE FALSE
    OBVIOUS
  <2>2. T \in SUBSET Nat
    BY <1>1
  <2>3. PICK k \in T : \A j \in T : k <= j
    <3> HIDE DEF T
    <3>1. QED BY <2>1, <2>2, LeastNumber
  <2>4. k \in 1 .. n /\ v[k] # meaning[k] /\ g[k].param = None
    BY <1>2, <1>5, <2>3
  <2>5. ASSUME NEW j \in 1 .. k - 1 PROVE v[j] = meaning[j]
    <3>1. j \in 1 .. n /\ ~(k <= j)
      BY <1>1, <2>4
    <3>2. j \notin T
      BY <2>3, <3>1
    <3>3. QED BY <3>1, <3>2
  <2>6. QED BY <1>2, <1>5, <2>4, <2>5
<1>7. QED BY <1>1, <1>4, <1>6

-----------------------------------------------------------------------------
\* Steps that move one evaluation and leave the graph alone.

\* Only t's evaluation moves.
OnlyTask(t) == task' = [task EXCEPT ![t] = task'[t]]
GraphSame == UNCHANGED <<nodes, meaning, handles, bound, inputs, lifting>>

\* Nobody else is in a call on r's thread, and r may be there while a tensor is
\* lifted.
Alone(t, r) ==
    /\ Occupied(r) => \A u \in Tasks \ {t} : Occupied(task[u]) => task[u].thread # r.thread
    /\ lifting # 0 => Quiet(r)

\* An evaluation that goes on, because it is in a call or because its thread is
\* free, is alone on that thread, and nothing is being lifted.
LEMMA GoesOn ==
    ASSUME CallInv, NEW t \in Tasks, task[t].pc \notin {"idle", "done"},
           Occupied(task[t]) \/ Free(task[t].thread, t)
    PROVE  /\ lifting = 0
           /\ \A r : r.thread = task[t].thread => Alone(t, r)
<1>1. lifting = 0
  <2>1. CASE Occupied(task[t])
    BY <2>1 DEF CallInv, Quiet
  <2>2. CASE Free(task[t].thread, t)
    BY <2>2 DEF CallInv, Quiet, Free
  <2>3. QED BY <2>1, <2>2
<1>2. \A u \in Tasks \ {t} : Occupied(task[u]) => task[u].thread # task[t].thread
  <2>1. CASE Occupied(task[t])
    BY <2>1 DEF CallInv
  <2>2. CASE Free(task[t].thread, t)
    BY <2>2 DEF Free, InCall, Occupied
  <2>3. QED BY <2>1, <2>2
<1>3. QED BY <1>1, <1>2 DEF Alone

\* The calls and the lifted tensor after the step.
LEMMA CallsKept ==
    ASSUME CallInv, NEW t \in Tasks, task = [u \in Tasks |-> task[u]], OnlyTask(t),
           lifting' = lifting, Alone(t, task'[t])
    PROVE  CallInv'
<1>1. \A u \in Tasks \ {t} : task'[u] = task[u]
  BY DEF OnlyTask
<1>2. ASSUME NEW u \in Tasks, NEW v \in Tasks, u # v, Occupied(task'[u]), Occupied(task'[v])
      PROVE  task'[u].thread # task'[v].thread
  <2>1. CASE u = t
    BY <1>1, <1>2, <2>1 DEF Alone
  <2>2. CASE v = t
    BY <1>1, <1>2, <2>2 DEF Alone
  <2>3. CASE u # t /\ v # t
    BY <1>1, <1>2, <2>3 DEF CallInv
  <2>4. QED BY <2>1, <2>2, <2>3
<1>3. ASSUME lifting' # 0, NEW u \in Tasks PROVE Quiet(task'[u])
  BY <1>1, <1>3 DEF Alone, CallInv
<1>4. QED BY <1>2, <1>3 DEF CallInv, Occupied, Quiet

\* Everybody's locals and calls after the step, which may append to the graph.
LEMMA TasksKept ==
    ASSUME LazyInv, NEW t \in Tasks, OnlyTask(t), lifting' = lifting, handles \subseteq handles',
           Extends(meaning, meaning'), Extends(inputs, inputs'),
           TaskRight(task'[t], handles', meaning', inputs'), Alone(t, task'[t])
    PROVE  TaskInv' /\ CallInv'
<1>1. /\ task = [u \in Tasks |-> task[u]] /\ handles \subseteq 1 .. Len(meaning)
      /\ \A u \in Tasks : TaskRight(task[u], handles, meaning, inputs)
  BY DEF LazyInv, TaskInv, SessionInv
<1>2. task' = [u \in Tasks |-> task'[u]]
  BY <1>1 DEF OnlyTask
<1>3. \A u \in Tasks \ {t} : task'[u] = task[u]
  BY <1>1 DEF OnlyTask
<1>4. ASSUME NEW u \in Tasks PROVE TaskRight(task'[u], handles', meaning', inputs')
  <2>1. CASE u = t
    BY <2>1
  <2>2. CASE u # t
    <3>1. task'[u] = task[u] /\ TaskRight(task[u], handles, meaning, inputs)
      BY <1>1, <1>3, <2>2
    <3>2. TaskRight(task[u], handles', meaning', inputs')
      BY <1>1, <3>1, TaskKept
    <3>3. QED BY <3>1, <3>2
  <2>3. QED BY <2>1, <2>2
<1>5. TaskInv'
  BY <1>2, <1>4 DEF TaskInv
<1>6. CallInv'
  BY <1>1, CallsKept DEF LazyInv
<1>7. QED BY <1>5, <1>6

\* A sequence extends itself.
LEMMA ExtendsSelf ==
    ASSUME NEW p \in Seq(Int)
    PROVE  Extends(p, p)
BY DEF Extends

\* The graph and everybody's locals after the step.
LEMMA OneTask ==
    ASSUME LazyInv, NEW t \in Tasks, OnlyTask(t), GraphSame,
           TaskRight(task'[t], handles, meaning, inputs), Alone(t, task'[t])
    PROVE  SessionInv' /\ TaskInv' /\ CallInv'
<1>1. SessionInv'
  BY DEF LazyInv, SessionInv, GraphSame
<1>2. /\ lifting' = lifting /\ handles' = handles /\ meaning' = meaning /\ inputs' = inputs
      /\ meaning \in Seq(Int) /\ inputs \in Seq(Int)
  BY DEF GraphSame, LazyInv, SessionInv
<1>3. Extends(meaning, meaning') /\ Extends(inputs, inputs')
  BY <1>2, ExtendsSelf
<1>4. TaskInv' /\ CallInv'
  BY <1>2, <1>3, TasksKept
<1>5. QED BY <1>1, <1>4

\* The leases after a step that neither takes nor returns one.
LEMMA LeasesKept ==
    ASSUME LazyInv, NEW t \in Tasks, OnlyTask(t), inFlight' = inFlight,
           task'[t].leased = task[t].leased,
           task'[t].thread = task[t].thread \/ task[t].thread = Home,
           OneThread /\ task'[t].pc = "check" =>
               (task'[t].roots \ task'[t].unchecked) \cap inFlight = {}
    PROVE  LeaseInv'
<1>1. \A u \in Tasks \ {t} : task'[u] = task[u]
  BY DEF OnlyTask, LazyInv, TaskInv
<1>2. \A u \in Tasks : task'[u].leased = task[u].leased
  BY <1>1
<1>3. OneThread' => OneThread
  BY <1>1 DEF OneThread
<1>4. inFlight' \subseteq UNION {task'[u].leased : u \in Tasks}
  BY <1>2 DEF LazyInv, LeaseInv
<1>5. ASSUME OneThread'
      PROVE  /\ \A u, v \in Tasks : u # v => task'[u].leased \cap task'[v].leased = {}
             /\ \A u \in Tasks : task'[u].leased \subseteq inFlight'
             /\ \A u \in Tasks : task'[u].pc = "check" =>
                    (task'[u].roots \ task'[u].unchecked) \cap inFlight' = {}
  <2>1. OneThread
    BY <1>3, <1>5
  <2>2. /\ \A u, v \in Tasks : u # v => task'[u].leased \cap task'[v].leased = {}
        /\ \A u \in Tasks : task'[u].leased \subseteq inFlight'
    BY <1>2, <2>1 DEF LazyInv, LeaseInv
  <2>3. ASSUME NEW u \in Tasks, task'[u].pc = "check"
        PROVE  (task'[u].roots \ task'[u].unchecked) \cap inFlight' = {}
    <3>1. CASE u = t
      BY <2>1, <2>3, <3>1
    <3>2. CASE u # t
      <4>1. task'[u] = task[u]
        BY <1>1, <3>2
      <4>2. QED BY <2>1, <2>3, <4>1 DEF LazyInv, LeaseInv
    <3>3. QED BY <3>1, <3>2
  <2>4. QED BY <2>2, <2>3
<1>6. QED BY <1>4, <1>5 DEF LeaseInv

-----------------------------------------------------------------------------
\* The steps of an evaluation.

\* An evaluation begins with the outputs that are not materialized.
LEMMA KeepBegin ==
    ASSUME LazyInv, NEW t \in Tasks, NEW th \in Threads, NEW R \in Roots, NEW async \in BOOLEAN,
           ~SharedLifts, Begin(t, th, R, async)
    PROVE  LazyInv'
<1> DEFINE pending == {r \in R : bound[r] = None}
           new == [pc |-> IF pending = {} THEN "done" ELSE "check", thread |-> th,
                   async |-> async, roots |-> pending, unchecked |-> pending, leased |-> {},
                   program |-> <<>>, values |-> <<>>]
<1>1. /\ task[t].pc = "idle" /\ Free(th, t) /\ (th = Home \/ lifting = 0)
      /\ task' = [task EXCEPT ![t] = new]
      /\ GraphSame /\ inFlight' = inFlight
  BY DEF Begin, GraphSame
<1>2. /\ new.pc \in {"done", "check"} /\ new.thread = th /\ new.roots = pending
      /\ new.pc = "done" => pending = {}
      /\ new.unchecked = pending /\ new.leased = {}
      /\ new = [pc |-> new.pc, thread |-> new.thread, async |-> new.async, roots |-> new.roots,
                unchecked |-> new.unchecked, leased |-> new.leased, program |-> new.program,
                values |-> new.values]
  OBVIOUS
<1>3. pending \subseteq handles
  BY DEF Roots
<1> HIDE DEF pending, new
<1>4. task'[t] = new /\ OnlyTask(t)
  BY <1>1 DEF OnlyTask, LazyInv, TaskInv
<1>5. TaskRight(new, handles, meaning, inputs)
  BY <1>2, <1>3 DEF TaskRight
<1>6. Alone(t, new)
  <2>1. \A u \in Tasks \ {t} : Occupied(task[u]) => task[u].thread # th
    BY <1>1 DEF Free, InCall, Occupied
  <2>2. lifting = 0
    BY <1>1 DEF Free
  <2>3. QED BY <1>2, <2>1, <2>2 DEF Alone
<1>7. SessionInv' /\ TaskInv' /\ CallInv'
  BY <1>1, <1>4, <1>5, <1>6, OneTask
<1>8. LeaseInv'
  <2>1. task[t].leased = {} /\ task[t].thread = Home
    BY <1>1 DEF LazyInv, TaskInv, TaskRight
  <2>2. task'[t].leased = task[t].leased /\ task'[t].roots \ task'[t].unchecked = {}
    BY <1>2, <1>4, <2>1
  <2>3. QED BY <1>1, <1>4, <2>1, <2>2, LeasesKept
<1>9. QED BY <1>7, <1>8 DEF LazyInv

\* One root is found free, or the evaluation is refused.
LEMMA KeepCheckRoot ==
    ASSUME LazyInv, NEW t \in Tasks, NEW r \in task[t].roots, CheckRoot(t, r)
    PROVE  LazyInv'
<1>1. /\ task[t].pc = "check" /\ r \in task[t].unchecked /\ GraphSame /\ inFlight' = inFlight
      /\ TaskRight(task[t], handles, meaning, inputs) /\ task = [u \in Tasks |-> task[u]]
  BY DEF CheckRoot, GraphSame, LazyInv, TaskInv
<1>2. /\ OnlyTask(t)
      /\ task'[t] = IF r \in inFlight
                    THEN [Idle EXCEPT !.pc = "done", !.thread = task[t].thread]
                    ELSE [task[t] EXCEPT !.unchecked = @ \ {r}]
  BY <1>1 DEF OnlyTask, CheckRoot
<1>3. /\ TaskRight(task'[t], handles, meaning, inputs) /\ task'[t].thread = task[t].thread
      /\ task'[t].leased = task[t].leased
      /\ task'[t].pc = "check" =>
            r \notin inFlight /\ task'[t].roots = task[t].roots
            /\ task'[t].unchecked = task[t].unchecked \ {r}
  <2>1. CASE r \in inFlight
    <3>1. task'[t] = [pc |-> "done", thread |-> task[t].thread, async |-> FALSE, roots |-> {},
                      unchecked |-> {}, leased |-> {}, program |-> <<>>, values |-> <<>>]
      BY <1>2, <2>1 DEF Idle
    <3>2. task[t].leased = {} /\ task[t].thread \in Threads
      BY <1>1 DEF TaskRight
    <3>3. QED BY <3>1, <3>2 DEF TaskRight
  <2>2. CASE r \notin inFlight
    <3>1. task'[t] = [task[t] EXCEPT !.unchecked = @ \ {r}]
      BY <1>2, <2>2
    <3>2. QED BY <1>1, <2>2, <3>1 DEF TaskRight
  <2>3. QED BY <2>1, <2>2
<1>4. Occupied(task[t])
  BY <1>1 DEF Occupied
<1>5. Alone(t, task'[t])
  BY <1>1, <1>3, <1>4, GoesOn DEF LazyInv
<1>6. SessionInv' /\ TaskInv' /\ CallInv'
  BY <1>1, <1>2, <1>3, <1>5, OneTask
<1>7. OneThread /\ task'[t].pc = "check" =>
         (task'[t].roots \ task'[t].unchecked) \cap inFlight = {}
  BY <1>1, <1>3 DEF LazyInv, LeaseInv
<1>8. LeaseInv'
  BY <1>1, <1>2, <1>3, <1>7, LeasesKept
<1>9. QED BY <1>6, <1>8 DEF LazyInv

\* Lowering takes the graph as it is, in which every node is right as nothing is
\* being lifted.
LEMMA KeepLower ==
    ASSUME LazyInv, NEW t \in Tasks, Lower(t)
    PROVE  LazyInv'
<1>1. /\ task[t].pc = "lower" /\ GraphSame /\ inFlight' = inFlight
      /\ TaskRight(task[t], handles, meaning, inputs) /\ task = [u \in Tasks |-> task[u]]
  BY DEF Lower, GraphSame, LazyInv, TaskInv
<1>2. /\ OnlyTask(t)
      /\ \/ task'[t] = [task[t] EXCEPT !.pc = "gather", !.program = nodes]
         \/ task'[t] = [task[t] EXCEPT !.pc = "release"]
  <2>1. \/ task' = [task EXCEPT ![t].pc = "gather", ![t].program = nodes]
        \/ task' = [task EXCEPT ![t].pc = "release"]
    BY DEF Lower
  <2>2. QED BY <1>1, <2>1 DEF OnlyTask, TaskRight
<1>3. Occupied(task[t])
  BY <1>1 DEF Occupied
<1>4. lifting = 0
  BY <1>1, <1>3, GoesOn DEF LazyInv
<1>5. GraphRight(nodes, meaning, inputs) /\ handles \subseteq 1 .. Len(nodes)
  <2>1. Len(nodes) \in Nat /\ nodes \in Seq(Nodes) /\ Len(nodes) = Len(meaning)
    BY DEF LazyInv, SessionInv
  <2>2. \A i \in 1 .. Len(nodes) : NodeRight(nodes[i], i, meaning, inputs)
    BY <1>4, <2>1 DEF LazyInv, SessionInv
  <2>3. QED BY <2>1, <2>2 DEF GraphRight, LazyInv, SessionInv
<1>6. /\ TaskRight(task'[t], handles, meaning, inputs) /\ task'[t].thread = task[t].thread
      /\ task'[t].leased = task[t].leased /\ task'[t].pc # "check"
  <2>1. CASE task'[t] = [task[t] EXCEPT !.pc = "gather", !.program = nodes]
    <3>1. /\ task'[t].pc = "gather" /\ task'[t].program = nodes
          /\ task'[t].thread = task[t].thread /\ task'[t].roots = task[t].roots
          /\ task'[t].unchecked = task[t].unchecked /\ task'[t].leased = task[t].leased
          /\ task'[t] = [pc |-> "gather", thread |-> task[t].thread, async |-> task[t].async,
                         roots |-> task[t].roots, unchecked |-> task[t].unchecked,
                         leased |-> task[t].leased, program |-> nodes, values |-> task[t].values]
      BY <1>1, <2>1 DEF TaskRight
    <3>2. task[t].roots \subseteq 1 .. Len(nodes)
      BY <1>1, <1>5 DEF TaskRight
    <3>3. QED BY <1>1, <1>5, <3>1, <3>2 DEF TaskRight
  <2>2. CASE task'[t] = [task[t] EXCEPT !.pc = "release"]
    BY <1>1, <2>2 DEF TaskRight
  <2>3. QED BY <1>2, <2>1, <2>2
<1>7. Alone(t, task'[t])
  BY <1>1, <1>3, <1>6, GoesOn DEF LazyInv
<1>8. SessionInv' /\ TaskInv' /\ CallInv'
  BY <1>1, <1>2, <1>6, <1>7, OneTask
<1>9. LeaseInv'
  BY <1>1, <1>2, <1>6, LeasesKept
<1>10. QED BY <1>8, <1>9 DEF LazyInv

\* The roots found free are claimed.
LEMMA KeepLease ==
    ASSUME LazyInv, NEW t \in Tasks, Lease(t)
    PROVE  LazyInv'
<1>1. /\ task[t].pc = "check" /\ task[t].unchecked = {} /\ GraphSame
      /\ inFlight' = inFlight \cup task[t].roots
      /\ TaskRight(task[t], handles, meaning, inputs) /\ task = [u \in Tasks |-> task[u]]
  BY DEF Lease, GraphSame, LazyInv, TaskInv
<1>2. OnlyTask(t) /\ task'[t] = [task[t] EXCEPT !.pc = "lower", !.leased = task[t].roots]
  BY <1>1 DEF OnlyTask, Lease, TaskRight
<1>3. /\ TaskRight(task'[t], handles, meaning, inputs) /\ task'[t].thread = task[t].thread
      /\ task'[t].leased = task[t].roots /\ task'[t].pc = "lower"
  BY <1>1, <1>2 DEF TaskRight
<1>4. Occupied(task[t])
  BY <1>1 DEF Occupied
<1>5. Alone(t, task'[t])
  BY <1>1, <1>3, <1>4, GoesOn DEF LazyInv
<1>6. SessionInv' /\ TaskInv' /\ CallInv'
  BY <1>1, <1>2, <1>3, <1>5, OneTask
<1>7. task[t].leased = {}
  BY <1>1 DEF TaskRight
<1>8. \A u \in Tasks \ {t} : task'[u] = task[u]
  BY <1>1, <1>2 DEF OnlyTask
<1>9. inFlight' \subseteq UNION {task'[u].leased : u \in Tasks}
  <2>1. inFlight \subseteq UNION {task[u].leased : u \in Tasks}
    BY DEF LazyInv, LeaseInv
  <2>2. ASSUME NEW x \in inFlight' PROVE \E u \in Tasks : x \in task'[u].leased
    <3>1. CASE x \in task[t].roots
      BY <1>3, <3>1
    <3>2. CASE x \notin task[t].roots
      <4>1. PICK u \in Tasks : x \in task[u].leased
        BY <1>1, <2>1, <3>2
      <4>2. u # t
        BY <1>7, <4>1
      <4>3. QED BY <1>8, <4>1, <4>2
    <3>3. QED BY <3>1, <3>2
  <2>3. QED BY <2>2
<1>10. ASSUME OneThread'
       PROVE  /\ \A u, v \in Tasks : u # v => task'[u].leased \cap task'[v].leased = {}
              /\ \A u \in Tasks : task'[u].leased \subseteq inFlight'
              /\ \A u \in Tasks : task'[u].pc = "check" =>
                     (task'[u].roots \ task'[u].unchecked) \cap inFlight' = {}
  <2>1. OneThread
    BY <1>3, <1>8, <1>10 DEF OneThread
  <2>2. /\ \A u, v \in Tasks : u # v => task[u].leased \cap task[v].leased = {}
        /\ \A u \in Tasks : task[u].leased \subseteq inFlight
        /\ task[t].roots \cap inFlight = {}
    BY <1>1, <2>1 DEF LazyInv, LeaseInv
  <2>3. ASSUME NEW u \in Tasks, NEW v \in Tasks, u # v
        PROVE  task'[u].leased \cap task'[v].leased = {}
    <3>1. CASE u = t
      BY <1>3, <1>8, <2>2, <2>3, <3>1
    <3>2. CASE v = t
      BY <1>3, <1>8, <2>2, <2>3, <3>2
    <3>3. CASE u # t /\ v # t
      BY <1>8, <2>2, <2>3, <3>3
    <3>4. QED BY <3>1, <3>2, <3>3
  <2>4. ASSUME NEW u \in Tasks PROVE task'[u].leased \subseteq inFlight'
    BY <1>1, <1>3, <1>8, <2>2
  <2>5. ASSUME NEW u \in Tasks PROVE task'[u].pc # "check"
    <3>1. CASE u = t
      BY <1>3, <3>1
    <3>2. CASE u # t
      <4>1. task[u].thread = task[t].thread
        BY <2>1 DEF OneThread
      <4>2. ~Occupied(task[u])
        BY <1>4, <3>2, <4>1 DEF LazyInv, CallInv
      <4>3. QED BY <1>8, <3>2, <4>2 DEF Occupied
    <3>3. QED BY <3>1, <3>2
  <2>6. QED BY <2>3, <2>4, <2>5
<1>11. LeaseInv'
  BY <1>9, <1>10 DEF LeaseInv
<1>12. QED BY <1>6, <1>11 DEF LazyInv

\* The inputs are gathered, and the program that was lowered computes from them
\* the meanings of the roots.
LEMMA KeepGather ==
    ASSUME LazyInv, NEW t \in Tasks, Gather(t)
    PROVE  LazyInv'
<1> DEFINE results == [r \in task[t].roots |-> Computed(task[t].program, r)]
<1>1. /\ task[t].pc = "gather" /\ GraphSame /\ inFlight' = inFlight
      /\ TaskRight(task[t], handles, meaning, inputs) /\ task = [u \in Tasks |-> task[u]]
      /\ meaning \in Seq(Int) /\ inputs \in Seq(Int)
  BY DEF Gather, GraphSame, LazyInv, TaskInv, SessionInv
<1>2. \A r \in task[t].roots : results[r] = meaning[r]
  <2>1. GraphRight(task[t].program, meaning, inputs) /\ task[t].roots \subseteq 1 .. Len(task[t].program)
    BY <1>1 DEF TaskRight
  <2>2. ASSUME NEW r \in task[t].roots PROVE Computed(task[t].program, r) = meaning[r]
    <3>1. r \in 1 .. Len(task[t].program)
      BY <2>1
    <3>2. QED BY <1>1, <2>1, <3>1, Evaluated
  <2>3. QED BY <2>2
<1>3. \/ task' = [task EXCEPT ![t].pc = "submitted", ![t].program = <<>>, ![t].values = results]
      \/ task' = [task EXCEPT ![t].pc = "release", ![t].program = <<>>]
  BY DEF Gather
<1> HIDE DEF results
<1>4. /\ OnlyTask(t)
      /\ \/ task'[t] = [task[t] EXCEPT !.pc = "submitted", !.program = <<>>, !.values = results]
         \/ task'[t] = [task[t] EXCEPT !.pc = "release", !.program = <<>>]
  BY <1>1, <1>3 DEF OnlyTask, TaskRight
<1>5. /\ TaskRight(task'[t], handles, meaning, inputs) /\ task'[t].thread = task[t].thread
      /\ task'[t].leased = task[t].leased /\ task'[t].pc # "check"
  <2>1. CASE task'[t] = [task[t] EXCEPT !.pc = "submitted", !.program = <<>>, !.values = results]
    <3>1. task'[t] = [pc |-> "submitted", thread |-> task[t].thread, async |-> task[t].async,
                      roots |-> task[t].roots, unchecked |-> task[t].unchecked,
                      leased |-> task[t].leased, program |-> <<>>, values |-> results]
      BY <1>1, <2>1 DEF TaskRight
    <3>2. QED BY <1>1, <1>2, <3>1 DEF TaskRight
  <2>2. CASE task'[t] = [task[t] EXCEPT !.pc = "release", !.program = <<>>]
    BY <1>1, <2>2 DEF TaskRight
  <2>3. QED BY <1>4, <2>1, <2>2
<1>6. Occupied(task[t])
  BY <1>1 DEF Occupied
<1>7. Alone(t, task'[t])
  BY <1>1, <1>5, <1>6, GoesOn DEF LazyInv
<1>8. SessionInv' /\ TaskInv' /\ CallInv'
  BY <1>1, <1>4, <1>5, <1>7, OneTask
<1>9. LeaseInv'
  BY <1>1, <1>4, <1>5, LeasesKept
<1>10. QED BY <1>8, <1>9 DEF LazyInv

\* An evaluation fails.
LEMMA KeepGiveUp ==
    ASSUME LazyInv, NEW t \in Tasks, GiveUp(t)
    PROVE  LazyInv'
<1>1. /\ task[t].pc \in {"gather", "submitted"} /\ Free(task[t].thread, t)
      /\ GraphSame /\ inFlight' = inFlight
      /\ TaskRight(task[t], handles, meaning, inputs) /\ task = [u \in Tasks |-> task[u]]
  BY DEF GiveUp, GraphSame, LazyInv, TaskInv
<1>2. OnlyTask(t) /\ task'[t] = [task[t] EXCEPT !.pc = "release", !.program = <<>>]
  BY <1>1 DEF OnlyTask, GiveUp, TaskRight
<1>3. /\ TaskRight(task'[t], handles, meaning, inputs) /\ task'[t].thread = task[t].thread
      /\ task'[t].leased = task[t].leased /\ task'[t].pc # "check"
  BY <1>1, <1>2 DEF TaskRight
<1>4. Alone(t, task'[t])
  BY <1>1, <1>3, GoesOn DEF LazyInv
<1>5. SessionInv' /\ TaskInv' /\ CallInv'
  BY <1>1, <1>2, <1>3, <1>4, OneTask
<1>6. LeaseInv'
  BY <1>1, <1>2, <1>3, LeasesKept
<1>7. QED BY <1>5, <1>6 DEF LazyInv

\* The lease is dropped.
LEMMA KeepRelease ==
    ASSUME LazyInv, NEW t \in Tasks, Release(t)
    PROVE  LazyInv'
<1>1. /\ task[t].pc = "release" /\ GraphSame /\ inFlight' = inFlight \ task[t].leased
      /\ TaskRight(task[t], handles, meaning, inputs) /\ task = [u \in Tasks |-> task[u]]
  BY DEF Release, GraphSame, LazyInv, TaskInv
<1>2. /\ OnlyTask(t)
      /\ task'[t] = [pc |-> "done", thread |-> task[t].thread, async |-> FALSE, roots |-> {},
                     unchecked |-> {}, leased |-> {}, program |-> <<>>, values |-> <<>>]
  <2>1. task'[t] = [Idle EXCEPT !.pc = "done", !.thread = task[t].thread]
    BY <1>1 DEF Release
  <2>2. QED BY <1>1, <2>1 DEF OnlyTask, Release, Idle
<1>3. TaskRight(task'[t], handles, meaning, inputs)
  <2>1. task[t].thread \in Threads
    BY <1>1 DEF TaskRight
  <2>2. QED BY <1>2, <2>1 DEF TaskRight
<1>4. Occupied(task[t])
  BY <1>1 DEF Occupied
<1>5. Alone(t, task'[t])
  BY <1>1, <1>2, <1>4, GoesOn DEF LazyInv
<1>6. SessionInv' /\ TaskInv' /\ CallInv'
  BY <1>1, <1>2, <1>3, <1>5, OneTask
<1>7. /\ \A u \in Tasks \ {t} : task'[u] = task[u]
      /\ task'[t].leased = {} /\ task'[t].pc = "done" /\ task'[t].thread = task[t].thread
  BY <1>1, <1>2 DEF OnlyTask
<1>8. inFlight' \subseteq UNION {task'[u].leased : u \in Tasks}
  <2>1. inFlight \subseteq UNION {task[u].leased : u \in Tasks}
    BY DEF LazyInv, LeaseInv
  <2>2. ASSUME NEW x \in inFlight' PROVE \E u \in Tasks : x \in task'[u].leased
    <3>1. PICK u \in Tasks : x \in task[u].leased
      BY <1>1, <2>1
    <3>2. u # t
      BY <1>1, <3>1
    <3>3. QED BY <1>7, <3>1, <3>2
  <2>3. QED BY <2>2
<1>9. ASSUME OneThread'
      PROVE  /\ \A u, v \in Tasks : u # v => task'[u].leased \cap task'[v].leased = {}
             /\ \A u \in Tasks : task'[u].leased \subseteq inFlight'
             /\ \A u \in Tasks : task'[u].pc = "check" =>
                    (task'[u].roots \ task'[u].unchecked) \cap inFlight' = {}
  <2>1. OneThread
    BY <1>7, <1>9 DEF OneThread
  <2>2. /\ \A u, v \in Tasks : u # v => task[u].leased \cap task[v].leased = {}
        /\ \A u \in Tasks : task[u].leased \subseteq inFlight
        /\ \A u \in Tasks : task[u].pc = "check" =>
              (task[u].roots \ task[u].unchecked) \cap inFlight = {}
    BY <2>1 DEF LazyInv, LeaseInv
  <2>3. ASSUME NEW u \in Tasks, NEW v \in Tasks, u # v
        PROVE  task'[u].leased \cap task'[v].leased = {}
    BY <1>7, <2>2, <2>3
  <2>4. ASSUME NEW u \in Tasks PROVE task'[u].leased \subseteq inFlight'
    BY <1>1, <1>7, <2>2
  <2>5. ASSUME NEW u \in Tasks, task'[u].pc = "check"
        PROVE  (task'[u].roots \ task'[u].unchecked) \cap inFlight' = {}
    BY <1>1, <1>7, <2>2, <2>5
  <2>6. QED BY <2>3, <2>4, <2>5
<1>10. LeaseInv'
  BY <1>8, <1>9 DEF LeaseInv
<1>11. QED BY <1>6, <1>10 DEF LazyInv

\* A handle is bound to the result of its root, which is the root's meaning.
LEMMA KeepPublish ==
    ASSUME LazyInv, NEW t \in Tasks, NEW r \in task[t].roots, Publish(t, r)
    PROVE  LazyInv'
<1>1. /\ task[t].pc = "publish" /\ inFlight' = inFlight
      /\ UNCHANGED <<nodes, meaning, handles, inputs, lifting>>
      /\ bound' = [bound EXCEPT ![r] = IF bound[r] = None THEN task[t].values[r] ELSE bound[r]]
      /\ TaskRight(task[t], handles, meaning, inputs) /\ task = [u \in Tasks |-> task[u]]
      /\ meaning \in Seq(Int) /\ inputs \in Seq(Int)
  BY DEF Publish, LazyInv, TaskInv, SessionInv
<1>2. /\ OnlyTask(t)
      /\ \/ task'[t] = [task[t] EXCEPT !.roots = task[t].roots \ {r}, !.pc = "release"]
         \/ task'[t] = [task[t] EXCEPT !.roots = task[t].roots \ {r}, !.pc = "publish"]
  <2>1. task' = [task EXCEPT ![t].roots = @ \ {r},
                             ![t].pc = IF task[t].roots = {r} THEN "release" ELSE @]
    BY DEF Publish
  <2>2. task'[t] = [task[t] EXCEPT !.roots = task[t].roots \ {r},
                                   !.pc = IF task[t].roots = {r} THEN "release" ELSE task[t].pc]
    BY <1>1, <2>1 DEF TaskRight
  <2>3. OnlyTask(t)
    BY <1>1, <2>1, <2>2 DEF OnlyTask
  <2>4. QED BY <1>1, <2>2, <2>3
<1>3. /\ TaskRight(task'[t], handles, meaning, inputs) /\ task'[t].thread = task[t].thread
      /\ task'[t].leased = task[t].leased /\ task'[t].pc # "check"
  <2>1. task[t].unchecked = {}
    BY <1>1 DEF TaskRight
  <2>2. CASE task'[t] = [task[t] EXCEPT !.roots = task[t].roots \ {r}, !.pc = "release"]
    BY <1>1, <2>1, <2>2 DEF TaskRight
  <2>3. CASE task'[t] = [task[t] EXCEPT !.roots = task[t].roots \ {r}, !.pc = "publish"]
    BY <1>1, <2>1, <2>3 DEF TaskRight
  <2>4. QED BY <1>2, <2>2, <2>3
<1>4. Occupied(task[t])
  BY <1>1 DEF Occupied
<1>5. Alone(t, task'[t])
  BY <1>1, <1>3, <1>4, GoesOn DEF LazyInv
<1>6. TaskInv' /\ CallInv'
  BY <1>1, <1>2, <1>3, <1>5, TasksKept, ExtendsSelf
<1>7. lifting = 0
  BY <1>1, <1>4, GoesOn DEF LazyInv
<1>8. SessionInv'
  <2>1. task[t].values[r] = meaning[r] /\ r \in handles /\ r \in 1 .. Len(nodes)
    BY <1>1 DEF TaskRight, LazyInv, SessionInv
  <2>2. /\ bound \in Seq(Int) /\ Len(bound) = Len(nodes) /\ Len(meaning) = Len(nodes)
        /\ Len(nodes) \in Nat /\ meaning[r] \in Int
    BY <2>1 DEF LazyInv, SessionInv
  <2>3. bound' \in Seq(Int) /\ Len(bound') = Len(nodes)
    BY <1>1, <2>1, <2>2
  <2>4. \A i \in handles : bound'[i] # None => bound'[i] = meaning[i]
    BY <1>1, <2>1, <2>2 DEF LazyInv, SessionInv
  <2>5. QED BY <1>1, <1>7, <2>3, <2>4 DEF LazyInv, SessionInv
<1>9. LeaseInv'
  BY <1>1, <1>2, <1>3, LeasesKept
<1>10. QED BY <1>6, <1>8, <1>9 DEF LazyInv


-----------------------------------------------------------------------------
\* Cutting the roots.

\* An order of a finite set S of values is a sequence that has each at its place.
LEMMA OrderPlaces ==
    ASSUME NEW S, IsFiniteSet(S), NEW cut \in Orders(S)
    PROVE  /\ Cardinality(S) \in Nat /\ DOMAIN cut = 1 .. Cardinality(S)
           /\ \A k \in DOMAIN cut : cut[k] \in S /\ Place(cut, cut[k]) = k
           /\ \A x \in S : Place(cut, x) \in DOMAIN cut /\ cut[Place(cut, x)] = x
<1>1. /\ cut \in [1 .. Cardinality(S) -> S]
      /\ \A a, b \in 1 .. Cardinality(S) : cut[a] = cut[b] => a = b
      /\ \A x \in S : \E k \in 1 .. Cardinality(S) : cut[k] = x
  BY DEF Orders, Bijection, Injection, Surjection, IsInjective
<1>2. Cardinality(S) \in Nat
  BY FS_CardinalityType
<1>3. ASSUME NEW x \in S PROVE Place(cut, x) \in DOMAIN cut /\ cut[Place(cut, x)] = x
  BY <1>1 DEF Place
<1>4. ASSUME NEW k \in DOMAIN cut PROVE cut[k] \in S /\ Place(cut, cut[k]) = k
  <2>1. cut[k] \in S
    BY <1>1
  <2>2. Place(cut, cut[k]) \in DOMAIN cut /\ cut[Place(cut, cut[k])] = cut[k]
    BY <1>3, <2>1
  <2>3. QED BY <1>1, <2>1, <2>2
<1>5. QED BY <1>1, <1>2, <1>3, <1>4

\* A leaf is a node.
LEMMA LeafNode ==
    ASSUME NEW n \in Nat
    PROVE  Leaf(n) \in Nodes
BY DEF Leaf, Nodes

\* Every root that is still a sum gets the next number, and its result the same
\* place in the list.
LEMMA KeepMaterialize ==
    ASSUME LazyInv, NEW t \in Tasks, Materialize(t)
    PROVE  LazyInv'
<1> DEFINE C == RootsToCut(t)
           n == Len(nodes)
           l == Len(inputs)
           c == Cardinality(C)
<1>1. /\ task[t].pc = "submitted" /\ Free(task[t].thread, t) /\ inFlight' = inFlight
      /\ UNCHANGED <<meaning, handles, bound, lifting>>
      /\ TaskRight(task[t], handles, meaning, inputs) /\ task = [u \in Tasks |-> task[u]]
      /\ meaning \in Seq(Int) /\ inputs \in Seq(Int) /\ nodes \in Seq(Nodes)
      /\ n \in Nat /\ l \in Nat /\ Len(meaning) = n /\ DOMAIN nodes = 1 .. n
      /\ handles \subseteq 1 .. n
  BY DEF Materialize, Running, LazyInv, TaskInv, SessionInv
<1>2. lifting = 0
  BY <1>1, GoesOn DEF LazyInv
<1>3. PICK cut \in Orders(C) :
        /\ inputs' = inputs \o [k \in DOMAIN cut |-> task[t].values[cut[k]]]
        /\ nodes' = [i \in DOMAIN nodes |->
                       IF i \in C THEN Leaf(l + Place(cut, i) - 1) ELSE nodes[i]]
  BY DEF Materialize
<1>4. /\ C \subseteq 1 .. n
      /\ \A r \in C : nodes[r].param = None /\ task[t].values[r] = meaning[r]
  BY <1>1 DEF RootsToCut, TaskRight
<1>5. IsFiniteSet(C)
  <2> HIDE DEF C
  <2>1. IsFiniteSet(1 .. n)
    <3> HIDE DEF n
    <3>1. n \in Int
      BY <1>1
    <3>2. QED BY <3>1, FS_Interval
  <2>2. QED BY <1>4, <2>1, FS_Subset
<1> HIDE DEF C
<1>6. /\ c \in Nat /\ DOMAIN cut = 1 .. c
      /\ \A k \in 1 .. c : cut[k] \in C /\ Place(cut, cut[k]) = k
      /\ \A x \in C : Place(cut, x) \in 1 .. c /\ cut[Place(cut, x)] = x
  <2> HIDE DEF c
  <2>1. Cardinality(C) = c
    BY DEF c
  <2>2. QED BY <1>5, <2>1, OrderPlaces
<1> HIDE DEF c
<1> DEFINE results == [k \in 1 .. c |-> task[t].values[cut[k]]]
<1>7. results \in Seq(Int) /\ Len(results) = c
  <2>1. ASSUME NEW k \in 1 .. c PROVE results[k] \in Int
    <3>1. cut[k] \in C /\ cut[k] \in 1 .. n
      BY <1>4, <1>6
    <3>2. QED BY <1>1, <1>4, <3>1
  <2> DEFINE b == results
  <2>2. b = [k \in 1 .. c |-> b[k]] /\ \A k \in 1 .. c : b[k] \in Int
    BY <2>1
  <2> HIDE DEF b
  <2>3. b \in [1 .. c -> Int]
    BY <2>2
  <2>4. b \in Seq(Int) /\ Len(b) = c
    BY <1>6, <2>3
  <2>5. QED BY <2>4 DEF b
<1>8. \A k \in 1 .. c : results[k] = meaning[cut[k]]
  BY <1>4, <1>6
<1>9. inputs' = inputs \o results
  BY <1>3, <1>6
<1> HIDE DEF results
<1>10. /\ inputs' \in Seq(Int) /\ Len(inputs') = l + c
       /\ \A i \in 1 .. l : inputs'[i] = inputs[i]
       /\ \A k \in 1 .. c : inputs'[l + k] = results[k]
  BY <1>1, <1>6, <1>7, <1>9
<1> HIDE DEF n, l
<1>11. Extends(inputs, inputs') /\ Extends(meaning, meaning')
  <2>1. l <= l + c
    BY <1>1, <1>6
  <2>2. QED BY <1>1, <1>10, <2>1, ExtendsSelf DEF Extends, l
<1>12. /\ \A i \in 1 .. n : i \in C => nodes'[i] = Leaf(l + Place(cut, i) - 1)
       /\ \A i \in 1 .. n : i \notin C => nodes'[i] = nodes[i]
  BY <1>1, <1>3
<1>13. nodes' \in Seq(Nodes) /\ Len(nodes') = n
  <2>1. ASSUME NEW i \in 1 .. n PROVE nodes'[i] \in Nodes
    <3>1. CASE i \in C
      <4>1. Place(cut, i) \in 1 .. c
        BY <1>6, <3>1
      <4>2. l + Place(cut, i) - 1 \in Nat
        BY <1>1, <1>6, <4>1
      <4>3. Leaf(l + Place(cut, i) - 1) \in Nodes
        BY <4>2, LeafNode
      <4>4. QED BY <1>12, <3>1, <4>3
    <3>2. CASE i \notin C
      BY <1>1, <1>12, <3>2 DEF n
    <3>3. QED BY <3>1, <3>2
  <2>2. DOMAIN nodes' = 1 .. n /\ nodes' = [i \in 1 .. n |-> nodes'[i]]
    BY <1>1, <1>3
  <2>3. nodes' \in [1 .. n -> Nodes]
    BY <2>1, <2>2
  <2>4. n \in Nat
    BY <1>1
  <2>5. \A S : nodes' \in [1 .. n -> S] => nodes' \in Seq(S) /\ Len(nodes') = n
    BY <2>4
  <2>6. QED BY <2>3, <2>5
<1>14. ASSUME NEW i \in 1 .. n PROVE NodeRight(nodes'[i], i, meaning', inputs')
  <2>1. CASE i \in C
    <3>1. Place(cut, i) \in 1 .. c /\ cut[Place(cut, i)] = i
      BY <1>6, <2>1
    <3>2. inputs'[l + Place(cut, i)] = meaning[i]
      BY <1>8, <1>10, <3>1
    <3> DEFINE k == Place(cut, i)
               q == l + k - 1
    <3>3. q \in 0 .. Len(inputs') - 1 /\ q + 1 = l + k
      <4>1. k \in 1 .. c /\ l \in Nat /\ c \in Nat /\ Len(inputs') = l + c
        BY <1>1, <1>6, <1>10, <3>1
      <4> HIDE DEF k
      <4>2. QED BY <4>1
    <3>4. nodes'[i] = Leaf(q) /\ inputs'[q + 1] = meaning'[i]
      BY <1>1, <1>12, <2>1, <3>2, <3>3
    <3> HIDE DEF q
    <3>5. QED BY <3>3, <3>4 DEF NodeRight
  <2>2. CASE i \notin C
    <3>1. NodeRight(nodes[i], i, meaning, inputs)
      BY <1>2, <1>1 DEF LazyInv, SessionInv, n
    <3>2. i \in 1 .. Len(meaning)
      BY <1>1
    <3>3. NodeRight(nodes[i], i, meaning', inputs')
      BY <1>11, <3>1, <3>2, NodeKept
    <3>4. QED BY <1>12, <2>2, <3>3
  <2>3. QED BY <2>1, <2>2
<1>15. ASSUME NEW q \in 0 .. Len(inputs') - 1 PROVE \E i \in 1 .. n : nodes'[i].param = q
  <2>1. CASE q < l
    <3>1. q \in 0 .. l - 1
      BY <1>1, <1>10, <2>1
    <3>2. PICK i \in 1 .. n : nodes[i].param = q
      BY <3>1 DEF LazyInv, SessionInv, n, l
    <3>3. i \notin C
      BY <1>4, <3>1, <3>2 DEF None
    <3>4. QED BY <1>12, <3>2, <3>3
  <2>2. CASE ~(q < l)
    <3>1. q - l + 1 \in 1 .. c
      BY <1>1, <1>6, <1>10, <2>2
    <3>2. cut[q - l + 1] \in C /\ Place(cut, cut[q - l + 1]) = q - l + 1
      BY <1>6, <3>1
    <3>3. cut[q - l + 1] \in 1 .. n /\ nodes'[cut[q - l + 1]] = Leaf(l + (q - l + 1) - 1)
      BY <1>4, <1>12, <3>2
    <3>4. l + (q - l + 1) - 1 = q
      BY <1>1, <1>10
    <3>5. QED BY <3>3, <3>4 DEF Leaf
  <2>3. QED BY <2>1, <2>2
<1>16. SessionInv'
  <2>1. /\ bound' = bound /\ meaning' = meaning /\ handles' = handles /\ lifting' = 0
        /\ bound \in Seq(Int) /\ meaning \in Seq(Int) /\ Len(bound) = n /\ Len(meaning) = n
        /\ handles \subseteq 1 .. n
        /\ \A i \in handles : bound[i] # None => bound[i] = meaning[i]
    BY <1>1, <1>2 DEF LazyInv, SessionInv, n
  <2>2. handles \subseteq (1 .. n) \ {0} /\ 0 \in 0 .. n
    BY <1>1, <2>1
  <2>3. QED BY <1>10, <1>13, <1>14, <1>15, <2>1, <2>2 DEF SessionInv
<1>17. OnlyTask(t) /\ task'[t] = [task[t] EXCEPT !.pc = "publish", !.async = FALSE]
  <2>1. task' = [task EXCEPT ![t].pc = "publish", ![t].async = FALSE]
    BY DEF Materialize
  <2>2. QED BY <1>1, <2>1 DEF OnlyTask, TaskRight
<1>18. /\ TaskRight(task'[t], handles, meaning, inputs) /\ task'[t].thread = task[t].thread
       /\ task'[t].leased = task[t].leased /\ task'[t].pc = "publish"
  <2>1. task'[t] = [pc |-> "publish", thread |-> task[t].thread, async |-> FALSE,
                    roots |-> task[t].roots, unchecked |-> task[t].unchecked,
                    leased |-> task[t].leased, program |-> task[t].program,
                    values |-> task[t].values]
    BY <1>1, <1>17 DEF TaskRight
  <2>2. QED BY <1>1, <2>1 DEF TaskRight
<1>19. Alone(t, task'[t])
  BY <1>1, <1>18, GoesOn DEF LazyInv
<1>20. TaskRight(task'[t], handles', meaning', inputs')
  BY <1>1, <1>11, <1>18, TaskKept
<1>21. TaskInv' /\ CallInv'
  BY <1>1, <1>11, <1>17, <1>19, <1>20, TasksKept
<1>22. LeaseInv'
  BY <1>1, <1>17, <1>18, LeasesKept
<1>23. QED BY <1>16, <1>21, <1>22 DEF LazyInv

-----------------------------------------------------------------------------
\* Building the graph.

\* A sequence of integers with one more.
LEMMA Appended ==
    ASSUME NEW p \in Seq(Int), NEW x \in Int
    PROVE  /\ Append(p, x) \in Seq(Int) /\ Extends(p, Append(p, x))
           /\ Len(Append(p, x)) = Len(p) + 1 /\ Append(p, x)[Len(p) + 1] = x
BY DEF Extends

\* The evaluations while the graph grows and none of them moves.
LEMMA TasksStay ==
    ASSUME LazyInv, task' = task, inFlight' = inFlight, handles \subseteq handles',
           Extends(meaning, meaning'), Extends(inputs, inputs')
    PROVE  TaskInv' /\ LeaseInv'
<1>1. handles \subseteq 1 .. Len(meaning)
  BY DEF LazyInv, SessionInv
<1>2. TaskInv'
  <2>1. ASSUME NEW t \in Tasks PROVE TaskRight(task[t], handles', meaning', inputs')
    BY <1>1, TaskKept DEF LazyInv, TaskInv
  <2>2. QED BY <2>1 DEF LazyInv, TaskInv
<1>3. LeaseInv'
  BY DEF LazyInv, LeaseInv, OneThread
<1>4. QED BY <1>2, <1>3

\* When nothing is being lifted, as many nodes are parameters as the list has
\* inputs: a lift takes the number its tensor will have in the list.
LEMMA NumbersMatch ==
    ASSUME SessionInv, lifting = 0, DenseNumbers
    PROVE  Cardinality(ParameterNodes) = Len(inputs)
<1> DEFINE n == Len(nodes)
           l == Len(inputs)
           c == Cardinality(ParameterNodes)
<1>1. n \in Nat /\ l \in Nat /\ DOMAIN nodes = 1 .. n /\ inputs \in Seq(Int)
  BY DEF SessionInv
<1>2. c \in Nat
  <2>1. IsFiniteSet(1 .. n)
    <3> HIDE DEF n
    <3>1. n \in Int
      BY <1>1
    <3>2. QED BY <3>1, FS_Interval
  <2>2. ParameterNodes \subseteq 1 .. n
    BY <1>1 DEF ParameterNodes
  <2>3. QED BY <2>1, <2>2, FS_Subset, FS_CardinalityType
<1>3. Numbers = 0 .. l - 1
  <2>1. ASSUME NEW q \in Numbers PROVE q \in 0 .. l - 1
    <3>1. PICK i \in 1 .. n : q = nodes[i].param /\ q # None
      BY <1>1 DEF Numbers
    <3>2. NodeRight(nodes[i], i, meaning, inputs) /\ i \in Nat
      BY <1>1 DEF SessionInv
    <3>3. QED BY <1>1, <3>1, <3>2, NodeFields
  <2>2. ASSUME NEW q \in 0 .. l - 1 PROVE q \in Numbers
    <3>1. PICK i \in 1 .. n : nodes[i].param = q
      BY DEF SessionInv
    <3>2. q # None
      BY <1>1 DEF None
    <3>3. QED BY <1>1, <3>1, <3>2 DEF Numbers
  <2>3. QED BY <2>1, <2>2
<1>4. 0 .. l - 1 = 0 .. c - 1
  BY <1>3 DEF DenseNumbers
<1> HIDE DEF c, l
<1>5. c = l
  <2>1. CASE c < l
    <3>1. l - 1 \in 0 .. c - 1
      BY <1>1, <1>2, <1>4, <2>1
    <3>2. QED BY <1>1, <1>2, <2>1, <3>1
  <2>2. CASE l < c
    <3>1. c - 1 \in 0 .. l - 1
      BY <1>1, <1>2, <1>4, <2>2
    <3>2. QED BY <1>1, <1>2, <2>2, <3>1
  <2>3. QED BY <1>1, <1>2, <2>1, <2>2
<1>6. QED BY <1>5 DEF c, l

\* A power of ten is an integer.
LEMMA PowerOfTen ==
    ASSUME NEW k \in Nat
    PROVE  10 ^ k \in Int
OBVIOUS

\* How many tensors have been lifted is a number.
LEMMA LiftsNat ==
    ASSUME nodes \in Seq(Nodes)
    PROVE  Lifts \in Nat
<1> DEFINE n == Len(nodes)
           leaves == {i \in DOMAIN nodes : nodes[i].args = <<>>}
<1>1. n \in Nat /\ leaves \subseteq 1 .. n
  OBVIOUS
<1>2. IsFiniteSet(1 .. n)
  <2> HIDE DEF n
  <2>1. n \in Int
    BY <1>1
  <2>2. QED BY <2>1, FS_Interval
<1> HIDE DEF leaves
<1>3. Cardinality(leaves) \in Nat
  BY <1>1, <1>2, FS_Subset, FS_CardinalityType
<1>4. QED BY <1>3 DEF leaves, Lifts

\* The new parameter of a lifted tensor has the number of the next input; no call
\* is running.
LEMMA KeepLift ==
    ASSUME LazyInv, ~SharedLifts, Lift
    PROVE  LazyInv'
<1> DEFINE n == Len(nodes)
           x == 10 ^ Lifts
           new == Leaf(Len(inputs))
<1>1. /\ lifting = 0 /\ nodes \in Seq(Nodes) /\ meaning \in Seq(Int) /\ bound \in Seq(Int)
      /\ inputs \in Seq(Int) /\ n \in Nat /\ Len(meaning) = n /\ Len(bound) = n
      /\ handles \subseteq 1 .. n /\ Len(inputs) \in Nat
      /\ UNCHANGED <<handles, inputs, inFlight, task>>
  BY DEF Lift, LazyInv, SessionInv
<1>2. x \in Int
  BY <1>1, LiftsNat, PowerOfTen
<1>3. /\ nodes' = Append(nodes, new) /\ meaning' = Append(meaning, x) /\ bound' = Append(bound, x)
      /\ lifting' = n + 1
  <2>1. Cardinality(ParameterNodes) = Len(inputs)
    BY <1>1, NumbersMatch DEF Lift, LazyInv
  <2>2. QED BY <2>1 DEF Lift
<1>4. new \in Nodes
  BY <1>1, LeafNode
<1> HIDE DEF x, new
<1>5. /\ Extends(meaning, meaning') /\ meaning' \in Seq(Int) /\ Len(meaning') = n + 1
      /\ Extends(inputs, inputs') /\ bound' \in Seq(Int) /\ Len(bound') = n + 1
      /\ meaning'[n + 1] = x /\ bound'[n + 1] = x
      /\ \A i \in 1 .. n : bound'[i] = bound[i] /\ meaning'[i] = meaning[i]
  BY <1>1, <1>2, <1>3, Appended, ExtendsSelf DEF Extends
<1>6. /\ nodes' \in Seq(Nodes) /\ Len(nodes') = n + 1 /\ nodes'[n + 1] = new
      /\ \A i \in 1 .. n : nodes'[i] = nodes[i]
  BY <1>1, <1>3, <1>4
<1>7. SessionInv'
  <2>1. lifting' \in 0 .. Len(nodes') /\ handles' \subseteq (1 .. Len(nodes')) \ {lifting'}
    BY <1>1, <1>3, <1>6
  <2>2. ASSUME NEW i \in 1 .. Len(nodes'), i # lifting'
        PROVE  NodeRight(nodes'[i], i, meaning', inputs')
    <3>1. i \in 1 .. n /\ i \in 1 .. Len(meaning)
      BY <1>1, <1>3, <1>6, <2>2
    <3>2. NodeRight(nodes[i], i, meaning, inputs)
      BY <1>1, <3>1 DEF LazyInv, SessionInv
    <3>3. QED BY <1>5, <1>6, <3>1, <3>2, NodeKept
  <2>3. nodes'[lifting'] = Leaf(Len(inputs')) /\ bound'[lifting'] = meaning'[lifting']
    BY <1>1, <1>3, <1>5, <1>6 DEF new
  <2>4. ASSUME NEW q \in 0 .. Len(inputs') - 1
        PROVE  \E i \in 1 .. Len(nodes') : nodes'[i].param = q
    <3>1. PICK i \in 1 .. n : nodes[i].param = q
      BY <1>1 DEF LazyInv, SessionInv
    <3>2. i \in 1 .. Len(nodes')
      BY <1>1, <1>6
    <3>3. QED BY <1>6, <3>1, <3>2
  <2>5. \A i \in handles' : bound'[i] # None => bound'[i] = meaning'[i]
    BY <1>1, <1>5 DEF LazyInv, SessionInv
  <2>6. /\ nodes' \in Seq(Nodes) /\ meaning' \in Seq(Int) /\ bound' \in Seq(Int)
        /\ inputs' \in Seq(Int) /\ Len(meaning') = Len(nodes') /\ Len(bound') = Len(nodes')
    BY <1>1, <1>5, <1>6
  <2>7. QED BY <2>1, <2>2, <2>3, <2>4, <2>5, <2>6 DEF SessionInv
<1>8. TaskInv' /\ LeaseInv'
  BY <1>1, <1>5, TasksStay
<1>9. CallInv'
  <2>1. \A t \in Tasks : Quiet(task[t])
    BY DEF Lift, OthersQuiet, AnyFree, InCall, Quiet, Occupied
  <2>2. QED BY <1>1, <2>1 DEF LazyInv, CallInv, Quiet, Occupied
<1>10. QED BY <1>7, <1>8, <1>9 DEF LazyInv

\* Its concrete value follows in the list.
LEMMA KeepLiftPush ==
    ASSUME LazyInv, LiftPush
    PROVE  LazyInv'
<1> DEFINE n == Len(nodes)
           l == Len(inputs)
           x == bound[lifting]
<1>1. /\ lifting \in 1 .. n /\ nodes \in Seq(Nodes) /\ meaning \in Seq(Int) /\ bound \in Seq(Int)
      /\ inputs \in Seq(Int) /\ n \in Nat /\ l \in Nat /\ Len(meaning) = n /\ Len(bound) = n
      /\ handles \subseteq 1 .. n /\ nodes[lifting] = Leaf(l) /\ x = meaning[lifting] /\ x \in Int
      /\ UNCHANGED <<nodes, meaning, bound, inFlight, task>>
      /\ inputs' = Append(inputs, x) /\ handles' = handles \cup {lifting} /\ lifting' = 0
  BY DEF LiftPush, LazyInv, SessionInv
<1> HIDE DEF x
<1>2. /\ Extends(meaning, meaning') /\ Extends(inputs, inputs')
      /\ inputs' \in Seq(Int) /\ Len(inputs') = l + 1 /\ inputs'[l + 1] = x
  BY <1>1, Appended, ExtendsSelf
<1>3. SessionInv'
  <2>1. ASSUME NEW i \in 1 .. n PROVE NodeRight(nodes'[i], i, meaning', inputs')
    <3>1. CASE i = lifting
      <4>1. l \in 0 .. Len(inputs') - 1 /\ nodes'[i] = Leaf(l) /\ inputs'[l + 1] = meaning'[i]
        BY <1>1, <1>2, <3>1
      <4> HIDE DEF l
      <4>2. QED BY <4>1 DEF NodeRight
    <3>2. CASE i # lifting
      <4>1. NodeRight(nodes[i], i, meaning, inputs) /\ i \in 1 .. Len(meaning)
        BY <1>1, <3>2 DEF LazyInv, SessionInv
      <4>2. QED BY <1>1, <1>2, <4>1, NodeKept
    <3>3. QED BY <3>1, <3>2
  <2>2. ASSUME NEW q \in 0 .. Len(inputs') - 1
        PROVE  \E i \in 1 .. n : nodes'[i].param = q
    <3>1. CASE q = l
      BY <1>1, <3>1 DEF Leaf
    <3>2. CASE q # l
      <4>1. q \in 0 .. l - 1
        BY <1>1, <1>2, <3>2
      <4>2. QED BY <1>1, <4>1 DEF LazyInv, SessionInv
    <3>3. QED BY <3>1, <3>2
  <2>3. \A i \in handles' : bound'[i] # None => bound'[i] = meaning'[i]
    BY <1>1 DEF LazyInv, SessionInv, x
  <2>4. handles' \subseteq (1 .. n) \ {lifting'} /\ lifting' \in 0 .. n
    BY <1>1
  <2>5. QED BY <1>1, <1>2, <2>1, <2>2, <2>3, <2>4 DEF SessionInv
<1>4. TaskInv' /\ LeaseInv'
  BY <1>1, <1>2, TasksStay
<1>5. CallInv'
  BY <1>1 DEF LazyInv, CallInv, Quiet, Occupied
<1>6. QED BY <1>3, <1>4, <1>5 DEF LazyInv

\* A sum is a node.
LEMMA SumNode ==
    ASSUME NEW a \in Nat, NEW b \in Nat
    PROVE  Added(a, b) \in Nodes
<1>1. <<a, b>> \in Seq(Nat) /\ None \in Nat \cup {None}
  OBVIOUS
<1>2. QED BY <1>1 DEF Added, Nodes

\* A sum of two handles is appended, perhaps while the tensor of another thread
\* is between its two locks.
LEMMA KeepAddNode ==
    ASSUME LazyInv, NEW th \in Threads, NEW i \in handles, NEW j \in handles, AddNode(th, i, j)
    PROVE  LazyInv'
<1> DEFINE n == Len(nodes)
           x == meaning[i] + meaning[j]
           new == Added(i, j)
<1>1. /\ nodes \in Seq(Nodes) /\ meaning \in Seq(Int) /\ bound \in Seq(Int)
      /\ inputs \in Seq(Int) /\ n \in Nat /\ Len(meaning) = n /\ Len(bound) = n
      /\ handles \subseteq (1 .. n) \ {lifting} /\ lifting \in 0 .. n
      /\ i \in 1 .. n /\ j \in 1 .. n /\ x \in Int /\ Len(inputs) \in Nat
      /\ UNCHANGED <<inputs, inFlight, lifting, task>>
      /\ nodes' = Append(nodes, new) /\ meaning' = Append(meaning, x)
      /\ bound' = Append(bound, None) /\ handles' = handles \cup {n + 1}
  <2>1. /\ nodes \in Seq(Nodes) /\ meaning \in Seq(Int) /\ bound \in Seq(Int)
        /\ inputs \in Seq(Int) /\ Len(meaning) = n /\ Len(bound) = n
        /\ handles \subseteq (1 .. n) \ {lifting} /\ lifting \in 0 .. n
    BY DEF LazyInv, SessionInv
  <2>2. n \in Nat /\ Len(inputs) \in Nat
    BY <2>1
  <2>3. i \in 1 .. n /\ j \in 1 .. n
    BY <2>1
  <2>4. meaning[i] \in Int /\ meaning[j] \in Int
    BY <2>1, <2>2, <2>3
  <2>5. x \in Int
    BY <2>4
  <2>6. /\ UNCHANGED <<inputs, inFlight, lifting, task>>
        /\ nodes' = Append(nodes, new) /\ meaning' = Append(meaning, x)
        /\ bound' = Append(bound, None) /\ handles' = handles \cup {n + 1}
    BY DEF AddNode, Added
  <2> HIDE DEF x, new, n
  <2>7. QED BY <2>1, <2>2, <2>3, <2>5, <2>6
<1>2. new \in Nodes
  <2>1. i \in Nat /\ j \in Nat
    BY <1>1
  <2>2. QED BY <2>1, SumNode
<1>3. x = meaning[i] + meaning[j] /\ new = Added(i, j) /\ None \in Int
  BY DEF None
<1> HIDE DEF x, new
<1>4. /\ Extends(meaning, meaning') /\ meaning' \in Seq(Int) /\ Len(meaning') = n + 1
      /\ Extends(inputs, inputs') /\ bound' \in Seq(Int) /\ Len(bound') = n + 1
      /\ meaning'[n + 1] = x /\ bound'[n + 1] = None
      /\ \A k \in 1 .. n : bound'[k] = bound[k] /\ meaning'[k] = meaning[k]
  <2>1. /\ Extends(meaning, meaning') /\ meaning' \in Seq(Int) /\ Len(meaning') = n + 1
        /\ meaning'[n + 1] = x
    BY <1>1, Appended
  <2>2. /\ Extends(bound, bound') /\ bound' \in Seq(Int) /\ Len(bound') = n + 1
        /\ bound'[n + 1] = None
    BY <1>1, <1>3, Appended
  <2>3. Extends(inputs, inputs')
    BY <1>1, ExtendsSelf
  <2>4. \A k \in 1 .. n : bound'[k] = bound[k] /\ meaning'[k] = meaning[k]
    BY <1>1, <2>1, <2>2 DEF Extends
  <2>5. QED BY <2>1, <2>2, <2>3, <2>4
<1>5. /\ nodes' \in Seq(Nodes) /\ Len(nodes') = n + 1 /\ nodes'[n + 1] = new
      /\ \A k \in 1 .. n : nodes'[k] = nodes[k]
  BY <1>1, <1>2
<1>6. SessionInv'
  <2>1. lifting' \in 0 .. Len(nodes') /\ handles' \subseteq (1 .. Len(nodes')) \ {lifting'}
    <3>1. n \in Nat /\ lifting \in 0 .. n /\ lifting' = lifting /\ Len(nodes') = n + 1
      BY <1>1, <1>5
    <3>2. handles \subseteq (1 .. n) \ {lifting} /\ handles' = handles \cup {n + 1}
      BY <1>1
    <3> HIDE DEF n
    <3>3. QED BY <3>1, <3>2
  <2>2. ASSUME NEW k \in 1 .. Len(nodes'), k # lifting'
        PROVE  NodeRight(nodes'[k], k, meaning', inputs')
    <3>1. CASE k = n + 1
      <4>1. i \in 1 .. k - 1 /\ j \in 1 .. k - 1
        BY <1>1, <3>1
      <4>2. meaning'[k] = meaning'[i] + meaning'[j]
        BY <1>1, <1>3, <1>4, <3>1
      <4>3. nodes'[k] = Added(i, j)
        BY <1>3, <1>5, <3>1
      <4>4. QED BY <4>1, <4>2, <4>3 DEF NodeRight
    <3>2. CASE k # n + 1
      <4>1. k \in 1 .. n /\ k \in 1 .. Len(meaning)
        BY <1>1, <1>5, <3>2
      <4>2. NodeRight(nodes[k], k, meaning, inputs)
        BY <1>1, <2>2, <4>1 DEF LazyInv, SessionInv
      <4>3. QED BY <1>4, <1>5, <4>1, <4>2, NodeKept
    <3>3. QED BY <3>1, <3>2
  <2>3. lifting' # 0 => nodes'[lifting'] = Leaf(Len(inputs')) /\ bound'[lifting'] = meaning'[lifting']
    BY <1>1, <1>4, <1>5 DEF LazyInv, SessionInv
  <2>4. ASSUME NEW q \in 0 .. Len(inputs') - 1
        PROVE  \E k \in 1 .. Len(nodes') : nodes'[k].param = q
    <3>1. PICK k \in 1 .. n : nodes[k].param = q
      BY <1>1 DEF LazyInv, SessionInv
    <3>2. k \in 1 .. Len(nodes')
      BY <1>1, <1>5
    <3>3. QED BY <1>5, <3>1, <3>2
  <2>5. \A k \in handles' : bound'[k] # None => bound'[k] = meaning'[k]
    BY <1>1, <1>4 DEF LazyInv, SessionInv
  <2>6. /\ nodes' \in Seq(Nodes) /\ meaning' \in Seq(Int) /\ bound' \in Seq(Int)
        /\ inputs' \in Seq(Int) /\ Len(meaning') = Len(nodes') /\ Len(bound') = Len(nodes')
    BY <1>1, <1>4, <1>5
  <2>7. QED BY <2>1, <2>2, <2>3, <2>4, <2>5, <2>6 DEF SessionInv
<1>7. TaskInv' /\ LeaseInv'
  BY <1>1, <1>4, TasksStay
<1>8. CallInv'
  BY <1>1 DEF LazyInv, CallInv, Quiet, Occupied
<1>9. QED BY <1>6, <1>7, <1>8 DEF LazyInv

-----------------------------------------------------------------------------
\* The theorems.

\* An empty session is right.
LEMMA InvInit ==
    ASSUME LazyInit
    PROVE  LazyInv
<1>1. SessionInv
  BY DEF LazyInit, SessionInv
<1>2. Home \in Threads /\ task = [t \in Tasks |-> Idle] /\ lifting = 0 /\ inFlight = {} /\ handles = {}
  BY LazyAssumption DEF LazyInit
<1>3. \A t \in Tasks : task[t] = Idle
  BY <1>2
<1>4. Idle.pc = "idle" /\ Idle.thread = Home /\ Idle.leased = {}
  BY DEF Idle
<1>5. TaskRight(Idle, {}, meaning, inputs)
  BY <1>2 DEF TaskRight, Idle
<1>6. TaskInv
  BY <1>2, <1>3, <1>5 DEF TaskInv
<1>7. CallInv
  BY <1>2, <1>3, <1>4 DEF CallInv, Occupied
<1>8. LeaseInv
  BY <1>2, <1>3, <1>4 DEF LeaseInv
<1>9. QED BY <1>1, <1>6, <1>7, <1>8 DEF LazyInv

\* Every step keeps the invariant.
LEMMA KeepNext ==
    ASSUME LazyInv, ~SharedLifts, [LazyNext]_lazyVars
    PROVE  LazyInv'
<1>1. CASE Lift
  BY <1>1, KeepLift
<1>2. CASE LiftPush
  BY <1>2, KeepLiftPush
<1>3. ASSUME NEW th \in Threads, NEW i \in handles, NEW j \in handles, AddNode(th, i, j)
      PROVE  LazyInv'
  BY <1>3, KeepAddNode
<1>4. ASSUME NEW t \in Tasks, NEW th \in Threads, NEW R \in Roots, NEW async \in BOOLEAN,
             Begin(t, th, R, async)
      PROVE  LazyInv'
  BY <1>4, KeepBegin
<1>5. ASSUME NEW t \in Tasks, TaskStep(t) PROVE LazyInv'
  <2>1. ASSUME NEW r \in task[t].roots, CheckRoot(t, r) PROVE LazyInv'
    BY <2>1, KeepCheckRoot
  <2>2. ASSUME NEW r \in task[t].roots, Publish(t, r) PROVE LazyInv'
    BY <2>2, KeepPublish
  <2>3. CASE Lease(t)
    BY <2>3, KeepLease
  <2>4. CASE Lower(t)
    BY <2>4, KeepLower
  <2>5. CASE Gather(t)
    BY <2>5, KeepGather
  <2>6. CASE GiveUp(t)
    BY <2>6, KeepGiveUp
  <2>7. CASE Materialize(t)
    BY <2>7, KeepMaterialize
  <2>8. CASE Release(t)
    BY <2>8, KeepRelease
  <2>9. QED BY <1>5, <2>1, <2>2, <2>3, <2>4, <2>5, <2>6, <2>7, <2>8 DEF TaskStep
<1>6. CASE UNCHANGED lazyVars
  BY <1>6 DEF lazyVars, LazyInv, SessionInv, TaskInv, CallInv, LeaseInv, OneThread, Occupied, Quiet
<1>7. QED BY <1>1, <1>2, <1>3, <1>4, <1>5, <1>6 DEF LazyNext

\* While concrete tensors enter the session only between the evaluations of
\* other threads: the graph stands for its tensors' values, the input list holds
\* each parameter's value at its number, every evaluation computes its roots'
\* values, and whatever is in flight is leased.
THEOREM LazyInvariant ==
    ASSUME ~SharedLifts
    PROVE  LazySpec => []LazyInv
<1>1. LazyInit => LazyInv
  BY InvInit
<1>2. LazyInv /\ [LazyNext]_lazyVars => LazyInv'
  BY KeepNext
<1>3. QED BY <1>1, <1>2, PTL DEF LazySpec

\* A leased root is never claimed twice while one thread evaluates; no root is in
\* flight without an evaluation that will return its lease (begin_evaluation,
\* EvaluationLease); and a parameter's number finds its tensor's value in the
\* input list, however evaluations overlap (materialize_all, lazy_inputs).
THEOREM LeasesAlwaysSound ==
    ASSUME ~SharedLifts
    PROVE  LazySpec => []LeasesSound
<1>1. LazyInv => LeasesSound
  <2> SUFFICES ASSUME LazyInv PROVE LeasesSound
    OBVIOUS
  <2>1. /\ nodes \in Seq(Nodes) /\ inputs \in Seq(Int) /\ Len(nodes) \in Nat /\ DOMAIN nodes = 1 .. Len(nodes)
        /\ Len(meaning) = Len(nodes) /\ Len(bound) = Len(nodes)
        /\ handles \subseteq (1 .. Len(nodes)) \ {lifting} /\ lifting \in 0 .. Len(nodes)
    BY DEF LazyInv, SessionInv
  <2>2. \A t \in Tasks : task[t].leased \subseteq handles /\ task[t].thread \in Threads
    BY DEF LazyInv, TaskInv, TaskRight
  <2>3. inFlight \subseteq UNION {task[t].leased : t \in Tasks}
    BY DEF LazyInv, LeaseInv
  <2>4. ASSUME NEW i \in 1 .. Len(nodes)
        PROVE  nodes[i].param \in Nat \cup {None} /\ Range(nodes[i].args) \subseteq 1 .. i - 1
    <3>1. CASE i = lifting
      <4>1. nodes[i] = Leaf(Len(inputs)) /\ Len(inputs) \in Nat
        BY <2>1, <3>1 DEF LazyInv, SessionInv
      <4>2. QED BY <4>1 DEF Leaf, Range
    <3>2. CASE i # lifting
      <4>1. NodeRight(nodes[i], i, meaning, inputs) /\ i \in Nat
        BY <2>1, <3>2 DEF LazyInv, SessionInv
      <4>2. \/ nodes[i].param \in Nat /\ nodes[i].args = <<>>
            \/ /\ nodes[i].param = None /\ nodes[i].args \in Seq(Nat) /\ Len(nodes[i].args) = 2
               /\ nodes[i].args[1] \in 1 .. i - 1 /\ nodes[i].args[2] \in 1 .. i - 1
        <5>1. nodes[i] \in Nodes
          BY <2>1
        <5>2. nodes[i].param \in Nat \cup {None} /\ nodes[i].args \in Seq(Nat)
          BY <5>1 DEF Nodes
        <5>3. QED BY <2>1, <4>1, <5>2, NodeFields
      <4>3. CASE nodes[i].param \in Nat /\ nodes[i].args = <<>>
        BY <4>3 DEF Range
      <4>4. CASE /\ nodes[i].param = None /\ nodes[i].args \in Seq(Nat) /\ Len(nodes[i].args) = 2
                 /\ nodes[i].args[1] \in 1 .. i - 1 /\ nodes[i].args[2] \in 1 .. i - 1
        <5>1. DOMAIN nodes[i].args = {1, 2}
          BY <4>4
        <5>2. QED BY <4>4, <5>1 DEF Range
      <4>5. QED BY <4>2, <4>3, <4>4
    <3>3. QED BY <3>1, <3>2
  <2>5. LazyTypeOK
    <3>1. inFlight \subseteq handles
      BY <2>2, <2>3
    <3>2. QED BY <2>1, <2>2, <2>4, <3>1 DEF LazyTypeOK
  <2>6. LeaseExclusive
    BY DEF LeaseExclusive, LazyInv, LeaseInv, OneThread
  <2>7. NoOrphanLease
    BY <2>3 DEF NoOrphanLease
  <2>8. InputsAligned
    <3> SUFFICES ASSUME NEW i \in handles, nodes[i].param # None
                 PROVE  nodes[i].param < Len(inputs) /\ inputs[nodes[i].param + 1] = meaning[i]
      BY DEF InputsAligned
    <3>1. NodeRight(nodes[i], i, meaning, inputs) /\ i \in Nat
      BY <2>1 DEF LazyInv, SessionInv
    <3>2. nodes[i].param \in 0 .. Len(inputs) - 1 /\ inputs[nodes[i].param + 1] = meaning[i]
      BY <2>1, <3>1, NodeFields
    <3>3. QED BY <2>1, <3>2
  <2>9. QED BY <2>5, <2>6, <2>7, <2>8 DEF LeasesSound
<1>2. QED BY <1>1, LazyInvariant, PTL

\* A tensor is bound only to the value its expression stands for, however many
\* evaluations of it and of its ancestors overlap (TensorDescriptor.binding).
THEOREM AlwaysBoundRight ==
    ASSUME ~SharedLifts
    PROVE  LazySpec => []BoundRight
<1>1. LazyInv => BoundRight
  BY DEF LazyInv, SessionInv, BoundRight
<1>2. QED BY <1>1, LazyInvariant, PTL

\* The graph is a list of nodes, whoever lifts a tensor when.
Listed == \E S : nodes \in Seq(S)

\* Every step keeps it a list, and keeps each parameter in its place.
LEMMA ParametersStay ==
    ASSUME Listed, [LazyNext]_lazyVars
    PROVE  /\ Listed'
           /\ \A i \in DOMAIN nodes : nodes[i].param # None => nodes'[i] = nodes[i]
<1>1. PICK S : nodes \in Seq(S)
  BY DEF Listed
<1>2. \/ nodes' = nodes
      \/ \E x : nodes' = Append(nodes, x)
      \/ \E C, new : /\ \A i \in C : nodes[i].param = None
                     /\ nodes' = [i \in DOMAIN nodes |-> IF i \in C THEN new[i] ELSE nodes[i]]
  <2>1. CASE Lift
    BY <2>1 DEF Lift
  <2>2. CASE \E th \in Threads, i, j \in handles : AddNode(th, i, j)
    BY <2>2 DEF AddNode
  <2>3. ASSUME NEW t \in Tasks, Materialize(t)
        PROVE  \E C, new : /\ \A i \in C : nodes[i].param = None
                           /\ nodes' = [i \in DOMAIN nodes |-> IF i \in C THEN new[i] ELSE nodes[i]]
    <3>1. PICK cut \in Orders(RootsToCut(t)) :
            nodes' = [i \in DOMAIN nodes |-> IF i \in RootsToCut(t)
                          THEN Leaf(Len(inputs) + Place(cut, i) - 1) ELSE nodes[i]]
      BY <2>3 DEF Materialize
    <3> DEFINE new == [i \in DOMAIN nodes |-> Leaf(Len(inputs) + Place(cut, i) - 1)]
    <3>2. nodes' = [i \in DOMAIN nodes |-> IF i \in RootsToCut(t) THEN new[i] ELSE nodes[i]]
      BY <3>1
    <3>3. \A i \in RootsToCut(t) : nodes[i].param = None
      BY DEF RootsToCut
    <3> HIDE DEF new
    <3>4. QED BY <3>2, <3>3
  <2>4. CASE nodes' = nodes
    BY <2>4
  <2>5. QED
    BY <2>1, <2>2, <2>3, <2>4 DEF LazyNext, TaskStep, LiftPush, Begin, CheckRoot, Publish,
       Lease, Lower, Gather, GiveUp, Release, lazyVars
<1>3. CASE nodes' = nodes
  BY <1>1, <1>3 DEF Listed
<1>4. ASSUME NEW x, nodes' = Append(nodes, x)
      PROVE  Listed' /\ \A i \in DOMAIN nodes : nodes'[i] = nodes[i]
  <2> DEFINE U == S \cup {x}
  <2>1. nodes \in Seq(U) /\ x \in U
    BY <1>1
  <2> HIDE DEF U
  <2>2. nodes' \in Seq(U) /\ \A i \in DOMAIN nodes : nodes'[i] = nodes[i]
    BY <1>4, <2>1
  <2>3. QED BY <2>2 DEF Listed
<1>5. ASSUME NEW C, NEW new, \A i \in C : nodes[i].param = None,
             nodes' = [i \in DOMAIN nodes |-> IF i \in C THEN new[i] ELSE nodes[i]]
      PROVE  /\ Listed'
             /\ \A i \in DOMAIN nodes : nodes[i].param # None => nodes'[i] = nodes[i]
  <2> DEFINE n == Len(nodes)
             U == {nodes'[i] : i \in 1 .. n}
  <2>1. n \in Nat /\ DOMAIN nodes = 1 .. n
    BY <1>1
  <2>2. nodes' \in [1 .. n -> U]
    BY <1>5, <2>1
  <2> HIDE DEF U
  <2>3. nodes' \in Seq(U)
    BY <2>1, <2>2
  <2>4. QED BY <1>5, <2>3 DEF Listed
<1>6. QED BY <1>2, <1>3, <1>4, <1>5

\* A node cut to a parameter keeps that parameter, whoever lifts a tensor when
\* and however evaluations overlap (materialize_all skips what is cut already).
THEOREM ParametersKept == LazySpec => CutOnce
<1>1. LazyInit => Listed
  BY DEF LazyInit, Listed
<1>2. Listed /\ [LazyNext]_lazyVars => Listed'
  BY ParametersStay
<1>3. Listed /\ [LazyNext]_lazyVars =>
          [\A i \in DOMAIN nodes : nodes[i].param # None => nodes'[i] = nodes[i]]_lazyVars
  BY ParametersStay
<1>4. QED BY <1>1, <1>2, <1>3, PTL DEF LazySpec, CutOnce

-----------------------------------------------------------------------------
\* Structured loops.

USE DEF Carry, Val

\* A nonempty set of carry positions has a last one.
LEMMA LastPosition ==
    ASSUME NEW n \in Nat, NEW S \in SUBSET (1 .. n), S # {}
    PROVE \E k \in S : \A j \in S : j <= k
<1> DEFINE T == {n - k : k \in S}
<1>1. T \in SUBSET Nat /\ T # {}
    <2>1. \A k \in S : k \in Int /\ k <= n
        OBVIOUS
    <2>2. \A k \in S : n - k \in Nat
        BY <2>1
    <2>3. \E k \in S : n - k \in T
        OBVIOUS
    <2> QED BY <2>2, <2>3
<1>2. PICK x \in T : \A y \in T : x <= y
    <2> HIDE DEF T
    <2> QED BY <1>1, LeastNumber
<1>3. PICK k \in S : x = n - k
    OBVIOUS
<1>4. ASSUME NEW j \in S PROVE j <= k
    <2>1. n - k <= n - j
        BY <1>2, <1>3
    <2> QED BY <2>1
<1> QED BY <1>3, <1>4

\* A sequence is defined on its positions.
LEMMA SeqDomain ==
    ASSUME NEW S, NEW s \in Seq(S)
    PROVE DOMAIN s = 1 .. Len(s)
OBVIOUS

\* The operands of a closure are operands.
LEMMA OperandsTyped ==
    ASSUME TypeOK
    PROVE Operands \subseteq Operand
BY WhileAssumption DEF TypeOK, Operands, Operand, Values

\* The SSA value behind an operand a closure can name is a value of the graph.
LEMMA SsaTyped ==
    ASSUME TypeOK, phase \in {"condition", "body"}, NEW o \in Operands
    PROVE Ssa(o) \in Nat
<1>1. o \in Operand
    BY OperandsTyped
<1>2. CASE o.at = "value"
    BY <1>1, <1>2 DEF Ssa, Operand
<1>3. CASE o.at = "carry"
    <2>1. o.id \in 1 .. Arity
        BY <1>3 DEF Operands
    <2>2. initial \in [1 .. Arity -> 1 .. Outer]
        BY DEF TypeOK
    <2>3. initial[o.id] \in Nat
        BY <2>1, <2>2, WhileAssumption
    <2> QED BY <1>3, <2>3 DEF Ssa
<1> QED BY <1>1, <1>2, <1>3 DEF Operand

\* Of the carries that start from value i the rewriting takes one.
LEMMA RemapCases ==
    ASSUME TypeOK, phase # "start", NEW i \in Nat
    PROVE \/ i \notin Initials /\ Remap(i) = Val(i)
          \/ \E k \in 1 .. Arity : initial[k] = i /\ Remap(i) = Carry(k)
<1> DEFINE same == {k \in DOMAIN initial : initial[k] = i}
<1>1. DOMAIN initial = 1 .. Arity
    BY DEF TypeOK
<1>2. CASE same = {}
    BY <1>2 DEF Remap, Initials
<1>3. CASE same # {}
  <2>1. \E k \in same : \A j \in same : j <= k
    <3>1. same \in SUBSET (1 .. Arity) /\ Arity \in Nat
        BY <1>1, WhileAssumption
    <3> HIDE DEF same
    <3> QED BY <1>3, <3>1, LastPosition
  <2>2. PICK k \in same : k = CHOOSE l \in same : \A j \in same : j <= l
    BY <2>1
  <2>3. Remap(i) = Carry(k)
    BY <1>3, <2>2 DEF Remap
  <2> QED BY <2>2, <2>3, <1>1
<1> QED BY <1>2, <1>3

\* The rewriting yields operands.
LEMMA RemapTyped ==
    ASSUME TypeOK, phase # "start", NEW i \in Nat
    PROVE Remap(i) \in Operand
BY RemapCases, WhileAssumption DEF Operand

-----------------------------------------------------------------------------
\* Type correctness.

\* Initially nothing is traced.
LEMMA TypeInit == Init => TypeOK
<1> SUFFICES ASSUME Init PROVE TypeOK
    OBVIOUS
<1>1. Held = Nat
    BY DEF Init, Held, Built
<1>2. Outer \in Nat /\ MaxIterations \in Nat
    BY WhileAssumption
<1>3. args \in Seq(Seq(Nat)) /\ Len(args) = Outer
    <2>1. <<>> \in Seq(Nat)
        OBVIOUS
    <2> QED BY <1>2, <2>1 DEF Init
<1>4. meant \in Seq(Seq(Operand)) /\ Len(meant) = Outer
    <2>1. <<>> \in Seq(Operand)
        OBVIOUS
    <2> QED BY <1>2, <2>1 DEF Init
<1>5. /\ ops \in Seq({"outer", "parameter", "add", "less"}) /\ Len(ops) = Outer
      /\ region \in Seq({"root", "condition", "body"}) /\ Len(region) = Outer
    BY <1>2 DEF Init
<1>6. /\ predicate \in [args : Seq(Nat), meant : Seq(Operand)]
      /\ next \in [args : Seq(Nat), meant : Seq(Operand)]
      /\ marks \in Seq(Nat) /\ Len(marks) = 0
    BY DEF Init
<1> QED BY <1>1, <1>2, <1>3, <1>4, <1>5, <1>6 DEF Init, TypeOK

\* Each action keeps the types.
LEMMA TypeBegin ==
    ASSUME TypeOK, NEW values \in [1 .. Arity -> 1 .. Outer], BeginWhile(values)
    PROVE TypeOK'
BY WhileAssumption DEF TypeOK, BeginWhile, Held, Built

\* An operation is appended with the SSA values of its operands.
LEMMA TypeAppend ==
    ASSUME TypeOK, NEW op \in {"add", "less", "parameter"},
           NEW os \in Seq(Operands), AppendOp(op, os)
    PROVE TypeOK'
<1>1. SsaAll(os) \in Seq(Nat) /\ os \in Seq(Operand)
    BY SsaTyped, OperandsTyped DEF AppendOp, SsaAll
<1>2. Held = Nat /\ Held' = Nat
    BY DEF AppendOp, Held, Built
<1>3. args' \in Seq(Seq(Nat)) /\ meant' \in Seq(Seq(Operand))
    BY <1>1, <1>2 DEF TypeOK, AppendOp
<1> QED BY <1>1, <1>2, <1>3 DEF TypeOK, AppendOp

\* Closing the condition region records one predicate.
LEMMA TypeEndCondition ==
    ASSUME TypeOK, NEW o \in Operands, EndCondition(o)
    PROVE TypeOK'
<1>1. Ssa(o) \in Nat /\ o \in Operand
    BY SsaTyped, OperandsTyped DEF EndCondition
<1>2. Held = Nat /\ Held' = Nat
    BY DEF EndCondition, Held, Built
<1>3. marks' \in Seq(Nat) /\ Len(marks') = 2
    <2>1. marks \in Seq(Nat) /\ Len(marks) = 1 /\ Len(ops) \in Nat
        BY DEF TypeOK, EndCondition
    <2>2. marks' = Append(marks, Len(ops))
        BY DEF EndCondition
    <2>3. \A m \in Seq(Nat), n \in Nat :
             Len(m) = 1 => Append(m, n) \in Seq(Nat) /\ Len(Append(m, n)) = 2
        OBVIOUS
    <2> QED BY <2>1, <2>2, <2>3
<1> QED BY <1>1, <1>2, <1>3 DEF TypeOK, EndCondition

\* Closing the body region remaps every argument to an operand.
LEMMA TypeEndBody ==
    ASSUME TypeOK, NEW os \in [1 .. Arity -> Operands], EndBody(os)
    PROVE TypeOK'
<1>1. phase = "body" /\ Held = Nat /\ Held' = Operand
    BY DEF EndBody, Held, Built
<1>2. os \in Seq(Operand) /\ SsaAll(os) \in Seq(Nat)
    <2>1. \A j \in 1 .. Arity : os[j] \in Operand /\ Ssa(os[j]) \in Nat
        BY <1>1, SsaTyped, OperandsTyped
    <2> QED BY <2>1, WhileAssumption DEF SsaAll
<1>3. ASSUME NEW is \in Seq(Nat) PROVE RemapAll(is) \in Seq(Operand)
    <2>1. \A j \in 1 .. Len(is) : Remap(is[j]) \in Operand
        BY <1>1, RemapTyped
    <2> QED BY <2>1 DEF RemapAll
<1>4. args' \in Seq(Seq(Operand)) /\ Len(args') = Len(ops')
    <2>1. \A i \in Values : RemapAll(args[i]) \in Seq(Operand)
        <3>1. args \in Seq(Seq(Nat)) /\ Values = 1 .. Len(args)
            BY <1>1 DEF TypeOK, Values
        <3>2. \A i \in Values : args[i] \in Seq(Nat)
            BY <3>1
        <3> QED BY <1>3, <3>2
    <2> QED BY <2>1 DEF EndBody, Values, TypeOK
<1>5. region' \in Seq({"root", "condition", "body"}) /\ Len(region') = Len(ops')
    BY DEF EndBody, Values, RegionOf, TypeOK
<1>6. predicate' \in [args : Seq(Operand), meant : Seq(Operand)]
    BY <1>1, <1>3 DEF EndBody, TypeOK, RemapYield
<1>7. next' \in [args : Seq(Operand), meant : Seq(Operand)]
    BY <1>2, <1>3 DEF EndBody, RemapYield
<1> QED BY <1>1, <1>4, <1>5, <1>6, <1>7 DEF TypeOK, EndBody

\* An iteration of the loop keeps the carries and the reference typed.
LEMMA TypeIterate ==
    ASSUME TypeOK, Iterate
    PROVE TypeOK'
<1>1. iterations' \in 0 .. MaxIterations
    BY WhileAssumption DEF TypeOK, Iterate
<1>2. phase = "running" /\ phase' \in {"running", "done"} /\ Held = Operand /\ Held' = Operand
    BY DEF Iterate, Held, Built
<1> QED BY <1>1, <1>2 DEF TypeOK, Iterate, traced

\* A step of the specification keeps the types.
LEMMA TypeNext == TypeOK /\ [Next]_vars => TypeOK'
<1> SUFFICES ASSUME TypeOK, [Next]_vars PROVE TypeOK'
    OBVIOUS
<1>1. ASSUME NEW values \in [1 .. Arity -> 1 .. Outer], BeginWhile(values) PROVE TypeOK'
    BY <1>1, TypeBegin
<1>2. ASSUME NEW op \in {"add", "less"}, NEW a \in Operands, NEW b \in Operands,
             AppendOp(op, <<a, b>>)
      PROVE TypeOK'
    <2>1. <<a, b>> \in Seq(Operands)
        OBVIOUS
    <2> QED BY <1>2, <2>1, TypeAppend
<1>3. CASE AppendOp("parameter", <<>>)
    <2>1. <<>> \in Seq(Operands)
        OBVIOUS
    <2> QED BY <1>3, <2>1, TypeAppend
<1>4. ASSUME NEW o \in Operands, EndCondition(o) PROVE TypeOK'
    BY <1>4, TypeEndCondition
<1>5. ASSUME NEW os \in [1 .. Arity -> Operands], EndBody(os) PROVE TypeOK'
    BY <1>5, TypeEndBody
<1>6. CASE Iterate
    BY <1>6, TypeIterate
<1>7. CASE UNCHANGED vars
    BY <1>7 DEF vars, traced, TypeOK, Held, Built
<1> QED BY <1>1, <1>2, <1>3, <1>4, <1>5, <1>6, <1>7 DEF Next, Ended

\* Every variable of the loop builder keeps its type.
THEOREM TypeAlways == Spec => []TypeOK
BY TypeInit, TypeNext, PTL DEF Spec

-----------------------------------------------------------------------------
\* The rewriting recovers what the closures meant, when every carry starts from
\* a value of its own.

Means(o) == \/ o.at = "carry" /\ o.id \in 1 .. Arity
            \/ o.at = "value" /\ o.id \notin Initials
Traced(as, os) ==
    /\ Len(as) = Len(os)
    /\ \A j \in 1 .. Len(os) : as[j] = Ssa(os[j]) /\ Means(os[j])

\* The inductive invariant: before append_while the graph holds the SSA values
\* behind the operands that were meant, after it the operands themselves.
Faithful ==
    /\ phase = "start" => \A i \in Values : args[i] = <<>> /\ meant[i] = <<>>
    /\ phase \in {"condition", "body"} => \A i \in Values : Traced(args[i], meant[i])
    /\ phase = "body" => Traced(predicate.args, predicate.meant)
    /\ phase # "start" => Distinct(initial)
    /\ Built => /\ args = meant
                /\ predicate.args = predicate.meant
                /\ next.args = next.meant
                /\ carry = wanted

\* An operand is recovered from the SSA value behind it.
LEMMA RemapSsa ==
    ASSUME TypeOK, phase # "start", Distinct(initial), NEW o \in Operand, Means(o)
    PROVE Remap(Ssa(o)) = o
<1>0. initial \in [1 .. Arity -> 1 .. Outer]
    BY DEF TypeOK
<1>1. CASE o.at = "value"
    <2>1. Ssa(o) = o.id /\ o.id \in Nat /\ o.id \notin Initials
        BY <1>1 DEF Ssa, Operand, Means
    <2>2. Remap(o.id) = Val(o.id)
        BY <1>0, <2>1, RemapCases DEF Initials
    <2> QED BY <1>1, <2>1, <2>2 DEF Operand
<1>2. CASE o.at = "carry"
    <2>1. o.id \in 1 .. Arity /\ Ssa(o) = initial[o.id]
        BY <1>2 DEF Ssa, Means
    <2>2. initial[o.id] \in Nat /\ initial[o.id] \in Initials
        BY <1>0, <2>1, WhileAssumption DEF Initials
    <2>3. PICK k \in 1 .. Arity : initial[k] = initial[o.id] /\ Remap(initial[o.id]) = Carry(k)
        BY <2>2, RemapCases
    <2>4. k = o.id
        BY <1>0, <2>1, <2>3 DEF Distinct
    <2> QED BY <1>2, <2>1, <2>3, <2>4 DEF Operand
<1> QED BY <1>1, <1>2 DEF Operand

\* And so is a list of operands.
LEMMA RemapTraced ==
    ASSUME TypeOK, phase # "start", Distinct(initial),
           NEW as \in Seq(Nat), NEW os \in Seq(Operand), Traced(as, os)
    PROVE RemapAll(as) = os
<1>1. \A j \in 1 .. Len(os) : Remap(as[j]) = os[j]
    <2> TAKE j \in 1 .. Len(os)
    <2>1. os[j] \in Operand
        OBVIOUS
    <2>2. as[j] = Ssa(os[j]) /\ Means(os[j])
        BY DEF Traced
    <2> QED BY <2>1, <2>2, RemapSsa
<1>2. DOMAIN as = 1 .. Len(os) /\ DOMAIN os = 1 .. Len(os)
    <2>1. DOMAIN as = 1 .. Len(as) /\ DOMAIN os = 1 .. Len(os)
        BY SeqDomain
    <2> QED BY <2>1 DEF Traced
<1>3. RemapAll(as) = [j \in 1 .. Len(os) |-> os[j]]
    BY <1>1, <1>2 DEF RemapAll
<1> QED BY <1>2, <1>3

\* What a closure names is an operand with a meaning, and passing it on records
\* the SSA value behind it.
LEMMA OperandsMean ==
    ASSUME TypeOK, NEW o \in Operands
    PROVE Means(o)
BY DEF Operands, Means

\* What the builder records for operands of the current region is traced for
\* them.
LEMMA SsaAllTraced ==
    ASSUME TypeOK, NEW os \in Seq(Operands)
    PROVE Traced(SsaAll(os), os)
<1>1. DOMAIN os = 1 .. Len(os) /\ Len(os) \in Nat
    OBVIOUS
<1>2. Len(SsaAll(os)) = Len(os)
    BY <1>1 DEF SsaAll
<1>3. \A j \in 1 .. Len(os) : SsaAll(os)[j] = Ssa(os[j]) /\ Means(os[j])
    BY <1>1, OperandsMean DEF SsaAll
<1> QED BY <1>2, <1>3 DEF Traced

\* Initially nothing is traced.
LEMMA FaithfulInit == Init => Faithful
BY DEF Init, Faithful, Built, Values

\* Each action keeps the invariant.
LEMMA FaithfulBegin ==
    ASSUME TypeOK, Faithful, ~SharedInitial,
           NEW values \in [1 .. Arity -> 1 .. Outer], BeginWhile(values)
    PROVE Faithful'
<1>1. \A i \in Values : args[i] = <<>> /\ meant[i] = <<>>
    BY DEF Faithful, BeginWhile
<1>2. (\A i \in Values : Traced(args[i], meant[i]))'
    BY <1>1 DEF BeginWhile, Traced, Values
<1>3. Distinct(initial)' /\ phase' = "condition"
    BY DEF BeginWhile, Distinct
<1> QED BY <1>2, <1>3 DEF Faithful, Built

\* An appended operation records what its operands mean.
LEMMA FaithfulAppend ==
    ASSUME TypeOK, Faithful, NEW op \in {"add", "less", "parameter"},
           NEW os \in Seq(Operands), AppendOp(op, os)
    PROVE Faithful'
<1>1. phase \in {"condition", "body"} /\ phase' = phase /\ initial' = initial
    BY DEF AppendOp
<1>2. \A as, bs : Traced(as, bs)' = Traced(as, bs)
    BY <1>1 DEF Traced, Ssa, Means, Initials
<1>3. Traced(SsaAll(os), os)
    BY SsaAllTraced
<1>4. (\A i \in Values : Traced(args[i], meant[i]))'
  <2> SUFFICES ASSUME NEW i \in Values' PROVE Traced(args'[i], meant'[i])
    BY <1>1 DEF Traced, Ssa, Means, Initials
  <2>1. CASE i \in Values
    <3>1. args'[i] = args[i] /\ meant'[i] = meant[i]
        BY <2>1 DEF AppendOp, TypeOK, Values
    <3> QED BY <1>1, <2>1, <3>1 DEF Faithful
  <2>2. CASE i = Len(ops) + 1
    <3>1. args'[i] = SsaAll(os) /\ meant'[i] = os
        BY <2>2 DEF AppendOp, TypeOK
    <3> QED BY <1>3, <3>1
  <2> QED BY <2>1, <2>2 DEF AppendOp, TypeOK, Values
<1>5. UNCHANGED predicate
    BY DEF AppendOp
<1>6. (phase = "body" => Traced(predicate.args, predicate.meant))'
    BY <1>1, <1>5 DEF Faithful, Traced, Ssa, Means, Initials
<1> QED BY <1>1, <1>4, <1>6 DEF Faithful, Built, Distinct

\* The predicate's operand is recorded in the condition region.
LEMMA FaithfulEndCondition ==
    ASSUME TypeOK, Faithful, NEW o \in Operands, EndCondition(o)
    PROVE Faithful'
<1>1. /\ phase = "condition" /\ phase' = "body"
      /\ UNCHANGED <<ops, args, meant, initial>>
      /\ predicate' = [args |-> <<Ssa(o)>>, meant |-> <<o>>]
    BY DEF EndCondition
<1>2. (\A i \in Values : Traced(args[i], meant[i]))'
    BY <1>1 DEF Faithful, Traced, Ssa, Means, Initials, Values
<1>3. Traced(predicate.args, predicate.meant)'
    BY <1>1, OperandsMean DEF Traced, Ssa, Means, Initials
<1> QED BY <1>1, <1>2, <1>3 DEF Faithful, Built, Distinct

\* The remapped graph is the graph the closures meant.
LEMMA FaithfulEndBody ==
    ASSUME TypeOK, Faithful, NEW os \in [1 .. Arity -> Operands], EndBody(os)
    PROVE Faithful'
<1>1. phase = "body" /\ phase' = "running" /\ UNCHANGED <<initial, meant, ops>>
    BY DEF EndBody
<1>2. Distinct(initial) /\ Held = Nat
    BY <1>1 DEF Faithful, Held, Built
<1>3. args' = meant'
  <2>1. \A i \in Values : args[i] \in Seq(Nat) /\ meant[i] \in Seq(Operand)
    <3>1. args \in Seq(Seq(Nat)) /\ meant \in Seq(Seq(Operand))
        BY <1>2 DEF TypeOK
    <3>2. Values = 1 .. Len(args) /\ Values = 1 .. Len(meant)
        BY DEF TypeOK, Values
    <3>3. \A i \in 1 .. Len(args) : args[i] \in Seq(Nat)
        BY <3>1
    <3>4. \A i \in 1 .. Len(meant) : meant[i] \in Seq(Operand)
        BY <3>1
    <3> QED BY <3>2, <3>3, <3>4
  <2>2. \A i \in Values : RemapAll(args[i]) = meant[i]
    BY <1>1, <1>2, <2>1, RemapTraced DEF Faithful
  <2>3. args' = [i \in Values |-> meant[i]]
    BY <2>2 DEF EndBody
  <2>4. meant = [i \in Values |-> meant[i]]
    BY DEF TypeOK, Values
  <2> QED BY <1>1, <2>3, <2>4
<1>4. predicate'.args = predicate'.meant
  <2>1. predicate.args \in Seq(Nat) /\ predicate.meant \in Seq(Operand)
    BY <1>2 DEF TypeOK
  <2>2. RemapYield(predicate.args) = predicate.meant
    BY <1>1, <1>2, <2>1, RemapTraced DEF Faithful, RemapYield
  <2> QED BY <2>2 DEF EndBody, TypeOK
<1>5. next'.args = next'.meant
  <2>1. os \in Seq(Operands) /\ os \in Seq(Operand)
    BY OperandsTyped, WhileAssumption
  <2>2. SsaAll(os) \in Seq(Nat)
    <3>1. \A j \in 1 .. Arity : Ssa(os[j]) \in Nat
        BY <1>1, SsaTyped
    <3> QED BY <3>1, WhileAssumption DEF SsaAll
  <2>3. RemapYield(SsaAll(os)) = os
    BY <1>1, <1>2, <2>1, <2>2, SsaAllTraced, RemapTraced DEF RemapYield
  <2> QED BY <2>3 DEF EndBody
<1>6. carry' = wanted'
    BY DEF EndBody
<1>7. Distinct(initial)'
    BY <1>1, <1>2 DEF Distinct
<1> QED BY <1>1, <1>3, <1>4, <1>5, <1>6, <1>7 DEF Faithful, Built

\* The rebuilt region and the closures compute the same carries.
LEMMA FaithfulIterate ==
    ASSUME TypeOK, Faithful, Iterate
    PROVE Faithful'
<1>1. /\ phase = "running" /\ phase' \in {"running", "done"}
      /\ UNCHANGED <<ops, args, meant, initial, predicate, next>>
    BY DEF Iterate, traced
<1>2. /\ args = meant /\ predicate.args = predicate.meant
      /\ next.args = next.meant /\ carry = wanted
    BY <1>1 DEF Faithful, Built
<1>3. Evaluate(predicate.args[1], args, carry) = Evaluate(predicate.meant[1], meant, wanted)
    BY <1>2
<1>4. [k \in 1 .. Arity |-> Evaluate(next.args[k], args, carry)]
        = [k \in 1 .. Arity |-> Evaluate(next.meant[k], meant, wanted)]
    BY <1>2
<1>5. carry' = wanted'
  <2>1. CASE Evaluate(predicate.args[1], args, carry) # 0
    <3>1. carry' = [k \in 1 .. Arity |-> Evaluate(next.args[k], args, carry)]
        BY <2>1 DEF Iterate
    <3>2. wanted' = [k \in 1 .. Arity |-> Evaluate(next.meant[k], meant, wanted)]
        BY <1>3, <2>1 DEF Iterate
    <3> QED BY <1>4, <3>1, <3>2
  <2>2. CASE Evaluate(predicate.args[1], args, carry) = 0
    <3>1. carry' = carry
        BY <2>2 DEF Iterate
    <3>2. wanted' = wanted
        BY <1>3, <2>2 DEF Iterate
    <3> QED BY <1>2, <3>1, <3>2
  <2> QED BY <2>1, <2>2
<1> QED BY <1>1, <1>2, <1>5 DEF Faithful, Built, Distinct

\* A step keeps the invariant.
LEMMA FaithfulNext ==
    ASSUME ~SharedInitial
    PROVE TypeOK /\ Faithful /\ [Next]_vars => Faithful'
<1> SUFFICES ASSUME TypeOK, Faithful, [Next]_vars PROVE Faithful'
    OBVIOUS
<1>1. ASSUME NEW values \in [1 .. Arity -> 1 .. Outer], BeginWhile(values) PROVE Faithful'
    BY <1>1, FaithfulBegin
<1>2. ASSUME NEW op \in {"add", "less"}, NEW a \in Operands, NEW b \in Operands,
             AppendOp(op, <<a, b>>)
      PROVE Faithful'
    <2>1. <<a, b>> \in Seq(Operands)
        OBVIOUS
    <2> QED BY <1>2, <2>1, FaithfulAppend
<1>3. CASE AppendOp("parameter", <<>>)
    <2>1. <<>> \in Seq(Operands)
        OBVIOUS
    <2> QED BY <1>3, <2>1, FaithfulAppend
<1>4. ASSUME NEW o \in Operands, EndCondition(o) PROVE Faithful'
    BY <1>4, FaithfulEndCondition
<1>5. ASSUME NEW os \in [1 .. Arity -> Operands], EndBody(os) PROVE Faithful'
    BY <1>5, FaithfulEndBody
<1>6. CASE Iterate
    BY <1>6, FaithfulIterate
<1>7. CASE UNCHANGED vars
    BY <1>7 DEF vars, traced, Faithful, Built, Values, Traced, Ssa, Means, Initials, Distinct
<1> QED BY <1>1, <1>2, <1>3, <1>4, <1>5, <1>6, <1>7 DEF Next, Ended

\* Tensor::while_loop: when no two carries start from one SSA value, the
\* compiled loop computes, iteration by iteration, what the closures describe,
\* for every arity, every pair of closures and every number of iterations.
THEOREM LoopExact ==
    ASSUME ~SharedInitial
    PROVE Spec => []LoopIsReference
<1>1. Init => TypeOK /\ Faithful
    BY TypeInit, FaithfulInit
<1>2. TypeOK /\ Faithful /\ [Next]_vars => TypeOK' /\ Faithful'
    BY TypeNext, FaithfulNext
<1>3. Faithful => LoopIsReference
    BY DEF Faithful, LoopIsReference
<1> QED BY <1>1, <1>2, <1>3, PTL DEF Spec

-----------------------------------------------------------------------------
\* Regions after the rewriting.

\* A value x that an operation may use without reaching into the other closure:
\* given the markers m and what kind each value is.
Near(x, inBody, m, kinds) ==
    \/ x <= m[1] \/ kinds[x] = "parameter"
    \/ IF inBody THEN x > m[2] ELSE x <= m[2]

\* The inductive invariant: a closure's operands were all made by it, before the
\* loop, or as parameters, which stay in the root region.
CaptureInv ==
    /\ phase = "start" => Len(ops) = Outer
    /\ phase \in {"condition", "body"} =>
          /\ marks[1] \in Outer .. Len(ops)
          /\ \A i \in Values : ops[i] = "outer" => i <= Outer
          /\ \A i \in Values : i > marks[1] =>
                \A j \in DOMAIN args[i] : args[i][j] \in Values
    /\ phase = "body" =>
          /\ marks[2] \in marks[1] .. Len(ops)
          /\ \A i \in Values : i > marks[1] =>
                \A j \in DOMAIN args[i] : Near(args[i][j], i > marks[2], marks, ops)
          /\ DOMAIN predicate.args = {1}
          /\ predicate.args[1] \in Values /\ predicate.args[1] <= marks[2]
    /\ CapturesDominate

\* What stands behind an operand of a closure.
LEMMA OperandNear ==
    ASSUME TypeOK, CaptureInv, phase \in {"condition", "body"}, NEW o \in Operands
    PROVE  /\ Ssa(o) \in Values
           /\ phase = "body" => Near(Ssa(o), TRUE, marks, ops)
<1>1. /\ marks[1] \in Nat /\ Outer <= marks[1] /\ Len(ops) \in Nat /\ Outer <= Len(ops)
      /\ Values = 1 .. Len(ops) /\ Outer \in Nat
  <2>1. Len(ops) \in Nat /\ Values = 1 .. Len(ops) /\ Outer \in Nat
    BY WhileAssumption DEF TypeOK, Values
  <2>2. marks[1] \in Outer .. Len(ops)
    BY DEF CaptureInv
  <2>3. QED BY <2>1, <2>2
<1>2. CASE o \in {Carry(k) : k \in 1 .. Arity}
  <2>1. PICK k \in 1 .. Arity : o = Carry(k)
    BY <1>2
  <2>2. initial[k] \in 1 .. Outer
    BY DEF TypeOK
  <2>3. Ssa(o) = initial[k]
    BY <2>1 DEF Ssa, Carry
  <2>4. QED BY <1>1, <2>2, <2>3 DEF Near
<1>3. CASE o \notin {Carry(k) : k \in 1 .. Arity}
  <2>1. PICK j \in Values : o = Val(j) /\ (Own(j) \/ ops[j] = "parameter" \/ ops[j] = "outer")
    BY <1>3 DEF Operands
  <2>2. Ssa(o) = j
    BY <2>1 DEF Ssa, Val
  <2>3. CASE Own(j)
    <3>1. phase = "body" => Len(marks) = 2
      BY DEF TypeOK
    <3>2. phase = "body" => j > marks[2]
      BY <2>3, <3>1 DEF Own
    <3>3. QED BY <2>2, <3>2 DEF Near
  <2>4. CASE ops[j] = "parameter"
    BY <2>2, <2>4 DEF Near
  <2>5. CASE ops[j] = "outer"
    <3>1. j <= Outer /\ j \in Int
      BY <1>1, <2>5 DEF CaptureInv
    <3>2. QED BY <1>1, <2>2, <3>1 DEF Near
  <2>6. QED BY <2>1, <2>3, <2>4, <2>5
<1>4. QED BY <1>2, <1>3

\* Before the loop there are outer values only.
LEMMA CaptureInit == Init => CaptureInv
<1> SUFFICES ASSUME Init PROVE CaptureInv
  OBVIOUS
<1>1. Outer \in Nat
  BY WhileAssumption
<1>2. phase = "start" /\ Len(ops) = Outer
  BY <1>1 DEF Init
<1>3. QED BY <1>2 DEF CaptureInv, CapturesDominate, Built

\* A loop begins after the values that exist.
LEMMA CaptureBegin ==
    ASSUME TypeOK, CaptureInv, NEW values \in [1 .. Arity -> 1 .. Outer], BeginWhile(values)
    PROVE  CaptureInv'
<1>1. /\ phase = "start" /\ phase' = "condition" /\ marks' = <<Len(ops)>>
      /\ ops' = ops /\ args' = args
  BY DEF BeginWhile
<1>2. Len(ops) = Outer /\ Len(ops) \in Nat /\ Values = 1 .. Len(ops) /\ Values' = Values
  BY <1>1 DEF CaptureInv, TypeOK, Values
<1>3. marks'[1] = Outer
  BY <1>1, <1>2
<1>4. QED BY <1>1, <1>2, <1>3 DEF CaptureInv, CapturesDominate, Built

\* An operation uses what is near.
LEMMA CaptureAppend ==
    ASSUME TypeOK, CaptureInv, NEW op \in {"add", "less", "parameter"},
           NEW os \in Seq(Operands), AppendOp(op, os)
    PROVE  CaptureInv'
<1> DEFINE n == Len(ops)
<1>1. /\ phase \in {"condition", "body"} /\ phase' = phase /\ marks' = marks
      /\ ops' = Append(ops, op) /\ args' = Append(args, SsaAll(os)) /\ predicate' = predicate
  BY DEF AppendOp
<1>2. /\ n \in Nat /\ ops \in Seq({"outer", "parameter", "add", "less"})
      /\ args \in Seq(Seq(Nat)) /\ Len(args) = n /\ Values = 1 .. n
  <2>1. /\ ops \in Seq({"outer", "parameter", "add", "less"})
        /\ args \in Seq(Seq(Nat)) /\ Len(args) = Len(ops)
    BY <1>1 DEF TypeOK, Held, Built
  <2>2. n \in Nat
    BY <2>1
  <2>3. Values = 1 .. n
    BY DEF Values
  <2>4. QED BY <2>1, <2>2, <2>3
<1>3. SsaAll(os) \in Seq(Nat) /\ DOMAIN SsaAll(os) = DOMAIN os
  BY <1>1, SsaTyped DEF SsaAll
<1>4. /\ Len(ops') = n + 1 /\ Values' = 1 .. n + 1
      /\ \A i \in 1 .. n : ops'[i] = ops[i] /\ args'[i] = args[i]
      /\ ops'[n + 1] = op /\ args'[n + 1] = SsaAll(os)
  BY <1>1, <1>2, <1>3 DEF Values
<1>5. marks[1] \in Nat /\ Outer \in Nat /\ Outer <= marks[1] /\ marks[1] <= n
  <2>1. marks[1] \in Outer .. n /\ Outer \in Nat
    BY <1>1, WhileAssumption DEF CaptureInv
  <2>2. QED BY <2>1
<1>6. phase = "body" => marks[2] \in Nat /\ marks[1] <= marks[2] /\ marks[2] <= n
  <2>1. phase = "body" => marks[2] \in marks[1] .. n
    BY DEF CaptureInv
  <2>2. QED BY <1>5, <2>1
<1>7. ASSUME NEW j \in DOMAIN SsaAll(os)
      PROVE  /\ SsaAll(os)[j] \in Values
             /\ phase = "body" => Near(SsaAll(os)[j], TRUE, marks, ops)
  <2>1. os[j] \in Operands /\ SsaAll(os)[j] = Ssa(os[j])
    BY <1>3 DEF SsaAll
  <2>2. QED BY <1>1, <2>1, OperandNear
<1>8. ASSUME NEW i \in Values', i > marks'[1], NEW j \in DOMAIN args'[i]
      PROVE  /\ args'[i][j] \in Values'
             /\ phase = "body" => Near(args'[i][j], i > marks'[2], marks', ops')
  <2>1. ASSUME NEW x \in Values, NEW b \in BOOLEAN, Near(x, b, marks, ops)
        PROVE  Near(x, b, marks', ops')
    BY <1>1, <1>2, <1>4, <2>1 DEF Near
  <2>2. PICK x \in Values : x = args'[i][j] /\ (phase = "body" => Near(x, i > marks[2], marks, ops))
    <3>1. CASE i \in 1 .. n
      BY <1>1, <1>2, <1>4, <1>8, <3>1 DEF CaptureInv
    <3>2. CASE i = n + 1
      <4>1. args'[i] = SsaAll(os)
        BY <1>4, <3>2
      <4>2. args'[i][j] \in Values /\ (phase = "body" => Near(args'[i][j], TRUE, marks, ops))
        BY <1>7, <1>8, <4>1
      <4>3. phase = "body" => (i > marks[2]) = TRUE
        BY <1>2, <1>6, <3>2
      <4>4. QED BY <4>2, <4>3
    <3>3. QED BY <1>2, <1>4, <1>8, <3>1, <3>2
  <2>3. Values \subseteq Values' /\ (i > marks[2]) \in BOOLEAN
    BY <1>2, <1>4
  <2>4. phase = "body" => Near(x, i > marks'[2], marks', ops')
    BY <1>1, <2>1, <2>2, <2>3
  <2>5. QED BY <2>2, <2>3, <2>4
<1>9. \A i \in Values' : ops'[i] = "outer" => i <= Outer
  <2> SUFFICES ASSUME NEW i \in Values', ops'[i] = "outer" PROVE i <= Outer
    OBVIOUS
  <2>1. i \in 1 .. n /\ ops[i] = "outer"
    BY <1>2, <1>4
  <2>2. QED BY <1>1, <1>2, <2>1 DEF CaptureInv
<1>10. (phase = "body" =>
          /\ marks[2] \in marks[1] .. Len(ops)
          /\ DOMAIN predicate.args = {1}
          /\ predicate.args[1] \in Values /\ predicate.args[1] <= marks[2])'
  <2>1. phase = "body" => /\ DOMAIN predicate.args = {1}
                          /\ predicate.args[1] \in Values /\ predicate.args[1] <= marks[2]
    BY DEF CaptureInv
  <2>2. QED BY <1>1, <1>2, <1>4, <1>5, <1>6, <2>1
<1>11. (marks[1] \in Outer .. Len(ops))'
  BY <1>1, <1>2, <1>4, <1>5
<1>12. QED BY <1>1, <1>8, <1>9, <1>10, <1>11 DEF CaptureInv, CapturesDominate, Built

\* The condition's operations used what existed then.
LEMMA CaptureEndCondition ==
    ASSUME TypeOK, CaptureInv, NEW o \in Operands, EndCondition(o)
    PROVE  CaptureInv'
<1>1. /\ phase = "condition" /\ phase' = "body" /\ marks' = Append(marks, Len(ops))
      /\ ops' = ops /\ args' = args /\ predicate' = [args |-> <<Ssa(o)>>, meant |-> <<o>>]
  BY DEF EndCondition
<1>2. marks \in Seq(Nat) /\ Len(marks) = 1 /\ Len(ops) \in Nat /\ Values = 1 .. Len(ops)
      /\ Values' = Values
  BY <1>1 DEF TypeOK, Values
<1>3. marks'[1] = marks[1] /\ marks'[2] = Len(ops)
  <2>1. ASSUME NEW m \in Seq(Nat), NEW n \in Nat, Len(m) = 1
        PROVE  Append(m, n)[1] = m[1] /\ Append(m, n)[2] = n
    <3>1. \A j \in 1 .. Len(m) : Append(m, n)[j] = m[j]
      OBVIOUS
    <3>2. Append(m, n)[Len(m) + 1] = n
      OBVIOUS
    <3>3. 1 \in 1 .. Len(m) /\ Len(m) + 1 = 2
      BY <2>1
    <3>4. QED BY <3>1, <3>2, <3>3
  <2>2. QED BY <1>1, <1>2, <2>1
<1>4. /\ marks[1] \in Outer .. Len(ops)
      /\ \A i \in Values : ops[i] = "outer" => i <= Outer
      /\ \A i \in Values : i > marks[1] =>
            \A j \in DOMAIN args[i] : args[i][j] \in Values
  BY <1>1 DEF CaptureInv
<1>5. marks'[2] \in marks'[1] .. Len(ops)
  BY <1>2, <1>3, <1>4, WhileAssumption
<1>6. ASSUME NEW i \in Values, i > marks[1], NEW j \in DOMAIN args[i]
      PROVE  Near(args[i][j], i > marks'[2], marks', ops)
  <2>1. args[i][j] \in 1 .. Len(ops) /\ i \in 1 .. Len(ops)
    BY <1>2, <1>4, <1>6
  <2>2. args[i][j] <= marks'[2] /\ ~(i > marks'[2])
    BY <1>2, <1>3, <2>1
  <2>3. QED BY <1>1, <2>2 DEF Near
<1>7. Ssa(o) \in Values
  BY <1>1, OperandNear
<1>8. (DOMAIN predicate.args = {1} /\ predicate.args[1] \in Values
        /\ predicate.args[1] <= marks[2])'
  BY <1>1, <1>2, <1>3, <1>7
<1>9. QED BY <1>1, <1>2, <1>3, <1>4, <1>5, <1>6, <1>8 DEF CaptureInv, CapturesDominate, Built

\* The regions are built of what was near.
LEMMA CaptureEndBody ==
    ASSUME TypeOK, CaptureInv, NEW os \in [1 .. Arity -> Operands], EndBody(os)
    PROVE  CaptureInv'
<1>1. /\ phase = "body" /\ phase' = "running" /\ marks' = marks /\ ops' = ops
      /\ region' = [i \in Values |-> RegionOf(i)]
      /\ args' = [i \in Values |-> RemapAll(args[i])]
      /\ predicate' = [predicate EXCEPT !.args = RemapAll(@)]
      /\ next' = [args |-> RemapAll(SsaAll(os)), meant |-> os]
  BY DEF EndBody, RemapYield
<1>2. /\ Values = 1 .. Len(ops) /\ Len(ops) \in Nat /\ Values' = Values
      /\ args \in Seq(Seq(Nat)) /\ Len(args) = Len(ops)
      /\ predicate \in [args : Seq(Nat), meant : Seq(Operand)]
  BY <1>1 DEF TypeOK, Values, Held, Built
<1>3. /\ marks[1] \in Nat /\ marks[2] \in Nat /\ marks[1] <= marks[2]
      /\ \A i \in Values : i > marks[1] =>
            \A j \in DOMAIN args[i] : args[i][j] \in Values /\ Near(args[i][j], i > marks[2], marks, ops)
      /\ DOMAIN predicate.args = {1}
      /\ predicate.args[1] \in Values /\ predicate.args[1] <= marks[2]
  <2>1. marks[1] \in Outer .. Len(ops) /\ marks[2] \in marks[1] .. Len(ops) /\ Outer \in Nat
    BY <1>1, WhileAssumption DEF CaptureInv
  <2>2. marks[1] \in Nat /\ marks[2] \in Nat /\ marks[1] <= marks[2]
    BY <1>2, <2>1
  <2>3. QED BY <1>1, <2>2 DEF CaptureInv
<1>4. ASSUME NEW x \in Values, NEW r \in {"condition", "body"}, Near(x, r = "body", marks, ops)
      PROVE  Remap(x).at = "carry" \/ region'[Remap(x).id] \in {"root", r}
  <2>1. CASE Remap(x) = Val(x)
    <3>1. region'[x] = RegionOf(x)
      BY <1>1
    <3>2. RegionOf(x) \in {"root", r}
      BY <1>2, <1>3, <1>4 DEF RegionOf, Near
    <3>3. Remap(x).id = x
      BY <2>1 DEF Val
    <3>4. QED BY <3>1, <3>2, <3>3
  <2>2. x \in Nat
    BY <1>2
  <2>3. Remap(x) = Val(x) \/ Remap(x).at = "carry"
    <3>1. \A k : Carry(k).at = "carry"
      BY DEF Carry
    <3>2. QED BY <1>1, <2>2, <3>1, RemapCases
  <2>4. QED BY <2>1, <2>3
<1>5. ASSUME NEW i \in Values, region'[i] # "root", NEW j \in DOMAIN args'[i]
      PROVE  Visible(args[i][j], region[i])'
  <2>1. region'[i] = RegionOf(i) /\ args'[i] = RemapAll(args[i])
    BY <1>1
  <2>2. /\ i > marks[1] /\ region'[i] \in {"condition", "body"}
        /\ (region'[i] = "body") = (i > marks[2])
    BY <1>2, <1>3, <1>5, <2>1 DEF RegionOf
  <2>3. j \in DOMAIN args[i] /\ args'[i][j] = Remap(args[i][j])
    BY <2>1 DEF RemapAll
  <2>4. args[i][j] \in Values /\ Near(args[i][j], region'[i] = "body", marks, ops)
    BY <1>3, <2>2, <2>3
  <2>5. \/ Remap(args[i][j]).at = "carry"
        \/ region'[Remap(args[i][j]).id] \in {"root", region'[i]}
    BY <1>4, <2>2, <2>4
  <2>6. QED BY <2>3, <2>5 DEF Visible
<1>6. Visible(predicate.args[1], "condition")'
  <2>1. predicate'.args = RemapAll(predicate.args)
    BY <1>1, <1>2
  <2>2. predicate'.args[1] = Remap(predicate.args[1])
    BY <1>3, <2>1 DEF RemapAll
  <2>3. Near(predicate.args[1], FALSE, marks, ops)
    BY <1>2, <1>3 DEF Near
  <2>4. QED BY <1>3, <1>4, <2>2, <2>3 DEF Visible
<1>7. ASSUME NEW k \in 1 .. Arity PROVE Visible(next.args[k], "body")'
  <2>1. os[k] \in Operands /\ DOMAIN os = 1 .. Arity
    OBVIOUS
  <2>2. next'.args[k] = Remap(Ssa(os[k]))
    BY <1>1, <2>1 DEF RemapAll, SsaAll
  <2>3. Ssa(os[k]) \in Values /\ Near(Ssa(os[k]), TRUE, marks, ops)
    BY <1>1, <2>1, OperandNear
  <2>4. QED BY <1>4, <2>2, <2>3 DEF Visible
<1>8. CapturesDominate'
  BY <1>2, <1>5, <1>6, <1>7 DEF CapturesDominate
<1>9. QED BY <1>1, <1>8 DEF CaptureInv

\* A step keeps the invariant.
LEMMA CaptureNext == TypeOK /\ CaptureInv /\ [Next]_vars => CaptureInv'
<1> SUFFICES ASSUME TypeOK, CaptureInv, [Next]_vars PROVE CaptureInv'
  OBVIOUS
<1>1. ASSUME NEW values \in [1 .. Arity -> 1 .. Outer], BeginWhile(values) PROVE CaptureInv'
  BY <1>1, CaptureBegin
<1>2. ASSUME NEW op \in {"add", "less"}, NEW a \in Operands, NEW b \in Operands,
             AppendOp(op, <<a, b>>)
      PROVE  CaptureInv'
  <2>1. <<a, b>> \in Seq(Operands)
    OBVIOUS
  <2>2. QED BY <1>2, <2>1, CaptureAppend
<1>3. CASE AppendOp("parameter", <<>>)
  <2>1. <<>> \in Seq(Operands)
    OBVIOUS
  <2>2. QED BY <1>3, <2>1, CaptureAppend
<1>4. ASSUME NEW o \in Operands, EndCondition(o) PROVE CaptureInv'
  BY <1>4, CaptureEndCondition
<1>5. ASSUME NEW os \in [1 .. Arity -> Operands], EndBody(os) PROVE CaptureInv'
  BY <1>5, CaptureEndBody
<1>6. CASE Iterate
  <2>1. /\ phase = "running" /\ phase' \in {"running", "done"}
        /\ UNCHANGED <<ops, args, region, predicate, next>>
    BY <1>6 DEF Iterate, traced
  <2>2. QED BY <2>1 DEF CaptureInv, CapturesDominate, Built, Values, Visible
<1>7. CASE UNCHANGED vars
  BY <1>7 DEF vars, traced, CaptureInv, CapturesDominate, Built, Values, Visible, Near
<1>8. QED BY <1>1, <1>2, <1>3, <1>4, <1>5, <1>6, <1>7 DEF Next, Ended

\* Whatever closures build and capture, also with shared initial tensors: no
\* operation or yield of a region refers into the other region.
THEOREM CapturesAlwaysDominate == Spec => []CapturesDominate
<1>1. CaptureInv => CapturesDominate
  BY DEF CaptureInv
<1>2. QED BY <1>1, TypeInit, TypeNext, CaptureInit, CaptureNext, PTL DEF Spec
================================================================================
