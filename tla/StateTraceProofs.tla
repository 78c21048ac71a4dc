---------------------------- MODULE StateTraceProofs ----------------------------
(***************************************************************************)
(* Proofs about StateTrace, for any number of values, slots, parameters    *)
(* and inputs and any sequence of calls.                                   *)
(*                                                                         *)
(* The recorded graph and the reference interpreter are related by a set   *)
(* of nodes that count (GoodNodes): all but those of branches not taken.   *)
(* Each of them stands for the number its operation gives on the numbers   *)
(* of its operands, which count too (Computes); and the current versions   *)
(* are nodes that count and hold what the interpreter has in the slots     *)
(* (GoodState), except while a branch is traced that is not taken.         *)
(*                                                                         *)
(* Declarations and writes only ever append, so what is right stays right; *)
(* Grown says what they have in common, and GrownInv that it keeps the     *)
(* invariant.  Closing a conditional moves nodes into regions and appends  *)
(* the merging nodes (Merging).                                            *)
(*                                                                         *)
(* An execution computes the nodes by recursion.  Operands come before     *)
(* their users, also those used inside regions (RegionRight), so the least *)
(* node that came out wrong would be a good one with right operands        *)
(* (ComputedRight).  Pruning keeps every argument that is reached, and the *)
(* renumbering of the inputs that are not bound finds each by its rank     *)
(* (ArgumentRight).                                                        *)
(***************************************************************************)
EXTENDS MCGraphBuilding, GraphBuildingProofs, Counting

AbiOps == {"input", "stateInput"}
Operations == AbiOps \cup {"mark", "add", "select"}
Recorded ==
    [op : Operations, args : Seq(Nat), region : Nat]
        \cup [op : {"if"}, args : Seq(Nat), region : Nat, then : Nat, else : Nat]
AbiArguments == [kind : {"input", "state"}, index : Nat]

OperandCount(op) ==
    CASE op \in AbiOps \cup {"mark"} -> 1 [] op = "add" -> 2 [] OTHER -> 3

\* A node at place i: operands are earlier nodes, and so are the branches of a
\* conditional.
NodeAt(x, i) ==
    /\ Len(x.args) = OperandCount(x.op)
    /\ x.op \notin AbiOps => \A k \in 1 .. Len(x.args) : x.args[k] \in 1 .. i - 1
    /\ x.op = "if" => x.then \in Nat \ {0} /\ x.else \in Nat /\ x.then <= x.else /\ x.else < i

CondRight ==
    \/ cond = NoCond
    \/ /\ cond.phase \in {"then", "else"}
       /\ cond.thenMarker \in 2 .. Len(ssa)
       /\ cond.initial \in Seq(1 .. cond.thenMarker) /\ Len(cond.initial) <= Len(slots)
       /\ cond.before \in Seq(Int) /\ Len(cond.before) = Len(cond.initial)
       /\ cond.phase = "else" =>
             /\ cond.elseMarker \in cond.thenMarker .. Len(ssa)
             /\ cond.thenOut \in 1 .. cond.elseMarker
             /\ cond.thenVersions \in Seq(1 .. cond.elseMarker)
             /\ Len(cond.thenVersions) = Len(cond.initial)

TraceTypes ==
    /\ ssa \in Seq(Recorded) /\ Len(ssa) >= 2
    /\ \A i \in 1 .. Len(ssa) : NodeAt(ssa[i], i)
    /\ known \in Seq(Int) /\ Len(known) = Len(ssa)
    /\ slots \in Seq(1 .. Len(ssa))
    /\ store \in Seq(Int) /\ Len(store) = Len(slots)
    /\ params \in [DOMAIN params -> 1 .. Len(ssa)]
    /\ arguments \in Seq(AbiArguments) /\ inputCount \in Nat
    /\ {predicateInput, mask} \subseteq {0, 1}
    /\ broken \in BOOLEAN /\ program.compiled \in BOOLEAN /\ ran.done \in BOOLEAN
    /\ broken => cond = NoCond
    /\ CondRight

\* What the caller supplies as an argument of the program.
Supplied(a) == IF a.kind = "state" THEN StateValue(a.index) ELSE InputValue(a.index)

AbiNodes(s) == {i \in DOMAIN s : s[i].op \in AbiOps}
AbiRight ==
    /\ Len(arguments) = Cardinality(AbiNodes(ssa))
    /\ \A i \in AbiNodes(ssa) : /\ ssa[i].args[1] \in 0 .. Len(arguments) - 1
                                /\ known[i] = Supplied(arguments[ssa[i].args[1] + 1])

\* Current versions are values of the code being traced: they lie in no region,
\* and not in the branch that has ended.  The same holds for the snapshot, and
\* for parameters, unless one is declared in a branch as state: then the number
\* of slots has changed, and the conditional is going to fail.
ScopeRight ==
    /\ \A s \in 1 .. Len(slots) : ssa[slots[s]].region = 0
    /\ Converted = {} => \A p \in DOMAIN params : ssa[params[p]].region = 0
    /\ cond.phase \in {"then", "else"} =>
          /\ \A s \in 1 .. Len(cond.initial) : ssa[cond.initial[s]].region = 0
          /\ Converted = {} => \A p \in DOMAIN params :
                \/ params[p] <= cond.thenMarker \/ ssa[params[p]].op \in AbiOps
                \/ Len(slots) > Len(cond.initial)
                   /\ (cond.phase = "else" => params[p] > cond.elseMarker)
    /\ cond.phase = "else" =>
          \A s \in 1 .. Len(slots) : slots[s] <= cond.thenMarker \/ slots[s] > cond.elseMarker

\* The nodes of a conditional's branches come before it.
RegionRight ==
    /\ \A i \in 1 .. Len(ssa) : ssa[i].op = "if" =>
          \A k \in 1 .. Len(ssa) :
             ssa[k].region # 0 /\ ssa[k].region \in {ssa[i].then, ssa[i].else} => k < i
    /\ cond.phase \in {"then", "else"} =>
          \A i \in 1 .. Len(ssa) : ssa[i].op = "if" => i <= cond.thenMarker

\* The number v is what node x computes from the numbers k of its operands, of
\* which those it needs are in the set good.
Computes(x, v, k, good) ==
    \/ x.op \in AbiOps
    \/ x.op = "mark" /\ x.args[1] \in good /\ v = k[x.args[1]]
    \/ x.op = "add" /\ {x.args[1], x.args[2]} \subseteq good /\ v = k[x.args[1]] + k[x.args[2]]
    \/ /\ x.op \in {"select", "if"} /\ x.args[1] \in good
       /\ LET taken == IF k[x.args[1]] # 0 THEN x.args[2] ELSE x.args[3]
          IN  taken \in good /\ v = k[taken]

\* The versions hold these values.
Hold(versions, values, k, good) ==
    \A s \in 1 .. Len(versions) : versions[s] \in good /\ k[versions[s]] = values[s]

\* The set good: all nodes but those of branches not taken.
GoodNodes(good) ==
    /\ good \subseteq 1 .. Len(ssa) /\ AbiNodes(ssa) \subseteq good
    /\ \A p \in DOMAIN params : params[p] \in good
    /\ \A i \in good : Computes(ssa[i], known[i], known, good)
    /\ {1, 2} \subseteq AbiNodes(ssa) /\ known[1] = predicateInput /\ known[2] = mask
GoodState(good) ==
    /\ Live => Hold(slots, store, known, good)
    /\ cond.phase \in {"then", "else"} => Hold(cond.initial, cond.before, known, good)
    /\ cond.phase = "then" /\ predicateInput = 0 /\ Replaceable(cond.initial) => store = cond.before
    /\ cond.phase = "else" /\ predicateInput # 0 =>
          /\ cond.thenOut \in good
          /\ Replaceable(cond.initial) => Hold(cond.thenVersions, store, known, good)
GoodProgram(good) ==
    program.compiled =>
       /\ cond = NoCond /\ ~broken /\ program.out \in good
       /\ \E pruned \in BOOLEAN :
             program.parameters = Parameters({program.out} \cup Range(slots), pruned)
       /\ program.arguments = PlanArguments(program.parameters)

MeaningRight ==
    /\ \E good : GoodNodes(good) /\ GoodProgram(good) /\ (broken \/ GoodState(good))
    /\ ran.done => program.compiled /\ RunIsImperative

TraceInv == TraceTypes /\ AbiRight /\ ScopeRight /\ RegionRight /\ MeaningRight

-----------------------------------------------------------------------------
\* Declarations and writes: the graph grows, and nothing before is changed.

Longer ==
    /\ ssa' \in Seq(Recorded) /\ known' \in Seq(Int) /\ Len(known') = Len(ssa')
    /\ Len(ssa) <= Len(ssa')
    /\ \A i \in 1 .. Len(ssa) : ssa'[i] = ssa[i] /\ known'[i] = known[i]
    /\ \A i \in Len(ssa) + 1 .. Len(ssa') :
          NodeAt(ssa'[i], i) /\ ssa'[i].op # "if" /\ ssa'[i].region = 0

\* At most the first new node is an argument, the next one, and holds what is
\* supplied for it.
Declares ==
    \/ /\ arguments' = arguments
       /\ \A i \in Len(ssa) + 1 .. Len(ssa') : ssa'[i].op \notin AbiOps
    \/ \E a \in AbiArguments :
          /\ arguments' = Append(arguments, a) /\ Len(ssa) + 1 <= Len(ssa')
          /\ ssa'[Len(ssa) + 1].op \in AbiOps
          /\ ssa'[Len(ssa) + 1].args[1] = ParameterCount
          /\ known'[Len(ssa) + 1] = Supplied(a)
          /\ \A i \in Len(ssa) + 2 .. Len(ssa') : ssa'[i].op \notin AbiOps

\* Versions and parameters are the old ones or new nodes.
VersionsMove ==
    /\ slots' \in Seq(1 .. Len(ssa')) /\ store' \in Seq(Int) /\ Len(store') = Len(slots')
    /\ Len(slots) <= Len(slots')
    /\ \A s \in 1 .. Len(slots') : \/ s <= Len(slots) /\ slots'[s] = slots[s]
                                   \/ slots'[s] > Len(ssa)
    /\ ~Live /\ Len(slots') = Len(slots) => store' = store
ParamsMove ==
    /\ params' \in [DOMAIN params' -> 1 .. Len(ssa')]
    /\ \A p \in DOMAIN params' :
          \/ p \in DOMAIN params /\ params'[p] = params[p]
          \/ /\ params'[p] > Len(ssa)
             /\ Converted = {} => ssa'[params'[p]].op \in AbiOps \/ Len(slots') > Len(slots)

\* The set new: new nodes that are right, all that count now among them.
Learns(good, new) ==
    /\ \A i \in new : Computes(ssa'[i], known'[i], known', good \cup new)
    /\ \A i \in Len(ssa) + 1 .. Len(ssa') : ssa'[i].op \in AbiOps => i \in new
    /\ \A p \in DOMAIN params' : params'[p] \in good \cup new
    /\ Live => Hold(slots', store', known', good \cup new)
Taught ==
    \A good : GoodNodes(good) /\ GoodState(good) =>
        \E new \in SUBSET (Len(ssa) + 1 .. Len(ssa')) : Learns(good, new)

Others == <<cond, broken, predicateInput, mask, limit, program, fixed, ran>>
Grown ==
    /\ Calling /\ Longer /\ Declares /\ VersionsMove /\ ParamsMove /\ Taught
    /\ inputCount' \in Nat /\ UNCHANGED Others

\* What is right stays right with more numbers.
LEMMA ComputesKept ==
    ASSUME NEW n, NEW good \in SUBSET (1 .. n), NEW good2, good \subseteq good2,
           NEW k, NEW k2, \A i \in 1 .. n : k2[i] = k[i],
           NEW x, NEW v, Computes(x, v, k, good)
    PROVE  Computes(x, v, k2, good2)
<1>1. \A i \in good : i \in good2 /\ k2[i] = k[i]
  OBVIOUS
<1>2. CASE x.op \in {"select", "if"} /\ x.op \notin AbiOps
  <2> DEFINE taken == IF k[x.args[1]] # 0 THEN x.args[2] ELSE x.args[3]
             taken2 == IF k2[x.args[1]] # 0 THEN x.args[2] ELSE x.args[3]
  <2>1. x.args[1] \in good /\ taken \in good /\ v = k[taken]
    BY <1>2 DEF Computes
  <2>2. taken2 = taken
    BY <1>1, <2>1
  <2> HIDE DEF taken
  <2>3. taken2 \in good2 /\ v = k2[taken2]
    BY <1>1, <2>1, <2>2
  <2>4. QED BY <1>1, <1>2, <2>1, <2>3 DEF Computes
<1>3. CASE x.op = "mark"
  BY <1>1, <1>3 DEF Computes, AbiOps
<1>4. CASE x.op = "add"
  BY <1>1, <1>4 DEF Computes, AbiOps
<1>5. CASE x.op \in AbiOps
  BY <1>5 DEF Computes
<1>6. QED BY <1>2, <1>3, <1>4, <1>5 DEF Computes

\* Versions that hold their values go on to.
LEMMA HoldKept ==
    ASSUME NEW n, NEW good \in SUBSET (1 .. n), NEW good2, good \subseteq good2,
           NEW k, NEW k2, \A i \in 1 .. n : k2[i] = k[i],
           NEW versions, NEW values, Hold(versions, values, k, good)
    PROVE  Hold(versions, values, k2, good2)
BY DEF Hold

\* When the graph grows, every part of the invariant is kept: the types,
LEMMA GrownTypes ==
    ASSUME TraceTypes, Grown
    PROVE  TraceTypes'
<1>1. /\ Longer /\ VersionsMove /\ ParamsMove /\ inputCount' \in Nat /\ UNCHANGED Others
  BY DEF Grown
<1>2. Len(ssa) \in Nat /\ Len(ssa') \in Nat /\ Len(ssa) <= Len(ssa') /\ Len(ssa) >= 2
      /\ Len(slots) \in Nat /\ Len(slots') \in Nat /\ Len(slots) <= Len(slots')
  <2>1. ssa \in Seq(Recorded) /\ ssa' \in Seq(Recorded) /\ slots \in Seq(1 .. Len(ssa))
        /\ slots' \in Seq(1 .. Len(ssa'))
    BY <1>1 DEF Longer, TraceTypes, VersionsMove
  <2>2. QED BY <1>1, <2>1 DEF Longer, TraceTypes, VersionsMove
<1>3. \A i \in 1 .. Len(ssa') : NodeAt(ssa'[i], i)
  <2> SUFFICES ASSUME NEW i \in 1 .. Len(ssa') PROVE NodeAt(ssa'[i], i)
    OBVIOUS
  <2>1. i \in 1 .. Len(ssa) \/ i \in Len(ssa) + 1 .. Len(ssa')
    BY <1>2
  <2>2. CASE i \in 1 .. Len(ssa)
    <3>1. NodeAt(ssa[i], i) /\ ssa'[i] = ssa[i]
      BY <1>1, <2>2 DEF TraceTypes, Longer
    <3>2. QED BY <3>1
  <2>3. QED BY <1>1, <2>1, <2>2 DEF Longer
<1>4. arguments' \in Seq(AbiArguments)
  <2>1. arguments \in Seq(AbiArguments) /\ Declares
    BY DEF TraceTypes, Grown
  <2>2. QED BY <2>1 DEF Declares
<1>5. CondRight'
  <2>1. cond' = cond /\ CondRight
    BY <1>1 DEF Others, TraceTypes
  <2>2. CASE cond = NoCond
    BY <2>1, <2>2 DEF CondRight
  <2>3. CASE cond.phase = "then" /\ cond # NoCond
    BY <1>2, <2>1, <2>3 DEF CondRight
  <2>4. CASE cond.phase = "else" /\ cond # NoCond
    BY <1>2, <2>1, <2>4 DEF CondRight
  <2>5. QED BY <2>1, <2>2, <2>3, <2>4 DEF CondRight
<1>6. /\ {predicateInput', mask'} \subseteq {0, 1}
      /\ broken' \in BOOLEAN /\ program'.compiled \in BOOLEAN /\ ran'.done \in BOOLEAN
      /\ (broken' => cond' = NoCond)
  BY <1>1 DEF TraceTypes, Others
<1>7. /\ ssa' \in Seq(Recorded) /\ Len(ssa') >= 2
      /\ known' \in Seq(Int) /\ Len(known') = Len(ssa')
  BY <1>1, <1>2 DEF Longer
<1>8. /\ slots' \in Seq(1 .. Len(ssa')) /\ store' \in Seq(Int) /\ Len(store') = Len(slots')
      /\ params' \in [DOMAIN params' -> 1 .. Len(ssa')]
  BY <1>1 DEF VersionsMove, ParamsMove
<1>9. QED BY <1>1, <1>3, <1>4, <1>5, <1>6, <1>7, <1>8 DEF TraceTypes

\* What a declared argument is has been said with its declaration.
LEMMA GrownAbi ==
    ASSUME TraceTypes, AbiRight, Grown
    PROVE  AbiRight'
<1> DEFINE n == Len(ssa)
           N == AbiNodes(ssa)
           c == Len(arguments)
<1>1. /\ Longer /\ Declares /\ n \in Nat /\ Len(ssa') \in Nat /\ n <= Len(ssa')
      /\ DOMAIN ssa = 1 .. n /\ DOMAIN ssa' = 1 .. Len(ssa')
      /\ arguments \in Seq(AbiArguments) /\ c \in Nat
  <2>1. ssa \in Seq(Recorded) /\ ssa' \in Seq(Recorded) /\ arguments \in Seq(AbiArguments)
        /\ Longer /\ Declares /\ n <= Len(ssa')
    BY DEF Grown, Longer, TraceTypes
  <2>2. QED BY <2>1
<1>2. /\ N \subseteq 1 .. n /\ IsFiniteSet(N) /\ c = Cardinality(N) /\ ParameterCount = c
      /\ \A i \in 1 .. n : (i \in AbiNodes(ssa') <=> i \in N) /\ ssa'[i] = ssa[i]
                           /\ known'[i] = known[i]
  <2>1. N \subseteq 1 .. n
    BY <1>1 DEF AbiNodes
  <2>2. IsFiniteSet(N)
    <3>1. IsFiniteSet(1 .. n)
      BY <1>1, FS_Interval
    <3> HIDE DEF N, n
    <3>2. QED BY <2>1, <3>1, FS_Subset
  <2>3. c = Cardinality(N) /\ ParameterCount = c
    BY DEF AbiRight, ParameterCount, AbiNodes, IsAbi, AbiOps
  <2>4. \A i \in 1 .. n : ssa'[i] = ssa[i] /\ known'[i] = known[i] /\ i \in 1 .. Len(ssa')
    BY <1>1 DEF Longer
  <2>5. \A i \in 1 .. n : (i \in AbiNodes(ssa') <=> i \in N)
    BY <1>1, <2>4 DEF AbiNodes
  <2>6. QED BY <2>1, <2>2, <2>3, <2>4, <2>5
<1>3. \A i \in N : ssa[i].args[1] \in 0 .. c - 1
                   /\ known[i] = Supplied(arguments[ssa[i].args[1] + 1])
  BY DEF AbiRight
<1> DEFINE Says(i) == /\ ssa'[i].args[1] \in 0 .. Len(arguments') - 1
                      /\ known'[i] = Supplied(arguments'[ssa'[i].args[1] + 1])
<1>0. ASSUME Len(arguments') = Cardinality(AbiNodes(ssa')), \A i \in AbiNodes(ssa') : Says(i)
      PROVE  AbiRight'
  <2>1. predicateInput' = predicateInput /\ mask' = mask
    BY DEF Grown, Others
  <2>2. QED BY <1>0, <2>1 DEF AbiRight, Supplied, InputValue, StateValue
<1> HIDE DEF N, n, c
<1>4. CASE /\ arguments' = arguments
           /\ \A i \in n + 1 .. Len(ssa') : ssa'[i].op \notin AbiOps
  <2>1. AbiNodes(ssa') = N
    <3>1. ASSUME NEW i \in AbiNodes(ssa') PROVE i \in N
      <4>1. i \in 1 .. Len(ssa') /\ ssa'[i].op \in AbiOps
        BY <1>1 DEF AbiNodes
      <4>2. i \in 1 .. n
        BY <1>1, <1>4, <4>1
      <4>3. QED BY <1>2, <4>2
    <3>2. QED BY <1>2, <3>1
  <2>2. Len(arguments') = Cardinality(AbiNodes(ssa'))
    BY <1>2, <1>4, <2>1 DEF c
  <2>3. \A i \in N : ssa'[i] = ssa[i] /\ known'[i] = known[i]
    BY <1>2
  <2>4. \A i \in N : Says(i)
    BY <1>3, <1>4, <2>3 DEF c
  <2> HIDE DEF Says
  <2>5. QED BY <1>0, <2>1, <2>2, <2>4
<1>5. ASSUME NEW a \in AbiArguments, arguments' = Append(arguments, a), n + 1 <= Len(ssa'),
             ssa'[n + 1].op \in AbiOps, ssa'[n + 1].args[1] = ParameterCount,
             known'[n + 1] = Supplied(a),
             \A i \in n + 2 .. Len(ssa') : ssa'[i].op \notin AbiOps
      PROVE  AbiRight'
  <2>1. AbiNodes(ssa') = N \cup {n + 1} /\ n + 1 \notin N
    <3>1. ASSUME NEW i \in AbiNodes(ssa') PROVE i \in N \cup {n + 1}
      <4>1. i \in 1 .. Len(ssa') /\ ssa'[i].op \in AbiOps
        BY <1>1 DEF AbiNodes
      <4>2. i \in 1 .. n \/ i = n + 1
        BY <1>1, <1>5, <4>1
      <4>3. QED BY <1>2, <4>1, <4>2
    <3>2. n + 1 \in AbiNodes(ssa')
      BY <1>1, <1>5 DEF AbiNodes
    <3>3. N \subseteq AbiNodes(ssa') /\ n + 1 \notin N
      BY <1>1, <1>2
    <3>4. QED BY <3>1, <3>2, <3>3
  <2>2. Cardinality(AbiNodes(ssa')) = c + 1
    BY <1>2, <2>1, FS_AddElement
  <2>3. /\ Len(arguments') = c + 1 /\ arguments'[c + 1] = a
        /\ \A k \in 1 .. c : arguments'[k] = arguments[k]
    BY <1>1, <1>5 DEF c
  <2>4. ASSUME NEW i \in AbiNodes(ssa')
        PROVE  ssa'[i].args[1] \in 0 .. c /\ known'[i] = Supplied(arguments'[ssa'[i].args[1] + 1])
    <3>1. CASE i \in N
      <4>1. ssa'[i].args[1] = ssa[i].args[1] /\ known'[i] = known[i]
        BY <1>2, <3>1
      <4>2. ssa[i].args[1] \in 0 .. c - 1 /\ ssa[i].args[1] + 1 \in 1 .. c
        BY <1>1, <1>3, <3>1
      <4>3. arguments'[ssa[i].args[1] + 1] = arguments[ssa[i].args[1] + 1]
        BY <2>3, <4>2
      <4>4. QED BY <1>1, <1>3, <3>1, <4>1, <4>2, <4>3
    <3>2. CASE i = n + 1
      BY <1>1, <1>2, <1>5, <2>3, <3>2
    <3>3. QED BY <2>1, <3>1, <3>2
  <2>5. Len(arguments') - 1 = c
    BY <1>1, <2>3 DEF c
  <2>6. \A i \in AbiNodes(ssa') : Says(i)
    BY <2>4, <2>5
  <2> HIDE DEF Says
  <2>7. QED BY <1>0, <2>2, <2>3, <2>6
<1>6. QED BY <1>1, <1>4, <1>5 DEF Declares, n

\* the scope of versions and parameters,
LEMMA GrownScope ==
    ASSUME TraceTypes, ScopeRight, Grown
    PROVE  ScopeRight'
<1> DEFINE n == Len(ssa)
<1>1. /\ Longer /\ VersionsMove /\ ParamsMove /\ cond' = cond
      /\ n \in Nat /\ Len(ssa') \in Nat /\ n <= Len(ssa')
      /\ Len(slots) \in Nat /\ Len(slots') \in Nat /\ Len(slots) <= Len(slots')
      /\ \A s \in 1 .. Len(slots) : slots[s] \in 1 .. n
      /\ \A s \in 1 .. Len(slots') : slots'[s] \in 1 .. Len(ssa')
      /\ \A p \in DOMAIN params : params[p] \in 1 .. n
      /\ \A p \in DOMAIN params' : params'[p] \in 1 .. Len(ssa')
  <2>1. /\ Longer /\ VersionsMove /\ ParamsMove /\ cond' = cond
        /\ slots \in Seq(1 .. n) /\ slots' \in Seq(1 .. Len(ssa'))
        /\ params \in [DOMAIN params -> 1 .. n] /\ params' \in [DOMAIN params' -> 1 .. Len(ssa')]
        /\ ssa \in Seq(Recorded) /\ ssa' \in Seq(Recorded) /\ n <= Len(ssa')
        /\ Len(slots) <= Len(slots')
    BY DEF Grown, TraceTypes, Longer, VersionsMove, ParamsMove, Others
  <2>2. QED BY <2>1
<1>2. /\ \A i \in 1 .. n : ssa'[i] = ssa[i]
      /\ \A i \in n + 1 .. Len(ssa') : ssa'[i].region = 0
      /\ \A s \in 1 .. Len(slots') : \/ s \in 1 .. Len(slots) /\ slots'[s] = slots[s]
                                     \/ slots'[s] \in n + 1 .. Len(ssa')
      /\ \A p \in DOMAIN params' :
          \/ p \in DOMAIN params /\ params'[p] = params[p]
          \/ /\ params'[p] \in n + 1 .. Len(ssa')
             /\ Converted = {} => ssa'[params'[p]].op \in AbiOps \/ Len(slots') > Len(slots)
  <2>1. \A s \in 1 .. Len(slots') : \/ s <= Len(slots) /\ slots'[s] = slots[s]
                                    \/ slots'[s] > n
    BY <1>1 DEF VersionsMove
  <2>2. \A s \in 1 .. Len(slots') : \/ s \in 1 .. Len(slots) /\ slots'[s] = slots[s]
                                    \/ slots'[s] \in n + 1 .. Len(ssa')
    BY <1>1, <2>1
  <2>3. \A p \in DOMAIN params' :
          \/ p \in DOMAIN params /\ params'[p] = params[p]
          \/ /\ params'[p] > n
             /\ Converted = {} => ssa'[params'[p]].op \in AbiOps \/ Len(slots') > Len(slots)
    BY <1>1 DEF ParamsMove
  <2>4. \A p \in DOMAIN params' :
          \/ p \in DOMAIN params /\ params'[p] = params[p]
          \/ /\ params'[p] \in n + 1 .. Len(ssa')
             /\ Converted = {} => ssa'[params'[p]].op \in AbiOps \/ Len(slots') > Len(slots)
    BY <1>1, <2>3
  <2>5. QED BY <1>1, <2>2, <2>4 DEF Longer
<1> HIDE DEF n
<1>3. \A s \in 1 .. Len(slots') : ssa'[slots'[s]].region = 0
  <2>1. \A s \in 1 .. Len(slots) : ssa[slots[s]].region = 0
    BY DEF ScopeRight
  <2>2. QED BY <1>1, <1>2, <2>1
<1>4. Converted = {} => \A p \in DOMAIN params' : ssa'[params'[p]].region = 0
  <2>1. Converted = {} => \A p \in DOMAIN params : ssa[params[p]].region = 0
    BY DEF ScopeRight
  <2>2. QED BY <1>1, <1>2, <2>1
<1>5. ASSUME cond.phase \in {"then", "else"}
      PROVE  /\ \A s \in 1 .. Len(cond.initial) : ssa'[cond.initial[s]].region = 0
             /\ Converted = {} => \A p \in DOMAIN params' :
                   \/ params'[p] <= cond.thenMarker \/ ssa'[params'[p]].op \in AbiOps
                   \/ Len(slots') > Len(cond.initial)
                      /\ (cond.phase = "else" => params'[p] > cond.elseMarker)
  <2>1. /\ cond.thenMarker \in 2 .. n
        /\ Len(cond.initial) \in Nat /\ Len(cond.initial) <= Len(slots)
        /\ \A s \in 1 .. Len(cond.initial) : cond.initial[s] \in 1 .. n
        /\ cond.phase = "else" => cond.elseMarker \in cond.thenMarker .. n
    <3>1. CondRight /\ cond # NoCond
      BY <1>5 DEF NoCond, TraceTypes
    <3>2. /\ cond.thenMarker \in 2 .. n
          /\ cond.initial \in Seq(1 .. cond.thenMarker) /\ Len(cond.initial) <= Len(slots)
          /\ cond.phase = "else" => cond.elseMarker \in cond.thenMarker .. n
      BY <3>1 DEF CondRight, n
    <3>3. QED BY <1>1, <3>2
  <2>2. \A s \in 1 .. Len(cond.initial) : ssa'[cond.initial[s]].region = 0
    <3>1. \A s \in 1 .. Len(cond.initial) : ssa[cond.initial[s]].region = 0
      BY <1>5 DEF ScopeRight
    <3>2. QED BY <1>2, <2>1, <3>1
  <2>3. ASSUME Converted = {}, NEW p \in DOMAIN params'
        PROVE  \/ params'[p] <= cond.thenMarker \/ ssa'[params'[p]].op \in AbiOps
               \/ Len(slots') > Len(cond.initial)
                  /\ (cond.phase = "else" => params'[p] > cond.elseMarker)
    <3>1. CASE p \in DOMAIN params /\ params'[p] = params[p]
      <4>1. \/ params[p] <= cond.thenMarker \/ ssa[params[p]].op \in AbiOps
            \/ Len(slots) > Len(cond.initial)
               /\ (cond.phase = "else" => params[p] > cond.elseMarker)
        BY <1>5, <2>3, <3>1 DEF ScopeRight
      <4>2. ssa'[params[p]] = ssa[params[p]]
        BY <1>1, <1>2, <3>1
      <4>3. Len(slots) > Len(cond.initial) => Len(slots') > Len(cond.initial)
        BY <1>1, <2>1
      <4>4. QED BY <3>1, <4>1, <4>2, <4>3
    <3>2. CASE /\ params'[p] \in n + 1 .. Len(ssa')
               /\ ssa'[params'[p]].op \in AbiOps \/ Len(slots') > Len(slots)
      <4>1. Len(slots') > Len(slots) => Len(slots') > Len(cond.initial)
        BY <1>1, <2>1
      <4>2. cond.phase = "else" => params'[p] > cond.elseMarker
        BY <1>1, <2>1, <3>2
      <4>3. QED BY <3>2, <4>1, <4>2
    <3>3. QED BY <1>2, <2>3, <3>1, <3>2
  <2>4. QED BY <2>2, <2>3
<1>6. ASSUME cond.phase = "else"
      PROVE  \A s \in 1 .. Len(slots') : slots'[s] <= cond.thenMarker \/ slots'[s] > cond.elseMarker
  <2>1. cond.elseMarker \in cond.thenMarker .. n /\ cond.thenMarker \in 2 .. n
    BY <1>6 DEF CondRight, NoCond, TraceTypes, n
  <2>2. \A s \in 1 .. Len(slots) : slots[s] <= cond.thenMarker \/ slots[s] > cond.elseMarker
    BY <1>6 DEF ScopeRight
  <2>3. ASSUME NEW s \in 1 .. Len(slots')
        PROVE  slots'[s] <= cond.thenMarker \/ slots'[s] > cond.elseMarker
    <3>1. CASE s \in 1 .. Len(slots) /\ slots'[s] = slots[s]
      BY <2>2, <3>1
    <3>2. CASE slots'[s] \in n + 1 .. Len(ssa')
      BY <1>1, <2>1, <3>2
    <3>3. QED BY <1>2, <3>1, <3>2
  <2>4. QED BY <2>3
<1>7. QED BY <1>1, <1>3, <1>4, <1>5, <1>6 DEF ScopeRight

\* the places of the regions,
LEMMA GrownRegions ==
    ASSUME TraceTypes, RegionRight, Grown
    PROVE  RegionRight'
<1> DEFINE n == Len(ssa)
<1>1. /\ Longer /\ cond' = cond /\ n \in Nat /\ Len(ssa') \in Nat /\ n <= Len(ssa')
  <2>1. ssa \in Seq(Recorded) /\ ssa' \in Seq(Recorded) /\ Longer /\ cond' = cond /\ n <= Len(ssa')
    BY DEF Grown, TraceTypes, Longer, Others
  <2>2. QED BY <2>1
<1>2. /\ \A i \in 1 .. n : ssa'[i] = ssa[i]
      /\ \A i \in n + 1 .. Len(ssa') : ssa'[i].region = 0 /\ ssa'[i].op # "if"
      /\ \A i \in 1 .. Len(ssa') : i \in 1 .. n \/ i \in n + 1 .. Len(ssa')
  BY <1>1 DEF Longer
<1> HIDE DEF n
<1>3. ASSUME NEW i \in 1 .. Len(ssa'), ssa'[i].op = "if", NEW k \in 1 .. Len(ssa'),
             ssa'[k].region # 0, ssa'[k].region \in {ssa'[i].then, ssa'[i].else}
      PROVE  k < i
  <2>1. i \in 1 .. n /\ k \in 1 .. n
    BY <1>2, <1>3
  <2>2. ssa[i].op = "if" /\ ssa[k].region # 0 /\ ssa[k].region \in {ssa[i].then, ssa[i].else}
    BY <1>2, <1>3, <2>1
  <2>3. QED BY <2>1, <2>2 DEF RegionRight, n
<1>4. ASSUME cond.phase \in {"then", "else"}, NEW i \in 1 .. Len(ssa'), ssa'[i].op = "if"
      PROVE  i <= cond.thenMarker
  <2>1. i \in 1 .. n /\ ssa[i].op = "if"
    BY <1>2, <1>4
  <2>2. QED BY <1>4, <2>1 DEF RegionRight, n
<1>5. QED BY <1>1, <1>3, <1>4 DEF RegionRight

\* and what the nodes stand for.
LEMMA GrownMeaning ==
    ASSUME TraceTypes, MeaningRight, Grown
    PROVE  MeaningRight'
<1> DEFINE n == Len(ssa)
<1>1. /\ Longer /\ VersionsMove /\ ParamsMove
      /\ n \in Nat /\ Len(ssa') \in Nat /\ n <= Len(ssa') /\ n >= 2
      /\ DOMAIN ssa = 1 .. n /\ DOMAIN ssa' = 1 .. Len(ssa')
      /\ \A i \in 1 .. n : ssa'[i] = ssa[i] /\ known'[i] = known[i]
      /\ Len(slots) \in Nat /\ Len(slots') \in Nat /\ Len(slots) <= Len(slots')
      /\ ~program.compiled /\ ~broken
      /\ cond' = cond /\ broken' = broken /\ predicateInput' = predicateInput /\ mask' = mask
      /\ program' = program /\ ran' = ran
  <2>1. ssa \in Seq(Recorded) /\ ssa' \in Seq(Recorded) /\ n <= Len(ssa') /\ n >= 2
        /\ slots \in Seq(1 .. n) /\ slots' \in Seq(1 .. Len(ssa'))
        /\ Len(slots) <= Len(slots')
    BY DEF TraceTypes, Grown, Longer, VersionsMove
  <2>2. QED BY <2>1 DEF Grown, Longer, Calling, Others
<1>2. PICK good : GoodNodes(good) /\ GoodState(good)
  BY <1>1 DEF MeaningRight
<1>3. PICK new \in SUBSET (n + 1 .. Len(ssa')) : Learns(good, new)
  BY <1>2 DEF Grown, Taught
<1> DEFINE good2 == good \cup new
<1>4. good \in SUBSET (1 .. n) /\ good2 \in SUBSET (1 .. Len(ssa')) /\ good \subseteq good2
  <2>1. good \subseteq 1 .. n
    BY <1>2 DEF GoodNodes
  <2>2. new \subseteq 1 .. Len(ssa') /\ 1 .. n \subseteq 1 .. Len(ssa')
    BY <1>1
  <2>3. QED BY <2>1, <2>2
<1> HIDE DEF n
<1>5. \A i \in good2 : Computes(ssa'[i], known'[i], known', good2)
  <2>1. ASSUME NEW i \in good PROVE Computes(ssa'[i], known'[i], known', good2)
    <3>1. Computes(ssa[i], known[i], known, good)
      BY <1>2 DEF GoodNodes
    <3>2. Computes(ssa[i], known[i], known', good2)
      <4> HIDE DEF good2
      <4>1. /\ good \in SUBSET (1 .. n) /\ good \subseteq good2
            /\ \A j \in 1 .. n : known'[j] = known[j]
        BY <1>1, <1>4
      <4>2. QED BY <3>1, <4>1, ComputesKept
    <3>3. ssa'[i] = ssa[i] /\ known'[i] = known[i]
      BY <1>1, <1>4
    <3>4. QED BY <3>2, <3>3
  <2>2. QED BY <1>3, <2>1 DEF Learns
<1>6. \A versions, values : Hold(versions, values, known, good)
                              => Hold(versions, values, known', good2)
  <2> HIDE DEF good2
  <2>1. QED BY <1>1, <1>4, HoldKept
<1>7. GoodNodes(good2)'
  <2>1. AbiNodes(ssa') \subseteq good2
    <3> SUFFICES ASSUME NEW i \in AbiNodes(ssa') PROVE i \in good2
      OBVIOUS
    <3>1. i \in 1 .. Len(ssa') /\ ssa'[i].op \in AbiOps
      BY <1>1 DEF AbiNodes
    <3>2. CASE i \in 1 .. n
      BY <1>1, <1>2, <3>1, <3>2 DEF AbiNodes, GoodNodes
    <3>3. CASE i \in n + 1 .. Len(ssa')
      BY <1>3, <3>1, <3>3 DEF Learns, n
    <3>4. i \in 1 .. n \/ i \in n + 1 .. Len(ssa')
      BY <1>1, <3>1
    <3>5. QED BY <3>2, <3>3, <3>4
  <2>2. \A p \in DOMAIN params' : params'[p] \in good2
    BY <1>3 DEF Learns
  <2>3. {1, 2} \subseteq AbiNodes(ssa') /\ known'[1] = predicateInput' /\ known'[2] = mask'
    <3>1. {1, 2} \subseteq AbiNodes(ssa) /\ known[1] = predicateInput /\ known[2] = mask
      BY <1>2 DEF GoodNodes
    <3>2. 1 \in 1 .. n /\ 2 \in 1 .. n /\ 1 \in 1 .. Len(ssa') /\ 2 \in 1 .. Len(ssa')
      BY <1>1
    <3>3. QED BY <1>1, <3>1, <3>2 DEF AbiNodes
  <2> HIDE DEF good2
  <2>4. QED BY <1>4, <1>5, <2>1, <2>2, <2>3 DEF GoodNodes
<1>8. GoodState(good2)'
  <2>1. Live => Hold(slots', store', known', good2)
    BY <1>3 DEF Learns
  <2>2. cond.phase \in {"then", "else"} => Hold(cond.initial, cond.before, known', good2)
    BY <1>2, <1>6 DEF GoodState
  <2>3. ~Live /\ Len(cond.initial) = Len(slots') /\ cond # NoCond
           => Len(cond.initial) = Len(slots) /\ store' = store
    <3> SUFFICES ASSUME ~Live, Len(cond.initial) = Len(slots'), cond # NoCond
                 PROVE  Len(cond.initial) = Len(slots) /\ store' = store
      OBVIOUS
    <3>1. Len(cond.initial) <= Len(slots)
      BY DEF TraceTypes, CondRight
    <3>2. Len(slots') = Len(slots)
      BY <1>1, <3>1
    <3>3. QED BY <1>1, <3>2 DEF VersionsMove
  <2>4. cond.phase = "then" /\ predicateInput = 0 /\ Len(cond.initial) = Len(slots')
           => store' = cond.before
    BY <1>2, <2>3 DEF GoodState, Live, Replaceable, NoCond
  <2>5. cond.phase = "else" /\ predicateInput # 0
           => /\ cond.thenOut \in good2
              /\ Len(cond.initial) = Len(slots') => Hold(cond.thenVersions, store', known', good2)
    <3> SUFFICES ASSUME cond.phase = "else", predicateInput # 0
                 PROVE  /\ cond.thenOut \in good2
                        /\ Len(cond.initial) = Len(slots')
                              => Hold(cond.thenVersions, store', known', good2)
      OBVIOUS
    <3>1. ~Live /\ cond # NoCond
      BY DEF Live, NoCond
    <3>2. /\ cond.thenOut \in good
          /\ Replaceable(cond.initial) => Hold(cond.thenVersions, store, known, good)
      BY <1>2 DEF GoodState
    <3>3. QED BY <1>4, <1>6, <2>3, <3>1, <3>2 DEF Replaceable
  <2> HIDE DEF good2
  <2>6. Live' <=> Live
    BY <1>1 DEF Live
  <2>7. QED BY <1>1, <2>1, <2>2, <2>4, <2>5, <2>6 DEF GoodState, Replaceable
<1>9. ~program'.compiled /\ ~ran'.done
  BY <1>1 DEF MeaningRight
<1>10. GoodProgram(good2)'
  BY <1>9 DEF GoodProgram
<1>11. (\E g : GoodNodes(g) /\ GoodProgram(g) /\ (broken \/ GoodState(g)))'
  <2> HIDE DEF good2
  <2>1. QED BY <1>7, <1>8, <1>10
<1>12. QED BY <1>9, <1>11 DEF MeaningRight

\* Growth keeps the invariant.
LEMMA GrownInv ==
    ASSUME TraceInv, Grown
    PROVE  TraceInv'
BY GrownTypes, GrownAbi, GrownScope, GrownRegions, GrownMeaning DEF TraceInv

-----------------------------------------------------------------------------
\* Declarations grow the graph.

\* What is supplied for an argument is a number.
LEMMA SuppliedInt ==
    ASSUME TraceTypes, NEW a \in AbiArguments
    PROVE  Supplied(a) \in Int
<1>1. a.index \in Nat /\ predicateInput \in Int /\ mask \in Int
  BY DEF AbiArguments, TraceTypes
<1>2. \A i \in Nat : 4 ^ (2 * i) \in Int /\ 4 ^ (2 * i + 1) \in Int
  OBVIOUS
<1>3. QED BY <1>1, <1>2 DEF Supplied, StateValue, InputValue

\* An argument of k nodes: the declaration and casts or reads of it.  The
\* declaration may be a new state slot, and the last node a new parameter.
NewSlot(k, v) == k >= 2 /\ slots' = Append(slots, Len(ssa) + 2) /\ store' = Append(store, v)
NewParam(p, k) ==
    params' = [q \in DOMAIN params \cup {p} |-> IF q = p THEN Len(ssa) + k ELSE params[q]]
Declaring(k, op, a) ==
    /\ Calling /\ k \in 1 .. 3 /\ op \in AbiOps /\ a \in AbiArguments
    /\ ssa' \in Seq(Recorded) /\ Len(ssa') = Len(ssa) + k
    /\ known' \in Seq(Int) /\ Len(known') = Len(ssa) + k
    /\ \A i \in 1 .. Len(ssa) : ssa'[i] = ssa[i] /\ known'[i] = known[i]
    /\ ssa'[Len(ssa) + 1] = Node(op, <<ParameterCount>>)
    /\ \A j \in 2 .. k : ssa'[Len(ssa) + j] = Node("mark", <<Len(ssa) + j - 1>>)
    /\ \A j \in 1 .. k : known'[Len(ssa) + j] = Supplied(a)
    /\ arguments' = Append(arguments, a) /\ inputCount' \in Nat
    /\ \/ UNCHANGED <<slots, store>> \/ NewSlot(k, Supplied(a))
    /\ \/ UNCHANGED params
       \/ \E p : NewParam(p, k) /\ (Converted = {} => k = 1 \/ NewSlot(k, Supplied(a)))
    /\ UNCHANGED Others

\* A sequence over a set is one over a wider set.
LEMMA Wider ==
    ASSUME NEW S, NEW T, S \subseteq T, NEW s \in Seq(S)
    PROVE  s \in Seq(T) /\ Len(s) \in Nat /\ \A i \in 1 .. Len(s) : s[i] \in S
OBVIOUS

\* A declaration grows the graph.
LEMMA DeclaringGrows ==
    ASSUME TraceTypes, NEW k, NEW op, NEW a, Declaring(k, op, a)
    PROVE  Grown
<1> DEFINE n == Len(ssa)
           v == Supplied(a)
<1>1. /\ n \in Nat /\ n >= 2 /\ Len(ssa') = n + k /\ Len(known') = n + k
      /\ k \in 1 .. 3 /\ op \in AbiOps /\ a \in AbiArguments
      /\ \A i \in 1 .. n : ssa'[i] = ssa[i] /\ known'[i] = known[i]
      /\ ssa'[n + 1] = Node(op, <<ParameterCount>>)
      /\ \A j \in 2 .. k : ssa'[n + j] = Node("mark", <<n + j - 1>>)
      /\ \A j \in 1 .. k : known'[n + j] = v
      /\ \/ UNCHANGED <<slots, store>> \/ NewSlot(k, v)
      /\ \/ UNCHANGED params
         \/ \E p : NewParam(p, k) /\ (Converted = {} => k = 1 \/ NewSlot(k, v))
  <2>1. ssa \in Seq(Recorded) /\ n >= 2
    BY DEF TraceTypes
  <2>2. n \in Nat
    BY <2>1
  <2> HIDE DEF n, v
  <2>3. QED BY <2>1, <2>2 DEF Declaring, n, v
<1>2. /\ slots \in Seq(1 .. n) /\ store \in Seq(Int) /\ Len(store) = Len(slots)
      /\ params \in [DOMAIN params -> 1 .. n]
  BY DEF TraceTypes
<1>3. v \in Int
  BY <1>1, SuppliedInt
<1>4. /\ ssa'[n + 1].op = op /\ ssa'[n + 1].args = <<ParameterCount>> /\ ssa'[n + 1].region = 0
      /\ \A j \in 2 .. k : /\ ssa'[n + j].op = "mark" /\ ssa'[n + j].args = <<n + j - 1>>
                           /\ ssa'[n + j].region = 0
  <2> HIDE DEF n, v
  <2>1. \A o, x : Node(o, x).op = o /\ Node(o, x).args = x /\ Node(o, x).region = 0
    BY DEF Node
  <2>2. ssa'[n + 1] = Node(op, <<ParameterCount>>)
    BY <1>1
  <2>3. ASSUME NEW j \in 2 .. k
        PROVE  /\ ssa'[n + j].op = "mark" /\ ssa'[n + j].args = <<n + j - 1>>
               /\ ssa'[n + j].region = 0
    <3>1. ssa'[n + j] = Node("mark", <<n + j - 1>>)
      BY <1>1
    <3>2. QED BY <2>1, <3>1
  <2>4. QED BY <2>1, <2>2, <2>3
<1> HIDE DEF n, v
<1>5. \A i \in n + 1 .. n + k : i = n + 1 \/ (i - n \in 2 .. k /\ i = n + (i - n))
  BY <1>1
<1>6. \A i \in n + 2 .. n + k :
         ssa'[i].op = "mark" /\ ssa'[i].args = <<i - 1>> /\ ssa'[i].region = 0
  <2> SUFFICES ASSUME NEW i \in n + 2 .. n + k
               PROVE  ssa'[i].op = "mark" /\ ssa'[i].args = <<i - 1>> /\ ssa'[i].region = 0
    OBVIOUS
  <2>1. PICK j \in 2 .. k : i = n + j
    <3>1. i - n \in 2 .. k /\ i = n + (i - n)
      BY <1>1
    <3>2. QED BY <3>1
  <2>2. i - 1 = n + j - 1
    BY <1>1, <2>1
  <2>3. QED BY <1>4, <2>1, <2>2
<1>7. \A i \in n + 1 .. n + k : known'[i] = v
  <2> SUFFICES ASSUME NEW i \in n + 1 .. n + k PROVE known'[i] = v
    OBVIOUS
  <2>1. i - n \in 1 .. k /\ n + (i - n) = i
    BY <1>1
  <2>2. QED BY <1>1, <2>1
<1>8. \A i \in n + 1 .. n + k : i = n + 1 \/ i \in n + 2 .. n + k
  BY <1>1
<1>9. Longer
  <2>1. ASSUME NEW i \in n + 1 .. n + k
        PROVE  NodeAt(ssa'[i], i) /\ ssa'[i].op # "if" /\ ssa'[i].region = 0
    <3>1. CASE i = n + 1
      BY <1>1, <1>4, <3>1 DEF NodeAt, OperandCount, AbiOps
    <3>2. CASE i \in n + 2 .. n + k
      <4>1. i - 1 \in 1 .. i - 1
        BY <1>1, <3>2
      <4>2. ssa'[i].op = "mark" /\ ssa'[i].region = 0 /\ Len(ssa'[i].args) = 1
            /\ ssa'[i].args[1] = i - 1
        <5>1. \A y : Len(<<y>>) = 1 /\ <<y>>[1] = y
          OBVIOUS
        <5>2. QED BY <1>6, <3>2, <5>1
      <4>3. \A j \in 1 .. 1 : j = 1
        OBVIOUS
      <4>4. QED BY <4>1, <4>2, <4>3 DEF NodeAt, OperandCount, AbiOps
    <3>3. QED BY <1>8, <3>1, <3>2
  <2>2. QED BY <1>1, <2>1 DEF Longer, Declaring, n
<1>10. Declares
  <2>1. \A i \in n + 2 .. n + k : ssa'[i].op \notin AbiOps
    BY <1>6 DEF AbiOps
  <2>2. known'[n + 1] = v /\ n + 1 <= Len(ssa')
    BY <1>1
  <2>3. arguments' = Append(arguments, a)
    BY DEF Declaring
  <2>4. QED BY <1>1, <1>4, <2>1, <2>2, <2>3 DEF Declares, n, v
<1>11. /\ slots' \in Seq(1 .. n + k) /\ store' \in Seq(Int) /\ Len(store') = Len(slots')
       /\ Len(slots) <= Len(slots')
       /\ \A s \in 1 .. Len(slots') :
            \/ s \in 1 .. Len(slots) /\ slots'[s] = slots[s] /\ store'[s] = store[s]
            \/ k >= 2 /\ slots'[s] = n + 2 /\ store'[s] = v
       /\ Len(slots') = Len(slots) => store' = store
  <2>1. Len(slots) \in Nat /\ slots \in Seq(1 .. n + k)
    <3>1. 1 .. n \subseteq 1 .. n + k
      BY <1>1
    <3>2. QED BY <1>2, <3>1, Wider
  <2>2. CASE UNCHANGED <<slots, store>>
    BY <1>2, <2>1, <2>2
  <2>3. CASE NewSlot(k, v)
    <3>1. k >= 2 /\ slots' = Append(slots, n + 2) /\ store' = Append(store, v)
          /\ n + 2 \in 1 .. n + k
      BY <1>1, <2>3 DEF NewSlot, n
    <3>2. Len(slots') = Len(slots) + 1 /\ Len(store') = Len(slots) + 1
          /\ slots' \in Seq(1 .. n + k) /\ store' \in Seq(Int)
      BY <1>2, <1>3, <2>1, <3>1
    <3>3. \A s \in 1 .. Len(slots) + 1 : s = Len(slots) + 1 \/ s \in 1 .. Len(slots)
      BY <2>1
    <3>4. \A s \in 1 .. Len(slots) : slots'[s] = slots[s] /\ store'[s] = store[s]
      BY <1>2, <2>1, <3>1
    <3>5. slots'[Len(slots) + 1] = n + 2 /\ store'[Len(slots) + 1] = v
      BY <1>2, <2>1, <3>1
    <3>6. QED BY <2>1, <3>1, <3>2, <3>3, <3>4, <3>5
  <2>4. QED BY <1>1, <2>2, <2>3
<1>12. VersionsMove
  <2>1. \A s \in 1 .. Len(slots') : \/ s <= Len(slots) /\ slots'[s] = slots[s]
                                    \/ slots'[s] > n
    BY <1>1, <1>11
  <2>2. QED BY <1>1, <1>11, <2>1 DEF VersionsMove, n
<1>13. /\ params' \in [DOMAIN params' -> 1 .. n + k]
       /\ \A p \in DOMAIN params' :
            \/ p \in DOMAIN params /\ params'[p] = params[p]
            \/ params'[p] = n + k /\ (Converted = {} => k = 1 \/ NewSlot(k, v))
  <2>1. CASE UNCHANGED params
    BY <1>1, <1>2, <2>1
  <2>2. ASSUME NEW p, NewParam(p, k), Converted = {} => k = 1 \/ NewSlot(k, v)
        PROVE  <1>13!:
    <3>1. params' = [q \in DOMAIN params \cup {p} |-> IF q = p THEN n + k ELSE params[q]]
      BY <2>2 DEF NewParam, n
    <3>2. DOMAIN params' = DOMAIN params \cup {p}
          /\ \A q \in DOMAIN params' : params'[q] = IF q = p THEN n + k ELSE params[q]
      BY <3>1
    <3>3. \A q \in DOMAIN params' : IF q = p THEN params'[q] = n + k
                                    ELSE q \in DOMAIN params /\ params'[q] = params[q]
      BY <3>2
    <3>4. params' = [q \in DOMAIN params' |-> params'[q]]
      BY <3>1
    <3>5. n + k \in 1 .. n + k /\ 1 .. n \subseteq 1 .. n + k
      BY <1>1
    <3>6. \A q \in DOMAIN params' : params'[q] \in 1 .. n + k
      BY <1>2, <3>3, <3>5
    <3>7. QED BY <2>2, <3>3, <3>4, <3>6
  <2>3. QED BY <1>1, <2>1, <2>2
<1>14. ParamsMove
  <2>1. ASSUME NEW p \in DOMAIN params', params'[p] = n + k, Converted = {},
               k = 1 \/ NewSlot(k, v)
        PROVE  ssa'[params'[p]].op \in AbiOps \/ Len(slots') > Len(slots)
    <3>1. CASE k = 1
      BY <1>1, <1>4, <2>1, <3>1
    <3>2. CASE NewSlot(k, v)
      BY <1>2, <3>2 DEF NewSlot
    <3>3. QED BY <2>1, <3>1, <3>2
  <2>2. n + k > n
    BY <1>1
  <2>3. QED BY <1>1, <1>13, <2>1, <2>2 DEF ParamsMove, n
<1>15. Taught
  <2> SUFFICES ASSUME NEW good, GoodNodes(good), GoodState(good)
               PROVE  \E new \in SUBSET (n + 1 .. n + k) : Learns(good, new)
    BY <1>1 DEF Taught, n
  <2> DEFINE new == n + 1 .. n + k
             good2 == good \cup new
  <2>1. \A i \in new : Computes(ssa'[i], known'[i], known', good2)
    <3> SUFFICES ASSUME NEW i \in new PROVE Computes(ssa'[i], known'[i], known', good2)
      OBVIOUS
    <3>1. CASE i = n + 1
      BY <1>1, <1>4, <3>1 DEF Computes
    <3>2. CASE i \in n + 2 .. n + k
      <4>1. i - 1 \in new
        BY <1>1, <3>2
      <4>2. ssa'[i].op = "mark" /\ ssa'[i].args[1] = i - 1
        BY <1>6, <3>2
      <4>3. known'[i] = known'[i - 1]
        BY <1>7, <4>1
      <4>4. QED BY <4>1, <4>2, <4>3 DEF Computes
    <3>3. QED BY <1>8, <3>1, <3>2
  <2>2. \A i \in n + 1 .. Len(ssa') : ssa'[i].op \in AbiOps => i \in new
    BY <1>1
  <2>3. \A p \in DOMAIN params' : params'[p] \in good2
    <3>1. n + k \in new
      BY <1>1
    <3>2. QED BY <1>13, <3>1 DEF GoodNodes
  <2>4. Live => Hold(slots', store', known', good2)
    <3> SUFFICES ASSUME Live, NEW s \in 1 .. Len(slots')
                 PROVE  slots'[s] \in good2 /\ known'[slots'[s]] = store'[s]
      BY DEF Hold
    <3>1. CASE s \in 1 .. Len(slots) /\ slots'[s] = slots[s] /\ store'[s] = store[s]
      <4>1. slots[s] \in good /\ known[slots[s]] = store[s]
        BY <3>1 DEF GoodState, Hold
      <4>2. slots[s] \in 1 .. n
        <5>1. \A t \in 1 .. Len(slots) : slots[t] \in 1 .. n
          BY <1>2, Wider
        <5>2. QED BY <3>1, <5>1
      <4>3. known'[slots[s]] = known[slots[s]]
        BY <1>1, <4>2
      <4>4. QED BY <3>1, <4>1, <4>3
    <3>2. CASE k >= 2 /\ slots'[s] = n + 2 /\ store'[s] = v
      <4>1. n + 2 \in new
        BY <1>1, <3>2
      <4>2. QED BY <1>7, <3>2, <4>1
    <3>3. QED BY <1>11, <3>1, <3>2
  <2> HIDE DEF good2
  <2>5. Learns(good, new)
    BY <2>1, <2>2, <2>3, <2>4 DEF Learns, good2, n
  <2>6. QED BY <2>5
<1>16. QED BY <1>9, <1>10, <1>12, <1>14, <1>15 DEF Grown, Declaring

\* Sequences, one behind the other.
LEMMA Joined ==
    ASSUME NEW S, NEW s \in Seq(S), NEW t \in Seq(S)
    PROVE  /\ s \o t \in Seq(S) /\ Len(s \o t) = Len(s) + Len(t)
           /\ Len(s) \in Nat /\ Len(t) \in Nat
           /\ \A i \in 1 .. Len(s) : (s \o t)[i] = s[i]
           /\ \A i \in 1 .. Len(t) : (s \o t)[Len(s) + i] = t[i]
OBVIOUS

\* Appending numbers leaves the earlier ones.
LEMMA MoreNumbers ==
    ASSUME known \in Seq(Int), NEW vs, vs \in Seq(Int), known' = known \o vs
    PROVE  /\ known' \in Seq(Int) /\ Len(known') = Len(known) + Len(vs)
           /\ \A i \in 1 .. Len(known) : known'[i] = known[i]
           /\ \A i \in 1 .. Len(vs) : known'[Len(known) + i] = vs[i]
OBVIOUS

\* Short sequences.
LEMMA Short ==
    ASSUME NEW S
    PROVE  /\ <<>> \in Seq(S) /\ Len(<<>>) = 0
           /\ \A x \in S : <<x>> \in Seq(S) /\ Len(<<x>>) = 1 /\ <<x>>[1] = x
           /\ \A x, y \in S : /\ <<x, y>> \in Seq(S) /\ Len(<<x, y>>) = 2
                              /\ <<x, y>>[1] = x /\ <<x, y>>[2] = y
OBVIOUS

\* Appending is joining one element.
LEMMA AppendJoins ==
    ASSUME NEW S, NEW s \in Seq(S), NEW x \in S
    PROVE  Append(s, x) = s \o <<x>>
OBVIOUS

\* Nodes that are no conditionals.
LEMMA NodeRecorded ==
    ASSUME NEW op \in Operations, NEW as \in Seq(Nat)
    PROVE  Node(op, as) \in Recorded
<1>1. Node(op, as) \in [op : Operations, args : Seq(Nat), region : Nat]
  BY DEF Node
<1>2. QED BY <1>1 DEF Recorded

\* Nodes and their numbers appended.
LEMMA More ==
    ASSUME TraceTypes, NEW xs \in Seq(Recorded), NEW vs \in Seq(Int), Len(vs) = Len(xs),
           ssa' = ssa \o xs, known' = known \o vs
    PROVE  /\ ssa' \in Seq(Recorded) /\ Len(ssa') = Len(ssa) + Len(xs)
           /\ known' \in Seq(Int) /\ Len(known') = Len(ssa) + Len(xs)
           /\ Len(ssa) \in Nat /\ Len(xs) \in Nat
           /\ \A i \in 1 .. Len(ssa) : ssa'[i] = ssa[i] /\ known'[i] = known[i]
           /\ \A i \in 1 .. Len(xs) : ssa'[Len(ssa) + i] = xs[i] /\ known'[Len(ssa) + i] = vs[i]
<1>1. ssa \in Seq(Recorded) /\ known \in Seq(Int) /\ Len(known) = Len(ssa)
  BY DEF TraceTypes
<1>2. /\ ssa' \in Seq(Recorded) /\ Len(ssa') = Len(ssa) + Len(xs)
      /\ Len(ssa) \in Nat /\ Len(xs) \in Nat
      /\ \A i \in 1 .. Len(ssa) : ssa'[i] = ssa[i]
      /\ \A i \in 1 .. Len(xs) : ssa'[Len(ssa) + i] = xs[i]
  BY <1>1, Joined
<1>3. /\ known' \in Seq(Int) /\ Len(known') = Len(known) + Len(vs)
      /\ \A i \in 1 .. Len(known) : known'[i] = known[i]
      /\ \A i \in 1 .. Len(vs) : known'[Len(known) + i] = vs[i]
  BY <1>1, MoreNumbers
<1>4. QED BY <1>1, <1>2, <1>3

\* Input declares one.
LEMMA InputGrows ==
    ASSUME TraceTypes, AbiRight, Input
    PROVE  Grown
<1> DEFINE a == [kind |-> "input", index |-> inputCount]
<1>1. inputCount \in Nat /\ ParameterCount \in Nat /\ a \in AbiArguments
  <2>1. arguments \in Seq(AbiArguments) /\ inputCount \in Nat
    BY DEF TraceTypes
  <2>2. ParameterCount = Len(arguments)
    BY DEF AbiRight, ParameterCount, AbiNodes, IsAbi, AbiOps
  <2>3. QED BY <2>1, <2>2 DEF AbiArguments
<1>2. InputNode \in Recorded /\ InputNode = Node("input", <<ParameterCount>>)
  <2>1. <<ParameterCount>> \in Seq(Nat) /\ "input" \in Operations
    BY <1>1 DEF Operations, AbiOps
  <2>2. QED BY <2>1, NodeRecorded DEF InputNode
<1>3. Supplied(a) = InputValue(inputCount) /\ Supplied(a) \in Int
  <2>1. a.kind = "input" /\ a.index = inputCount
    OBVIOUS
  <2>2. Supplied(a) = InputValue(inputCount)
    BY <2>1 DEF Supplied
  <2> HIDE DEF a
  <2>3. QED BY <1>1, <2>2, SuppliedInt
<1>4. ssa' = ssa \o <<InputNode>> /\ known' = known \o <<Supplied(a)>>
  <2>1. ssa' = Append(ssa, InputNode) /\ known' = Append(known, Supplied(a))
    BY <1>3 DEF Input
  <2>2. ssa \in Seq(Recorded) /\ known \in Seq(Int)
    BY DEF TraceTypes
  <2> HIDE DEF a
  <2>3. QED BY <1>2, <1>3, <2>1, <2>2, AppendJoins
<1>5. /\ ssa' \in Seq(Recorded) /\ Len(ssa') = Len(ssa) + 1
      /\ known' \in Seq(Int) /\ Len(known') = Len(ssa) + 1
      /\ \A i \in 1 .. Len(ssa) : ssa'[i] = ssa[i] /\ known'[i] = known[i]
      /\ ssa'[Len(ssa) + 1] = InputNode /\ known'[Len(ssa) + 1] = Supplied(a)
  <2> DEFINE xs == <<InputNode>>
             vs == <<Supplied(a)>>
  <2>1. /\ xs \in Seq(Recorded) /\ Len(xs) = 1 /\ xs[1] = InputNode
        /\ vs \in Seq(Int) /\ Len(vs) = 1 /\ vs[1] = Supplied(a) /\ 1 \in 1 .. 1
    BY <1>2, <1>3, Short
  <2>2. ssa' = ssa \o xs /\ known' = known \o vs
    BY <1>4
  <2> HIDE DEF a, xs, vs
  <2>3. /\ ssa' \in Seq(Recorded) /\ Len(ssa') = Len(ssa) + Len(xs)
        /\ known' \in Seq(Int) /\ Len(known') = Len(ssa) + Len(xs)
        /\ \A i \in 1 .. Len(ssa) : ssa'[i] = ssa[i] /\ known'[i] = known[i]
        /\ \A i \in 1 .. Len(xs) : ssa'[Len(ssa) + i] = xs[i] /\ known'[Len(ssa) + i] = vs[i]
    <3>1. xs \in Seq(Recorded) /\ vs \in Seq(Int) /\ Len(vs) = Len(xs)
      BY <2>1
    <3>2. QED BY <2>2, <3>1, More
  <2>4. QED BY <2>1, <2>3
<1>6. /\ Calling /\ arguments' = Append(arguments, a) /\ inputCount' = inputCount + 1
      /\ UNCHANGED <<slots, store, params>> /\ UNCHANGED Others
  BY DEF Input, Succeed, runVars, Others
<1> HIDE DEF a
<1>7. Declaring(1, "input", a)
  <2>1. \A j \in 2 .. 1 : FALSE
    OBVIOUS
  <2>2. \A j \in 1 .. 1 : j = 1
    OBVIOUS
  <2>3. "input" \in AbiOps /\ 1 \in 1 .. 3 /\ inputCount' \in Nat
    BY <1>1, <1>6 DEF AbiOps
  <2>4. QED BY <1>1, <1>2, <1>5, <1>6, <2>1, <2>2, <2>3 DEF Declaring
<1>8. QED BY <1>7, DeclaringGrows

\* Joining is associative.
LEMMA JoinThree ==
    ASSUME NEW S, NEW s \in Seq(S), NEW t \in Seq(S), NEW u \in Seq(S)
    PROVE  (s \o t) \o u = s \o (t \o u)
OBVIOUS

\* The node of the next argument is one that can be recorded,
LEMMA ArgumentNode ==
    ASSUME TraceTypes, AbiRight, NEW op \in AbiOps
    PROVE  Node(op, <<ParameterCount>>) \in Recorded /\ ParameterCount \in Nat
<1>1. ParameterCount \in Nat
  <2>1. arguments \in Seq(AbiArguments)
    BY DEF TraceTypes
  <2>2. ParameterCount = Len(arguments)
    BY DEF AbiRight, ParameterCount, AbiNodes, IsAbi, AbiOps
  <2>3. QED BY <2>1, <2>2
<1>2. <<ParameterCount>> \in Seq(Nat) /\ op \in Operations
  BY <1>1 DEF Operations
<1>3. QED BY <1>1, <1>2, NodeRecorded

\* and so is a read, a write or a cast.
LEMMA MarkNode ==
    ASSUME NEW i \in Nat
    PROVE  Node("mark", <<i>>) \in Recorded
<1>1. <<i>> \in Seq(Nat) /\ "mark" \in Operations
  BY DEF Operations
<1>2. QED BY <1>1, NodeRecorded

\* So does DeclareState, outside a conditional,
LEMMA DeclareStateGrows ==
    ASSUME TraceTypes, AbiRight, DeclareState, ~InBranch
    PROVE  Grown
<1> DEFINE a == [kind |-> "state", index |-> Len(slots)]
           n == Len(ssa)
           x == Node("stateInput", <<ParameterCount>>)
           y == Node("mark", <<n + 1>>)
           v == StateValue(Len(slots))
<1>1. n \in Nat /\ Len(slots) \in Nat /\ inputCount \in Nat /\ a \in AbiArguments
  <2>1. ssa \in Seq(Recorded) /\ slots \in Seq(1 .. n) /\ inputCount \in Nat
    BY DEF TraceTypes
  <2>2. QED BY <2>1 DEF AbiArguments
<1>2. Supplied(a) = v /\ v \in Int
  <2>1. a.kind = "state" /\ a.index = Len(slots)
    OBVIOUS
  <2>2. Supplied(a) = v
    BY <2>1 DEF Supplied
  <2> HIDE DEF a, v
  <2>3. QED BY <1>1, <2>2, SuppliedInt
<1>3. x \in Recorded /\ y \in Recorded /\ "stateInput" \in AbiOps
  <2>1. "stateInput" \in AbiOps /\ n + 1 \in Nat
    BY <1>1 DEF AbiOps
  <2>2. QED BY <2>1, ArgumentNode, MarkNode
<1> DEFINE xs == <<x, y>>
           vs == <<v, v>>
<1>4. /\ Calling /\ ssa' = ssa \o xs /\ known' = known \o vs
      /\ slots' = Append(slots, n + 2) /\ store' = Append(store, v)
      /\ arguments' = Append(arguments, a) /\ inputCount' = inputCount
      /\ params' = params /\ UNCHANGED Others
  BY DEF DeclareState, RegisterState, Succeed, runVars, Others
<1> HIDE DEF a, n, x, y, v
<1>5. /\ xs \in Seq(Recorded) /\ Len(xs) = 2 /\ xs[1] = x /\ xs[2] = y
      /\ vs \in Seq(Int) /\ Len(vs) = 2 /\ vs[1] = v /\ vs[2] = v
  BY <1>2, <1>3, Short
<1> HIDE DEF xs, vs
<1>6. /\ ssa' \in Seq(Recorded) /\ Len(ssa') = n + Len(xs)
      /\ known' \in Seq(Int) /\ Len(known') = n + Len(xs)
      /\ \A i \in 1 .. n : ssa'[i] = ssa[i] /\ known'[i] = known[i]
      /\ \A i \in 1 .. Len(xs) : ssa'[n + i] = xs[i] /\ known'[n + i] = vs[i]
  <2>1. /\ xs \in Seq(Recorded) /\ vs \in Seq(Int) /\ Len(vs) = Len(xs)
        /\ ssa' = ssa \o xs /\ known' = known \o vs
    BY <1>4, <1>5
  <2>2. QED BY <2>1, More DEF n
<1>7. Declaring(2, "stateInput", a)
  <2>1. /\ 1 \in 1 .. Len(xs) /\ 2 \in 1 .. Len(xs) /\ 2 \in 1 .. 3 /\ 2 >= 2
        /\ \A j \in 1 .. 2 : j \in {1, 2}
        /\ \A j \in 2 .. 2 : j = 2
    BY <1>5
  <2>2. ssa'[n + 1] = x /\ ssa'[n + 2] = y /\ known'[n + 1] = v /\ known'[n + 2] = v
    BY <1>5, <1>6, <2>1
  <2>3. \A j \in 2 .. 2 : ssa'[n + j] = Node("mark", <<n + j - 1>>)
    <3>1. n + 2 - 1 = n + 1
      BY <1>1
    <3>2. QED BY <2>1, <2>2, <3>1 DEF y
  <2>4. \A j \in 1 .. 2 : known'[n + j] = Supplied(a)
    BY <1>2, <2>1, <2>2
  <2>5. NewSlot(2, Supplied(a))
    BY <1>2, <1>4 DEF NewSlot, n
  <2>6. QED BY <1>1, <1>3, <1>4, <1>5, <1>6, <2>1, <2>2, <2>3, <2>4, <2>5 DEF Declaring, x, n
<1>8. QED BY <1>7, DeclaringGrows

\* and Param: an input or a state, read, and perhaps converted.
LEMMA ParamGrows ==
    ASSUME TraceTypes, AbiRight, NEW path \in Paths, Param(path)
    PROVE  Grown
<1> DEFINE n == Len(ssa)
           state == path \in limit.resident
           base == IF state THEN 2 ELSE 1
           k == base + (IF path \in Converted THEN 1 ELSE 0)
           op == IF state THEN "stateInput" ELSE "input"
           a == IF state THEN [kind |-> "state", index |-> Len(slots)]
                ELSE [kind |-> "input", index |-> inputCount]
           v == IF state THEN StateValue(Len(slots)) ELSE InputValue(inputCount)
           x == Node(op, <<ParameterCount>>)
           mark(i) == Node("mark", <<n + i>>)
           declared == IF state THEN <<x, mark(1)>> ELSE <<x>>
           cast == IF path \in Converted THEN <<mark(base)>> ELSE <<>>
           xs == declared \o cast
           vs == [i \in 1 .. Len(xs) |-> v]
<1>1. n \in Nat /\ Len(slots) \in Nat /\ inputCount \in Nat /\ a \in AbiArguments /\ op \in AbiOps
      /\ ssa \in Seq(Recorded)
  <2>1. ssa \in Seq(Recorded) /\ slots \in Seq(1 .. n) /\ inputCount \in Nat
    BY DEF TraceTypes
  <2>2. QED BY <2>1 DEF AbiArguments, AbiOps
<1>2. Supplied(a) = v /\ v \in Int
  <2>1. CASE state
    <3>1. a.kind = "state" /\ a.index = Len(slots) /\ v = StateValue(Len(slots))
      BY <2>1
    <3>2. Supplied(a) = v
      BY <3>1 DEF Supplied
    <3> HIDE DEF a, v
    <3>3. QED BY <1>1, <3>2, SuppliedInt
  <2>2. CASE ~state
    <3>1. a.kind = "input" /\ a.index = inputCount /\ v = InputValue(inputCount)
      BY <2>2
    <3>2. Supplied(a) = v
      BY <3>1 DEF Supplied
    <3> HIDE DEF a, v
    <3>3. QED BY <1>1, <3>2, SuppliedInt
  <2>3. QED BY <2>1, <2>2
<1>3. x \in Recorded /\ \A i \in Nat : mark(i) \in Recorded
  <2>1. x \in Recorded
    <3> HIDE DEF op
    <3>1. QED BY <1>1, ArgumentNode
  <2>2. \A i \in Nat : n + i \in Nat
    BY <1>1
  <2>3. QED BY <2>1, <2>2, MarkNode
<1>4. base \in {1, 2} /\ k \in 1 .. 3 /\ k \in {base, base + 1} /\ base >= 1
      /\ (k = base <=> path \notin Converted) /\ (state <=> base = 2)
  OBVIOUS
<1> HIDE DEF x, mark, n, v, op, a
<1>5. /\ declared \in Seq(Recorded) /\ Len(declared) = base /\ declared[1] = x
      /\ base = 2 => declared[2] = mark(1)
      /\ cast \in Seq(Recorded) /\ Len(cast) = k - base
      /\ k = base + 1 => cast[1] = mark(base)
  <2>1. mark(1) \in Recorded /\ mark(base) \in Recorded /\ base \in Nat
    BY <1>3, <1>4
  <2>2. CASE state
    <3>1. declared = <<x, mark(1)>> /\ base = 2
      BY <2>2
    <3>2. CASE path \in Converted
      <4>1. cast = <<mark(base)>> /\ k = base + 1 /\ k - base = 1
        BY <2>1, <3>2
      <4> HIDE DEF declared, cast, base, k
      <4>2. QED BY <1>3, <2>1, <3>1, <4>1, Short
    <3>3. CASE path \notin Converted
      <4>1. cast = <<>> /\ k = base /\ k - base = 0 /\ k # base + 1
        BY <2>1, <3>3
      <4> HIDE DEF declared, cast, base, k
      <4>2. QED BY <1>3, <2>1, <3>1, <4>1, Short
    <3>4. QED BY <3>2, <3>3
  <2>3. CASE ~state
    <3>1. declared = <<x>> /\ base = 1 /\ base # 2
      BY <2>3
    <3>2. CASE path \in Converted
      <4>1. cast = <<mark(base)>> /\ k = base + 1 /\ k - base = 1
        BY <2>1, <3>2
      <4> HIDE DEF declared, cast, base, k
      <4>2. QED BY <1>3, <2>1, <3>1, <4>1, Short
    <3>3. CASE path \notin Converted
      <4>1. cast = <<>> /\ k = base /\ k - base = 0 /\ k # base + 1
        BY <2>1, <3>3
      <4> HIDE DEF declared, cast, base, k
      <4>2. QED BY <1>3, <2>1, <3>1, <4>1, Short
    <3>4. QED BY <3>2, <3>3
  <2>4. QED BY <2>2, <2>3
<1>6. /\ Calling /\ known' = known \o vs /\ ssa' = (ssa \o declared) \o cast
      /\ NewParam(path, k) /\ UNCHANGED Others
      /\ arguments' = Append(arguments, a)
      /\ IF state THEN /\ slots' = Append(slots, n + 2) /\ store' = Append(store, v)
                       /\ inputCount' = inputCount
         ELSE inputCount' = inputCount + 1 /\ UNCHANGED <<slots, store>>
  <2>1. InputNode = Node("input", <<ParameterCount>>)
    BY DEF InputNode
  <2>2. CASE state
    <3>1. known' = known \o vs /\ ssa' = (ssa \o declared) \o cast
      BY <2>2 DEF Param, n, v, x, mark, op
    <3>2. Calling /\ NewParam(path, k) /\ UNCHANGED Others
      BY <2>2 DEF Param, Succeed, runVars, Others, NewParam, n
    <3>3. /\ slots' = Append(slots, n + 2) /\ store' = Append(store, v)
          /\ inputCount' = inputCount /\ arguments' = Append(arguments, a)
      BY <2>2 DEF Param, n, v, a
    <3>4. QED BY <2>2, <3>1, <3>2, <3>3
  <2>3. CASE ~state
    BY <2>1, <2>3 DEF Param, Succeed, runVars, Others, NewParam, n, v, x, mark, op, a
  <2>4. QED BY <2>2, <2>3
<1> HIDE DEF state, base, k, declared, cast
<1>7. /\ ssa' = ssa \o xs /\ xs \in Seq(Recorded) /\ Len(xs) = k /\ xs[1] = x
      /\ \A j \in 2 .. k : xs[j] = mark(j - 1)
  <2>1. ssa' = ssa \o xs
    <3>1. ssa \in Seq(Recorded) /\ declared \in Seq(Recorded) /\ cast \in Seq(Recorded)
      BY <1>1, <1>5
    <3>2. (ssa \o declared) \o cast = ssa \o (declared \o cast)
      BY <3>1, JoinThree
    <3>3. QED BY <1>6, <3>2
  <2>2. /\ xs \in Seq(Recorded) /\ Len(xs) = base + (k - base)
        /\ \A i \in 1 .. base : xs[i] = declared[i]
        /\ \A i \in 1 .. k - base : xs[base + i] = cast[i]
    <3>1. /\ xs \in Seq(Recorded) /\ Len(xs) = Len(declared) + Len(cast)
          /\ \A i \in 1 .. Len(declared) : xs[i] = declared[i]
          /\ \A i \in 1 .. Len(cast) : xs[Len(declared) + i] = cast[i]
      <4>1. declared \in Seq(Recorded) /\ cast \in Seq(Recorded)
        BY <1>5
      <4>2. QED BY <4>1, Joined
    <3> HIDE DEF xs
    <3>2. QED BY <1>5, <3>1
  <2> HIDE DEF xs
  <2>3. Len(xs) = k /\ xs[1] = x
    BY <1>4, <1>5, <2>2
  <2>4. ASSUME NEW j \in 2 .. k PROVE xs[j] = mark(j - 1)
    <3>1. CASE j = 2 /\ base = 2
      <4>1. 2 \in 1 .. base /\ j - 1 = 1
        BY <3>1
      <4>2. xs[2] = declared[2] /\ declared[2] = mark(1)
        BY <1>5, <2>2, <3>1, <4>1
      <4>3. QED BY <3>1, <4>1, <4>2
    <3>2. CASE j = base + 1 /\ k = base + 1
      <4>1. 1 \in 1 .. k - base /\ j - 1 = base
        BY <1>4, <3>2
      <4>2. xs[base + 1] = cast[1] /\ cast[1] = mark(base)
        BY <1>5, <2>2, <3>2, <4>1
      <4>3. QED BY <3>2, <4>1, <4>2
    <3>3. (j = 2 /\ base = 2) \/ (j = base + 1 /\ k = base + 1)
      BY <1>4
    <3>4. QED BY <3>1, <3>2, <3>3
  <2>5. QED BY <2>1, <2>2, <2>3, <2>4
<1>8. vs \in Seq(Int) /\ Len(vs) = k /\ \A j \in 1 .. k : vs[j] = v
  <2>1. Len(xs) = k
    BY <1>7
  <2> HIDE DEF xs
  <2>2. vs = [i \in 1 .. k |-> v]
    BY <2>1
  <2> HIDE DEF vs
  <2>3. QED BY <1>2, <1>4, <2>2
<1> HIDE DEF xs, vs
<1>9. /\ ssa' \in Seq(Recorded) /\ Len(ssa') = n + k
      /\ known' \in Seq(Int) /\ Len(known') = n + k
      /\ \A i \in 1 .. n : ssa'[i] = ssa[i] /\ known'[i] = known[i]
      /\ \A i \in 1 .. k : ssa'[n + i] = xs[i] /\ known'[n + i] = vs[i]
  <2>1. /\ ssa' \in Seq(Recorded) /\ Len(ssa') = n + Len(xs)
        /\ known' \in Seq(Int) /\ Len(known') = n + Len(xs)
        /\ \A i \in 1 .. n : ssa'[i] = ssa[i] /\ known'[i] = known[i]
        /\ \A i \in 1 .. Len(xs) : ssa'[n + i] = xs[i] /\ known'[n + i] = vs[i]
    <3>1. /\ xs \in Seq(Recorded) /\ vs \in Seq(Int) /\ Len(vs) = Len(xs)
          /\ ssa' = ssa \o xs /\ known' = known \o vs
      BY <1>6, <1>7, <1>8
    <3>2. QED BY <3>1, More DEF n
  <2>2. QED BY <1>7, <2>1
<1>10. Declaring(k, op, a)
  <2>1. 1 \in 1 .. k /\ \A j \in 2 .. k : j \in 1 .. k
    BY <1>4
  <2>2. ssa'[n + 1] = Node(op, <<ParameterCount>>)
    BY <1>7, <1>9, <2>1 DEF x
  <2>3. \A j \in 2 .. k : ssa'[n + j] = Node("mark", <<n + j - 1>>)
    <3> SUFFICES ASSUME NEW j \in 2 .. k
                 PROVE  ssa'[n + j] = Node("mark", <<n + j - 1>>)
      OBVIOUS
    <3>1. ssa'[n + j] = xs[j] /\ xs[j] = mark(j - 1)
      BY <1>7, <1>9, <2>1
    <3>2. n + (j - 1) = n + j - 1
      BY <1>1
    <3>3. QED BY <3>1, <3>2 DEF mark
  <2>4. \A j \in 1 .. k : known'[n + j] = Supplied(a)
    BY <1>2, <1>8, <1>9
  <2>5. \/ UNCHANGED <<slots, store>> /\ ~state
        \/ NewSlot(k, Supplied(a))
    <3>1. CASE state
      <4>1. k >= 2
        BY <1>4, <3>1
      <4>2. QED BY <1>2, <1>6, <3>1, <4>1 DEF NewSlot, n
    <3>2. QED BY <1>6, <3>1
  <2>6. Converted = {} => k = 1 \/ NewSlot(k, Supplied(a))
    BY <1>4, <2>5
  <2>7. inputCount' \in Nat
    BY <1>1, <1>6
  <2>8. QED BY <1>1, <1>4, <1>6, <1>9, <2>2, <2>3, <2>4, <2>5, <2>6, <2>7 DEF Declaring, n
<1>11. QED BY <1>10, DeclaringGrows

-----------------------------------------------------------------------------
\* Writes grow the graph.

\* After e nodes that compute what is written come m nodes, one per update: its
\* slot gets that node as its version, and the number of it as its value.
Versions(e, m, up) ==
    /\ slots' \in Seq(1 .. Len(ssa')) /\ Len(slots') = Len(slots)
    /\ \A s \in 1 .. Len(slots) :
          \/ slots'[s] = slots[s] /\ \A i \in 1 .. m : up[i][1] # s
          \/ \E i \in 1 .. m : up[i][1] = s /\ slots'[s] = Len(ssa) + e + i
Stored(m, up, values) ==
    /\ store' \in Seq(Int) /\ Len(store') = Len(slots)
    /\ ~Live => store' = store
    /\ Live => \A s \in 1 .. Len(slots) :
          \/ store'[s] = store[s] /\ \A i \in 1 .. m : up[i][1] # s
          \/ \E i \in 1 .. m : up[i][1] = s /\ store'[s] = values[i]
Written(e, m, up, values) ==
    \A good : GoodNodes(good) /\ GoodState(good) /\ Live =>
        /\ \A i \in 1 .. e : Computes(ssa'[Len(ssa) + i], known'[Len(ssa) + i], known, good)
        /\ \A i \in 1 .. m :
              \/ up[i][2] \in good /\ known[up[i][2]] = values[i]
              \/ \E j \in 1 .. e : up[i][2] = Len(ssa) + j /\ known'[Len(ssa) + j] = values[i]
DistinctUpdates(m, up) == \A i, j \in 1 .. m : up[i][1] = up[j][1] => i = j
Writing(e, m, up, values) ==
    /\ Calling /\ e \in Nat /\ m \in Nat
    /\ ssa' \in Seq(Recorded) /\ Len(ssa') = Len(ssa) + e + m
    /\ known' \in Seq(Int) /\ Len(known') = Len(ssa')
    /\ \A i \in 1 .. Len(ssa) : ssa'[i] = ssa[i] /\ known'[i] = known[i]
    /\ \A i \in 1 .. e :
          /\ NodeAt(ssa'[Len(ssa) + i], Len(ssa) + i)
          /\ ssa'[Len(ssa) + i].op \in {"add", "select"} /\ ssa'[Len(ssa) + i].region = 0
    /\ \A i \in 1 .. m :
          /\ ssa'[Len(ssa) + e + i] = Node("mark", <<up[i][2]>>)
          /\ known'[Len(ssa) + e + i] = values[i] /\ up[i][2] \in 1 .. Len(ssa) + e
    /\ DistinctUpdates(m, up)
    /\ Versions(e, m, up) /\ Stored(m, up, values) /\ Written(e, m, up, values)
    /\ UNCHANGED <<arguments, inputCount, params>> /\ UNCHANGED Others

\* Writing grows the graph.
LEMMA WritingGrows ==
    ASSUME TraceTypes, NEW e, NEW m, NEW up, NEW values, Writing(e, m, up, values)
    PROVE  Grown
<1> DEFINE n == Len(ssa)
           l == n + e
<1>1. /\ n \in Nat /\ e \in Nat /\ m \in Nat /\ Len(slots) \in Nat
      /\ Len(ssa') = l + m /\ l \in Nat /\ n <= l
      /\ \A i \in 1 .. n : ssa'[i] = ssa[i] /\ known'[i] = known[i]
      /\ params \in [DOMAIN params -> 1 .. n] /\ \A s \in 1 .. Len(slots) : slots[s] \in 1 .. n
  <2>1. ssa \in Seq(Recorded) /\ slots \in Seq(1 .. n) /\ params \in [DOMAIN params -> 1 .. n]
    BY DEF TraceTypes
  <2>2. e \in Nat /\ m \in Nat /\ Len(ssa') = n + e + m
        /\ \A i \in 1 .. n : ssa'[i] = ssa[i] /\ known'[i] = known[i]
    BY DEF Writing
  <2>3. n \in Nat /\ Len(slots) \in Nat /\ \A s \in 1 .. Len(slots) : slots[s] \in 1 .. n
    BY <2>1
  <2> HIDE DEF n
  <2>4. QED BY <2>1, <2>2, <2>3
<1>2. \A i \in 1 .. m : /\ ssa'[l + i].op = "mark" /\ ssa'[l + i].args = <<up[i][2]>>
                        /\ ssa'[l + i].region = 0 /\ known'[l + i] = values[i]
                        /\ up[i][2] \in 1 .. l
  <2> SUFFICES ASSUME NEW i \in 1 .. m
               PROVE  /\ ssa'[l + i].op = "mark" /\ ssa'[l + i].args = <<up[i][2]>>
                      /\ ssa'[l + i].region = 0 /\ known'[l + i] = values[i]
                      /\ up[i][2] \in 1 .. l
    OBVIOUS
  <2>1. ssa'[l + i] = Node("mark", <<up[i][2]>>) /\ known'[l + i] = values[i]
        /\ up[i][2] \in 1 .. l
    BY DEF Writing
  <2>2. \A x : Node("mark", x).op = "mark" /\ Node("mark", x).args = x
               /\ Node("mark", x).region = 0
    BY DEF Node
  <2> HIDE DEF l
  <2>3. QED BY <2>1, <2>2
<1>3. \A i \in 1 .. e : /\ NodeAt(ssa'[n + i], n + i) /\ ssa'[n + i].op \in {"add", "select"}
                        /\ ssa'[n + i].region = 0
  BY DEF Writing
<1>4. \A i \in n + 1 .. l + m : \/ \E j \in 1 .. e : i = n + j
                                \/ \E j \in 1 .. m : i = l + j
  <2> SUFFICES ASSUME NEW i \in n + 1 .. l + m
               PROVE  (\E j \in 1 .. e : i = n + j) \/ (\E j \in 1 .. m : i = l + j)
    OBVIOUS
  <2>1. CASE i <= l
    <3>1. i - n \in 1 .. e /\ i = n + (i - n)
      BY <1>1, <2>1
    <3>2. QED BY <3>1
  <2>2. CASE i > l
    <3> HIDE DEF l, n
    <3>1. i - l \in 1 .. m /\ i = l + (i - l)
      BY <1>1, <2>2
    <3>2. QED BY <3>1
  <2>3. QED BY <1>1, <2>1, <2>2
<1> HIDE DEF n, l
<1>5. \A i \in n + 1 .. l + m :
         NodeAt(ssa'[i], i) /\ ssa'[i].op \in {"mark", "add", "select"} /\ ssa'[i].region = 0
  <2> SUFFICES ASSUME NEW i \in n + 1 .. l + m
               PROVE  /\ NodeAt(ssa'[i], i) /\ ssa'[i].op \in {"mark", "add", "select"}
                      /\ ssa'[i].region = 0
    OBVIOUS
  <2>1. ASSUME NEW j \in 1 .. e, i = n + j
        PROVE  /\ NodeAt(ssa'[i], i) /\ ssa'[i].op \in {"mark", "add", "select"}
               /\ ssa'[i].region = 0
    BY <1>3, <2>1
  <2>2. ASSUME NEW j \in 1 .. m, i = l + j
        PROVE  /\ NodeAt(ssa'[i], i) /\ ssa'[i].op \in {"mark", "add", "select"}
               /\ ssa'[i].region = 0
    <3>1. /\ ssa'[i].op = "mark" /\ ssa'[i].args = <<up[j][2]>> /\ ssa'[i].region = 0
          /\ up[j][2] \in 1 .. l
      BY <1>2, <2>2
    <3>2. up[j][2] \in 1 .. i - 1
      <4>1. l \in Nat /\ m \in Nat
        BY <1>1
      <4>2. QED BY <2>2, <3>1, <4>1
    <3>3. \A y : Len(<<y>>) = 1 /\ <<y>>[1] = y
      OBVIOUS
    <3>4. Len(ssa'[i].args) = 1 /\ ssa'[i].args[1] = up[j][2] /\ \A k \in 1 .. 1 : k = 1
      BY <3>1, <3>3
    <3>5. NodeAt(ssa'[i], i)
      BY <3>1, <3>2, <3>4 DEF NodeAt, OperandCount, AbiOps
    <3>6. QED BY <3>1, <3>5
  <2>3. QED BY <1>4, <2>1, <2>2
<1>6. Longer
  <2>1. ssa' \in Seq(Recorded) /\ known' \in Seq(Int) /\ Len(known') = Len(ssa')
    BY DEF Writing
  <2>2. n <= Len(ssa')
    BY <1>1
  <2>3. QED BY <1>1, <1>5, <2>1, <2>2 DEF Longer, n
<1>7. Declares
  <2>1. arguments' = arguments
    BY DEF Writing
  <2>2. QED BY <1>1, <1>5, <2>1 DEF Declares, AbiOps, n
<1>8. Versions(e, m, up) /\ Stored(m, up, values)
  BY DEF Writing
<1>9. VersionsMove
  <2>1. \A i \in 1 .. m : l + i > n
    BY <1>1
  <2>2. \A s \in 1 .. Len(slots) : slots'[s] = slots[s] \/ slots'[s] > n
    BY <1>8, <2>1 DEF Versions, n, l
  <2>3. QED BY <1>1, <1>8, <2>2 DEF VersionsMove, Versions, Stored, n
<1>10. ParamsMove
  <2>1. params' = params
    BY DEF Writing
  <2>2. params' \in [DOMAIN params' -> 1 .. Len(ssa')]
    BY <1>1, <2>1
  <2>3. QED BY <2>1, <2>2 DEF ParamsMove
<1>11. Taught
  <2> SUFFICES ASSUME NEW good, GoodNodes(good), GoodState(good)
               PROVE  \E new \in SUBSET (n + 1 .. l + m) : Learns(good, new)
    BY <1>1 DEF Taught, n
  <2>1. params' = params /\ \A p \in DOMAIN params : params[p] \in good
    BY DEF Writing, GoodNodes
  <2>2. \A i \in n + 1 .. Len(ssa') : ssa'[i].op \notin AbiOps
    BY <1>1, <1>5 DEF AbiOps
  <2>3. CASE ~Live
    <3>1. Learns(good, {})
      BY <2>1, <2>2, <2>3 DEF Learns, n
    <3>2. QED BY <3>1
  <2>4. CASE Live
    <3> DEFINE new == n + 1 .. l + m
               good2 == good \cup new
    <3>1. good \in SUBSET (1 .. n)
      BY DEF GoodNodes, n
    <3>2. /\ \A i \in 1 .. e : Computes(ssa'[n + i], known'[n + i], known, good)
          /\ \A i \in 1 .. m :
                \/ up[i][2] \in good /\ known[up[i][2]] = values[i]
                \/ \E j \in 1 .. e : up[i][2] = n + j /\ known'[n + j] = values[i]
      BY <2>4 DEF Writing, Written, n
    <3>3. ASSUME NEW i \in new PROVE Computes(ssa'[i], known'[i], known', good2)
      <4>1. ASSUME NEW j \in 1 .. e, i = n + j
            PROVE  Computes(ssa'[i], known'[i], known', good2)
        <5>1. Computes(ssa'[i], known'[i], known, good)
          BY <3>2, <4>1
        <5>2. good \subseteq good2
          OBVIOUS
        <5>3. \A k \in 1 .. n : known'[k] = known[k]
          BY <1>1
        <5> DEFINE x == ssa'[i]
                   v == known'[i]
        <5> HIDE DEF good2, new, x, v
        <5>4. Computes(x, v, known, good)
          BY <5>1 DEF x, v
        <5>5. Computes(x, v, known', good2)
          BY <3>1, <5>2, <5>3, <5>4, ComputesKept
        <5>6. QED BY <5>5 DEF x, v
      <4>2. ASSUME NEW j \in 1 .. m, i = l + j
            PROVE  Computes(ssa'[i], known'[i], known', good2)
        <5>1. /\ ssa'[i].op = "mark" /\ ssa'[i].args = <<up[j][2]>> /\ known'[i] = values[j]
          BY <1>2, <4>2
        <5>2. up[j][2] \in good2 /\ known'[up[j][2]] = values[j]
          <6>1. CASE up[j][2] \in good /\ known[up[j][2]] = values[j]
            <7>1. known'[up[j][2]] = known[up[j][2]]
              BY <1>1, <3>1, <6>1
            <7>2. QED BY <6>1, <7>1
          <6>2. ASSUME NEW k \in 1 .. e, up[j][2] = n + k, known'[n + k] = values[j]
                PROVE  up[j][2] \in good2 /\ known'[up[j][2]] = values[j]
            <7>1. n + k \in new
              BY <1>1 DEF l
            <7>2. QED BY <6>2, <7>1
          <6>3. QED BY <3>2, <6>1, <6>2
        <5>3. ssa'[i].args[1] = up[j][2]
          BY <5>1
        <5> HIDE DEF good2
        <5>4. QED BY <5>1, <5>2, <5>3 DEF Computes
      <4>3. QED BY <1>4, <4>1, <4>2
    <3>4. Hold(slots', store', known', good2)
      <4> SUFFICES ASSUME NEW s \in 1 .. Len(slots)
                   PROVE  slots'[s] \in good2 /\ known'[slots'[s]] = store'[s]
        BY <1>8 DEF Hold, Versions
      <4>1. CASE \A i \in 1 .. m : up[i][1] # s
        <5>1. slots'[s] = slots[s] /\ store'[s] = store[s]
          BY <1>8, <2>4, <4>1 DEF Versions, Stored
        <5>2. slots[s] \in good /\ known[slots[s]] = store[s]
          BY <2>4 DEF GoodState, Hold
        <5>3. known'[slots[s]] = known[slots[s]]
          BY <1>1
        <5>4. QED BY <5>1, <5>2, <5>3
      <4>2. ASSUME NEW i \in 1 .. m, up[i][1] = s
            PROVE  slots'[s] \in good2 /\ known'[slots'[s]] = store'[s]
        <5>1. slots'[s] = l + i
          <6>1. PICK j \in 1 .. m : up[j][1] = s /\ slots'[s] = l + j
            BY <1>8, <4>2 DEF Versions, n, l
          <6>2. i = j
            BY <4>2, <6>1 DEF Writing, DistinctUpdates
          <6>3. QED BY <6>1, <6>2
        <5>2. store'[s] = values[i]
          <6>1. PICK j \in 1 .. m : up[j][1] = s /\ store'[s] = values[j]
            BY <1>8, <2>4, <4>2 DEF Stored
          <6>2. i = j
            BY <4>2, <6>1 DEF Writing, DistinctUpdates
          <6>3. QED BY <6>1, <6>2
        <5>3. l + i \in new
          BY <1>1
        <5>4. QED BY <1>2, <5>1, <5>2, <5>3
      <4>3. QED BY <4>1, <4>2
    <3> HIDE DEF good2
    <3>5. Learns(good, new)
      BY <2>1, <2>2, <3>3, <3>4 DEF Learns, good2, n
    <3>6. QED BY <3>5
  <2>5. QED BY <2>3, <2>4
<1>12. Calling /\ inputCount' \in Nat /\ UNCHANGED Others
  BY DEF Writing, TraceTypes
<1>13. QED BY <1>6, <1>7, <1>9, <1>10, <1>11, <1>12 DEF Grown

\* What the user program passes on exists; in code that runs, it is right.
LEMMA HandleExists ==
    ASSUME TraceTypes, NEW h \in Handles
    PROVE  h \in 1 .. Len(ssa)
BY DEF Handles, TraceTypes

\* In code that is executed, what the program holds is computed right.
LEMMA HandleGood ==
    ASSUME TraceTypes, NEW h \in Handles, NEW good, GoodNodes(good), GoodState(good), Live
    PROVE  h \in good
<1>1. CASE ssa[h].op = "input"
  <2>1. h \in 1 .. Len(ssa) /\ ssa \in Seq(Recorded)
    BY HandleExists DEF TraceTypes
  <2>2. h \in AbiNodes(ssa)
    BY <1>1, <2>1 DEF AbiNodes, AbiOps
  <2>3. QED BY <2>2 DEF GoodNodes
<1>2. CASE h \in Range(slots)
  <2>1. slots \in Seq(1 .. Len(ssa))
    BY DEF TraceTypes
  <2>2. PICK s \in DOMAIN slots : slots[s] = h
    BY <1>2 DEF Range
  <2>3. s \in 1 .. Len(slots)
    BY <2>1, <2>2
  <2>4. QED BY <2>2, <2>3 DEF GoodState, Hold
<1>3. CASE \E p \in DOMAIN params : params[p] = h
  BY <1>3 DEF GoodNodes
<1>4. QED BY <1>1, <1>2, <1>3 DEF Handles

\* The updates the program asks for are one or two, of slots and values that exist.
LEMMA UpdateForm ==
    ASSUME TraceTypes, NEW u \in Updates
    PROVE  /\ Len(u) \in {1, 2} /\ Len(u) \in Nat /\ DOMAIN u = 1 .. Len(u)
           /\ \A i \in 1 .. Len(u) : u[i][1] \in 1 .. Len(slots) /\ u[i][2] \in 1 .. Len(ssa)
           /\ \A good : GoodNodes(good) /\ GoodState(good) /\ Live =>
                 \A i \in 1 .. Len(u) : u[i][2] \in good
<1>1. slots \in Seq(1 .. Len(ssa)) /\ DOMAIN slots = 1 .. Len(slots)
      /\ \A s \in 1 .. Len(slots) : slots[s] \in 1 .. Len(ssa)
  <2>1. slots \in Seq(1 .. Len(ssa))
    BY DEF TraceTypes
  <2>2. QED BY <2>1
<1>2. \A x : Len(<<x>>) = 1 /\ <<x>>[1] = x /\ DOMAIN <<x>> = 1 .. 1
  OBVIOUS
<1>3. \A x, y : /\ Len(<<x, y>>) = 2 /\ <<x, y>>[1] = x /\ <<x, y>>[2] = y
                /\ DOMAIN <<x, y>> = 1 .. 2
  OBVIOUS
<1>4. \A good : GoodNodes(good) /\ GoodState(good) /\ Live =>
                 \A s \in 1 .. Len(slots) : slots[s] \in good
  BY DEF GoodState, Hold
<1>5. \A i : (i \in 1 .. 1 <=> i = 1) /\ (i \in 1 .. 2 <=> i \in {1, 2})
  OBVIOUS
<1>6. ASSUME NEW s \in DOMAIN slots, NEW h \in Handles, u = <<<<s, h>>>>
      PROVE  /\ Len(u) \in {1, 2} /\ Len(u) \in Nat /\ DOMAIN u = 1 .. Len(u)
             /\ \A i \in 1 .. Len(u) : u[i][1] \in 1 .. Len(slots) /\ u[i][2] \in 1 .. Len(ssa)
             /\ \A good : GoodNodes(good) /\ GoodState(good) /\ Live =>
                   \A i \in 1 .. Len(u) : u[i][2] \in good
  <2>1. Len(u) = 1 /\ DOMAIN u = 1 .. 1 /\ u[1][1] = s /\ u[1][2] = h
    BY <1>2, <1>3, <1>6
  <2>2. h \in 1 .. Len(ssa)
    BY HandleExists
  <2>3. \A good : GoodNodes(good) /\ GoodState(good) /\ Live => h \in good
    BY HandleGood
  <2>4. QED BY <1>1, <1>5, <2>1, <2>2, <2>3
<1>7. ASSUME NEW s \in DOMAIN slots, NEW t \in DOMAIN slots,
             u = <<<<s, slots[t]>>, <<t, slots[s]>>>>
      PROVE  /\ Len(u) \in {1, 2} /\ Len(u) \in Nat /\ DOMAIN u = 1 .. Len(u)
             /\ \A i \in 1 .. Len(u) : u[i][1] \in 1 .. Len(slots) /\ u[i][2] \in 1 .. Len(ssa)
             /\ \A good : GoodNodes(good) /\ GoodState(good) /\ Live =>
                   \A i \in 1 .. Len(u) : u[i][2] \in good
  <2>1. Len(u) = 2 /\ DOMAIN u = 1 .. 2 /\ u[1][1] = s /\ u[1][2] = slots[t]
        /\ u[2][1] = t /\ u[2][2] = slots[s]
    BY <1>3, <1>7
  <2>2. QED BY <1>1, <1>4, <1>5, <2>1
<1>8. QED BY <1>6, <1>7 DEF Updates

OneOrTwo(u) == Len(u) \in {1, 2} /\ DOMAIN u = 1 .. Len(u)
\* What the code checks is that no two updates name the same slot.
LEMMA DistinctRight ==
    ASSUME NEW u, OneOrTwo(u), DistinctSlots(u)
    PROVE  DistinctUpdates(Len(u), u)
<1>0. Len(u) \in {1, 2} /\ DOMAIN u = 1 .. Len(u)
  BY DEF OneOrTwo
<1>1. CASE Len(u) = 1
  BY <1>1 DEF DistinctUpdates
<1>2. CASE Len(u) = 2
  <2>1. u[1][1] # u[2][1]
    <3>1. SUFFICES ASSUME u[1][1] = u[2][1] PROVE FALSE
      OBVIOUS
    <3>2. \A i \in 1 .. 2 : i = 1 \/ i = 2
      OBVIOUS
    <3>3. {u[i][1] : i \in 1 .. 2} = {u[1][1]}
      BY <3>1, <3>2
    <3>4. {u[i][1] : i \in DOMAIN u} = {u[1][1]}
      BY <1>0, <1>2, <3>3
    <3>5. Cardinality({u[1][1]}) = 1
      BY FS_Singleton
    <3>6. QED BY <1>2, <3>4, <3>5 DEF DistinctSlots
  <2>2. \A i \in 1 .. 2 : i = 1 \/ i = 2
    OBVIOUS
  <2>3. QED BY <1>2, <2>1, <2>2 DEF DistinctUpdates
<1>3. QED BY <1>0, <1>1, <1>2

\* A function of an interval is a sequence.
LEMMA Tabulated ==
    ASSUME NEW S, NEW m \in Nat, NEW f, f = [i \in 1 .. m |-> f[i]], \A i \in 1 .. m : f[i] \in S
    PROVE  f \in Seq(S) /\ Len(f) = m
OBVIOUS

\* What record_updates does.
Recording(extra, all, m, up) ==
    /\ extra \in Seq(Recorded) /\ all \in Seq(Int) /\ m \in Nat /\ Len(all) = Len(extra) + m
    /\ DOMAIN up = 1 .. m /\ \A i \in 1 .. m : up[i][2] \in 1 .. Len(ssa) + Len(extra)
    /\ Record(extra, up) /\ known' = known \o all
Lengthened(extra, all, m, up) ==
    /\ Len(extra) \in Nat
    /\ ssa' \in Seq(Recorded) /\ Len(ssa') = Len(ssa) + Len(extra) + m
    /\ known' \in Seq(Int) /\ Len(known') = Len(ssa')
    /\ \A i \in 1 .. Len(ssa) : ssa'[i] = ssa[i] /\ known'[i] = known[i]
    /\ \A i \in 1 .. Len(extra) :
          ssa'[Len(ssa) + i] = extra[i] /\ known'[Len(ssa) + i] = all[i]
    /\ \A i \in 1 .. m :
          /\ ssa'[Len(ssa) + Len(extra) + i] = Node("mark", <<up[i][2]>>)
          /\ known'[Len(ssa) + Len(extra) + i] = all[Len(extra) + i]
    /\ Versions(Len(extra), m, up)
\* It appends one node per update and makes it the slot's version.
LEMMA RecordWrites ==
    ASSUME TraceTypes, NEW extra, NEW all, NEW m, NEW up, Recording(extra, all, m, up)
    PROVE  Lengthened(extra, all, m, up)
<1> DEFINE n == Len(ssa)
           e == Len(extra)
           marking == [i \in DOMAIN up |-> Node("mark", <<up[i][2]>>)]
           xs == extra \o marking
<1>0. /\ extra \in Seq(Recorded) /\ all \in Seq(Int) /\ m \in Nat /\ Len(all) = Len(extra) + m
      /\ DOMAIN up = 1 .. m /\ \A i \in 1 .. m : up[i][2] \in 1 .. Len(ssa) + Len(extra)
      /\ Record(extra, up) /\ known' = known \o all
  BY DEF Recording
<1>1. n \in Nat /\ e \in Nat /\ ssa \in Seq(Recorded) /\ slots \in Seq(1 .. n)
  BY <1>0 DEF TraceTypes
<1>2. marking \in Seq(Recorded) /\ Len(marking) = m
      /\ \A i \in 1 .. m : marking[i] = Node("mark", <<up[i][2]>>)
  <2>1. \A i \in 1 .. m : up[i][2] \in Nat
    BY <1>0, <1>1
  <2>2. \A i \in 1 .. m : Node("mark", <<up[i][2]>>) \in Recorded
    BY <1>0, <2>1, MarkNode
  <2>3. marking = [i \in 1 .. m |-> Node("mark", <<up[i][2]>>)]
    BY <1>0
  <2> HIDE DEF marking
  <2>4. \A i \in 1 .. m : marking[i] = Node("mark", <<up[i][2]>>)
    BY <1>0, <2>3
  <2>5. marking = [i \in 1 .. m |-> marking[i]] /\ \A i \in 1 .. m : marking[i] \in Recorded
    BY <1>0, <2>2, <2>3, <2>4
  <2>6. marking \in Seq(Recorded) /\ Len(marking) = m
    BY <1>0, <2>5, Tabulated
  <2>7. QED BY <1>0, <2>4, <2>6
<1>3. ssa' = (ssa \o extra) \o marking
  BY <1>0 DEF Record
<1>4. ssa' = ssa \o xs
  <2> HIDE DEF marking
  <2>1. ssa \in Seq(Recorded) /\ extra \in Seq(Recorded) /\ marking \in Seq(Recorded)
    BY <1>0, <1>1, <1>2
  <2>2. (ssa \o extra) \o marking = ssa \o (extra \o marking)
    BY <2>1, JoinThree
  <2>3. QED BY <1>0, <1>3, <2>2
<1>5. /\ xs \in Seq(Recorded) /\ Len(xs) = e + m
      /\ \A i \in 1 .. e : xs[i] = extra[i]
      /\ \A i \in 1 .. m : xs[e + i] = marking[i]
  <2> HIDE DEF marking
  <2>1. /\ xs \in Seq(Recorded) /\ Len(xs) = Len(extra) + Len(marking)
        /\ \A i \in 1 .. Len(extra) : xs[i] = extra[i]
        /\ \A i \in 1 .. Len(marking) : xs[Len(extra) + i] = marking[i]
    <3>1. extra \in Seq(Recorded) /\ marking \in Seq(Recorded)
      BY <1>0, <1>2
    <3>2. QED BY <1>0, <3>1, Joined
  <2> HIDE DEF xs
  <2>2. QED BY <1>0, <1>2, <2>1
<1>6. /\ ssa' \in Seq(Recorded) /\ Len(ssa') = n + (e + m)
      /\ known' \in Seq(Int) /\ Len(known') = n + (e + m)
      /\ \A i \in 1 .. n : ssa'[i] = ssa[i] /\ known'[i] = known[i]
      /\ \A i \in 1 .. e + m : ssa'[n + i] = xs[i] /\ known'[n + i] = all[i]
  <2>1. Len(all) = Len(xs)
    BY <1>0, <1>5
  <2> HIDE DEF xs
  <2>2. /\ ssa' \in Seq(Recorded) /\ Len(ssa') = n + Len(xs)
        /\ known' \in Seq(Int) /\ Len(known') = n + Len(xs)
        /\ \A i \in 1 .. n : ssa'[i] = ssa[i] /\ known'[i] = known[i]
        /\ \A i \in 1 .. Len(xs) : ssa'[n + i] = xs[i] /\ known'[n + i] = all[i]
    BY <1>0, <1>4, <1>5, <2>1, More
  <2>3. QED BY <1>0, <1>5, <2>2
<1> HIDE DEF n, e, marking, xs
<1>7. /\ Len(ssa') = n + e + m
      /\ \A i \in 1 .. e : ssa'[n + i] = extra[i] /\ known'[n + i] = all[i]
      /\ \A i \in 1 .. m : /\ ssa'[n + e + i] = Node("mark", <<up[i][2]>>)
                           /\ known'[n + e + i] = all[e + i]
  <2>1. n + (e + m) = n + e + m
    BY <1>0, <1>1
  <2>2. \A i \in 1 .. e : i \in 1 .. e + m
    BY <1>0, <1>1
  <2>3. \A i \in 1 .. m : e + i \in 1 .. e + m /\ n + (e + i) = n + e + i
    BY <1>0, <1>1
  <2>4. \A i \in 1 .. m : /\ ssa'[n + e + i] = Node("mark", <<up[i][2]>>)
                          /\ known'[n + e + i] = all[e + i]
    <3> SUFFICES ASSUME NEW i \in 1 .. m
                 PROVE  /\ ssa'[n + e + i] = Node("mark", <<up[i][2]>>)
                        /\ known'[n + e + i] = all[e + i]
      BY <1>0
    <3>1. ssa'[n + (e + i)] = xs[e + i] /\ known'[n + (e + i)] = all[e + i]
      BY <1>0, <1>6, <2>3
    <3>2. xs[e + i] = Node("mark", <<up[i][2]>>)
      BY <1>0, <1>2, <1>5
    <3>3. QED BY <1>0, <2>3, <3>1, <3>2
  <2>5. QED BY <1>0, <1>5, <1>6, <2>1, <2>2, <2>4
<1>8. Versions(e, m, up)
  <2> DEFINE newest(s) == {i \in DOMAIN up : up[i][1] = s}
             pick(s) == CHOOSE i \in newest(s) : TRUE
  <2>1. slots' = [s \in 1 .. Len(slots) |->
                    IF newest(s) = {} THEN slots[s] ELSE n + e + pick(s)]
    <3>1. DOMAIN slots = 1 .. Len(slots)
      BY <1>0, <1>1
    <3>2. QED BY <1>0, <3>1 DEF Record, n, e
  <2>2. \A s : newest(s) # {} => pick(s) \in 1 .. m /\ up[pick(s)][1] = s
    <3>1. \A s : newest(s) # {} => pick(s) \in newest(s)
      BY <1>0
    <3>2. QED BY <1>0, <3>1
  <2>3. \A s : newest(s) = {} => \A i \in 1 .. m : up[i][1] # s
    BY <1>0
  <2> HIDE DEF newest, pick
  <2>4. Len(slots) \in Nat /\ \A s \in 1 .. Len(slots) : slots[s] \in 1 .. n + e + m
    BY <1>0, <1>1
  <2>5. \A s \in 1 .. Len(slots) :
           slots'[s] = IF newest(s) = {} THEN slots[s] ELSE n + e + pick(s)
    BY <1>0, <2>1
  <2>6. \A i \in 1 .. m : n + e + i \in 1 .. n + e + m
    BY <1>0, <1>1
  <2>7. \A s \in 1 .. Len(slots) : slots'[s] \in 1 .. n + e + m
    BY <1>0, <2>2, <2>4, <2>5, <2>6
  <2>8. slots' \in Seq(1 .. n + e + m) /\ Len(slots') = Len(slots)
    <3>1. slots' = [s \in 1 .. Len(slots) |-> slots'[s]]
      BY <1>0, <2>1
    <3> DEFINE W == 1 .. n + e + m
    <3>2. \A s \in 1 .. Len(slots) : slots'[s] \in W
      BY <1>0, <2>7
    <3> HIDE DEF W
    <3>3. slots' \in Seq(W) /\ Len(slots') = Len(slots)
      BY <1>0, <2>4, <3>1, <3>2, Tabulated
    <3>4. QED BY <1>0, <3>3 DEF W
  <2>9. \A s \in 1 .. Len(slots) :
           \/ slots'[s] = slots[s] /\ \A i \in 1 .. m : up[i][1] # s
           \/ \E i \in 1 .. m : up[i][1] = s /\ slots'[s] = n + e + i
    BY <1>0, <2>2, <2>3, <2>5
  <2>10. QED BY <1>0, <1>7, <2>8, <2>9 DEF Versions, n
<1>9. Len(known') = Len(ssa')
  BY <1>0, <1>6
<1>10. QED BY <1>0, <1>1, <1>6, <1>7, <1>8, <1>9 DEF Lengthened, n, e

\* What the reference interpreter does.
LEMMA StoreAllStores ==
    ASSUME TraceTypes, NEW m \in Nat, NEW u, DOMAIN u = 1 .. m, NEW values,
           \A i \in 1 .. m : values[i] \in Int,
           NEW up, \A i \in 1 .. m : up[i][1] = u[i][1], StoreAll(u, values)
    PROVE  Stored(m, up, values)
<1>1. store \in Seq(Int) /\ Len(store) = Len(slots) /\ DOMAIN store = 1 .. Len(slots)
      /\ Len(slots) \in Nat
  <2>1. store \in Seq(Int) /\ Len(store) = Len(slots)
    BY DEF TraceTypes
  <2>2. DOMAIN store = 1 .. Len(store) /\ Len(store) \in Nat
    BY <2>1
  <2>3. QED BY <2>1, <2>2
<1>2. CASE ~Live
  BY <1>1, <1>2 DEF StoreAll, Stored
<1>3. CASE Live
  <2> DEFINE hit(s) == \E i \in DOMAIN u : u[i][1] = s
             pick(s) == CHOOSE i \in DOMAIN u : u[i][1] = s
  <2>1. store' = [s \in 1 .. Len(slots) |-> IF hit(s) THEN values[pick(s)] ELSE store[s]]
    BY <1>1, <1>3 DEF StoreAll
  <2>2. \A s : hit(s) => pick(s) \in 1 .. m /\ up[pick(s)][1] = s
    <3>1. \A s : hit(s) => pick(s) \in DOMAIN u /\ u[pick(s)][1] = s
      OBVIOUS
    <3>2. QED BY <3>1
  <2>3. \A s : ~hit(s) => \A i \in 1 .. m : up[i][1] # s
    OBVIOUS
  <2> HIDE DEF hit, pick
  <2>4. \A s \in 1 .. Len(slots) : store'[s] = IF hit(s) THEN values[pick(s)] ELSE store[s]
    BY <2>1
  <2>5. \A s \in 1 .. Len(slots) : store[s] \in Int
    BY <1>1
  <2>6. \A s \in 1 .. Len(slots) : store'[s] \in Int
    BY <2>2, <2>4, <2>5
  <2>7. store' \in Seq(Int) /\ Len(store') = Len(slots)
    <3>1. store' = [s \in 1 .. Len(slots) |-> store'[s]]
      BY <2>1
    <3>2. QED BY <1>1, <2>6, <3>1
  <2>8. \A s \in 1 .. Len(slots) :
           \/ store'[s] = store[s] /\ \A i \in 1 .. m : up[i][1] # s
           \/ \E i \in 1 .. m : up[i][1] = s /\ store'[s] = values[i]
    BY <2>2, <2>3, <2>4
  <2>9. QED BY <1>3, <2>7, <2>8 DEF Stored
<1>4. QED BY <1>2, <1>3

\* A selection of earlier nodes.
LEMMA SelectNode ==
    ASSUME NEW x, NEW i, x.op = "select", Len(x.args) = 3, \A k \in 1 .. 3 : x.args[k] \in 1 .. i - 1
    PROVE  NodeAt(x, i)
<1>1. OperandCount(x.op) = 3
  BY DEF OperandCount, AbiOps
<1>2. QED BY <1>1 DEF NodeAt

\* write and write_many grow the graph,
LEMMA WriteManyGrows ==
    ASSUME TraceTypes, NEW u \in Updates, WriteMany(u), DistinctSlots(u)
    PROVE  Grown
<1> DEFINE n == Len(ssa)
           m == Len(u)
           values == [i \in DOMAIN u |-> known[u[i][2]]]
<1>1. /\ m \in {1, 2} /\ m \in Nat /\ DOMAIN u = 1 .. m
      /\ \A i \in 1 .. m : u[i][1] \in 1 .. Len(slots) /\ u[i][2] \in 1 .. n
      /\ \A good : GoodNodes(good) /\ GoodState(good) /\ Live =>
            \A i \in 1 .. m : u[i][2] \in good
  BY UpdateForm
<1>2. n \in Nat /\ \A i \in 1 .. n : known[i] \in Int
  BY DEF TraceTypes
<1>3. /\ Calling /\ Record(<<>>, u) /\ known' = known \o values /\ StoreAll(u, values)
      /\ UNCHANGED <<arguments, inputCount, params>> /\ UNCHANGED Others
  BY DEF WriteMany, Succeed, runVars, Others
<1>4. values = [i \in 1 .. m |-> known[u[i][2]]]
  BY <1>1
<1> HIDE DEF values, n, m
<1>5. \A i \in 1 .. m : values[i] = known[u[i][2]] /\ values[i] \in Int
  BY <1>1, <1>2, <1>4
<1>6. values \in Seq(Int) /\ Len(values) = m
  <2>1. values = [i \in 1 .. m |-> values[i]]
    BY <1>4
  <2>2. QED BY <1>1, <1>5, <2>1
<1> DEFINE none == <<>>
<1>7. none \in Seq(Recorded) /\ Len(none) = 0
  OBVIOUS
<1>8. Record(none, u)
  BY <1>3
<1> HIDE DEF none
<1>9. /\ ssa' \in Seq(Recorded) /\ Len(ssa') = n + 0 + m
      /\ known' \in Seq(Int) /\ Len(known') = Len(ssa')
      /\ \A i \in 1 .. n : ssa'[i] = ssa[i] /\ known'[i] = known[i]
      /\ \A i \in 1 .. m : /\ ssa'[n + 0 + i] = Node("mark", <<u[i][2]>>)
                           /\ known'[n + 0 + i] = values[0 + i]
      /\ Versions(0, m, u)
  <2>1. Len(values) = Len(none) + m
    BY <1>1, <1>6, <1>7
  <2>2. \A i \in 1 .. m : u[i][2] \in 1 .. n + Len(none)
    BY <1>1, <1>2, <1>7
  <2>3. /\ ssa' \in Seq(Recorded) /\ Len(ssa') = n + Len(none) + m
        /\ known' \in Seq(Int) /\ Len(known') = Len(ssa')
        /\ \A i \in 1 .. n : ssa'[i] = ssa[i] /\ known'[i] = known[i]
        /\ \A i \in 1 .. m : /\ ssa'[n + Len(none) + i] = Node("mark", <<u[i][2]>>)
                             /\ known'[n + Len(none) + i] = values[Len(none) + i]
        /\ Versions(Len(none), m, u)
    <3>1. Recording(none, values, m, u)
      BY <1>1, <1>3, <1>6, <1>7, <1>8, <2>1, <2>2 DEF Recording, n
    <3>2. Lengthened(none, values, m, u)
      BY <3>1, RecordWrites
    <3>3. QED BY <3>2 DEF Lengthened, n
  <2>4. QED BY <1>7, <2>3
<1>10. Stored(m, u, values)
  BY <1>1, <1>3, <1>5, StoreAllStores
<1>11. Written(0, m, u, values)
  <2>1. \A i \in 1 .. 0 : FALSE
    OBVIOUS
  <2>2. QED BY <1>1, <1>5, <2>1 DEF Written
<1>12. DistinctUpdates(m, u)
  <2>1. OneOrTwo(u)
    BY <1>1 DEF OneOrTwo, m
  <2>2. DistinctUpdates(Len(u), u)
    BY <2>1, DistinctRight
  <2>3. QED BY <2>2 DEF m
<1>13. Writing(0, m, u, values)
  <2>1. \A i \in 1 .. 0 : FALSE
    OBVIOUS
  <2>2. \A i \in 1 .. m : 0 + i = i /\ u[i][2] \in 1 .. n + 0
    BY <1>1, <1>2
  <2>3. QED BY <1>1, <1>3, <1>9, <1>10, <1>11, <1>12, <2>1, <2>2 DEF Writing, n
<1>14. QED BY <1>13, WritingGrows

\* and write_many_if, whose selections read the versions of before the call,
LEMMA WriteManyIfGrows ==
    ASSUME TraceTypes, NEW u \in Updates, WriteManyIf(u), DistinctSlots(u)
    PROVE  Grown
<1> DEFINE n == Len(ssa)
           m == Len(u)
           select(i) == Node("select", <<2, u[i][2], slots[u[i][1]]>>)
           kept(i) == IF mask # 0 THEN known[u[i][2]] ELSE store[u[i][1]]
           values == [i \in DOMAIN u |-> kept(i)]
           extra == [i \in DOMAIN u |-> select(i)]
           up == [i \in DOMAIN u |-> <<u[i][1], n + i>>]
           all == [i \in 1 .. 2 * m |-> kept(((i - 1) % m) + 1)]
<1>1. /\ m \in {1, 2} /\ m \in Nat /\ DOMAIN u = 1 .. m
      /\ \A i \in 1 .. m : u[i][1] \in 1 .. Len(slots) /\ u[i][2] \in 1 .. n
      /\ \A good : GoodNodes(good) /\ GoodState(good) /\ Live =>
            \A i \in 1 .. m : u[i][2] \in good
  BY UpdateForm
<1>2. n \in Nat /\ n >= 2 /\ (\A i \in 1 .. n : known[i] \in Int)
      /\ (\A s \in 1 .. Len(slots) : slots[s] \in 1 .. n /\ store[s] \in Int)
  <2>1. /\ ssa \in Seq(Recorded) /\ n >= 2 /\ known \in Seq(Int) /\ Len(known) = n
        /\ slots \in Seq(1 .. n) /\ store \in Seq(Int) /\ Len(store) = Len(slots)
    BY DEF TraceTypes
  <2> HIDE DEF n
  <2>2. n \in Nat
    BY <2>1 DEF n
  <2>3. QED BY <2>1, <2>2
<1>3. /\ Calling /\ Record(extra, up) /\ known' = known \o all /\ StoreAll(u, values)
      /\ UNCHANGED <<arguments, inputCount, params>> /\ UNCHANGED Others
  BY DEF WriteManyIf, Succeed, runVars, Others
<1>4. \A i \in 1 .. m : kept(i) \in Int
  BY <1>1, <1>2
<1>5. /\ DOMAIN up = 1 .. m /\ values = [i \in 1 .. m |-> kept(i)]
      /\ extra = [i \in 1 .. m |-> select(i)]
      /\ \A i \in 1 .. m : /\ up[i][1] = u[i][1] /\ up[i][2] = n + i
                           /\ values[i] = kept(i) /\ extra[i] = select(i)
  <2> HIDE DEF kept, select
  <2>1. QED BY <1>1
<1>6. \A i \in 1 .. m : select(i) \in Recorded
  <2> SUFFICES ASSUME NEW i \in 1 .. m PROVE select(i) \in Recorded
    OBVIOUS
  <2>1. <<2, u[i][2], slots[u[i][1]]>> \in Seq(Nat)
    BY <1>1, <1>2
  <2>2. "select" \in Operations
    BY DEF Operations
  <2>3. QED BY <2>1, <2>2, NodeRecorded
<1>7. /\ all \in Seq(Int) /\ Len(all) = 2 * m
      /\ \A i \in 1 .. m : all[i] = kept(i) /\ all[m + i] = kept(i)
  <2> HIDE DEF kept
  <2>1. CASE m = 1
    <3>1. all = [i \in 1 .. 2 |-> kept(((i - 1) % 1) + 1)]
      BY <2>1
    <3>2. (1 - 1) % 1 = 0 /\ (2 - 1) % 1 = 0 /\ \A i \in 1 .. 2 : i = 1 \/ i = 2
      OBVIOUS
    <3> HIDE DEF all, m
    <3>3. all[1] = kept(1) /\ all[2] = kept(1)
      BY <3>1, <3>2
    <3>4. \A i \in 1 .. 2 : all[i] \in Int
      BY <1>4, <2>1, <3>2, <3>3
    <3>5. all = [i \in 1 .. 2 |-> all[i]]
      BY <3>1
    <3>6. all \in Seq(Int) /\ Len(all) = 2
      BY <3>4, <3>5
    <3>7. \A i \in 1 .. 1 : i = 1
      OBVIOUS
    <3>8. QED BY <2>1, <3>3, <3>6, <3>7
  <2>2. CASE m = 2
    <3>1. all = [i \in 1 .. 4 |-> kept(((i - 1) % 2) + 1)]
      BY <2>2
    <3>2. /\ (1 - 1) % 2 = 0 /\ (2 - 1) % 2 = 1 /\ (3 - 1) % 2 = 0 /\ (4 - 1) % 2 = 1
          /\ \A i \in 1 .. 4 : i \in {1, 2, 3, 4}
      OBVIOUS
    <3> HIDE DEF all, m
    <3>3. all[1] = kept(1) /\ all[2] = kept(2) /\ all[3] = kept(1) /\ all[4] = kept(2)
      BY <3>1, <3>2
    <3>4. \A i \in 1 .. 4 : all[i] \in Int
      BY <1>4, <2>2, <3>2, <3>3
    <3>5. all = [i \in 1 .. 4 |-> all[i]]
      BY <3>1
    <3>6. all \in Seq(Int) /\ Len(all) = 4
      BY <3>4, <3>5
    <3>7. \A i \in 1 .. 2 : i = 1 \/ i = 2
      OBVIOUS
    <3>8. QED BY <2>2, <3>3, <3>6, <3>7
  <2>3. QED BY <1>1, <2>1, <2>2
<1>8. extra \in Seq(Recorded) /\ Len(extra) = m
  <2>1. extra = [i \in 1 .. m |-> extra[i]] /\ \A i \in 1 .. m : extra[i] \in Recorded
    BY <1>5, <1>6
  <2> HIDE DEF extra, m
  <2>2. QED BY <1>1, <2>1, Tabulated
<1>9. \A i \in 1 .. m : /\ select(i).op = "select" /\ select(i).region = 0
                        /\ select(i).args = <<2, u[i][2], slots[u[i][1]]>>
  BY DEF Node
<1> HIDE DEF values, n, m, extra, up, all, select
<1>10. /\ ssa' \in Seq(Recorded) /\ Len(ssa') = n + m + m
       /\ known' \in Seq(Int) /\ Len(known') = Len(ssa')
       /\ \A i \in 1 .. n : ssa'[i] = ssa[i] /\ known'[i] = known[i]
       /\ \A i \in 1 .. m : ssa'[n + i] = extra[i] /\ known'[n + i] = all[i]
       /\ \A i \in 1 .. m : /\ ssa'[n + m + i] = Node("mark", <<up[i][2]>>)
                            /\ known'[n + m + i] = all[m + i]
       /\ Versions(m, m, up)
  <2>1. Len(all) = Len(extra) + m
    BY <1>1, <1>7, <1>8
  <2>2. \A i \in 1 .. m : up[i][2] \in 1 .. n + Len(extra)
    BY <1>1, <1>2, <1>5, <1>8
  <2>3. /\ ssa' \in Seq(Recorded) /\ Len(ssa') = n + Len(extra) + m
        /\ known' \in Seq(Int) /\ Len(known') = Len(ssa')
        /\ \A i \in 1 .. n : ssa'[i] = ssa[i] /\ known'[i] = known[i]
        /\ \A i \in 1 .. Len(extra) : ssa'[n + i] = extra[i] /\ known'[n + i] = all[i]
        /\ \A i \in 1 .. m : /\ ssa'[n + Len(extra) + i] = Node("mark", <<up[i][2]>>)
                             /\ known'[n + Len(extra) + i] = all[Len(extra) + i]
        /\ Versions(Len(extra), m, up)
    <3>1. Recording(extra, all, m, up)
      BY <1>1, <1>3, <1>5, <1>7, <1>8, <2>1, <2>2 DEF Recording, n
    <3>2. Lengthened(extra, all, m, up)
      BY <3>1, RecordWrites
    <3>3. QED BY <3>2 DEF Lengthened, n
  <2>4. QED BY <1>8, <2>3
<1>11. \A i \in 1 .. m : values[i] \in Int
  BY <1>4, <1>5
<1>12. Stored(m, up, values)
  <2>1. /\ m \in Nat /\ DOMAIN u = 1 .. m /\ StoreAll(u, values)
        /\ \A i \in 1 .. m : up[i][1] = u[i][1]
    BY <1>1, <1>3, <1>5
  <2>2. QED BY <1>11, <2>1, StoreAllStores
<1>13. \A i \in 1 .. m : /\ ssa'[n + i].op = "select" /\ ssa'[n + i].region = 0
                         /\ ssa'[n + i].args = <<2, u[i][2], slots[u[i][1]]>>
                         /\ known'[n + i] = kept(i) /\ known'[n + m + i] = values[i]
                         /\ values[i] = kept(i)
  <2>1. \A i \in 1 .. m : ssa'[n + i] = select(i) /\ known'[n + i] = kept(i)
                           /\ known'[n + m + i] = values[i] /\ values[i] = kept(i)
    BY <1>5, <1>7, <1>10
  <2>2. QED BY <1>9, <2>1
<1>14. \A i \in 1 .. m : NodeAt(ssa'[n + i], n + i)
  <2> SUFFICES ASSUME NEW i \in 1 .. m PROVE NodeAt(ssa'[n + i], n + i)
    OBVIOUS
  <2> DEFINE x == ssa'[n + i]
             j == n + i
             y == u[i][2]
             z == slots[u[i][1]]
  <2>1. x.args = <<2, y, z>> /\ x.op = "select"
    BY <1>13
  <2>2. 2 \in 1 .. j - 1 /\ y \in 1 .. j - 1 /\ z \in 1 .. j - 1
    BY <1>1, <1>2
  <2> HIDE DEF x, j, y, z
  <2>3. Len(x.args) = 3 /\ x.args[1] = 2 /\ x.args[2] = y /\ x.args[3] = z
    <3>1. /\ Len(<<2, y, z>>) = 3 /\ <<2, y, z>>[1] = 2 /\ <<2, y, z>>[2] = y
          /\ <<2, y, z>>[3] = z
      OBVIOUS
    <3>2. QED BY <2>1, <3>1
  <2>4. \A k \in 1 .. 3 : k \in {1, 2, 3}
    OBVIOUS
  <2>5. \A k \in 1 .. 3 : x.args[k] \in 1 .. j - 1
    BY <2>2, <2>3, <2>4
  <2>6. NodeAt(x, j)
    BY <2>1, <2>3, <2>5, SelectNode
  <2>7. QED BY <2>6 DEF x, j
<1>15. Written(m, m, up, values)
  <2> SUFFICES ASSUME NEW good, GoodNodes(good), GoodState(good), Live, NEW i \in 1 .. m
               PROVE  /\ Computes(ssa'[n + i], known'[n + i], known, good)
                      /\ up[i][2] = n + i /\ known'[n + i] = values[i]
    BY DEF Written, n
  <2>1. 2 \in good /\ known[2] = mask
    BY DEF GoodNodes
  <2>2. u[i][2] \in good /\ slots[u[i][1]] \in good /\ known[slots[u[i][1]]] = store[u[i][1]]
    BY <1>1 DEF GoodState, Hold
  <2> DEFINE a == ssa'[n + i].args
             taken == IF known[a[1]] # 0 THEN a[2] ELSE a[3]
  <2>3. a = <<2, u[i][2], slots[u[i][1]]>>
    BY <1>13
  <2>4. a[1] = 2 /\ a[2] = u[i][2] /\ a[3] = slots[u[i][1]]
    <3> HIDE DEF a
    <3>1. QED BY <2>3
  <2>5. taken \in good /\ kept(i) = known[taken] /\ a[1] \in good
    <3> HIDE DEF a
    <3>1. CASE mask # 0
      BY <2>1, <2>2, <2>4, <3>1
    <3>2. CASE mask = 0
      BY <2>1, <2>2, <2>4, <3>2
    <3>3. QED BY <3>1, <3>2
  <2> HIDE DEF kept
  <2>6. Computes(ssa'[n + i], known'[n + i], known, good)
    BY <1>13, <2>5 DEF Computes
  <2>7. QED BY <1>5, <1>13, <2>6
<1>16. DistinctUpdates(m, up)
  <2>1. DistinctUpdates(m, u)
    <3>1. OneOrTwo(u)
      BY <1>1 DEF OneOrTwo, m
    <3>2. DistinctUpdates(Len(u), u)
      BY <3>1, DistinctRight
    <3>3. QED BY <3>2 DEF m
  <2>2. QED BY <1>5, <2>1 DEF DistinctUpdates
<1> HIDE DEF kept
<1>17. Writing(m, m, up, values)
  <2>1. \A i \in 1 .. m : up[i][2] \in 1 .. n + m
    BY <1>1, <1>2, <1>5
  <2>2. QED BY <1>1, <1>3, <1>10, <1>12, <1>13, <1>14, <1>15, <1>16, <2>1 DEF Writing, n
<1>18. QED BY <1>17, WritingGrows

\* A sum of earlier nodes.
LEMMA AdditionNode ==
    ASSUME NEW x, NEW i, x.op = "add", Len(x.args) = 2, \A k \in 1 .. 2 : x.args[k] \in 1 .. i - 1
    PROVE  NodeAt(x, i)
<1>1. OperandCount(x.op) = 2
  BY DEF OperandCount, AbiOps
<1>2. QED BY <1>1 DEF NodeAt

\* and add_.
LEMMA AddGrows ==
    ASSUME TraceTypes, NEW s \in DOMAIN slots, NEW h \in Handles, Add(s, h)
    PROVE  Grown
<1> DEFINE n == Len(ssa)
           old == slots[s]
           sum == store[s] + known[h]
           x == Node("add", <<old, h>>)
           extra == <<x>>
           up == <<<<s, n + 1>>>>
           all == <<sum, sum>>
           values == <<sum>>
<1>1. /\ n \in Nat /\ s \in 1 .. Len(slots) /\ h \in 1 .. n /\ old \in 1 .. n /\ sum \in Int
      /\ DOMAIN store = 1 .. Len(slots)
  <2>1. /\ ssa \in Seq(Recorded) /\ known \in Seq(Int) /\ Len(known) = n
        /\ slots \in Seq(1 .. n) /\ store \in Seq(Int) /\ Len(store) = Len(slots)
    BY DEF TraceTypes
  <2>2. h \in 1 .. n
    BY HandleExists
  <2>3. n \in Nat /\ s \in 1 .. Len(slots)
    BY <2>1
  <2> HIDE DEF n
  <2>4. QED BY <2>1, <2>2, <2>3
<1>2. /\ Calling /\ Record(extra, up) /\ known' = known \o all
      /\ store' = IF Live THEN [store EXCEPT ![s] = sum] ELSE store
      /\ UNCHANGED <<arguments, inputCount, params>> /\ UNCHANGED Others
  BY DEF Add, Succeed, runVars, Others
<1>3. x \in Recorded /\ x.op = "add" /\ x.args = <<old, h>> /\ x.region = 0
  <2>1. <<old, h>> \in Seq(Nat) /\ "add" \in Operations
    BY <1>1 DEF Operations
  <2>2. x \in Recorded
    BY <2>1, NodeRecorded
  <2>3. QED BY <2>2 DEF Node
<1> HIDE DEF n, sum, x, old
<1>4. /\ extra \in Seq(Recorded) /\ Len(extra) = 1 /\ extra[1] = x
      /\ all \in Seq(Int) /\ Len(all) = 2 /\ all[1] = sum /\ all[2] = sum
      /\ DOMAIN up = 1 .. 1 /\ up[1][1] = s /\ up[1][2] = n + 1 /\ values[1] = sum
  BY <1>1, <1>3, Short
<1> HIDE DEF extra, up, all, values
<1>5. \A i : i \in 1 .. 1 <=> i = 1
  OBVIOUS
<1>6. /\ ssa' \in Seq(Recorded) /\ Len(ssa') = n + 1 + 1
      /\ known' \in Seq(Int) /\ Len(known') = Len(ssa')
      /\ \A i \in 1 .. n : ssa'[i] = ssa[i] /\ known'[i] = known[i]
      /\ ssa'[n + 1] = x /\ known'[n + 1] = sum
      /\ ssa'[n + 1 + 1] = Node("mark", <<n + 1>>) /\ known'[n + 1 + 1] = sum
      /\ Versions(1, 1, up)
  <2>1. Len(all) = Len(extra) + 1 /\ \A i \in 1 .. 1 : up[i][2] \in 1 .. n + Len(extra)
    BY <1>1, <1>4, <1>5
  <2>2. Recording(extra, all, 1, up)
    BY <1>2, <1>4, <2>1 DEF Recording, n
  <2>3. Lengthened(extra, all, 1, up)
    BY <2>2, RecordWrites
  <2>4. 1 \in 1 .. 1 /\ 1 + 1 = 2
    OBVIOUS
  <2>5. QED BY <1>4, <2>3, <2>4 DEF Lengthened, n
<1>7. Stored(1, up, values)
  <2>1. store \in Seq(Int) /\ Len(store) = Len(slots)
    BY DEF TraceTypes
  <2>2. CASE ~Live
    BY <1>2, <2>1, <2>2 DEF Stored
  <2>3. CASE Live
    <3>1. store' = [store EXCEPT ![s] = sum]
      BY <1>2, <2>3
    <3>2. store' \in Seq(Int) /\ Len(store') = Len(slots)
      BY <1>1, <2>1, <3>1
    <3>3. \A t \in 1 .. Len(slots) : store'[t] = IF t = s THEN sum ELSE store[t]
      BY <1>1, <3>1
    <3>4. \A t \in 1 .. Len(slots) :
             \/ store'[t] = store[t] /\ \A i \in 1 .. 1 : up[i][1] # t
             \/ \E i \in 1 .. 1 : up[i][1] = t /\ store'[t] = values[i]
      BY <1>4, <1>5, <3>3
    <3>5. QED BY <2>3, <3>2, <3>4 DEF Stored
  <2>4. QED BY <2>2, <2>3
<1>8. NodeAt(ssa'[n + 1], n + 1) /\ ssa'[n + 1].op = "add" /\ ssa'[n + 1].region = 0
  <2>1. /\ Len(<<old, h>>) = 2 /\ <<old, h>>[1] = old /\ <<old, h>>[2] = h
    OBVIOUS
  <2>2. \A k \in 1 .. 2 : k = 1 \/ k = 2
    OBVIOUS
  <2> DEFINE j == n + 1
  <2>3. old \in 1 .. j - 1 /\ h \in 1 .. j - 1
    BY <1>1
  <2> HIDE DEF j
  <2>4. Len(x.args) = 2 /\ \A k \in 1 .. 2 : x.args[k] \in 1 .. j - 1
    BY <1>3, <2>1, <2>2, <2>3
  <2>5. NodeAt(x, j)
    BY <1>3, <2>4, AdditionNode
  <2>6. QED BY <1>3, <1>6, <2>5 DEF j
<1>9. Written(1, 1, up, values)
  <2> SUFFICES ASSUME NEW good, GoodNodes(good), GoodState(good), Live
               PROVE  /\ Computes(ssa'[n + 1], known'[n + 1], known, good)
                      /\ up[1][2] = n + 1 /\ known'[n + 1] = values[1]
    BY <1>5 DEF Written, n
  <2>1. old \in good /\ known[old] = store[s]
    BY <1>1 DEF GoodState, Hold, old
  <2>2. h \in good
    BY HandleGood
  <2>3. <<old, h>>[1] = old /\ <<old, h>>[2] = h
    OBVIOUS
  <2>4. sum = known[old] + known[h]
    BY <2>1 DEF sum
  <2>5. x.args[1] = old /\ x.args[2] = h
    BY <1>3, <2>3
  <2>6. Computes(x, sum, known, good)
    BY <1>3, <2>1, <2>2, <2>4, <2>5 DEF Computes
  <2>7. QED BY <1>4, <1>6, <2>6
<1>10. DistinctUpdates(1, up)
  BY <1>5 DEF DistinctUpdates
<1>11. Writing(1, 1, up, values)
  <2>1. n + 1 \in 1 .. n + 1
    BY <1>1
  <2>2. \A i \in 1 .. 1 :
           /\ NodeAt(ssa'[n + i], n + i)
           /\ ssa'[n + i].op \in {"add", "select"} /\ ssa'[n + i].region = 0
    BY <1>5, <1>8
  <2>3. \A i \in 1 .. 1 :
           /\ ssa'[n + 1 + i] = Node("mark", <<up[i][2]>>)
           /\ known'[n + 1 + i] = values[i] /\ up[i][2] \in 1 .. n + 1
    BY <1>4, <1>5, <1>6, <2>1
  <2>4. 1 \in Nat
    OBVIOUS
  <2> HIDE DEF n
  <2>5. QED BY <1>2, <1>6, <1>7, <1>9, <1>10, <2>2, <2>3, <2>4 DEF Writing, n
<1>12. QED BY <1>11, WritingGrows

-----------------------------------------------------------------------------
\* Conditionals.

\* What a conditional that is being traced keeps.
LEMMA CondKeeps ==
    ASSUME TraceTypes, InBranch
    PROVE  /\ cond.phase \in {"then", "else"} /\ cond # NoCond
           /\ cond.thenMarker \in 2 .. Len(ssa)
           /\ cond.initial \in Seq(1 .. cond.thenMarker) /\ Len(cond.initial) \in Nat
           /\ cond.initial \in Seq(1 .. Len(ssa))
           /\ \A s \in 1 .. Len(cond.initial) : cond.initial[s] \in 1 .. cond.thenMarker
           /\ cond.before \in Seq(Int) /\ Len(cond.before) = Len(cond.initial)
           /\ Len(ssa) \in Nat /\ Len(slots) \in Nat
<1>1. CondRight /\ cond # NoCond /\ ssa \in Seq(Recorded) /\ slots \in Seq(1 .. Len(ssa))
  BY DEF TraceTypes, InBranch, NoCond
<1>2. /\ cond.phase \in {"then", "else"} /\ cond.thenMarker \in 2 .. Len(ssa)
      /\ cond.initial \in Seq(1 .. cond.thenMarker)
      /\ cond.before \in Seq(Int) /\ Len(cond.before) = Len(cond.initial)
  BY <1>1 DEF CondRight
<1>3. Len(ssa) \in Nat /\ Len(slots) \in Nat
  BY <1>1
<1>4. 1 .. cond.thenMarker \subseteq 1 .. Len(ssa)
  BY <1>2, <1>3
<1>5. /\ cond.initial \in Seq(1 .. Len(ssa)) /\ Len(cond.initial) \in Nat
      /\ \A s \in 1 .. Len(cond.initial) : cond.initial[s] \in 1 .. cond.thenMarker
  BY <1>2, <1>4, Wider
<1>6. QED BY <1>1, <1>2, <1>3, <1>5

\* A conditional begins: the snapshot is what is current.
LEMMA BeginKeeps ==
    ASSUME TraceInv, BeginCond
    PROVE  TraceInv'
<1>1. /\ Calling /\ ~InBranch /\ cond.phase = "none"
      /\ cond' = [phase |-> "then", thenMarker |-> Len(ssa), initial |-> slots, before |-> store]
      /\ UNCHANGED <<ssa, slots, arguments, inputCount, params, store, known>>
      /\ UNCHANGED <<broken, predicateInput, mask, limit, program, fixed, ran>>
  BY DEF BeginCond, Succeed, runVars, graphVars, InBranch
<1>2. /\ cond'.phase = "then" /\ cond'.thenMarker = Len(ssa) /\ cond'.initial = slots
      /\ cond'.before = store
  BY <1>1
<1>3. /\ TraceTypes /\ AbiRight /\ ScopeRight /\ RegionRight /\ MeaningRight
      /\ ssa \in Seq(Recorded) /\ Len(ssa) \in Nat /\ Len(ssa) >= 2
      /\ slots \in Seq(1 .. Len(ssa)) /\ Len(slots) \in Nat
      /\ store \in Seq(Int) /\ Len(store) = Len(slots)
      /\ params \in [DOMAIN params -> 1 .. Len(ssa)]
  <2>1. ssa \in Seq(Recorded) /\ slots \in Seq(1 .. Len(ssa))
    BY DEF TraceInv, TraceTypes
  <2>2. Len(ssa) \in Nat /\ Len(slots) \in Nat
    BY <2>1
  <2>3. QED BY <2>1, <2>2 DEF TraceInv, TraceTypes
<1>4. TraceTypes'
  <2>1. CondRight'
    BY <1>1, <1>2, <1>3 DEF CondRight
  <2>2. broken' = FALSE
    BY <1>1, <1>3 DEF Calling, TraceTypes
  <2>3. QED BY <1>1, <1>3, <2>1, <2>2 DEF TraceTypes
<1>5. AbiRight'
  BY <1>1, <1>3 DEF AbiRight, Supplied, StateValue, InputValue
<1>6. ScopeRight'
  <2>1. \A p \in DOMAIN params : params[p] <= Len(ssa)
    BY <1>3
  <2>2. cond'.phase # "else"
    BY <1>2
  <2>3. QED BY <1>1, <1>2, <1>3, <2>1, <2>2 DEF ScopeRight
<1>7. RegionRight'
  <2>1. \A i \in 1 .. Len(ssa) : i <= Len(ssa)
    BY <1>3
  <2>2. QED BY <1>1, <1>2, <1>3, <2>1 DEF RegionRight
<1>8. MeaningRight'
  <2>1. PICK good : GoodNodes(good) /\ GoodState(good)
    BY <1>1, <1>3 DEF MeaningRight, Calling
  <2>2. GoodNodes(good)'
    BY <1>1, <2>1 DEF GoodNodes
  <2>3. Hold(slots, store, known, good)
    BY <1>1, <2>1 DEF GoodState, Live
  <2>4. GoodState(good)'
    <3>1. Hold(cond'.initial, cond'.before, known', good) /\ Hold(slots', store', known', good)
          /\ store' = cond'.before /\ cond'.phase # "else"
      BY <1>1, <1>2, <2>3
    <3>2. QED BY <3>1 DEF GoodState
  <2>5. ~program'.compiled /\ ~ran'.done
    BY <1>1, <1>3 DEF MeaningRight, Calling
  <2>6. GoodProgram(good)'
    BY <2>5 DEF GoodProgram
  <2>7. (\E g : GoodNodes(g) /\ GoodProgram(g) /\ (broken \/ GoodState(g)))'
    BY <2>2, <2>4, <2>6
  <2>8. QED BY <2>5, <2>7 DEF MeaningRight
<1>9. QED BY <1>4, <1>5, <1>6, <1>7, <1>8 DEF TraceInv

\* A conditional fails: the snapshot is restored, or the trace is broken.
LEMMA AbandonKeeps ==
    ASSUME TraceInv, Calling, InBranch, AbandonCond
    PROVE  TraceInv'
<1>1. /\ cond' = NoCond /\ cond'.phase = "none"
      /\ slots' = IF Replaceable(cond.initial) THEN cond.initial ELSE slots
      /\ store' = IF Replaceable(cond.initial) THEN cond.before ELSE store
      /\ broken' = ~Replaceable(cond.initial)
      /\ UNCHANGED <<ssa, arguments, inputCount, params, known>>
      /\ UNCHANGED <<predicateInput, mask, limit, program, fixed, ran>>
  BY DEF AbandonCond, NoCond, runVars
<1>2. /\ TraceTypes /\ AbiRight /\ ScopeRight /\ RegionRight /\ MeaningRight
      /\ slots \in Seq(1 .. Len(ssa)) /\ store \in Seq(Int) /\ Len(store) = Len(slots)
  BY DEF TraceInv, TraceTypes
<1>3. /\ cond.phase \in {"then", "else"}
      /\ cond.initial \in Seq(1 .. Len(ssa)) /\ cond.before \in Seq(Int)
      /\ Len(cond.before) = Len(cond.initial)
  BY <1>2, CondKeeps
<1>4. TraceTypes'
  <2>1. slots' \in Seq(1 .. Len(ssa)) /\ store' \in Seq(Int) /\ Len(store') = Len(slots')
    BY <1>1, <1>2, <1>3
  <2>2. CondRight'
    BY <1>1 DEF CondRight
  <2>3. broken' \in BOOLEAN
    BY <1>1
  <2>4. QED BY <1>1, <1>2, <2>1, <2>2, <2>3 DEF TraceTypes
<1>5. AbiRight'
  BY <1>1, <1>2 DEF AbiRight, Supplied, StateValue, InputValue
<1>6. ScopeRight'
  <2>1. \A s \in 1 .. Len(slots') : ssa[slots'[s]].region = 0
    BY <1>1, <1>2, <1>3 DEF ScopeRight
  <2>2. QED BY <1>1, <1>2, <2>1 DEF ScopeRight
<1>7. RegionRight'
  BY <1>1, <1>2 DEF RegionRight
<1>8. MeaningRight'
  <2>1. PICK good : GoodNodes(good) /\ GoodState(good)
    BY <1>2 DEF MeaningRight, Calling
  <2>2. GoodNodes(good)'
    BY <1>1, <2>1 DEF GoodNodes
  <2>3. broken' \/ GoodState(good)'
    <3>1. CASE Replaceable(cond.initial)
      <4>1. Hold(slots', store', known', good)
        BY <1>1, <1>3, <2>1, <3>1 DEF GoodState
      <4>2. QED BY <1>1, <4>1 DEF GoodState
    <3>2. QED BY <1>1, <3>1
  <2>4. ~program'.compiled /\ ~ran'.done
    BY <1>1, <1>2 DEF MeaningRight, Calling
  <2>5. GoodProgram(good)'
    BY <2>4 DEF GoodProgram
  <2>6. (\E g : GoodNodes(g) /\ GoodProgram(g) /\ (broken \/ GoodState(g)))'
    BY <2>2, <2>3, <2>5
  <2>7. QED BY <2>4, <2>6 DEF MeaningRight
<1>9. QED BY <1>4, <1>5, <1>6, <1>7, <1>8 DEF TraceInv

\* The first branch ends: the second one starts from the snapshot.
LEMMA EndThenKeeps ==
    ASSUME TraceInv, NEW out \in Handles, EndThen(out)
    PROVE  TraceInv'
<1>1. SUFFICES ASSUME Replaceable(cond.initial) PROVE TraceInv'
  BY AbandonKeeps DEF EndThen, InBranch
<1>2. /\ Calling /\ cond.phase = "then" /\ Len(cond.initial) = Len(slots)
      /\ cond' = [phase |-> "else", thenMarker |-> cond.thenMarker,
                  initial |-> cond.initial, before |-> cond.before,
                  elseMarker |-> Len(ssa), thenOut |-> out, thenVersions |-> slots]
      /\ slots' = cond.initial
      /\ UNCHANGED <<ssa, arguments, inputCount, params, store, known>>
      /\ UNCHANGED <<broken, predicateInput, mask, limit, program, fixed, ran>>
  BY <1>1 DEF EndThen, Succeed, runVars, Replaceable
<1>3. /\ cond'.phase = "else" /\ cond'.thenMarker = cond.thenMarker
      /\ cond'.initial = cond.initial /\ cond'.before = cond.before
      /\ cond'.elseMarker = Len(ssa) /\ cond'.thenOut = out /\ cond'.thenVersions = slots
  BY <1>2
<1>4. /\ TraceTypes /\ AbiRight /\ ScopeRight /\ RegionRight /\ MeaningRight
      /\ slots \in Seq(1 .. Len(ssa)) /\ store \in Seq(Int) /\ Len(store) = Len(slots)
      /\ InBranch
  BY <1>2 DEF TraceInv, TraceTypes, InBranch
<1>5. /\ cond.thenMarker \in 2 .. Len(ssa) /\ Len(ssa) \in Nat /\ Len(slots) \in Nat
      /\ cond.initial \in Seq(1 .. Len(ssa)) /\ cond.initial \in Seq(1 .. cond.thenMarker)
      /\ \A s \in 1 .. Len(cond.initial) : cond.initial[s] \in 1 .. cond.thenMarker
      /\ cond.before \in Seq(Int) /\ Len(cond.before) = Len(cond.initial)
  BY <1>4, CondKeeps
<1>6. out \in 1 .. Len(ssa)
  BY <1>4, HandleExists
<1>7. TraceTypes'
  <2>1. CondRight'
    <3>1. Len(ssa) \in cond.thenMarker .. Len(ssa)
      BY <1>5
    <3>2. QED BY <1>2, <1>3, <1>4, <1>5, <1>6, <3>1 DEF CondRight
  <2>2. broken' = FALSE
    BY <1>2, <1>4 DEF Calling, TraceTypes
  <2>3. QED BY <1>2, <1>4, <1>5, <2>1, <2>2 DEF TraceTypes
<1>8. AbiRight'
  BY <1>2, <1>4 DEF AbiRight, Supplied, StateValue, InputValue
<1>9. ScopeRight'
  <2>1. \A s \in 1 .. Len(slots') : ssa[slots'[s]].region = 0 /\ slots'[s] <= cond.thenMarker
    <3>1. \A s \in 1 .. Len(cond.initial) : ssa[cond.initial[s]].region = 0
      BY <1>2, <1>4 DEF ScopeRight
    <3>2. \A s \in 1 .. Len(cond.initial) : cond.initial[s] <= cond.thenMarker
      BY <1>5
    <3>3. slots' = cond.initial
      BY <1>2
    <3>4. QED BY <3>1, <3>2, <3>3
  <2>2. Converted = {} => \A p \in DOMAIN params :
           params[p] <= cond.thenMarker \/ ssa[params[p]].op \in AbiOps
    <3>1. ~(Len(slots) > Len(cond.initial))
      BY <1>2, <1>5
    <3>2. QED BY <1>2, <1>4, <3>1 DEF ScopeRight
  <2>3. QED BY <1>2, <1>3, <1>4, <2>1, <2>2 DEF ScopeRight
<1>10. RegionRight'
  BY <1>2, <1>3, <1>4 DEF RegionRight
<1>11. MeaningRight'
  <2>1. PICK good : GoodNodes(good) /\ GoodState(good)
    BY <1>2, <1>4 DEF MeaningRight, Calling
  <2>2. GoodNodes(good)'
    BY <1>2, <2>1 DEF GoodNodes
  <2>3. Hold(cond.initial, cond.before, known, good)
    BY <1>2, <2>1 DEF GoodState
  <2>4. GoodState(good)'
    <3>1. CASE predicateInput = 0
      <4>1. store = cond.before
        BY <1>1, <1>2, <2>1, <3>1 DEF GoodState
      <4>2. Hold(slots', store', known', good)
        BY <1>2, <2>3, <4>1
      <4>3. QED BY <1>2, <1>3, <2>3, <3>1, <4>2 DEF GoodState
    <3>2. CASE predicateInput # 0
      <4>1. Live
        BY <1>2, <3>2 DEF Live
      <4>2. out \in good
        BY <1>4, <2>1, <4>1, HandleGood
      <4>3. Hold(slots, store, known, good)
        BY <2>1, <4>1 DEF GoodState
      <4>4. ~Live'
        BY <1>2, <1>3, <3>2 DEF Live
      <4>5. QED BY <1>2, <1>3, <2>3, <4>2, <4>3, <4>4 DEF GoodState
    <3>3. QED BY <3>1, <3>2
  <2>5. ~program'.compiled /\ ~ran'.done
    BY <1>2, <1>4 DEF MeaningRight, Calling
  <2>6. GoodProgram(good)'
    BY <2>5 DEF GoodProgram
  <2>7. (\E g : GoodNodes(g) /\ GoodProgram(g) /\ (broken \/ GoodState(g)))'
    BY <2>2, <2>4, <2>6
  <2>8. QED BY <2>5, <2>7 DEF MeaningRight
<1>12. QED BY <1>7, <1>8, <1>9, <1>10, <1>11 DEF TraceInv

\* Node i when the conditional is closed: only its region may change.
Moved(i) ==
    /\ ssa'[i] \in Recorded /\ ssa'[i].op = ssa[i].op /\ ssa'[i].args = ssa[i].args
    /\ ssa[i].op = "if" => ssa'[i].then = ssa[i].then /\ ssa'[i].else = ssa[i].else
    /\ ssa'[i].region = BranchOf(i) /\ known'[i] = known[i]

\* Node i of those that merge the branches: what they returned, v and v2, and its
\* number.
Merged(i, v, v2, number) ==
    /\ ssa'[i] = [op |-> "if", args |-> <<1, v, v2>>, region |-> 0,
                  then |-> cond.thenMarker, else |-> cond.elseMarker]
    /\ v \in 1 .. Len(ssa) /\ v2 \in 1 .. Len(ssa)
    /\ known'[i] = number /\ number \in Int

Merging(out) ==
    /\ Calling /\ cond.phase = "else" /\ Len(cond.initial) = Len(slots)
    /\ ssa' \in Seq(Recorded) /\ Len(ssa') = Len(ssa) + 1 + Len(slots)
    /\ known' \in Seq(Int) /\ Len(known') = Len(ssa')
    /\ \A i \in 1 .. Len(ssa) : Moved(i)
    /\ Merged(Len(ssa) + 1, cond.thenOut, out,
              IF predicateInput # 0 THEN known[cond.thenOut] ELSE known[out])
    /\ \A s \in 1 .. Len(slots) :
          Merged(Len(ssa) + 1 + s, cond.thenVersions[s], slots[s], store[s])
    /\ cond' = NoCond
    /\ slots' = [s \in 1 .. Len(slots) |-> Len(ssa) + 1 + s]
    /\ UNCHANGED <<arguments, inputCount, params, store>>
    /\ UNCHANGED <<broken, predicateInput, mask, limit, program, fixed, ran>>

\* A node put into a region is still a node.
LEMMA RegionSet ==
    ASSUME NEW x \in Recorded, NEW r \in Nat
    PROVE  /\ [x EXCEPT !.region = r] \in Recorded
           /\ [x EXCEPT !.region = r].op = x.op /\ [x EXCEPT !.region = r].args = x.args
           /\ x.op = "if" => /\ [x EXCEPT !.region = r].then = x.then
                             /\ [x EXCEPT !.region = r].else = x.else
           /\ [x EXCEPT !.region = r].region = r
<1>1. CASE x \in [op : Operations, args : Seq(Nat), region : Nat]
  BY <1>1 DEF Recorded, Operations, AbiOps
<1>2. CASE x \in [op : {"if"}, args : Seq(Nat), region : Nat, then : Nat, else : Nat]
  BY <1>2 DEF Recorded
<1>3. QED BY <1>1, <1>2 DEF Recorded

\* The second branch as it is known to be.
LEMMA ElseKeeps ==
    ASSUME TraceTypes, cond.phase = "else"
    PROVE  /\ InBranch /\ cond.elseMarker \in cond.thenMarker .. Len(ssa)
           /\ cond.thenOut \in 1 .. Len(ssa)
           /\ cond.thenVersions \in Seq(1 .. Len(ssa))
           /\ Len(cond.thenVersions) = Len(cond.initial)
           /\ cond.thenMarker \in Nat /\ cond.elseMarker \in Nat
<1>1. InBranch /\ CondRight /\ cond # NoCond
  BY DEF InBranch, TraceTypes, NoCond
<1>2. cond.thenMarker \in 2 .. Len(ssa) /\ Len(ssa) \in Nat
  BY <1>1, CondKeeps
<1>3. /\ cond.elseMarker \in cond.thenMarker .. Len(ssa)
      /\ cond.thenOut \in 1 .. cond.elseMarker
      /\ cond.thenVersions \in Seq(1 .. cond.elseMarker)
      /\ Len(cond.thenVersions) = Len(cond.initial)
  BY <1>1 DEF CondRight
<1>4. 1 .. cond.elseMarker \subseteq 1 .. Len(ssa)
  BY <1>2, <1>3
<1>5. cond.thenVersions \in Seq(1 .. Len(ssa))
  BY <1>3, <1>4, Wider
<1>6. QED BY <1>1, <1>2, <1>3, <1>4, <1>5

\* The region a node belongs to once the conditional is closed.
LEMMA BranchNumber ==
    ASSUME TraceTypes, cond.phase = "else", NEW i \in 1 .. Len(ssa)
    PROVE  /\ BranchOf(i) \in Nat
           /\ \/ BranchOf(i) = ssa[i].region
              \/ BranchOf(i) >= cond.thenMarker
           /\ i <= cond.thenMarker \/ ssa[i].op \in AbiOps => BranchOf(i) = ssa[i].region
<1>1. cond.thenMarker \in Nat /\ cond.elseMarker \in Nat /\ cond.elseMarker >= cond.thenMarker
  BY ElseKeeps
<1>2. ssa[i].region \in Nat
  <2>1. ssa[i] \in Recorded
    BY DEF TraceTypes
  <2>2. QED BY <2>1 DEF Recorded
<1>3. CASE i <= cond.thenMarker \/ ssa[i].op \in AbiOps
  <2>1. BranchOf(i) = ssa[i].region
    BY <1>3 DEF BranchOf, IsAbi, AbiOps
  <2>2. QED BY <1>2, <2>1
<1>4. CASE ~(i <= cond.thenMarker \/ ssa[i].op \in AbiOps) /\ i > cond.elseMarker
  <2>1. BranchOf(i) = cond.elseMarker
    BY <1>4 DEF BranchOf, IsAbi, AbiOps
  <2>2. QED BY <1>1, <1>4, <2>1
<1>5. CASE ~(i <= cond.thenMarker \/ ssa[i].op \in AbiOps) /\ ~(i > cond.elseMarker)
  <2>1. BranchOf(i) = cond.thenMarker
    BY <1>5 DEF BranchOf, IsAbi, AbiOps
  <2>2. QED BY <1>1, <1>5, <2>1
<1>6. QED BY <1>3, <1>4, <1>5

\* One element in front of a sequence.
Fronting(S, x, t, s) == x \in S /\ t \in Seq(S) /\ s = <<x>> \o t
InFront(S, x, t, s) ==
    /\ s \in Seq(S) /\ Len(s) = 1 + Len(t) /\ Len(s) \in Nat /\ Len(t) \in Nat
    /\ DOMAIN s = 1 .. Len(s) /\ \A i \in 1 .. Len(s) : s[i] \in S
    /\ s[1] = x /\ \A i \in 1 .. Len(t) : s[1 + i] = t[i] /\ t[i] \in S
\* What a sequence with one element in front is.
LEMMA Fronted ==
    ASSUME NEW S, NEW x, NEW t, NEW s, Fronting(S, x, t, s)
    PROVE  InFront(S, x, t, s)
BY DEF Fronting, InFront

\* Joining with an element in between.
LEMMA FrontJoined ==
    ASSUME NEW S, NEW s \in Seq(S), NEW x \in S, NEW t \in Seq(S)
    PROVE  (s \o <<x>>) \o t = s \o (<<x>> \o t)
<1>1. <<x>> \in Seq(S)
  BY Short
<1>2. QED BY <1>1, JoinThree

\* The second branch ends: what EndElse does to each node.
LEMMA EndElseMerges ==
    ASSUME TraceTypes, NEW out \in Handles, EndElse(out), Replaceable(cond.initial)
    PROVE  Merging(out)
<1> DEFINE tv == <<cond.thenOut>> \o cond.thenVersions
           ev == <<out>> \o slots
           merged(i) == [op |-> "if", args |-> <<1, tv[i], ev[i]>>,
                         region |-> 0, then |-> cond.thenMarker, else |-> cond.elseMarker]
           n == Len(ssa)
           m == Len(tv)
           old == [i \in DOMAIN ssa |-> [ssa[i] EXCEPT !.region = BranchOf(i)]]
           new == [i \in DOMAIN tv |-> merged(i)]
           number == IF predicateInput # 0 THEN known[cond.thenOut] ELSE known[out]
<1>1. /\ Calling /\ cond.phase = "else" /\ Len(cond.initial) = Len(slots)
      /\ ssa' = old \o new /\ slots' = MergedVersions
      /\ known' = (known \o <<number>>) \o store /\ cond' = NoCond
      /\ UNCHANGED <<arguments, inputCount, params, store>>
      /\ UNCHANGED <<broken, predicateInput, mask, limit, program, fixed, ran>>
  BY DEF EndElse, Succeed, runVars, Replaceable
<1>2. /\ ssa \in Seq(Recorded) /\ n \in Nat /\ n >= 2 /\ known \in Seq(Int) /\ Len(known) = n
      /\ slots \in Seq(1 .. n) /\ store \in Seq(Int) /\ Len(store) = Len(slots)
      /\ Len(slots) \in Nat /\ out \in 1 .. n
  <2>1. /\ ssa \in Seq(Recorded) /\ slots \in Seq(1 .. n) /\ n >= 2 /\ known \in Seq(Int)
        /\ Len(known) = n /\ store \in Seq(Int) /\ Len(store) = Len(slots)
    BY DEF TraceTypes
  <2>2. QED BY <2>1, HandleExists
<1>3. /\ cond.thenOut \in 1 .. n /\ cond.thenVersions \in Seq(1 .. n)
      /\ Len(cond.thenVersions) = Len(slots)
      /\ cond.thenMarker \in Nat /\ cond.elseMarker \in Nat
  BY <1>1, ElseKeeps
<1> HIDE DEF n
<1>4. /\ tv \in Seq(1 .. n) /\ m = 1 + Len(slots) /\ m \in Nat
      /\ DOMAIN tv = 1 .. m /\ \A i \in 1 .. m : tv[i] \in 1 .. n
      /\ tv[1] = cond.thenOut
      /\ \A s \in 1 .. Len(slots) : tv[1 + s] = cond.thenVersions[s]
                                   /\ cond.thenVersions[s] \in 1 .. n
  <2>1. Fronting(1 .. n, cond.thenOut, cond.thenVersions, tv)
    BY <1>3 DEF Fronting
  <2> HIDE DEF tv
  <2>2. InFront(1 .. n, cond.thenOut, cond.thenVersions, tv)
    BY <2>1, Fronted
  <2>3. QED BY <1>3, <2>2 DEF InFront
<1>5. /\ Len(ev) = m /\ \A i \in 1 .. m : ev[i] \in 1 .. n
      /\ ev[1] = out
      /\ \A s \in 1 .. Len(slots) : ev[1 + s] = slots[s] /\ slots[s] \in 1 .. n
  <2>1. Fronting(1 .. n, out, slots, ev)
    BY <1>2 DEF Fronting
  <2> HIDE DEF ev, tv
  <2>2. InFront(1 .. n, out, slots, ev)
    BY <2>1, Fronted
  <2>3. QED BY <1>4, <2>2 DEF InFront
<1>6. DOMAIN ssa = 1 .. n /\ DOMAIN slots = 1 .. Len(slots)
  BY <1>2 DEF n
<1> HIDE DEF tv, ev
<1>7. DOMAIN tv = 1 .. m /\ \A i \in 1 .. m : tv[i] \in 1 .. n /\ ev[i] \in 1 .. n
  BY <1>4, <1>5
<1> HIDE DEF m
<1>8. old \in Seq(Recorded) /\ Len(old) = n
  <2>1. old = [i \in 1 .. n |-> old[i]]
    BY <1>6
  <2>2. \A i \in 1 .. n : old[i] \in Recorded
    <3> SUFFICES ASSUME NEW i \in 1 .. n PROVE old[i] \in Recorded
      OBVIOUS
    <3>1. BranchOf(i) \in Nat /\ ssa[i] \in Recorded
      BY <1>1, <1>2, BranchNumber DEF n
    <3>2. old[i] = [ssa[i] EXCEPT !.region = BranchOf(i)]
      BY <1>6
    <3>3. QED BY <3>1, <3>2, RegionSet
  <2> HIDE DEF old
  <2>3. QED BY <1>2, <2>1, <2>2, Tabulated
<1>9. new \in Seq(Recorded) /\ Len(new) = m
  <2>1. new = [i \in 1 .. m |-> new[i]]
    BY <1>7
  <2>2. \A i \in 1 .. m : new[i] \in Recorded
    <3> SUFFICES ASSUME NEW i \in 1 .. m PROVE new[i] \in Recorded
      OBVIOUS
    <3>1. <<1, tv[i], ev[i]>> \in Seq(Nat)
      BY <1>2, <1>7
    <3>2. new[i] = merged(i)
      BY <1>7
    <3>3. merged(i) \in [op : {"if"}, args : Seq(Nat), region : Nat, then : Nat, else : Nat]
      BY <1>3, <3>1
    <3>4. QED BY <3>2, <3>3 DEF Recorded
  <2> HIDE DEF new
  <2>3. QED BY <1>4, <2>1, <2>2, Tabulated
<1>10. /\ ssa' \in Seq(Recorded) /\ Len(ssa') = n + m
       /\ \A i \in 1 .. n : ssa'[i] = old[i]
       /\ \A i \in 1 .. m : ssa'[n + i] = new[i]
  <2>1. ssa' = old \o new
    BY <1>1
  <2> HIDE DEF old, new
  <2>2. /\ old \o new \in Seq(Recorded) /\ Len(old \o new) = Len(old) + Len(new)
        /\ \A i \in 1 .. Len(old) : (old \o new)[i] = old[i]
        /\ \A i \in 1 .. Len(new) : (old \o new)[Len(old) + i] = new[i]
    <3>1. old \in Seq(Recorded) /\ new \in Seq(Recorded)
      BY <1>8, <1>9
    <3>2. QED BY <3>1, Joined
  <2>3. QED BY <1>8, <1>9, <2>1, <2>2
<1> DEFINE vs == <<number>> \o store
<1>11. /\ number \in Int
       /\ vs \in Seq(Int) /\ Len(vs) = m /\ vs[1] = number
       /\ \A s \in 1 .. Len(slots) : vs[1 + s] = store[s]
       /\ known' = known \o vs
  <2>1. number \in Int
    BY <1>2, <1>3
  <2>2. known' = (known \o <<number>>) \o store /\ vs = <<number>> \o store
    BY <1>1
  <2> HIDE DEF number, vs
  <2>3. known' = known \o vs
    <3>1. known \in Seq(Int) /\ store \in Seq(Int)
      BY <1>2
    <3>2. (known \o <<number>>) \o store = known \o (<<number>> \o store)
      BY <2>1, <3>1, FrontJoined
    <3>3. QED BY <2>2, <3>2
  <2>4. /\ vs \in Seq(Int) /\ Len(vs) = 1 + Len(store) /\ vs[1] = number
        /\ \A s \in 1 .. Len(store) : vs[1 + s] = store[s]
    <3>1. Fronting(Int, number, store, vs)
      BY <1>2, <2>1, <2>2 DEF Fronting
    <3>2. QED BY <3>1, Fronted DEF InFront
  <2>5. QED BY <1>2, <1>4, <2>1, <2>3, <2>4
<1>12. /\ known' \in Seq(Int) /\ Len(known') = n + m
       /\ \A i \in 1 .. n : known'[i] = known[i]
       /\ \A i \in 1 .. m : known'[n + i] = vs[i]
  <2> HIDE DEF vs
  <2>1. QED BY <1>2, <1>11, MoreNumbers
<1>13. \A i \in 1 .. n : Moved(i)
  <2> SUFFICES ASSUME NEW i \in 1 .. n PROVE Moved(i)
    OBVIOUS
  <2>1. BranchOf(i) \in Nat /\ ssa[i] \in Recorded
    BY <1>1, <1>2, BranchNumber DEF n
  <2>2. ssa'[i] = [ssa[i] EXCEPT !.region = BranchOf(i)]
    BY <1>6, <1>10
  <2>3. QED BY <1>12, <2>1, <2>2, RegionSet DEF Moved
<1>14. \A i \in 1 .. m : ssa'[n + i] = merged(i) /\ known'[n + i] = vs[i]
  BY <1>7, <1>10, <1>12
<1>15. Merged(n + 1, cond.thenOut, out, number)
  <2>1. 1 \in 1 .. m
    BY <1>2, <1>4
  <2>2. ssa'[n + 1] = merged(1) /\ known'[n + 1] = number
    BY <1>11, <1>14, <2>1
  <2> HIDE DEF number
  <2>3. /\ tv[1] = cond.thenOut /\ ev[1] = out /\ number \in Int
        /\ cond.thenOut \in 1 .. n /\ out \in 1 .. n
    BY <1>2, <1>3, <1>4, <1>5, <1>11 DEF n
  <2>4. QED BY <2>2, <2>3 DEF Merged, n
<1>16. ASSUME NEW s \in 1 .. Len(slots)
       PROVE  Merged(n + 1 + s, cond.thenVersions[s], slots[s], store[s])
  <2>1. 1 + s \in 1 .. m /\ n + 1 + s = n + (1 + s)
    <3>1. n \in Nat /\ Len(slots) \in Nat /\ m = 1 + Len(slots)
      BY <1>2, <1>4
    <3>2. QED BY <3>1
  <2>2. ssa'[n + 1 + s] = merged(1 + s) /\ known'[n + 1 + s] = store[s]
    <3> HIDE DEF vs
    <3>1. QED BY <1>11, <1>14, <2>1
  <2>3. cond.thenVersions[s] \in 1 .. n /\ slots[s] \in 1 .. n /\ store[s] \in Int
    <3>1. store[s] \in Int
      BY <1>2
    <3>2. QED BY <1>4, <1>5, <3>1
  <2>4. tv[1 + s] = cond.thenVersions[s] /\ ev[1 + s] = slots[s]
    BY <1>4, <1>5
  <2>5. QED BY <2>2, <2>3, <2>4 DEF Merged, n
<1>17. slots' = [s \in 1 .. Len(slots) |-> n + 1 + s]
  BY <1>1, <1>6 DEF MergedVersions, n
<1> HIDE DEF number
<1>18. n + m = n + 1 + Len(slots)
  BY <1>2, <1>4
<1>19. QED BY <1>1, <1>10, <1>12, <1>13, <1>15, <1>16, <1>17, <1>18 DEF Merging, n, number

\* Two nodes with the same operation and operands compute the same.
LEMMA ComputesSame ==
    ASSUME NEW x, NEW y, x.op = y.op, x.args = y.args,
           NEW v, NEW k, NEW good, Computes(x, v, k, good)
    PROVE  Computes(y, v, k, good)
BY DEF Computes

\* What a merging node is.
LEMMA MergedNode ==
    ASSUME TraceTypes, cond.phase = "else", NEW i \in Nat, i > Len(ssa),
           NEW v, NEW v2, NEW number, Merged(i, v, v2, number)
    PROVE  /\ ssa'[i].op = "if" /\ ssa'[i].region = 0
           /\ ssa'[i].args[1] = 1 /\ ssa'[i].args[2] = v /\ ssa'[i].args[3] = v2
           /\ NodeAt(ssa'[i], i)
<1>1. /\ ssa'[i].op = "if" /\ ssa'[i].region = 0 /\ ssa'[i].args = <<1, v, v2>>
      /\ ssa'[i].then = cond.thenMarker /\ ssa'[i].else = cond.elseMarker
      /\ v \in 1 .. Len(ssa) /\ v2 \in 1 .. Len(ssa)
  BY DEF Merged
<1>2. /\ cond.thenMarker \in 2 .. Len(ssa) /\ Len(ssa) \in Nat
      /\ cond.elseMarker \in cond.thenMarker .. Len(ssa)
  BY CondKeeps, ElseKeeps
<1>3. /\ Len(ssa'[i].args) = 3 /\ ssa'[i].args[1] = 1
      /\ ssa'[i].args[2] = v /\ ssa'[i].args[3] = v2
  BY <1>1
<1>4. \A k \in 1 .. 3 : ssa'[i].args[k] \in 1 .. i - 1
  <2>1. 1 \in 1 .. i - 1 /\ v \in 1 .. i - 1 /\ v2 \in 1 .. i - 1
    BY <1>1, <1>2
  <2>2. QED BY <1>3, <2>1
<1>5. OperandCount(ssa'[i].op) = 3
  BY <1>1 DEF OperandCount, AbiOps
<1>6. NodeAt(ssa'[i], i)
  BY <1>1, <1>2, <1>3, <1>4, <1>5 DEF NodeAt
<1>7. QED BY <1>1, <1>3, <1>6

\* A node that is moved into a region has its operands where they were.
LEMMA MovedNode ==
    ASSUME NEW i, NodeAt(ssa[i], i), Moved(i)
    PROVE  NodeAt(ssa'[i], i)
BY DEF NodeAt, Moved

\* The nodes after the merge: the old ones, the visible result, one per slot.
LEMMA MergeCases ==
    ASSUME TraceTypes, NEW out, Merging(out), NEW i \in 1 .. Len(ssa')
    PROVE  /\ i \in Nat
           /\ \/ i \in 1 .. Len(ssa) /\ Moved(i)
              \/ /\ i > Len(ssa)
                 /\ \E v, v2, number : Merged(i, v, v2, number)
<1>1. Len(ssa) \in Nat /\ Len(slots) \in Nat /\ Len(ssa') = Len(ssa) + 1 + Len(slots)
  <2>1. ssa \in Seq(Recorded) /\ slots \in Seq(1 .. Len(ssa))
    BY DEF TraceTypes
  <2>2. QED BY <2>1 DEF Merging
<1>2. CASE i <= Len(ssa)
  BY <1>1, <1>2 DEF Merging
<1>3. CASE i = Len(ssa) + 1
  BY <1>1, <1>3 DEF Merging
<1>4. CASE i > Len(ssa) + 1
  <2> DEFINE s == i - Len(ssa) - 1
  <2>1. s \in 1 .. Len(slots) /\ Len(ssa) + 1 + s = i
    BY <1>1, <1>4
  <2>2. Merged(Len(ssa) + 1 + s, cond.thenVersions[s], slots[s], store[s])
    BY <2>1 DEF Merging
  <2> HIDE DEF s
  <2>3. QED BY <1>1, <1>4, <2>1, <2>2
<1>5. QED BY <1>1, <1>2, <1>3, <1>4

\* Closing the conditional keeps every part of the invariant: the types,
LEMMA MergeTypes ==
    ASSUME TraceTypes, NEW out, Merging(out)
    PROVE  TraceTypes'
<1>1. /\ ssa \in Seq(Recorded) /\ slots \in Seq(1 .. Len(ssa)) /\ Len(ssa) >= 2
      /\ Len(ssa) \in Nat /\ Len(slots) \in Nat
      /\ store \in Seq(Int) /\ Len(store) = Len(slots)
  <2>1. ssa \in Seq(Recorded) /\ slots \in Seq(1 .. Len(ssa)) /\ Len(ssa) >= 2
        /\ store \in Seq(Int) /\ Len(store) = Len(slots)
    BY DEF TraceTypes
  <2>2. QED BY <2>1
<1>2. /\ cond.phase = "else" /\ Calling
      /\ ssa' \in Seq(Recorded) /\ Len(ssa') = Len(ssa) + 1 + Len(slots)
      /\ known' \in Seq(Int) /\ Len(known') = Len(ssa')
      /\ slots' = [s \in 1 .. Len(slots) |-> Len(ssa) + 1 + s] /\ cond' = NoCond
      /\ UNCHANGED <<arguments, inputCount, params, store>>
      /\ UNCHANGED <<broken, predicateInput, mask, limit, program, fixed, ran>>
  BY DEF Merging
<1>3. \A i \in 1 .. Len(ssa') : NodeAt(ssa'[i], i)
  <2> SUFFICES ASSUME NEW i \in 1 .. Len(ssa') PROVE NodeAt(ssa'[i], i)
    OBVIOUS
  <2>1. CASE i \in 1 .. Len(ssa) /\ Moved(i)
    BY <2>1, MovedNode DEF TraceTypes
  <2>2. CASE i \in Nat /\ i > Len(ssa) /\ \E v, v2, number : Merged(i, v, v2, number)
    BY <1>2, <2>2, MergedNode
  <2>3. QED BY <2>1, <2>2, MergeCases
<1>4. slots' \in Seq(1 .. Len(ssa')) /\ Len(slots') = Len(slots)
  <2>1. slots' = [s \in 1 .. Len(slots) |-> slots'[s]]
    BY <1>2
  <2>2. \A s \in 1 .. Len(slots) : slots'[s] \in 1 .. Len(ssa')
    BY <1>1, <1>2
  <2>3. QED BY <1>1, <2>1, <2>2, Tabulated
<1>5. params' \in [DOMAIN params' -> 1 .. Len(ssa')]
  <2>1. params \in [DOMAIN params -> 1 .. Len(ssa)] /\ 1 .. Len(ssa) \subseteq 1 .. Len(ssa')
    BY <1>1, <1>2 DEF TraceTypes
  <2>2. QED BY <1>2, <2>1
<1>6. CondRight' /\ Len(ssa') >= 2
  BY <1>1, <1>2 DEF CondRight
<1>7. store' \in Seq(Int) /\ Len(store') = Len(slots')
  BY <1>1, <1>2, <1>4
<1>8. QED BY <1>2, <1>3, <1>4, <1>5, <1>6, <1>7 DEF TraceTypes

\* the arguments,
LEMMA MergeAbi ==
    ASSUME TraceTypes, AbiRight, NEW out, Merging(out)
    PROVE  AbiRight' /\ AbiNodes(ssa') = AbiNodes(ssa)
<1>1. /\ ssa \in Seq(Recorded) /\ ssa' \in Seq(Recorded) /\ cond.phase = "else"
      /\ arguments' = arguments /\ Len(ssa') = Len(ssa) + 1 + Len(slots)
      /\ slots \in Seq(1 .. Len(ssa)) /\ predicateInput' = predicateInput /\ mask' = mask
  BY DEF TraceTypes, Merging
<1>2. /\ DOMAIN ssa = 1 .. Len(ssa) /\ DOMAIN ssa' = 1 .. Len(ssa')
      /\ Len(ssa) \in Nat /\ Len(slots) \in Nat
  BY <1>1
<1>3. 1 .. Len(ssa) \subseteq 1 .. Len(ssa')
  BY <1>1, <1>2
<1>4. \A i \in 1 .. Len(ssa) : Moved(i)
  BY DEF Merging
<1>5. ASSUME NEW i \in 1 .. Len(ssa')
      PROVE  i \in AbiNodes(ssa') => i \in AbiNodes(ssa)
  <2>1. CASE i \in 1 .. Len(ssa) /\ Moved(i)
    BY <1>2, <2>1 DEF AbiNodes, Moved
  <2>2. CASE i \in Nat /\ i > Len(ssa) /\ \E v, v2, number : Merged(i, v, v2, number)
    <3>1. ssa'[i].op = "if"
      BY <1>1, <2>2, MergedNode
    <3>2. QED BY <3>1 DEF AbiNodes, AbiOps
  <2>3. QED BY <2>1, <2>2, MergeCases
<1>6. AbiNodes(ssa) \subseteq AbiNodes(ssa')
  <2> SUFFICES ASSUME NEW i \in AbiNodes(ssa) PROVE i \in AbiNodes(ssa')
    OBVIOUS
  <2>1. i \in 1 .. Len(ssa) /\ ssa[i].op \in AbiOps
    BY <1>2 DEF AbiNodes
  <2>2. ssa'[i].op = ssa[i].op /\ i \in DOMAIN ssa'
    BY <1>2, <1>3, <1>4, <2>1 DEF Moved
  <2>3. QED BY <2>1, <2>2 DEF AbiNodes
<1>7. AbiNodes(ssa') = AbiNodes(ssa)
  BY <1>2, <1>5, <1>6 DEF AbiNodes
<1>8. ASSUME NEW i \in AbiNodes(ssa)
      PROVE  ssa'[i].args[1] = ssa[i].args[1] /\ known'[i] = known[i]
  BY <1>2, <1>4 DEF AbiNodes, Moved
<1>9. AbiRight'
  <2>1. \A a : Supplied(a)' = Supplied(a)
    BY <1>1 DEF Supplied, StateValue, InputValue
  <2>2. \A i \in AbiNodes(ssa') :
           /\ ssa'[i].args[1] \in 0 .. Len(arguments) - 1
           /\ known'[i] = Supplied(arguments[ssa'[i].args[1] + 1])
    BY <1>7, <1>8 DEF AbiRight
  <2>3. QED BY <1>1, <1>7, <2>1, <2>2 DEF AbiRight, Supplied, StateValue, InputValue
<1>10. QED BY <1>7, <1>9

\* the scope of versions and parameters,
LEMMA MergeScope ==
    ASSUME TraceTypes, ScopeRight, NEW out, Merging(out)
    PROVE  ScopeRight'
<1>1. /\ ssa \in Seq(Recorded) /\ slots \in Seq(1 .. Len(ssa))
      /\ cond.phase = "else" /\ Len(cond.initial) = Len(slots) /\ cond' = NoCond
      /\ slots' = [s \in 1 .. Len(slots) |-> Len(ssa) + 1 + s] /\ params' = params
      /\ params \in [DOMAIN params -> 1 .. Len(ssa)]
  BY DEF TraceTypes, Merging
<1>2. Len(ssa) \in Nat /\ Len(slots) \in Nat
  BY <1>1
<1>3. \A s \in 1 .. Len(slots) : ssa'[Len(ssa) + 1 + s].region = 0
  <2> SUFFICES ASSUME NEW s \in 1 .. Len(slots) PROVE ssa'[Len(ssa) + 1 + s].region = 0
    OBVIOUS
  <2>1. Merged(Len(ssa) + 1 + s, cond.thenVersions[s], slots[s], store[s])
    BY DEF Merging
  <2>2. QED BY <2>1 DEF Merged
<1>4. Len(slots') = Len(slots)
  BY <1>1, <1>2
<1>5. \A s \in 1 .. Len(slots') : ssa'[slots'[s]].region = 0
  BY <1>1, <1>3, <1>4
<1>6. ASSUME Converted = {}, NEW p \in DOMAIN params
      PROVE  ssa'[params[p]].region = 0
  <2>1. params[p] \in 1 .. Len(ssa)
    BY <1>1
  <2>2. params[p] <= cond.thenMarker \/ ssa[params[p]].op \in AbiOps
    <3>1. ~(Len(slots) > Len(cond.initial))
      BY <1>1, <1>2
    <3>2. QED BY <1>1, <1>6, <3>1 DEF ScopeRight
  <2>3. ssa[params[p]].region = 0
    BY <1>6 DEF ScopeRight
  <2>4. Moved(params[p])
    BY <2>1 DEF Merging
  <2>5. BranchOf(params[p]) = ssa[params[p]].region
    BY <1>1, <2>1, <2>2, BranchNumber
  <2>6. QED BY <2>3, <2>4, <2>5 DEF Moved
<1>7. cond'.phase = "none"
  BY <1>1 DEF NoCond
<1>8. QED BY <1>1, <1>5, <1>6, <1>7 DEF ScopeRight

\* the places of the regions,
LEMMA MergeRegions ==
    ASSUME TraceTypes, RegionRight, NEW out, Merging(out)
    PROVE  RegionRight'
<1>1. /\ cond.phase = "else" /\ cond' = NoCond /\ Len(ssa) \in Nat
      /\ cond'.phase = "none"
  <2>1. ssa \in Seq(Recorded) /\ cond.phase = "else" /\ cond' = NoCond
    BY DEF TraceTypes, Merging
  <2>2. QED BY <2>1 DEF NoCond
<1>2. ASSUME NEW i \in 1 .. Len(ssa'), ssa'[i].op = "if", NEW k \in 1 .. Len(ssa'),
             ssa'[k].region # 0, ssa'[k].region \in {ssa'[i].then, ssa'[i].else}
      PROVE  k < i
  <2>1. k \in 1 .. Len(ssa) /\ Moved(k)
    <3>1. CASE k \in Nat /\ k > Len(ssa) /\ \E v, v2, number : Merged(k, v, v2, number)
      BY <1>1, <1>2, <3>1, MergedNode
    <3>2. QED BY <3>1, MergeCases
  <2>2. CASE i \in 1 .. Len(ssa) /\ Moved(i)
    <3>1. ssa[i].op = "if" /\ ssa'[i].then = ssa[i].then /\ ssa'[i].else = ssa[i].else
      BY <1>2, <2>2 DEF Moved
    <3>2. i <= cond.thenMarker
      BY <1>1, <2>2, <3>1 DEF RegionRight
    <3>3. ssa[i].then < i /\ ssa[i].else < i /\ ssa[i].then \in Nat /\ ssa[i].else \in Nat
      <4>1. NodeAt(ssa[i], i)
        BY <2>2 DEF TraceTypes
      <4>2. QED BY <1>1, <2>2, <3>1, <4>1 DEF NodeAt
    <3>4. ssa'[k].region = BranchOf(k) /\ BranchOf(k) \in Nat
          /\ (BranchOf(k) = ssa[k].region \/ BranchOf(k) >= cond.thenMarker)
      BY <1>1, <2>1, BranchNumber DEF Moved
    <3>5. cond.thenMarker \in Nat
      BY <1>1, ElseKeeps
    <3>6. CASE BranchOf(k) = ssa[k].region
      BY <1>2, <2>1, <2>2, <3>1, <3>4, <3>6 DEF RegionRight
    <3>7. CASE BranchOf(k) >= cond.thenMarker
      BY <1>1, <1>2, <2>2, <3>1, <3>2, <3>3, <3>4, <3>5, <3>7
    <3>8. QED BY <3>4, <3>6, <3>7
  <2>3. CASE i \in Nat /\ i > Len(ssa) /\ \E v, v2, number : Merged(i, v, v2, number)
    BY <1>1, <2>1, <2>3
  <2>4. QED BY <2>2, <2>3, MergeCases
<1>3. QED BY <1>1, <1>2 DEF RegionRight

\* and what the nodes stand for: a merging node selects what the branch that is
\* taken gave.
LEMMA MergeMeaning ==
    ASSUME TraceTypes, AbiRight, MeaningRight, NEW out \in Handles, Merging(out)
    PROVE  MeaningRight'
<1>1. /\ ssa \in Seq(Recorded) /\ slots \in Seq(1 .. Len(ssa)) /\ Calling
      /\ cond.phase = "else" /\ Len(cond.initial) = Len(slots) /\ cond' = NoCond
      /\ slots' = [s \in 1 .. Len(slots) |-> Len(ssa) + 1 + s]
      /\ UNCHANGED <<params, store, broken, predicateInput, mask, program, ran>>
      /\ Len(ssa') = Len(ssa) + 1 + Len(slots) /\ Len(store) = Len(slots)
  BY DEF TraceTypes, Merging
<1>2. Len(ssa) \in Nat /\ Len(slots) \in Nat /\ predicateInput \in {0, 1}
  BY <1>1 DEF TraceTypes
<1>3. cond'.phase = "none" /\ ~program.compiled /\ ~broken /\ ~ran.done
  BY <1>1 DEF NoCond, Calling, MeaningRight
<1>4. PICK good : GoodNodes(good) /\ GoodState(good)
  BY <1>3 DEF MeaningRight
<1> DEFINE new == Len(ssa) + 1 .. Len(ssa')
<1>17. PICK all : all = good \cup new
  OBVIOUS
<1>5. good \in SUBSET (1 .. Len(ssa))
  BY <1>4 DEF GoodNodes
<1>6. \A i \in 1 .. Len(ssa) : Moved(i) /\ known'[i] = known[i]
  BY DEF Merging, Moved
<1>7. 1 \in good /\ known[1] = predicateInput
  BY <1>4 DEF GoodNodes
\* What the branch taken gave is right, and the slots hold it.
<1>8. /\ predicateInput # 0 => cond.thenOut \in good
      /\ predicateInput = 0 => out \in good
  <2>1. CASE predicateInput # 0
    BY <1>1, <1>4, <2>1 DEF GoodState
  <2>2. CASE predicateInput = 0
    <3>1. Live
      BY <1>1, <2>2 DEF Live
    <3>2. QED BY <1>4, <2>2, <3>1, HandleGood
  <2>3. QED BY <2>1, <2>2
<1>9. ASSUME NEW s \in 1 .. Len(slots)
      PROVE  /\ predicateInput # 0 => cond.thenVersions[s] \in good
                                      /\ known[cond.thenVersions[s]] = store[s]
             /\ predicateInput = 0 => slots[s] \in good /\ known[slots[s]] = store[s]
  <2>1. CASE predicateInput # 0
    <3>1. Hold(cond.thenVersions, store, known, good)
      BY <1>1, <1>4, <2>1 DEF GoodState, Replaceable
    <3>2. Len(cond.thenVersions) = Len(slots)
      BY <1>1, ElseKeeps
    <3>3. QED BY <2>1, <3>1, <3>2 DEF Hold
  <2>2. CASE predicateInput = 0
    <3>1. Live
      BY <1>1, <2>2 DEF Live
    <3>2. Hold(slots, store, known, good)
      BY <1>4, <3>1 DEF GoodState
    <3>3. QED BY <2>2, <3>2 DEF Hold
  <2>3. QED BY <2>1, <2>2
\* So the merging nodes are right.
<1>10. ASSUME NEW i \in Nat, i > Len(ssa), NEW v, NEW v2, NEW number, Merged(i, v, v2, number),
              predicateInput # 0 => v \in good /\ number = known[v],
              predicateInput = 0 => v2 \in good /\ number = known[v2]
       PROVE  Computes(ssa'[i], known'[i], known', all)
  <2>1. /\ ssa'[i].op = "if" /\ ssa'[i].args[1] = 1
        /\ ssa'[i].args[2] = v /\ ssa'[i].args[3] = v2
    BY <1>1, <1>10, MergedNode
  <2>2. known'[i] = number
    BY <1>10 DEF Merged
  <2>3. 1 \in all /\ known'[1] = predicateInput
    BY <1>5, <1>6, <1>7, <1>17
  <2>4. CASE predicateInput # 0
    <3>1. v \in all /\ known'[i] = known'[v]
      BY <1>5, <1>6, <1>10, <1>17, <2>2, <2>4
    <3>2. QED BY <2>1, <2>3, <2>4, <3>1 DEF Computes
  <2>5. CASE predicateInput = 0
    <3>1. v2 \in all /\ known'[i] = known'[v2]
      BY <1>5, <1>6, <1>10, <1>17, <2>2, <2>5
    <3>2. QED BY <2>1, <2>3, <2>5, <3>1 DEF Computes
  <2>6. QED BY <2>4, <2>5
<1>11. \A i \in new : Computes(ssa'[i], known'[i], known', all)
  <2> SUFFICES ASSUME NEW i \in new PROVE Computes(ssa'[i], known'[i], known', all)
    OBVIOUS
  <2>1. CASE i = Len(ssa) + 1
    <3> DEFINE number == IF predicateInput # 0 THEN known[cond.thenOut] ELSE known[out]
    <3>1. Merged(i, cond.thenOut, out, number)
      BY <2>1 DEF Merging
    <3>2. /\ predicateInput # 0 => number = known[cond.thenOut]
          /\ predicateInput = 0 => number = known[out]
      OBVIOUS
    <3> HIDE DEF number
    <3>3. i \in Nat /\ i > Len(ssa)
      BY <1>2, <2>1
    <3>4. QED BY <1>8, <1>10, <3>1, <3>2, <3>3
  <2>2. CASE i > Len(ssa) + 1
    <3> DEFINE s == i - Len(ssa) - 1
    <3>1. s \in 1 .. Len(slots) /\ Len(ssa) + 1 + s = i /\ i \in Nat /\ i > Len(ssa)
      BY <1>1, <1>2, <2>2
    <3>2. Merged(Len(ssa) + 1 + s, cond.thenVersions[s], slots[s], store[s])
      BY <3>1 DEF Merging
    <3> HIDE DEF s
    <3>3. Merged(i, cond.thenVersions[s], slots[s], store[s])
      BY <3>1, <3>2
    <3>4. /\ predicateInput # 0 => cond.thenVersions[s] \in good
                                   /\ store[s] = known[cond.thenVersions[s]]
          /\ predicateInput = 0 => slots[s] \in good /\ store[s] = known[slots[s]]
      BY <1>9, <3>1
    <3>5. QED BY <1>10, <3>1, <3>3, <3>4
  <2>3. QED BY <1>2, <2>1, <2>2
<1>12. GoodNodes(all)'
  <2>1. all \subseteq 1 .. Len(ssa')
    <3>1. \A i \in 1 .. Len(ssa) : i \in 1 .. Len(ssa')
      BY <1>1, <1>2
    <3>2. \A i \in Len(ssa) + 1 .. Len(ssa') : i \in 1 .. Len(ssa')
      BY <1>1, <1>2
    <3>3. QED BY <1>5, <1>17, <3>1, <3>2
  <2>2. AbiNodes(ssa') \subseteq all /\ {1, 2} \subseteq AbiNodes(ssa')
    BY <1>4, <1>17, MergeAbi DEF GoodNodes
  <2>3. \A p \in DOMAIN params : params[p] \in all
    BY <1>4, <1>17 DEF GoodNodes
  <2>4. \A i \in all : Computes(ssa'[i], known'[i], known', all)
    <3> SUFFICES ASSUME NEW i \in good PROVE Computes(ssa'[i], known'[i], known', all)
      BY <1>11, <1>17
    <3>1. Computes(ssa[i], known[i], known, good)
      BY <1>4 DEF GoodNodes
    <3>2. good \subseteq all
      BY <1>17
    <3>3. \A j \in 1 .. Len(ssa) : known'[j] = known[j]
      BY <1>6
    <3>4. Computes(ssa[i], known[i], known', all)
      BY <1>5, <3>1, <3>2, <3>3, ComputesKept
    <3>5. ssa[i].op = ssa'[i].op /\ ssa[i].args = ssa'[i].args /\ known'[i] = known[i]
      BY <1>5, <1>6 DEF Moved
    <3>6. QED BY <3>4, <3>5, ComputesSame
  <2>5. known'[1] = predicateInput /\ known'[2] = mask
    <3>1. 2 \in good /\ known[2] = mask
      BY <1>4 DEF GoodNodes
    <3>2. QED BY <1>5, <1>6, <1>7, <3>1
  <2>6. QED BY <1>1, <2>1, <2>2, <2>3, <2>4, <2>5 DEF GoodNodes
<1>13. GoodState(all)'
  <2>1. Hold(slots', store', known', all)
    <3>1. Len(slots') = Len(slots)
      BY <1>1, <1>2
    <3>2. \A s \in 1 .. Len(slots) : slots'[s] \in all /\ known'[slots'[s]] = store[s]
      <4> SUFFICES ASSUME NEW s \in 1 .. Len(slots)
                   PROVE  slots'[s] \in all /\ known'[slots'[s]] = store[s]
        OBVIOUS
      <4>1. slots'[s] = Len(ssa) + 1 + s /\ slots'[s] \in new
        BY <1>1, <1>2
      <4>2. known'[Len(ssa) + 1 + s] = store[s]
        BY DEF Merging, Merged
      <4>3. QED BY <1>17, <4>1, <4>2
    <3>3. QED BY <1>1, <3>1, <3>2 DEF Hold
  <2>2. QED BY <1>3, <2>1 DEF GoodState
<1>14. GoodProgram(all)'
  BY <1>1, <1>3 DEF GoodProgram
<1>15. (\E g : GoodNodes(g) /\ GoodProgram(g) /\ (broken \/ GoodState(g)))'
  <2>1. QED BY <1>12, <1>13, <1>14
<1>16. QED BY <1>1, <1>3, <1>15 DEF MeaningRight

\* So it keeps the invariant, and so it does when the branch fails at its end.
LEMMA EndElseKeeps ==
    ASSUME TraceInv, NEW out \in Handles, EndElse(out)
    PROVE  TraceInv'
<1>1. CASE Replaceable(cond.initial)
  <2>1. TraceTypes /\ AbiRight /\ ScopeRight /\ RegionRight /\ MeaningRight
    BY DEF TraceInv
  <2>2. Merging(out)
    BY <1>1, <2>1, EndElseMerges
  <2>3. QED BY <2>1, <2>2, MergeTypes, MergeAbi, MergeScope, MergeRegions, MergeMeaning DEF TraceInv
<1>2. CASE ~Replaceable(cond.initial)
  BY <1>2, AbandonKeeps DEF EndElse, InBranch
<1>3. QED BY <1>1, <1>2

-----------------------------------------------------------------------------
\* Compilation and execution.

\* Compilation fixes the program, and what it returns is computed right.
LEMMA CompileKeeps ==
    ASSUME TraceInv, NEW out \in Handles, NEW pruned \in BOOLEAN, Compile(out, pruned)
    PROVE  TraceInv'
<1> DEFINE parameters == Parameters({out} \cup Range(slots), pruned)
<1>1. /\ Calling /\ ~InBranch /\ cond.phase = "none"
      /\ program' = [compiled |-> TRUE, out |-> out, parameters |-> parameters,
                     arguments |-> PlanArguments(parameters)]
      /\ UNCHANGED <<ssa, slots, arguments, inputCount, params, cond, store, known>>
      /\ UNCHANGED <<broken, predicateInput, mask, limit, fixed, ran>>
  BY DEF Compile, traceVars, graphVars, InBranch
<1> HIDE DEF parameters
<1>2. /\ program'.compiled /\ program'.out = out /\ program'.parameters = parameters
      /\ program'.arguments = PlanArguments(parameters) /\ program'.compiled = TRUE
  BY <1>1
<1>3. TraceTypes /\ AbiRight /\ ScopeRight /\ RegionRight /\ MeaningRight
  BY DEF TraceInv
<1>4. TraceTypes' /\ AbiRight' /\ ScopeRight' /\ RegionRight'
  <2>1. TraceTypes'
    BY <1>1, <1>2, <1>3 DEF TraceTypes, CondRight
  <2>2. AbiRight'
    BY <1>1, <1>3 DEF AbiRight, Supplied, StateValue, InputValue
  <2>3. ScopeRight' /\ RegionRight'
    BY <1>1, <1>3 DEF ScopeRight, RegionRight
  <2>4. QED BY <2>1, <2>2, <2>3
<1>5. PICK good : GoodNodes(good) /\ GoodState(good)
  BY <1>1, <1>3 DEF MeaningRight, Calling
<1>6. out \in good
  BY <1>1, <1>3, <1>5, HandleGood DEF Live
<1>7. cond = NoCond
  BY <1>1, <1>3 DEF TraceTypes, CondRight
<1>8. GoodProgram(good)'
  <2>1. parameters = Parameters({out} \cup Range(slots), pruned)'
    BY <1>1 DEF parameters, Parameters, Reachable, Uses, IsAbi
  <2>2. PlanArguments(parameters) = PlanArguments(program.parameters)'
    BY <1>1, <1>2 DEF PlanArguments
  <2>3. /\ cond' = NoCond /\ ~broken' /\ program'.out \in good
        /\ program'.arguments = PlanArguments(program.parameters)'
    BY <1>1, <1>2, <1>6, <1>7, <2>2 DEF Calling
  <2>4. (\E p \in BOOLEAN :
             program.parameters = Parameters({program.out} \cup Range(slots), p))'
    BY <1>1, <1>2, <2>1
  <2>5. QED BY <2>3, <2>4 DEF GoodProgram
<1>9. GoodNodes(good)' /\ GoodState(good)'
  BY <1>1, <1>5 DEF GoodNodes, GoodState, Live, Replaceable
<1>10. ~ran'.done
  BY <1>1, <1>3 DEF MeaningRight, Calling
<1>11. (\E g : GoodNodes(g) /\ GoodProgram(g) /\ (broken \/ GoodState(g)))'
  BY <1>8, <1>9
<1>12. QED BY <1>4, <1>10, <1>11 DEF TraceInv, MeaningRight

\* Binding inputs and repeating the last state leave the trace alone.
LEMMA TraceKept ==
    ASSUME TraceInv, UNCHANGED <<traceVars, broken, predicateInput, mask, program>>
    PROVE  /\ TraceTypes /\ ran'.done \in BOOLEAN => TraceTypes'
           /\ AbiRight' /\ ScopeRight' /\ RegionRight'
           /\ \E good : (GoodNodes(good) /\ GoodProgram(good) /\ (broken \/ GoodState(good)))'
<1>1. /\ UNCHANGED <<ssa, slots, arguments, inputCount, params, cond, store, known>>
      /\ UNCHANGED <<broken, predicateInput, mask, program>>
  BY DEF traceVars, graphVars
<1>2. TraceTypes /\ AbiRight /\ ScopeRight /\ RegionRight /\ MeaningRight
  BY DEF TraceInv
<1>3. AbiRight' /\ ScopeRight' /\ RegionRight'
  <2>1. AbiRight'
    BY <1>1, <1>2 DEF AbiRight, Supplied, StateValue, InputValue
  <2>2. ScopeRight' /\ RegionRight'
    BY <1>1, <1>2 DEF ScopeRight, RegionRight
  <2>3. QED BY <2>1, <2>2
<1>4. ran'.done \in BOOLEAN => TraceTypes'
  BY <1>1, <1>2 DEF TraceTypes, CondRight
<1>5. PICK good : GoodNodes(good) /\ GoodProgram(good) /\ (broken \/ GoodState(good))
  BY <1>2 DEF MeaningRight
<1>6. GoodNodes(good)' /\ (broken \/ GoodState(good))'
  BY <1>1, <1>5 DEF GoodNodes, GoodState, Live, Replaceable
<1>7. GoodProgram(good)'
  <2>1. ASSUME NEW pruned \in BOOLEAN
        PROVE  Parameters({program.out} \cup Range(slots), pruned)'
                  = Parameters({program.out} \cup Range(slots), pruned)
    BY <1>1 DEF Parameters, Reachable, Uses, IsAbi
  <2>2. \A p : PlanArguments(p)' = PlanArguments(p)
    BY <1>1 DEF PlanArguments
  <2>3. ASSUME program.compiled
        PROVE  (\E pruned \in BOOLEAN :
                  program.parameters = Parameters({program.out} \cup Range(slots), pruned))'
    <3>1. PICK pruned \in BOOLEAN :
             program.parameters = Parameters({program.out} \cup Range(slots), pruned)
      BY <1>5, <2>3 DEF GoodProgram
    <3>2. (program.parameters = Parameters({program.out} \cup Range(slots), pruned))'
      BY <1>1, <2>1, <3>1
    <3>3. QED BY <3>2
  <2>4. program'.compiled => /\ cond' = NoCond /\ ~broken' /\ program'.out \in good
                             /\ program'.arguments = PlanArguments(program.parameters)'
    BY <1>1, <1>5, <2>2 DEF GoodProgram
  <2>5. QED BY <1>1, <2>3, <2>4 DEF GoodProgram
<1>8. QED BY <1>3, <1>4, <1>6, <1>7

\* Every number of a set has its place in ascending order.
LEMMA AscendingRight ==
    ASSUME NEW F \in SUBSET Nat, IsFiniteSet(F)
    PROVE  /\ DOMAIN Ascending(F) = 1 .. Cardinality(F) /\ Cardinality(F) \in Nat
           /\ \A k \in 1 .. Cardinality(F) : Ascending(F)[k] \in F
           /\ \A n \in F : /\ OrderIn(n, F) \in 1 .. Cardinality(F)
                           /\ Ascending(F)[OrderIn(n, F)] = n
<1>1. \A n : OrderIn(n, F) = Cardinality(Upto(n, F))
  BY DEF OrderIn, Upto
<1>2. /\ Cardinality(F) \in Nat
      /\ \A i \in F : OrderIn(i, F) \in 1 .. Cardinality(F)
      /\ \A i, j \in F : OrderIn(i, F) = OrderIn(j, F) => i = j
      /\ \A k \in 1 .. Cardinality(F) : \E i \in F : OrderIn(i, F) = k
  BY <1>1, FiniteRanks
<1>3. ASSUME NEW k \in 1 .. Cardinality(F)
      PROVE  Ascending(F)[k] \in F /\ OrderIn(Ascending(F)[k], F) = k
  <2>1. Ascending(F)[k] = CHOOSE n \in F : OrderIn(n, F) = k
    BY DEF Ascending
  <2>2. QED BY <1>2, <2>1
<1>4. DOMAIN Ascending(F) = 1 .. Cardinality(F)
  BY DEF Ascending
<1>5. \A n \in F : Ascending(F)[OrderIn(n, F)] = n
  BY <1>2, <1>3
<1>6. QED BY <1>2, <1>3, <1>4, <1>5

\* A call passes what the caller supplies, whichever inputs are bound.
LEMMA ArgumentRight ==
    ASSUME NEW m \in Nat, DOMAIN program.arguments = 1 .. m,
           \A j \in 1 .. m : program.arguments[j] \in AbiArguments,
           NEW j \in 1 .. m
    PROVE  Argument(program.arguments[j]) = Supplied(program.arguments[j])
<1> DEFINE plan == program.arguments
           D == Retained(plan) \ fixed
           a == plan[j]
<1>1. CASE a.kind = "state" \/ a.index \in fixed
  BY <1>1 DEF Argument, Supplied
<1>2. CASE a.kind # "state" /\ a.index \notin fixed
  <2>1. a.kind = "input" /\ a.index \in Nat
    BY <1>2 DEF AbiArguments
  <2>2. a.index \in D
    BY <1>2, <2>1 DEF Retained
  <2>3. D \in SUBSET Nat
    BY DEF Retained, AbiArguments
  <2>4. IsFiniteSet(D)
    <3> DEFINE K == {k \in 1 .. m : plan[k].kind = "input"}
    <3>1. IsFiniteSet(1 .. m)
      BY FS_Interval
    <3>2. IsFiniteSet(K)
      BY <3>1, FS_Subset
    <3>3. Retained(plan) = {plan[k].index : k \in K}
      BY DEF Retained
    <3> HIDE DEF K
    <3> DEFINE image == [k \in K |-> plan[k].index]
               I == {plan[k].index : k \in K}
    <3>4. image \in Surjection(K, I)
      BY DEF Surjection
    <3>5. IsFiniteSet(I)
      <4> HIDE DEF image, I
      <4>1. QED BY <3>2, <3>4, FS_Surjection
    <3>6. QED BY <3>3, <3>5, FS_Subset
  <2> HIDE DEF D
  <2>5. DynamicIndex(a.index) = OrderIn(a.index, D)
    <3> DEFINE below == {k \in D : k < a.index}
    <3>1. {k \in D : k <= a.index} = below \cup {a.index} /\ a.index \notin below
      <4>1. \A k \in D : k \in Nat
        BY <2>3
      <4>2. \A k \in D : k <= a.index <=> k < a.index \/ k = a.index
        BY <2>1, <4>1
      <4>3. a.index \notin below
        BY <2>1
      <4>4. QED BY <2>2, <4>2, <4>3
    <3>2. IsFiniteSet(below)
      BY <2>4, FS_Subset
    <3>3. Cardinality(below \cup {a.index}) = Cardinality(below) + 1
      <4> HIDE DEF below
      <4>1. QED BY <3>1, <3>2, FS_AddElement
    <3>4. QED BY <3>1, <3>3 DEF DynamicIndex, OrderIn, D
  <2>6. /\ DOMAIN Ascending(D) = 1 .. Cardinality(D)
        /\ OrderIn(a.index, D) \in 1 .. Cardinality(D)
        /\ Ascending(D)[OrderIn(a.index, D)] = a.index
    BY <2>2, <2>3, <2>4, AscendingRight
  <2>7. DynamicValues[OrderIn(a.index, D)] = InputValue(a.index)
    BY <2>6 DEF DynamicValues, D
  <2>8. QED BY <1>2, <2>5, <2>7 DEF Argument, Supplied
<1>3. QED BY <1>1, <1>2

-----------------------------------------------------------------------------
\* What is reachable.

\* What node i uses is recorded before it.
LEMMA UsesBelow ==
    ASSUME TraceTypes, RegionRight, NEW i \in 1 .. Len(ssa)
    PROVE  Uses(i) \subseteq 1 .. i - 1
<1> DEFINE operands(j) == IF IsAbi(j) THEN {} ELSE Range(ssa[j].args)
<1>1. ssa \in Seq(Recorded) /\ Len(ssa) \in Nat /\ DOMAIN ssa = 1 .. Len(ssa)
  BY DEF TraceTypes
<1>2. ASSUME NEW j \in 1 .. Len(ssa)
      PROVE  operands(j) \subseteq 1 .. j - 1
  <2>1. NodeAt(ssa[j], j) /\ ssa[j].args \in Seq(Nat)
    <3>1. NodeAt(ssa[j], j)
      BY DEF TraceTypes
    <3>2. ssa[j] \in Recorded
      BY <1>1
    <3>3. QED BY <3>1, <3>2 DEF Recorded
  <2>2. DOMAIN ssa[j].args = 1 .. Len(ssa[j].args)
    BY <2>1
  <2>3. CASE ~IsAbi(j)
    BY <2>1, <2>2, <2>3 DEF NodeAt, IsAbi, AbiOps, Range
  <2>4. QED BY <2>3
<1>3. ASSUME ssa[i].op = "if", NEW j \in DOMAIN ssa, ssa[j].region # 0,
             ssa[j].region \in {ssa[i].then, ssa[i].else}
      PROVE  operands(j) \subseteq 1 .. i - 1
  <2>1. j < i /\ j \in 1 .. Len(ssa)
    BY <1>1, <1>3 DEF RegionRight
  <2>2. 1 .. j - 1 \subseteq 1 .. i - 1
    BY <1>1, <2>1
  <2>3. QED BY <1>2, <2>1, <2>2
<1> HIDE DEF operands
<1>4. Uses(i) = operands(i) \cup
         IF ssa[i].op = "if"
         THEN UNION {operands(j) : j \in {k \in DOMAIN ssa :
                        ssa[k].region # 0 /\ ssa[k].region \in {ssa[i].then, ssa[i].else}}}
         ELSE {}
  BY DEF Uses, operands
<1>5. QED BY <1>2, <1>3, <1>4

\* The sets of nodes reachable from each node, as the recursion gives them.
Reaches(f) == f = [i \in DOMAIN ssa |-> {i} \cup UNION {f[j] : j \in Uses(i)}]

\* The recursion has a solution: the least sets closed under use.
LEMMA ReachesExists ==
    ASSUME DOMAIN ssa = 1 .. Len(ssa), \A i \in DOMAIN ssa : Uses(i) \subseteq DOMAIN ssa
    PROVE  \E f : Reaches(f)
<1> DEFINE Closed(T) == \A j \in T : Uses(j) \subseteq T
           From(i) == {x \in DOMAIN ssa : \A T \in SUBSET DOMAIN ssa : i \in T /\ Closed(T) => x \in T}
           f == [i \in DOMAIN ssa |-> From(i)]
<1>1. \A i \in DOMAIN ssa : i \in From(i) /\ Closed(From(i)) /\ From(i) \subseteq DOMAIN ssa
  OBVIOUS
<1>2. ASSUME NEW i \in DOMAIN ssa
      PROVE  From(i) = {i} \cup UNION {From(j) : j \in Uses(i)}
  <2> DEFINE U == {i} \cup UNION {From(j) : j \in Uses(i)}
  <2>1. U \in SUBSET DOMAIN ssa /\ i \in U
    BY <1>1
  <2>2. Closed(U)
    <3> SUFFICES ASSUME NEW y \in U, NEW z \in Uses(y) PROVE z \in U
      OBVIOUS
    <3>1. CASE y = i
      <4>1. z \in From(z) /\ z \in Uses(i)
        BY <1>1, <3>1
      <4>2. QED BY <4>1
    <3>2. CASE \E j \in Uses(i) : y \in From(j)
      <4>1. PICK j \in Uses(i) : y \in From(j)
        BY <3>2
      <4>2. z \in From(j)
        BY <1>1, <4>1
      <4>3. QED BY <4>1, <4>2
    <3>3. QED BY <3>1, <3>2
  <2>3. From(i) \subseteq U
    BY <2>1, <2>2
  <2>4. ASSUME NEW j \in Uses(i), NEW x \in From(j)
        PROVE  x \in From(i)
    OBVIOUS
  <2>5. QED BY <1>1, <2>3, <2>4
<1>3. f = [i \in DOMAIN ssa |-> {i} \cup UNION {f[j] : j \in Uses(i)}]
  <2>1. ASSUME NEW i \in DOMAIN ssa
        PROVE  {f[j] : j \in Uses(i)} = {From(j) : j \in Uses(i)}
    OBVIOUS
  <2> HIDE DEF From
  <2>2. QED BY <1>2, <2>1
<1> HIDE DEF f
<1>4. Reaches(f)
  BY <1>3 DEF Reaches
<1>5. QED BY <1>4

\* Roots are reachable, and so is what a reachable node uses.
LEMMA ReachableRight ==
    ASSUME TraceTypes, RegionRight, NEW roots \in SUBSET (1 .. Len(ssa))
    PROVE  /\ roots \subseteq Reachable(roots)
           /\ \A i \in Reachable(roots) \cap (1 .. Len(ssa)) : Uses(i) \subseteq Reachable(roots)
<1> DEFINE n == Len(ssa)
<1>1. ssa \in Seq(Recorded) /\ n \in Nat /\ DOMAIN ssa = 1 .. n
  BY DEF TraceTypes
<1>2. \A i \in 1 .. n : Uses(i) \subseteq 1 .. i - 1
  BY UsesBelow
<1>3. \A i \in 1 .. n : Uses(i) \subseteq 1 .. n
  BY <1>1, <1>2
<1>4. PICK f : Reaches(f) /\ Reachable(roots) = UNION {f[i] : i \in roots}
  <2>1. Reachable(roots) = UNION {(CHOOSE f : Reaches(f))[i] : i \in roots}
    BY DEF Reachable, Reaches
  <2>2. \E f : Reaches(f)
    BY <1>1, <1>3, ReachesExists
  <2>3. QED BY <2>1, <2>2
<1>5. \A i \in 1 .. n : f[i] = {i} \cup UNION {f[j] : j \in Uses(i)}
  BY <1>1, <1>4 DEF Reaches
<1> HIDE DEF n
<1> DEFINE T == {i \in 1 .. n : ~ \A y \in f[i] \cap (1 .. n) : Uses(y) \subseteq f[i]}
<1>6. T = {}
  <2>1. SUFFICES ASSUME T # {} PROVE FALSE
    OBVIOUS
  <2>2. T \in SUBSET Nat
    BY <1>1
  <2>3. PICK i \in T : \A j \in T : i <= j
    <3> HIDE DEF T
    <3>1. QED BY <2>1, <2>2, LeastNumber
  <2>4. PICK y \in f[i] \cap (1 .. n) : ~(Uses(y) \subseteq f[i])
    BY <2>3
  <2>5. PICK z \in Uses(y) : z \notin f[i]
    BY <2>4
  <2>6. i \in 1 .. n /\ y \in 1 .. n /\ z \in 1 .. n
    BY <1>3, <2>3, <2>4, <2>5
  <2>7. CASE y = i
    <3>1. z \in f[z]
      BY <1>5, <2>6
    <3>2. QED BY <1>5, <2>5, <2>6, <2>7, <3>1
  <2>8. CASE \E j \in Uses(i) : y \in f[j]
    <3>1. PICK j \in Uses(i) : y \in f[j]
      BY <2>8
    <3>2. j \in 1 .. n /\ ~(i <= j)
      BY <1>1, <1>2, <2>6, <3>1
    <3>3. j \notin T
      BY <2>3, <3>2
    <3>4. z \in f[j]
      BY <2>5, <2>6, <3>1, <3>2, <3>3
    <3>5. QED BY <1>5, <2>5, <2>6, <3>1, <3>4
  <2>9. f[i] = {i} \cup UNION {f[j] : j \in Uses(i)} /\ y \in f[i]
    BY <1>5, <2>4, <2>6
  <2>10. QED BY <2>7, <2>8, <2>9
<1>7. \A i \in roots : i \in f[i]
  BY <1>5 DEF n
<1>8. ASSUME NEW y \in Reachable(roots) \cap (1 .. n), NEW z \in Uses(y)
      PROVE  z \in Reachable(roots)
  <2>1. PICK i \in roots : y \in f[i]
    BY <1>4, <1>8
  <2>2. i \in 1 .. n /\ i \notin T
    BY <1>6 DEF n
  <2>3. z \in f[i]
    BY <1>8, <2>1, <2>2
  <2>4. QED BY <1>4, <2>3
<1>9. QED BY <1>4, <1>7, <1>8 DEF n

-----------------------------------------------------------------------------
\* What the executable computes.

\* What node k is given the values of the nodes before it.
BoundTo(n) == CHOOSE j \in DOMAIN program.parameters : program.parameters[j] = n
NodeGives(v, k) ==
    LET a == ssa[k].args IN
    CASE IsAbi(k) -> Argument(program.arguments[BoundTo(a[1])])
      [] ssa[k].op = "mark" -> v[a[1]]
      [] ssa[k].op = "add" -> v[a[1]] + v[a[2]]
      [] OTHER -> IF v[a[1]] # 0 THEN v[a[2]] ELSE v[a[3]]
Evaluates(v) == v = [k \in DOMAIN ssa |-> NodeGives(v, k)]

\* Only operands matter.
LEMMA EvaluateSame ==
    ASSUME TraceTypes, NEW k \in 1 .. Len(ssa), NEW v, NEW v2, \A j \in 1 .. k - 1 : v[j] = v2[j]
    PROVE  NodeGives(v, k) = NodeGives(v2, k)
<1>1. NodeAt(ssa[k], k) /\ ssa[k] \in Recorded
  BY DEF TraceTypes
<1>2. CASE IsAbi(k)
  <2>1. ssa[k].op # "mark" /\ ssa[k].op # "add"
    BY <1>2 DEF IsAbi
  <2>2. QED BY <1>2, <2>1 DEF NodeGives
<1>3. CASE ~IsAbi(k) /\ ssa[k].op = "mark"
  <2>1. ssa[k].args[1] \in 1 .. k - 1
    BY <1>1, <1>3 DEF NodeAt, OperandCount, AbiOps
  <2>2. QED BY <1>3, <2>1 DEF NodeGives
<1>4. CASE ~IsAbi(k) /\ ssa[k].op = "add"
  <2>1. ssa[k].args[1] \in 1 .. k - 1 /\ ssa[k].args[2] \in 1 .. k - 1
    BY <1>1, <1>4 DEF NodeAt, OperandCount, AbiOps
  <2>2. QED BY <1>4, <2>1 DEF NodeGives
<1>5. CASE ~IsAbi(k) /\ ssa[k].op \notin {"mark", "add"}
  <2>1. /\ ssa[k].args[1] \in 1 .. k - 1 /\ ssa[k].args[2] \in 1 .. k - 1
        /\ ssa[k].args[3] \in 1 .. k - 1
    BY <1>1, <1>5 DEF NodeAt, OperandCount, AbiOps, IsAbi
  <2>2. QED BY <1>5, <2>1 DEF NodeGives
<1>6. QED BY <1>2, <1>3, <1>4, <1>5

\* The recursion that computes the values has a solution.
LEMMA EvaluationExists ==
    ASSUME TraceTypes
    PROVE  \E v : Evaluates(v)
<1> DEFINE n == Len(ssa)
           Upto2(m, v) == \A k \in 1 .. m : v[k] = NodeGives(v, k)
           T == {m \in 0 .. n : ~ \E v : Upto2(m, v)}
<1>1. n \in Nat /\ DOMAIN ssa = 1 .. n
  <2>1. ssa \in Seq(Recorded)
    BY DEF TraceTypes
  <2>2. QED BY <2>1
<1> HIDE DEF n
<1>2. T = {}
  <2>1. SUFFICES ASSUME T # {} PROVE FALSE
    OBVIOUS
  <2>2. PICK m \in T : \A j \in T : m <= j
    <3>1. T \in SUBSET Nat
      BY <1>1
    <3> HIDE DEF T
    <3>2. QED BY <2>1, <3>1, LeastNumber
  <2>3. m \in 0 .. n /\ ~ \E v : Upto2(m, v)
    BY <2>2
  <2>4. m # 0
    <3>1. Upto2(0, <<>>)
      OBVIOUS
    <3>2. QED BY <2>3, <3>1
  <2>5. m - 1 \in 0 .. n /\ ~(m <= m - 1) /\ m \in 1 .. n
    BY <1>1, <2>3, <2>4
  <2>6. m - 1 \notin T
    BY <2>2, <2>5
  <2>7. PICK v : Upto2(m - 1, v)
    BY <2>5, <2>6
  <2> DEFINE v2 == [k \in 1 .. m |-> IF k = m THEN NodeGives(v, m) ELSE v[k]]
  <2>8. \A j \in 1 .. m - 1 : v2[j] = v[j]
    BY <2>5
  <2>9. v2[m] = NodeGives(v, m)
    BY <2>5
  <2> HIDE DEF v2
  <2>10. ASSUME NEW k \in 1 .. m PROVE v2[k] = NodeGives(v2, k)
    <3>1. k \in 1 .. n /\ \A j \in 1 .. k - 1 : v2[j] = v[j]
      BY <1>1, <2>5, <2>8
    <3>2. NodeGives(v2, k) = NodeGives(v, k)
      BY <3>1, EvaluateSame DEF n
    <3>3. CASE k = m
      BY <2>9, <3>2, <3>3
    <3>4. CASE k # m
      <4>1. k \in 1 .. m - 1
        BY <2>5, <3>4
      <4>2. QED BY <2>7, <2>8, <3>2, <4>1
    <3>5. QED BY <3>3, <3>4
  <2>11. Upto2(m, v2)
    BY <2>10
  <2>12. QED BY <2>3, <2>11
<1>3. PICK v : Upto2(n, v)
  <2>1. n \in 0 .. n
    BY <1>1
  <2>2. QED BY <1>2, <2>1
<1> DEFINE v2 == [k \in 1 .. n |-> v[k]]
<1>4. \A k \in 1 .. n : v2[k] = v[k]
  OBVIOUS
<1>5. v2 = [k \in 1 .. n |-> v2[k]]
  OBVIOUS
<1> HIDE DEF v2
<1>6. \A k \in 1 .. n : v2[k] = NodeGives(v2, k)
  <2> SUFFICES ASSUME NEW k \in 1 .. n PROVE v2[k] = NodeGives(v2, k)
    OBVIOUS
  <2>1. \A j \in 1 .. k - 1 : v2[j] = v[j]
    BY <1>1, <1>4
  <2>2. NodeGives(v2, k) = NodeGives(v, k)
    BY <2>1, EvaluateSame DEF n
  <2>3. QED BY <1>3, <1>4, <2>2
<1>7. Evaluates(v2)
  BY <1>1, <1>5, <1>6 DEF Evaluates
<1>8. QED BY <1>7

\* Value(i) is what such an evaluation gives.
LEMMA ValueEvaluates ==
    ASSUME TraceTypes
    PROVE  \E v : Evaluates(v) /\ \A i : Value(i) = v[i]
<1>1. \A i : Value(i) = (CHOOSE v : Evaluates(v))[i]
  BY DEF Value, Evaluates, NodeGives, BoundTo
<1>2. Evaluates(CHOOSE v : Evaluates(v))
  BY EvaluationExists
<1>3. QED BY <1>1, <1>2

\* The program has an argument for each parameter it keeps, the one registered.
LEMMA ParameterBound ==
    ASSUME TraceTypes, AbiRight, NEW roots, NEW pruned \in BOOLEAN,
           program.parameters = Parameters(roots, pruned),
           program.arguments = PlanArguments(program.parameters),
           NEW k \in AbiNodes(ssa), k \in Reachable(roots)
    PROVE  Argument(program.arguments[BoundTo(ssa[k].args[1])]) = known[k]
<1> DEFINE kept == {i \in DOMAIN ssa : IsAbi(i) /\ (pruned => i \in Reachable(roots))}
           F == {ssa[i].args[1] : i \in kept}
           n == ssa[k].args[1]
           c == Cardinality(F)
<1>1. /\ ssa \in Seq(Recorded) /\ DOMAIN ssa = 1 .. Len(ssa) /\ Len(ssa) \in Nat
      /\ arguments \in Seq(AbiArguments)
      /\ kept \subseteq AbiNodes(ssa) /\ k \in kept
  <2>1. ssa \in Seq(Recorded) /\ arguments \in Seq(AbiArguments)
    BY DEF TraceTypes
  <2>2. kept \subseteq AbiNodes(ssa) /\ k \in kept
    BY DEF AbiNodes, AbiOps, IsAbi
  <2>3. QED BY <2>1, <2>2
<1>2. /\ F \subseteq 0 .. Len(arguments) - 1 /\ F \in SUBSET Nat /\ n \in F
      /\ Len(arguments) \in Nat
  <2>1. Len(arguments) \in Nat
    BY <1>1
  <2>2. \A i \in kept : ssa[i].args[1] \in 0 .. Len(arguments) - 1
    BY <1>1 DEF AbiRight
  <2> HIDE DEF kept
  <2>3. QED BY <1>1, <2>1, <2>2
<1>3. IsFiniteSet(F)
  <2>1. IsFiniteSet(0 .. Len(arguments) - 1)
    BY <1>2, FS_Interval
  <2> HIDE DEF F
  <2>2. QED BY <1>2, <2>1, FS_Subset
<1>4. program.parameters = Ascending(F)
  BY DEF Parameters
<1> HIDE DEF F
<1>5. /\ DOMAIN program.parameters = 1 .. c /\ c \in Nat
      /\ \A j \in 1 .. c : program.parameters[j] \in F
      /\ \E j \in 1 .. c : program.parameters[j] = n
  <2>1. /\ DOMAIN Ascending(F) = 1 .. c /\ c \in Nat
        /\ \A j \in 1 .. c : Ascending(F)[j] \in F
        /\ OrderIn(n, F) \in 1 .. c /\ Ascending(F)[OrderIn(n, F)] = n
    BY <1>2, <1>3, AscendingRight
  <2>2. QED BY <1>4, <2>1
<1> HIDE DEF c, n
<1>6. BoundTo(n) \in 1 .. c /\ program.parameters[BoundTo(n)] = n
  BY <1>5 DEF BoundTo
<1>7. /\ DOMAIN program.arguments = 1 .. c
      /\ \A j \in 1 .. c : program.arguments[j] = arguments[program.parameters[j] + 1]
  BY <1>5 DEF PlanArguments
<1>8. ASSUME NEW j \in 1 .. c PROVE program.arguments[j] \in AbiArguments
  <2>1. program.parameters[j] + 1 \in 1 .. Len(arguments)
    <3>1. program.parameters[j] \in 0 .. Len(arguments) - 1
      BY <1>2, <1>5
    <3>2. QED BY <1>2, <3>1
  <2>2. QED BY <1>1, <1>7, <2>1
<1>9. Argument(program.arguments[BoundTo(n)]) = Supplied(program.arguments[BoundTo(n)])
  BY <1>5, <1>6, <1>7, <1>8, ArgumentRight
<1>10. program.arguments[BoundTo(n)] = arguments[n + 1]
  BY <1>6, <1>7
<1>11. known[k] = Supplied(arguments[n + 1])
  BY DEF AbiRight, n
<1>12. QED BY <1>9, <1>10, <1>11 DEF n

\* Operands of a node that is no argument are used by it.
LEMMA OperandUsed ==
    ASSUME TraceTypes, NEW k \in 1 .. Len(ssa), ssa[k].op \notin AbiOps,
           NEW j \in 1 .. OperandCount(ssa[k].op)
    PROVE  ssa[k].args[j] \in Uses(k) /\ ssa[k].args[j] \in 1 .. k - 1
<1>1. NodeAt(ssa[k], k)
  BY DEF TraceTypes
<1>2. ssa[k].args \in Seq(Nat)
  <2>1. ssa[k] \in Recorded
    BY DEF TraceTypes
  <2>2. QED BY <2>1 DEF Recorded
<1>3. j \in DOMAIN ssa[k].args /\ ssa[k].args[j] \in 1 .. k - 1
  BY <1>1, <1>2 DEF NodeAt
<1>4. ssa[k].args[j] \in Range(ssa[k].args)
  BY <1>3 DEF Range
<1>5. QED BY <1>3, <1>4 DEF Uses, IsAbi, AbiOps

\* Of the nodes that are reached, those that count are computed right.
LEMMA ComputedRight ==
    ASSUME TraceInv, program.compiled, NEW good, GoodNodes(good), GoodProgram(good),
           NEW v, Evaluates(v),
           NEW k \in good, k \in Reachable({program.out} \cup Range(slots))
    PROVE  v[k] = known[k]
<1> DEFINE n == Len(ssa)
           roots == {program.out} \cup Range(slots)
           R == Reachable(roots)
           T == {i \in good \cap R : v[i] # known[i]}
<1>1. /\ TraceTypes /\ AbiRight /\ RegionRight
      /\ ssa \in Seq(Recorded) /\ n \in Nat /\ DOMAIN ssa = 1 .. n
      /\ good \in SUBSET (1 .. n)
  BY DEF TraceInv, TraceTypes, GoodNodes
<1>2. roots \in SUBSET (1 .. n)
  <2>1. program.out \in good
    BY DEF GoodProgram
  <2>2. slots \in Seq(1 .. n)
    BY <1>1 DEF TraceTypes
  <2>3. Range(slots) \subseteq 1 .. n
    BY <2>2 DEF Range
  <2>4. QED BY <1>1, <2>1, <2>3
<1>3. PICK pruned \in BOOLEAN : program.parameters = Parameters(roots, pruned)
  BY DEF GoodProgram
<1>4. program.arguments = PlanArguments(program.parameters)
  BY DEF GoodProgram
<1> HIDE DEF roots
<1>5. \A i \in R \cap (1 .. n) : Uses(i) \subseteq R
  BY <1>1, <1>2, ReachableRight DEF n
<1>6. \A i \in good : Computes(ssa[i], known[i], known, good)
  BY DEF GoodNodes
<1>7. \A i \in 1 .. n : v[i] = NodeGives(v, i)
  BY <1>1 DEF Evaluates
<1>8. T = {}
  <2>1. SUFFICES ASSUME T # {} PROVE FALSE
    OBVIOUS
  <2>2. PICK i \in T : \A j \in T : i <= j
    <3>1. T \in SUBSET Nat
      <4>1. \A j \in 1 .. n : j \in Nat
        OBVIOUS
      <4>2. \A j \in good : j \in 1 .. n
        BY <1>1
      <4>3. QED BY <4>1, <4>2
    <3> HIDE DEF T
    <3>2. QED BY <2>1, <3>1, LeastNumber
  <2>3. i \in good /\ i \in R /\ v[i] # known[i] /\ i \in 1 .. n /\ i \in 1 .. Len(ssa)
    BY <1>1, <2>2
  <2> DEFINE op == ssa[i].op
             a == ssa[i].args
  <2>4. ASSUME op \notin AbiOps, NEW j \in 1 .. OperandCount(op), a[j] \in good
        PROVE  v[a[j]] = known[a[j]]
    <3>1. a[j] \in Uses(i) /\ a[j] \in 1 .. i - 1
      BY <1>1, <2>3, <2>4, OperandUsed
    <3>2. a[j] \in R
      BY <1>5, <2>3, <3>1
    <3>3. ~(i <= a[j])
      BY <1>1, <2>3, <3>1
    <3>4. a[j] \notin T
      BY <2>2, <3>3
    <3>5. QED BY <2>4, <3>2, <3>4
  <2>5. Computes(ssa[i], known[i], known, good) /\ v[i] = NodeGives(v, i)
    BY <1>6, <1>7, <2>3
  <2>6. op \in AbiOps \cup {"mark", "add", "select", "if"}
    <3>1. ssa[i] \in Recorded
      BY <1>1, <2>3
    <3>2. QED BY <3>1 DEF Recorded, Operations
  <2> HIDE DEF T
  <2>7. CASE op \in AbiOps
    <3>1. i \in AbiNodes(ssa)
      BY <1>1, <2>3, <2>7 DEF AbiNodes
    <3>2. Argument(program.arguments[BoundTo(a[1])]) = known[i]
      BY <1>1, <1>3, <1>4, <2>3, <3>1, ParameterBound
    <3>3. NodeGives(v, i) = Argument(program.arguments[BoundTo(a[1])])
      BY <2>7 DEF NodeGives, IsAbi, AbiOps
    <3>4. QED BY <2>3, <2>5, <3>2, <3>3
  <2>8. CASE op = "mark"
    <3>1. a[1] \in good /\ known[i] = known[a[1]]
      BY <2>5, <2>8 DEF Computes, AbiOps
    <3>2. v[a[1]] = known[a[1]]
      BY <2>4, <2>8, <3>1 DEF OperandCount, AbiOps
    <3>3. NodeGives(v, i) = v[a[1]]
      BY <2>8 DEF NodeGives, IsAbi
    <3>4. QED BY <2>3, <2>5, <3>1, <3>2, <3>3
  <2>9. CASE op = "add"
    <3>1. a[1] \in good /\ a[2] \in good /\ known[i] = known[a[1]] + known[a[2]]
      BY <2>5, <2>9 DEF Computes, AbiOps
    <3>2. v[a[1]] = known[a[1]] /\ v[a[2]] = known[a[2]]
      BY <2>4, <2>9, <3>1 DEF OperandCount, AbiOps
    <3>3. NodeGives(v, i) = v[a[1]] + v[a[2]]
      BY <2>9 DEF NodeGives, IsAbi
    <3>4. QED BY <2>3, <2>5, <3>1, <3>2, <3>3
  <2>10. CASE op \in {"select", "if"}
    <3>1. /\ a[1] \in good
          /\ known[a[1]] # 0 => a[2] \in good /\ known[i] = known[a[2]]
          /\ known[a[1]] = 0 => a[3] \in good /\ known[i] = known[a[3]]
      BY <2>5, <2>10 DEF Computes, AbiOps
    <3>2. OperandCount(op) = 3 /\ op \notin AbiOps
      BY <2>10 DEF OperandCount, AbiOps
    <3>3. /\ v[a[1]] = known[a[1]]
          /\ a[2] \in good => v[a[2]] = known[a[2]]
          /\ a[3] \in good => v[a[3]] = known[a[3]]
      BY <2>4, <3>1, <3>2
    <3>4. NodeGives(v, i) = IF v[a[1]] # 0 THEN v[a[2]] ELSE v[a[3]]
      BY <2>10 DEF NodeGives, IsAbi
    <3>5. QED BY <2>3, <2>5, <3>1, <3>3, <3>4
  <2>11. QED BY <2>6, <2>7, <2>8, <2>9, <2>10
<1>9. k \in R
  BY DEF roots
<1>10. QED BY <1>8, <1>9

\* An execution gives what the interpreter has.
LEMMA RunKeeps ==
    ASSUME TraceInv, RunSession
    PROVE  TraceInv'
<1>1. /\ program.compiled
      /\ ran' = [done |-> TRUE, visible |-> Value(program.out), wanted |-> known[program.out],
                 states |-> [s \in DOMAIN slots |-> Value(slots[s])]]
      /\ UNCHANGED <<traceVars, broken, predicateInput, mask, limit, program, fixed>>
  BY DEF RunSession
<1>2. PICK good : GoodNodes(good) /\ GoodProgram(good) /\ (broken \/ GoodState(good))
  BY DEF TraceInv, MeaningRight
<1>3. PICK v : Evaluates(v) /\ \A i : Value(i) = v[i]
  BY ValueEvaluates DEF TraceInv
<1> DEFINE roots == {program.out} \cup Range(slots)
<1>4. /\ slots \in Seq(1 .. Len(ssa)) /\ store \in Seq(Int) /\ Len(store) = Len(slots)
      /\ TraceTypes /\ RegionRight
  BY DEF TraceInv, TraceTypes
<1>5. /\ cond = NoCond /\ ~broken /\ program.out \in good
  BY <1>1, <1>2 DEF GoodProgram
<1>6. Hold(slots, store, known, good)
  BY <1>2, <1>5 DEF GoodState, Live, NoCond
<1>7. DOMAIN slots = 1 .. Len(slots) /\ DOMAIN store = 1 .. Len(slots)
  BY <1>4
<1>8. roots \subseteq Reachable(roots)
  <2>1. good \subseteq 1 .. Len(ssa)
    BY <1>2 DEF GoodNodes
  <2>2. Range(slots) \subseteq 1 .. Len(ssa)
    BY <1>4 DEF Range
  <2>3. roots \in SUBSET (1 .. Len(ssa))
    BY <1>5, <2>1, <2>2
  <2> HIDE DEF roots
  <2>4. QED BY <1>4, <2>3, ReachableRight
<1>9. Value(program.out) = known[program.out]
  <2>1. program.out \in Reachable(roots)
    BY <1>8
  <2>2. QED BY <1>1, <1>2, <1>3, <1>5, <2>1, ComputedRight
<1>10. ASSUME NEW s \in 1 .. Len(slots)
       PROVE  Value(slots[s]) = store[s]
  <2>1. slots[s] \in good /\ known[slots[s]] = store[s]
    BY <1>6 DEF Hold
  <2>2. slots[s] \in Reachable(roots)
    BY <1>7, <1>8 DEF Range
  <2>3. QED BY <1>1, <1>2, <1>3, <2>1, <2>2, ComputedRight
<1>11. RunIsImperative'
  <2>1. ran'.visible = ran'.wanted
    BY <1>1, <1>9
  <2>2. ran'.states = [s \in 1 .. Len(slots) |-> store[s]]
    BY <1>1, <1>7, <1>10
  <2>3. store = [s \in 1 .. Len(slots) |-> store[s]]
    BY <1>4
  <2>4. store' = store
    BY <1>1 DEF traceVars
  <2>5. QED BY <2>1, <2>2, <2>3, <2>4 DEF RunIsImperative
<1>12. /\ (TraceTypes /\ AbiRight /\ ScopeRight /\ RegionRight)'
       /\ \E g : (GoodNodes(g) /\ GoodProgram(g) /\ (broken \/ GoodState(g)))'
  <2>1. ran'.done \in BOOLEAN
    BY <1>1
  <2>2. QED BY <1>1, <1>4, <2>1, TraceKept
<1>13. program'.compiled
  BY <1>1
<1>14. QED BY <1>11, <1>12, <1>13 DEF TraceInv, MeaningRight

\* Binding an input changes nothing of the trace,
LEMMA BindKeeps ==
    ASSUME TraceInv, NEW i, BindInput(i)
    PROVE  TraceInv'
<1>1. /\ UNCHANGED <<traceVars, broken, predicateInput, mask, program, ran>> /\ ~ran.done
  BY DEF BindInput
<1>2. TraceTypes
  BY DEF TraceInv
<1>3. /\ (TraceTypes /\ AbiRight /\ ScopeRight /\ RegionRight)'
      /\ \E g : (GoodNodes(g) /\ GoodProgram(g) /\ (broken \/ GoodState(g)))'
  <2>1. ran'.done \in BOOLEAN
    BY <1>1, <1>2 DEF TraceTypes
  <2>2. QED BY <1>1, <1>2, <2>1, TraceKept
<1>4. ~ran'.done
  BY <1>1
<1>5. QED BY <1>3, <1>4 DEF TraceInv, MeaningRight

\* and a refused call nothing at all.
LEMMA NothingKeeps ==
    ASSUME TraceInv, UNCHANGED stateVars
    PROVE  TraceInv'
<1>1. UNCHANGED <<traceVars, broken, predicateInput, mask, program, ran>>
  BY DEF stateVars, runVars
<1>2. TraceTypes /\ MeaningRight
  BY DEF TraceInv
<1>3. /\ (TraceTypes /\ AbiRight /\ ScopeRight /\ RegionRight)'
      /\ \E g : (GoodNodes(g) /\ GoodProgram(g) /\ (broken \/ GoodState(g)))'
  <2>1. ran'.done \in BOOLEAN
    BY <1>1, <1>2 DEF TraceTypes
  <2>2. QED BY <1>1, <1>2, <2>1, TraceKept
<1>4. ran'.done => program'.compiled /\ RunIsImperative'
  BY <1>1, <1>2 DEF MeaningRight, RunIsImperative, traceVars
<1>5. QED BY <1>3, <1>4 DEF TraceInv, MeaningRight

\* A trace begins with the predicate and the mask.
LEMMA TraceStarts ==
    ASSUME TraceInit
    PROVE  TraceInv
<1> DEFINE first == Node("input", <<0>>)
           second == Node("input", <<1>>)
<1>1. /\ ssa = <<first, second>> /\ known = <<predicateInput, mask>>
      /\ arguments = <<[kind |-> "input", index |-> 0], [kind |-> "input", index |-> 1]>>
      /\ inputCount = 2 /\ slots = <<>> /\ store = <<>> /\ params = [p \in {} |-> 0]
      /\ cond = NoCond /\ broken = FALSE /\ program = NoProgram /\ ran = [done |-> FALSE]
      /\ predicateInput \in {0, 1} /\ mask \in {0, 1}
  BY DEF TraceInit
<1>2. first \in Recorded /\ second \in Recorded
  <2>1. <<0>> \in Seq(Nat) /\ <<1>> \in Seq(Nat) /\ "input" \in Operations
    BY DEF Operations, AbiOps
  <2>2. QED BY <2>1, NodeRecorded
<1>3. /\ first.op = "input" /\ first.args = <<0>> /\ first.region = 0
      /\ second.op = "input" /\ second.args = <<1>> /\ second.region = 0
  BY DEF Node
<1> HIDE DEF first, second
<1>4. /\ ssa \in Seq(Recorded) /\ Len(ssa) = 2 /\ ssa[1] = first /\ ssa[2] = second
      /\ DOMAIN ssa = {1, 2} /\ 1 .. Len(ssa) = {1, 2}
  <2>1. ssa \in Seq(Recorded) /\ Len(ssa) = 2 /\ ssa[1] = first /\ ssa[2] = second
    BY <1>1, <1>2, Short
  <2>2. DOMAIN ssa = 1 .. 2
    BY <2>1
  <2>3. QED BY <2>1, <2>2
<1>5. known \in Seq(Int) /\ Len(known) = 2 /\ known[1] = predicateInput /\ known[2] = mask
  <2>1. predicateInput \in Int /\ mask \in Int
    BY <1>1
  <2>2. QED BY <1>1, <2>1, Short
<1> DEFINE one == [kind |-> "input", index |-> 0]
           two == [kind |-> "input", index |-> 1]
<1>6. /\ arguments \in Seq(AbiArguments) /\ Len(arguments) = 2
      /\ arguments[1] = one /\ arguments[2] = two
  <2>1. one \in AbiArguments /\ two \in AbiArguments
    BY DEF AbiArguments
  <2>2. arguments = <<one, two>>
    BY <1>1
  <2> HIDE DEF one, two
  <2>3. QED BY <2>1, <2>2, Short
<1>7. cond.phase = "none" /\ ~program.compiled /\ program.compiled \in BOOLEAN /\ ran.done = FALSE
  BY <1>1 DEF NoCond, NoProgram
<1>8. slots = <<>> /\ Len(slots) = 0 /\ store = <<>> /\ Len(store) = 0 /\ DOMAIN params = {}
  BY <1>1
<1>9. TraceTypes
  <2>1. \A i \in 1 .. Len(ssa) : NodeAt(ssa[i], i)
    <3>1. \A i \in {1, 2} : Len(ssa[i].args) = 1 /\ ssa[i].op = "input"
      <4>1. Len(<<0>>) = 1 /\ Len(<<1>>) = 1
        OBVIOUS
      <4>2. ssa[1].args = <<0>> /\ ssa[2].args = <<1>> /\ ssa[1].op = "input" /\ ssa[2].op = "input"
        BY <1>3, <1>4
      <4>3. QED BY <4>1, <4>2
    <3>2. "input" \in AbiOps /\ OperandCount("input") = 1 /\ "input" # "if"
      BY DEF OperandCount, AbiOps
    <3>3. \A i \in {1, 2} : NodeAt(ssa[i], i)
      BY <3>1, <3>2 DEF NodeAt
    <3>4. QED BY <1>4, <3>3
  <2>2. slots \in Seq(1 .. Len(ssa)) /\ store \in Seq(Int)
    BY <1>8
  <2>3. params \in [DOMAIN params -> 1 .. Len(ssa)]
    BY <1>1
  <2>4. inputCount \in Nat /\ broken \in BOOLEAN /\ ran.done \in BOOLEAN /\ CondRight
    BY <1>1, <1>7 DEF CondRight
  <2>5. Len(ssa) >= 2 /\ Len(known) = Len(ssa) /\ Len(store) = Len(slots)
    BY <1>4, <1>5, <1>8
  <2>6. QED BY <1>1, <1>4, <1>5, <1>6, <1>7, <2>1, <2>2, <2>3, <2>4, <2>5 DEF TraceTypes
<1>10. AbiNodes(ssa) = {1, 2}
  BY <1>3, <1>4 DEF AbiNodes, AbiOps
<1>11. AbiRight
  <2>1. Cardinality({1, 2}) = 2
    <3>1. Cardinality({1}) = 1 /\ IsFiniteSet({1})
      BY FS_Singleton
    <3>2. Cardinality({1} \cup {2}) = Cardinality({1}) + 1
      BY <3>1, FS_AddElement
    <3>3. {1} \cup {2} = {1, 2}
      OBVIOUS
    <3>4. QED BY <3>1, <3>2, <3>3
  <2>2. Supplied(arguments[1]) = predicateInput /\ Supplied(arguments[2]) = mask
    BY <1>6 DEF Supplied, InputValue
  <2>3. ssa[1].args[1] = 0 /\ ssa[2].args[1] = 1
    BY <1>3, <1>4
  <2>4. QED BY <1>5, <1>6, <1>10, <2>1, <2>2, <2>3 DEF AbiRight
<1>12. ScopeRight
  BY <1>7, <1>8 DEF ScopeRight
<1>13. RegionRight
  BY <1>3, <1>4, <1>7 DEF RegionRight
<1>14. MeaningRight
  <2>1. GoodNodes({1, 2})
    <3>1. \A i \in {1, 2} : Computes(ssa[i], known[i], known, {1, 2})
      BY <1>3, <1>4 DEF Computes, AbiOps
    <3>2. QED BY <1>4, <1>5, <1>8, <1>10, <3>1 DEF GoodNodes
  <2>2. GoodState({1, 2})
    <3>1. Hold(slots, store, known, {1, 2})
      BY <1>8 DEF Hold
    <3>2. QED BY <1>7, <3>1 DEF GoodState
  <2>3. GoodProgram({1, 2})
    BY <1>7 DEF GoodProgram
  <2>4. QED BY <1>7, <2>1, <2>2, <2>3 DEF MeaningRight
<1>15. QED BY <1>9, <1>11, <1>12, <1>13, <1>14 DEF TraceInv

\* Every step keeps the invariant.
LEMMA TraceStep ==
    ASSUME TraceInv, [TraceNext]_stateVars
    PROVE  TraceInv'
<1>0. TraceTypes /\ AbiRight
  BY DEF TraceInv
<1>1. CASE UNCHANGED stateVars
  BY <1>1, NothingKeeps
<1>2. CASE Input
  BY <1>0, <1>2, InputGrows, GrownInv
<1>3. CASE DeclareState
  <2>1. CASE InBranch
    BY <1>3, <2>1, NothingKeeps DEF DeclareState, Refuse
  <2>2. CASE ~InBranch
    BY <1>0, <1>3, <2>2, DeclareStateGrows, GrownInv
  <2>3. QED BY <2>1, <2>2
<1>4. CASE \E path \in Paths : Param(path)
  BY <1>0, <1>4, ParamGrows, GrownInv
<1>5. ASSUME NEW u \in Updates, WriteMany(u) \/ WriteManyIf(u)
      PROVE  TraceInv'
  <2>1. CASE DistinctSlots(u)
    BY <1>0, <1>5, <2>1, WriteManyGrows, WriteManyIfGrows, GrownInv
  <2>2. CASE ~DistinctSlots(u)
    BY <1>5, <2>2, NothingKeeps DEF WriteMany, WriteManyIf, Refuse
  <2>3. QED BY <2>1, <2>2
<1>6. CASE \E s \in DOMAIN slots, h \in Handles : Add(s, h)
  BY <1>0, <1>6, AddGrows, GrownInv
<1>7. CASE BeginCond
  BY <1>7, BeginKeeps
<1>8. CASE \E out \in Handles : EndThen(out) \/ EndElse(out)
  BY <1>8, EndThenKeeps, EndElseKeeps
<1>9. CASE BranchFails
  BY <1>9, AbandonKeeps DEF BranchFails
<1>10. CASE \E out \in Handles, pruned \in BOOLEAN : Compile(out, pruned)
  BY <1>10, CompileKeeps
<1>11. CASE \E i \in 0 .. inputCount - 1 : BindInput(i)
  BY <1>11, BindKeeps
<1>12. CASE RunSession
  BY <1>12, RunKeeps
<1>13. CASE TraceEnded
  BY <1>13, NothingKeeps DEF TraceEnded
<1>14. QED
  BY <1>1, <1>2, <1>3, <1>4, <1>5, <1>6, <1>7, <1>8, <1>9, <1>10, <1>11, <1>12, <1>13
     DEF TraceNext

\* TraceInv is an inductive invariant of recording, compiling and running.
THEOREM TraceAlways == TraceSpec => []TraceInv
<1>1. TraceInit => TraceInv
  BY TraceStarts
<1>2. TraceInv /\ [TraceNext]_stateVars => TraceInv'
  BY TraceStep
<1>3. QED BY <1>1, <1>2, PTL DEF TraceSpec

\* One execution of a compiled program, pruned or not and with any inputs bound,
\* gives the visible result and the slots what executing the recorded effects
\* gives: writes, conditional writes and conditionals lose and invent nothing.
THEOREM RunsAreImperative == TraceSpec => []RunIsImperative
<1>1. TraceInv => RunIsImperative
  BY DEF TraceInv, MeaningRight, RunIsImperative
<1>2. QED BY <1>1, TraceAlways, PTL

\* The parameter numbers are those of the argument list, and current versions
\* are in scope, whatever is declared or written in branches and whether a
\* branch fails or not; so are parameters, where none is converted.
THEOREM TraceIsScoped == TraceSpec => [](TraceTypeOK /\ AbiAligned /\ VersionsInScope)
<1>1. TraceInv => TraceTypeOK /\ AbiAligned /\ VersionsInScope
  <2> SUFFICES ASSUME TraceInv PROVE TraceTypeOK /\ AbiAligned /\ VersionsInScope
    OBVIOUS
  <2>1. /\ TraceTypes /\ AbiRight /\ ScopeRight
        /\ ssa \in Seq(Recorded) /\ DOMAIN ssa = 1 .. Len(ssa)
        /\ slots \in Seq(1 .. Len(ssa)) /\ DOMAIN slots = 1 .. Len(slots)
    BY DEF TraceInv, TraceTypes
  <2>2. ASSUME NEW i \in DOMAIN ssa
        PROVE  /\ ssa[i].op \in {"input", "stateInput", "mark", "add", "select", "if"}
               /\ ~IsAbi(i) => Range(ssa[i].args) \subseteq 1 .. i - 1
               /\ ssa[i].region \in Nat
    <3>1. ssa[i] \in Recorded /\ NodeAt(ssa[i], i)
      BY <2>1 DEF TraceTypes
    <3>2. /\ ssa[i].op \in {"input", "stateInput", "mark", "add", "select", "if"}
          /\ ssa[i].region \in Nat /\ ssa[i].args \in Seq(Nat)
      BY <3>1 DEF Recorded, Operations, AbiOps
    <3>3. ~IsAbi(i) => Range(ssa[i].args) \subseteq 1 .. i - 1
      BY <3>1, <3>2 DEF NodeAt, IsAbi, AbiOps, Range
    <3>4. QED BY <3>2, <3>3
  <2>3. cond.phase \in {"none", "then", "else"}
    BY <2>1 DEF TraceTypes, CondRight, NoCond
  <2>4. TraceTypeOK
    BY <2>1, <2>2, <2>3 DEF TraceTypeOK, TraceTypes
  <2>5. AbiNodes(ssa) = {i \in DOMAIN ssa : IsAbi(i)}
    BY DEF AbiNodes, IsAbi, AbiOps
  <2>6. AbiAligned
    BY <2>1, <2>5 DEF AbiAligned, AbiRight, Supplied, ParameterCount
  <2>7. VersionsInScope
    BY <2>1 DEF VersionsInScope, InScope, ScopeRight
  <2>8. QED BY <2>4, <2>6, <2>7
<1>2. QED BY <1>1, TraceAlways, PTL

\* Where no parameter is converted, parameters declared in a branch stay in scope
\* too: nothing that is current refers into a branch that has ended.
THEOREM TraceIsWellScoped ==
    ASSUME Converted = {}
    PROVE  TraceSpec => []TraceWellScoped
<1>1. TraceInv => ParametersInScope
  <2> SUFFICES ASSUME TraceInv, NEW p \in DOMAIN params PROVE InScope(params[p])
    BY DEF ParametersInScope
  <2>1. ScopeRight
    BY DEF TraceInv
  <2>2. QED BY <2>1 DEF InScope, ScopeRight, IsAbi, AbiOps
<1>2. QED BY <1>1, TraceAlways, TraceIsScoped, PTL DEF TraceWellScoped
-----------------------------------------------------------------------------
\* The three ways to build a graph side by side.

\* Each part of graph building is the specification of its module.
LEMMA PartsAlone == BuildingSpec => TraceSpec /\ Spec /\ LazySpec
<1>1. BuildingInit => TraceInit /\ Init /\ LazyInit
  BY DEF BuildingInit
<1>2. ASSUME [BuildingNext]_<<part, stateVars, vars, lazyVars>>
      PROVE  [TraceNext]_stateVars /\ [Next]_vars /\ [LazyNext]_lazyVars
  BY <1>2 DEF BuildingNext
<1>3. QED BY <1>1, <1>2, PTL DEF BuildingSpec, TraceSpec, Spec, LazySpec

\* Whatever branches and loop bodies declare, build and write, and whatever the
\* limits: nothing refers into a region from outside, where no parameter is
\* converted.
THEOREM BuildingIsWellScoped ==
    ASSUME Converted = {}
    PROVE  BuildingSpec => []WellScoped
<1>1. TraceWellScoped /\ TypeOK /\ CapturesDominate => WellScoped
  BY DEF WellScoped
<1>2. TraceSpec => []TraceWellScoped
  BY TraceIsWellScoped
<1>3. QED BY <1>1, <1>2, PartsAlone, TypeAlways, CapturesAlwaysDominate, PTL
=============================================================================
