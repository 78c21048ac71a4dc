-------------------------- MODULE DeviceResourceProofs -------------------------
(***************************************************************************)
(* Proofs about PjrtObjects, KeyValueStore and ResidencyPool, for any      *)
(* number of threads, buffers, calls, devices, nodes and components.       *)
(*                                                                         *)
(* ObjectsInv says who holds what: a native buffer is live exactly while   *)
(* some handle, exported pointer or call holds an Arc of it (Lives); the   *)
(* outputs of a call are its own (OutputsApart); a lent buffer keeps its   *)
(* caller's handle (LentKept); and a donated one is held by its call alone *)
(* (Givens).  Each action is shown to keep to one discipline, Disciplined, *)
(* on what a step may retain, read, lend and give away; that the           *)
(* discipline and the drops at the end of the step (Settle) keep the       *)
(* invariant is proved once.  Three facts about a single call, its record, *)
(* are kept apart from the rest: ShapeOf, SoundOf and Later.               *)
(*                                                                         *)
(* A callback is safe because three pieces of state owned by three         *)
(* different pieces of code move together: what the plugin's thread does   *)
(* (call), how far ClientInner is in its life (client), and the boxed      *)
(* callback state (callbacks).  Lifecycle says how.                        *)
(*                                                                         *)
(* The pool's reserved bytes are the sum of the payloads of the components *)
(* between their reservation and its drop.  A step changes one term of the *)
(* sum, whose laws are those of Counting.                                  *)
(***************************************************************************)
EXTENDS PjrtObjects, KeyValueStore, ResidencyPool, Counting

-----------------------------------------------------------------------------
\* PJRT native objects.

\* The phases of a call that has not returned.
OpenPhases == {"pending", "waiting", "forgotten"}

\* What the record of a call looks like, after a plugin fault too.
ShapeOf(r) ==
    /\ r \in TaskType
    /\ DOMAIN r.event = DOMAIN r.work
    /\ r.phase = "unused" => r.work = << >>
    /\ r.phase \notin OpenPhases => r.ins = << >> /\ r.outs = {}
    /\ r.given # {} => r.phase = "waiting" /\ r.kind = "exec" /\ r.given \subseteq ToSet(r.ins)
    /\ r.kind \in {"shard", "download"} /\ r.phase \in OpenPhases => r.phase = "waiting"
    /\ r.kind \in {"sync", "upload"} => r.ins = << >>

\* Without a fault: events fire after their work, a call that has not returned
\* retains what the device reads, and one that has left nothing behind.
SoundOf(r) ==
    /\ \A i \in DOMAIN r.event : /\ r.event[i] # "none"
                                 /\ r.event[i] # "pending" => r.work[i] = "done"
    /\ r.phase \in OpenPhases =>
          /\ r.kind # "none" /\ r.reads = ToSet(r.ins)
          /\ r.kind \in {"sync", "upload"} => r.outs # {}
          /\ r.kind = "download" => r.ins # << >>
          /\ r.kind = "upload" => r.host /\ (r.dma => r.mapped)
    /\ r.phase = "over" =>
          /\ "running" \notin ToSet(r.work)
          /\ \A i \in DOMAIN r.event : r.event[i] = "destroyed"
          /\ ~r.mapped

\* What the assumption on the constants gives the provers, fact by fact.
LEMMA Constants ==
    /\ ThreadCount \in Nat /\ BufferCount \in Nat /\ TaskCount \in Nat
    /\ Devices \in Nat /\ Devices > 0 /\ MaxHandles \in Nat /\ MaxHandles > 0
    /\ Shared \subseteq Buffers /\ Nobody \notin Threads /\ Nobody \notin Tasks
  BY ObjectsAssumption

\* Bounded sequences are functions on an initial segment.
LEMMA Bounded ==
    ASSUME NEW S, NEW n \in Nat, NEW s
    PROVE  s \in BoundedSeq(S, n) <=> \E m \in 0 .. n : s \in [1 .. m -> S]
  BY DEF BoundedSeq, SeqOf

\* The empty sequence is one of them.
LEMMA EmptyBounded ==
    ASSUME NEW S, NEW n \in Nat
    PROVE  << >> \in BoundedSeq(S, n)
<1>1. << >> \in [1 .. 0 -> S]
  OBVIOUS
<1>2. 0 \in 0 .. n
  OBVIOUS
<1>3. QED BY <1>1, <1>2, Bounded

\* The record of a call not made yet is of the right shape.
LEMMA UnusedShape == ShapeOf(Unused) /\ SoundOf(Unused)
<1>1. /\ << >> \in BoundedSeq(Buffers, 2)
      /\ << >> \in BoundedSeq({"running", "done"}, Devices)
      /\ << >> \in BoundedSeq({"pending", "fired", "destroyed", "none"}, Devices)
  BY EmptyBounded, Constants
<1>2. QED BY <1>1 DEF ShapeOf, SoundOf, Unused, TaskType, OpenPhases


\* The kinds of calls: which wait where, and what they take and give.
NewTaskArgs(kind, at, t, ins, outs, n) ==
    /\ kind \in {"exec", "shard", "download", "sync", "upload"}
    /\ at \in {"pending", "waiting"}
    /\ t \in Threads /\ ins \in BoundedSeq(Buffers, 2) /\ outs \subseteq Buffers
    /\ n \in 1 .. Devices
    /\ kind \in {"shard", "download", "sync"} => at = "waiting"
    /\ kind \in {"sync", "upload"} => ins = << >>

\* The elements of a bounded sequence.
LEMMA RangeSubset ==
    ASSUME NEW S, NEW n \in Nat, NEW s \in BoundedSeq(S, n)
    PROVE  ToSet(s) \subseteq S
  BY Bounded DEF ToSet

\* What NewTask builds, for every kind of call, is of the right shape.
LEMMA NewTaskShape ==
    ASSUME NEW kind, NEW at, NEW t, NEW ins, NEW outs, NEW n,
           NewTaskArgs(kind, at, t, ins, outs, n)
    PROVE  ShapeOf(NewTask(kind, at, t, ins, outs, n))
<1>1. ToSet(ins) \subseteq Buffers
  BY RangeSubset DEF NewTaskArgs
<1>2. /\ [i \in 1 .. n |-> "running"] \in BoundedSeq({"running", "done"}, Devices)
      /\ [i \in 1 .. n |-> "pending"] \in
              BoundedSeq({"pending", "fired", "destroyed", "none"}, Devices)
  <2>1. n \in 0 .. Devices
    BY Constants DEF NewTaskArgs
  <2>2. /\ [i \in 1 .. n |-> "running"] \in [1 .. n -> {"running", "done"}]
        /\ [i \in 1 .. n |-> "pending"] \in
               [1 .. n -> {"pending", "fired", "destroyed", "none"}]
    OBVIOUS
  <2>3. QED BY <2>1, <2>2, Bounded, Constants
<1>3. QED BY <1>1, <1>2 DEF NewTask, NewTaskArgs, ShapeOf, TaskType, OpenPhases

-----------------------------------------------------------------------------
\* What a call keeps alive, borrows from its caller and has the device read.
Retains(r) == r.outs \cup IF r.kind = "exec" THEN ToSet(r.ins) ELSE {}
Lends(r) == IF r.kind \in {"shard", "download"} /\ r.phase = "waiting"
            THEN ToSet(r.ins) ELSE {}
Uses(r) == IF "running" \in ToSet(r.work) THEN r.reads ELSE {}
NeedsExecutable(r) == r.kind \in {"exec", "shard"} /\ r.phase \in OpenPhases

\* Some Arc of the buffer is left.
HeldArcs(b) == handles[b] > 0 \/ b \in pins \/ \E k \in Tasks : b \in Retains(task[k])
\* What a caller can name: a value of its own, or an output of its pending call.
Reachable(b) == handles[b] > 0 \/ \E k \in Tasks : b \in task[k].outs

\* The donated buffer is one argument, once.
OnlyOnce(r, b) == \A i, j \in DOMAIN r.ins : r.ins[i] = b /\ r.ins[j] = b => i = j

\* The types, every call being of its own.
Types ==
    /\ handles \in [Buffers -> 0 .. MaxHandles + 1]
    /\ pins \subseteq Buffers
    /\ native \in [Buffers -> {"unused", "live", "destroyed", "leaked"}]
    /\ owner \in [Buffers -> {"none", "held", "dropped"}]
    /\ task \in [Tasks -> TaskType]
    /\ waitsOn \in [Threads -> Tasks \cup {Nobody}]
    /\ clientHandles \in 0 .. 1 /\ exeHandles \in 0 .. 1
    /\ clientState \in {"live", "destroyed"} /\ exeState \in {"live", "destroyed"}
    /\ misbehaved \in BOOLEAN

Shapes == \A k \in Tasks : ShapeOf(task[k])
Sounds == ~misbehaved => \A k \in Tasks : SoundOf(task[k])

\* An output belongs to its call alone until it is handed over.
OutputsApart ==
    \A k \in Tasks : \A b \in task[k].outs :
        handles[b] = 0 /\ \A j \in Tasks \ {k} : b \notin task[j].outs

\* Who lends a buffer to a blocking call keeps a handle.
LentKept == \A k \in Tasks : \A b \in Lends(task[k]) : handles[b] > 0

\* A donated buffer is retained, named and used by its call only.
GivenAlone(k, b) ==
    /\ handles[b] = 0 /\ b \notin pins /\ owner[b] = "none"
    /\ OnlyOnce(task[k], b)
    /\ \A j \in Tasks : b \notin task[j].outs
    /\ \A j \in Tasks \ {k} : b \notin Retains(task[j]) \cup Uses(task[j])
Givens == \A k \in Tasks : \A b \in task[k].given : GivenAlone(k, b)

\* Native objects live exactly as long as something in Rust holds them.
Lives ==
    /\ ~misbehaved => \A b \in Buffers : native[b] = "live" <=> HeldArcs(b)
    /\ exeHandles > 0 \/ (\E k \in Tasks : NeedsExecutable(task[k])) => exeState = "live"
    /\ \/ clientHandles > 0 \/ exeState = "live"
       \/ \E b \in Buffers : native[b] = "live"
       => clientState = "live"

ObjectsInv ==
    /\ Types /\ Shapes /\ Sounds
    /\ OutputsApart /\ LentKept /\ Givens /\ Lives

\* What every step keeps to, fresh being the buffers it wraps.
Disciplined(fresh) ==
    /\ fresh \subseteq Buffers
    /\ \A b \in fresh : ~HeldArcs(b)
    /\ \A j \in Tasks : \A b \in Retains(task'[j]) :
           b \in Retains(task[j]) \cup fresh \/ Reachable(b)
    /\ \A j \in Tasks : \A b \in Uses(task'[j]) : b \in Uses(task[j]) \/ Reachable(b)
    /\ \A j \in Tasks : \A b \in task'[j].outs :
           /\ b \in task[j].outs \cup fresh
           /\ b \in fresh => \A i \in Tasks \ {j} : b \notin task'[i].outs
    /\ \A b \in Buffers : handles'[b] > 0 =>
           \/ handles[b] > 0
           \/ b \in fresh /\ \A j \in Tasks : b \notin task'[j].outs
           \/ \E j \in Tasks : b \in task[j].outs \ task'[j].outs
    /\ \A b \in pins' : b \in pins \/ handles[b] > 0
    /\ \A b \in Buffers : owner'[b] = owner[b] \/ owner[b] = "held" \/ b \in fresh
    /\ \A j \in Tasks : \A b \in Lends(task'[j]) : handles'[b] > 0
    /\ \A j \in Tasks : \A b \in task'[j].given :
           \/ b \in task[j].given /\ task'[j].ins = task[j].ins
           \/ GivenAlone(j, b)'

\* Under the discipline no step makes anything held that was let go.
LEMMA HeldStep ==
    ASSUME NEW fresh, Disciplined(fresh), ObjectsInv, NEW b \in Buffers, HeldArcs(b)'
    PROVE  b \in fresh \/ HeldArcs(b)
<1>1. \A j \in Tasks : task[j].outs \subseteq Retains(task[j])
  BY DEF Retains
<1>2. Reachable(b) => HeldArcs(b)
  BY <1>1 DEF Reachable, HeldArcs
<1>3. CASE handles'[b] > 0
  BY <1>1, <1>2, <1>3 DEF Disciplined, HeldArcs
<1>4. CASE b \in pins'
  BY <1>4 DEF Disciplined, HeldArcs
<1>5. CASE \E k \in Tasks : b \in Retains(task'[k])
  BY <1>2, <1>5 DEF Disciplined, HeldArcs
<1>6. QED BY <1>3, <1>4, <1>5 DEF HeldArcs

\* The discipline keeps outputs apart, lent buffers held and donated ones alone.
LEMMA ArcsStep ==
    ASSUME NEW fresh, Disciplined(fresh), ObjectsInv,
           task' \in [Tasks -> TaskType], handles' \in [Buffers -> Nat]
    PROVE  OutputsApart' /\ LentKept' /\ Givens'
<1>1. ASSUME NEW k \in Tasks
      PROVE  task[k].outs \subseteq Retains(task[k]) /\ task'[k].outs \subseteq Buffers
  BY DEF Retains, TaskType
<1>2. ASSUME NEW k \in Tasks, NEW b \in task'[k].outs
      PROVE  handles'[b] = 0 /\ \A j \in Tasks \ {k} : b \notin task'[j].outs
  <2>1. b \in Buffers /\ handles'[b] \in Nat
    BY <1>1
  <2>2. CASE b \in fresh
    <3>1. handles[b] = 0 /\ \A j \in Tasks : b \notin task[j].outs
      BY <1>1, <2>1, <2>2 DEF Disciplined, HeldArcs, ObjectsInv, Types
    <3>2. QED BY <1>2, <2>1, <2>2, <3>1 DEF Disciplined
  <2>3. CASE b \notin fresh
    <3>1. b \in task[k].outs
      BY <1>2, <2>3 DEF Disciplined
    <3>2. handles[b] = 0 /\ \A j \in Tasks \ {k} : b \notin task[j].outs
      BY <3>1 DEF ObjectsInv, OutputsApart
    <3>3. \A j \in Tasks \ {k} : b \notin task'[j].outs
      BY <2>3, <3>2 DEF Disciplined
    <3>4. ~(handles'[b] > 0)
      BY <1>2, <2>1, <2>3, <3>2 DEF Disciplined
    <3>5. QED BY <2>1, <3>3, <3>4
  <2>4. QED BY <2>2, <2>3
<1>3. LentKept'
  BY DEF LentKept, Disciplined
<1>4. ASSUME NEW k \in Tasks, NEW b \in task'[k].given
      PROVE  GivenAlone(k, b)'
  <2>1. SUFFICES ASSUME b \in task[k].given, task'[k].ins = task[k].ins
                 PROVE  GivenAlone(k, b)'
    BY <1>4 DEF Disciplined
  <2>2. GivenAlone(k, b) /\ b \in Buffers
    BY <2>1 DEF ObjectsInv, Givens, Types, TaskType
  <2>3. b \in Retains(task[k])
    BY <2>1 DEF ObjectsInv, Shapes, ShapeOf, Retains
  <2>4. b \notin fresh /\ ~Reachable(b)
    BY <2>2, <2>3 DEF Disciplined, HeldArcs, GivenAlone, Reachable
  <2>5. ~(handles'[b] > 0) /\ b \notin pins' /\ owner'[b] = "none"
    BY <2>2, <2>4 DEF Disciplined, GivenAlone
  <2>6. OnlyOnce(task'[k], b)
    BY <2>1, <2>2 DEF GivenAlone, OnlyOnce
  <2>7. \A j \in Tasks : b \notin task'[j].outs
    BY <2>2, <2>4 DEF Disciplined, GivenAlone
  <2>8. \A j \in Tasks \ {k} : b \notin Retains(task'[j]) \cup Uses(task'[j])
    BY <2>2, <2>4 DEF Disciplined, GivenAlone
  <2>9. handles'[b] = 0
    BY <2>2, <2>5
  <2>10. QED BY <2>5, <2>6, <2>7, <2>8, <2>9 DEF GivenAlone
<1>5. QED BY <1>2, <1>3, <1>4 DEF OutputsApart, Givens

-----------------------------------------------------------------------------
\* Counting Arcs.

\* An Arc count distinguishes none, one and more holders.
LEMMA CountOfHolders ==
    ASSUME NEW h \in Nat, NEW P, NEW b, NEW A, IsFiniteSet(A)
    PROVE  LET count == h + Cardinality(P \cap {b}) + Cardinality(A)
           IN  /\ count \in Nat
               /\ count = 0 <=> h = 0 /\ b \notin P /\ A = {}
               /\ count = 1 /\ h > 0 => h = 1 /\ b \notin P /\ A = {}
<1>1. /\ b \in P => P \cap {b} = {b}
      /\ b \notin P => P \cap {b} = {}
  OBVIOUS
<1>2. Cardinality({}) = 0 /\ \A x : Cardinality({x}) = 1
  BY FS_EmptySet, FS_Singleton
<1>3. Cardinality(A) \in Nat /\ (Cardinality(A) = 0 <=> A = {})
  BY FS_CardinalityType, FS_EmptySet
<1>5. \/ b \in P /\ Cardinality(P \cap {b}) = 1
      \/ b \notin P /\ Cardinality(P \cap {b}) = 0
  BY <1>1, <1>2
<1>. DEFINE p == Cardinality(P \cap {b})
            a == Cardinality(A)
<1>7. (b \in P /\ p = 1) \/ (b \notin P /\ p = 0)
  BY <1>5
<1>8. a \in Nat /\ (a = 0 <=> A = {})
  BY <1>3
<1>. HIDE DEF p, a
<1>9. /\ h + p + a \in Nat
      /\ h + p + a = 0 <=> h = 0 /\ b \notin P /\ A = {}
      /\ h + p + a = 1 /\ h > 0 => h = 1 /\ b \notin P /\ A = {}
  BY <1>7, <1>8
<1>10. QED BY <1>9 DEF p, a

\* The Arcs inside calls are finitely many.
LEMMA TasksFinite == IsFiniteSet(Tasks \X (0 .. 2))
<1>1. IsFiniteSet(Tasks) /\ IsFiniteSet(0 .. 2)
  <2>1. 0 \in Int /\ 1 \in Int /\ 2 \in Int /\ TaskCount \in Int
    BY Constants
  <2>2. QED BY <2>1, FS_Interval DEF Tasks
<1>2. QED BY <1>1, FS_Product

\* The Arcs inside calls, seen from the calls that retain them.
LEMMA ArcsRetained ==
    Shapes => \A b \in Buffers :
        /\ IsFiniteSet(TaskArcs(b))
        /\ TaskArcs(b) = {} <=> \A k \in Tasks : b \notin Retains(task[k])
<1>. SUFFICES ASSUME Shapes, NEW b \in Buffers
              PROVE  /\ IsFiniteSet(TaskArcs(b))
                     /\ TaskArcs(b) = {} <=> \A k \in Tasks : b \notin Retains(task[k])
  OBVIOUS
<1>1. IsFiniteSet(TaskArcs(b))
  BY TasksFinite, FS_Subset DEF TaskArcs
<1>2. ASSUME NEW k \in Tasks, b \in Retains(task[k])
      PROVE  TaskArcs(b) # {}
  <2>1. CASE b \in task[k].outs
    <3>1. <<k, 0>> \in TaskArcs(b)
      BY <2>1 DEF TaskArcs
    <3>2. QED BY <3>1
  <2>2. CASE task[k].kind = "exec" /\ b \in ToSet(task[k].ins)
    <3>1. PICK i \in DOMAIN task[k].ins : task[k].ins[i] = b
      BY <2>2 DEF ToSet
    <3>2. task[k].ins \in BoundedSeq(Buffers, 2)
      BY DEF Shapes, ShapeOf, TaskType
    <3>3. i \in 1 .. 2
      BY <3>1, <3>2, Bounded
    <3>4. <<k, i>> \in TaskArcs(b)
      BY <2>2, <3>1, <3>3 DEF TaskArcs
    <3>5. QED BY <3>4
  <2>3. QED BY <1>2, <2>1, <2>2 DEF Retains
<1>3. ASSUME NEW arc \in TaskArcs(b)
      PROVE  \E k \in Tasks : b \in Retains(task[k])
  BY DEF TaskArcs, Retains, ToSet
<1>4. QED BY <1>1, <1>2, <1>3

\* The strong count is zero exactly when nothing holds the buffer.
LEMMA CountIsHeld ==
    Shapes /\ handles \in [Buffers -> Nat] =>
        \A b \in Buffers : /\ StrongCount(b) \in Nat
                           /\ StrongCount(b) = 0 <=> ~HeldArcs(b)
<1>. SUFFICES ASSUME Shapes, handles \in [Buffers -> Nat], NEW b \in Buffers
              PROVE  StrongCount(b) \in Nat /\ (StrongCount(b) = 0 <=> ~HeldArcs(b))
  OBVIOUS
<1>1. handles[b] \in Nat
  OBVIOUS
<1>2. QED BY <1>1, ArcsRetained, CountOfHolders DEF StrongCount, HeldArcs

\* A donated buffer's one Arc is the argument of its call.
LEMMA GivenCount ==
    ASSUME Types, Shapes, Givens, NEW k \in Tasks, NEW b \in task[k].given
    PROVE  StrongCount(b) = 1
<1>1. b \in Buffers /\ GivenAlone(k, b) /\ task[k].kind = "exec" /\ b \in ToSet(task[k].ins)
  BY DEF Types, TaskType, Shapes, ShapeOf, Givens
<1>2. PICK i \in DOMAIN task[k].ins : task[k].ins[i] = b
  BY <1>1 DEF ToSet
<1>3. i \in 1 .. 2
  <2>1. task[k].ins \in BoundedSeq(Buffers, 2)
    BY DEF Shapes, ShapeOf, TaskType
  <2>2. QED BY <2>1, Bounded
<1>4. <<k, i>> \in TaskArcs(b)
  BY <1>1, <1>2, <1>3 DEF TaskArcs
<1>5. ASSUME NEW arc \in TaskArcs(b)
      PROVE  arc = <<k, i>>
  <2>1. PICK j \in Tasks, n \in 0 .. 2 : arc = <<j, n>>
    BY DEF TaskArcs
  <2>2. /\ n # 0 /\ task[j].kind = "exec" /\ n \in DOMAIN task[j].ins
        /\ task[j].ins[n] = b
    BY <1>1, <2>1 DEF TaskArcs, GivenAlone
  <2>3. b \in Retains(task[j])
    BY <2>2 DEF Retains, ToSet
  <2>4. j = k
    BY <1>1, <2>3 DEF GivenAlone
  <2>5. n = i
    BY <1>1, <1>2, <2>2, <2>4 DEF GivenAlone, OnlyOnce
  <2>6. QED BY <2>1, <2>4, <2>5
<1>6. TaskArcs(b) = {<<k, i>>}
  BY <1>4, <1>5
<1>7. handles[b] = 0 /\ b \notin pins
  BY <1>1 DEF GivenAlone
<1>9. pins \cap {b} = {}
  BY <1>7
<1>10. Cardinality(pins \cap {b}) = 0 /\ Cardinality(TaskArcs(b)) = 1
  BY <1>6, <1>9, FS_EmptySet, FS_Singleton
<1>11. QED BY <1>7, <1>10 DEF StrongCount

\* The end of a step: a native object goes exactly with its last holder, and the
\* client after everything made with it.
LEMMA SettleStep ==
    ASSUME NEW fresh, Disciplined(fresh), ObjectsInv, Settle(fresh),
           Shapes', handles' \in [Buffers -> Nat],
           clientHandles' > 0 => clientHandles > 0,
           exeHandles' > 0 => exeHandles > 0,
           \A k \in Tasks : NeedsExecutable(task'[k]) =>
               NeedsExecutable(task[k]) \/ exeHandles > 0,
           fresh # {} => clientState = "live",
           misbehaved => misbehaved'
    PROVE  Lives'
<1>1. /\ \A b \in Buffers : StrongCount(b)' = 0 <=> ~HeldArcs(b)'
      /\ \A b \in Buffers : HeldArcs(b)' => b \in fresh \/ HeldArcs(b)
  <2>1. (Shapes /\ handles \in [Buffers -> Nat] =>
            \A b \in Buffers : /\ StrongCount(b) \in Nat
                               /\ StrongCount(b) = 0 <=> ~HeldArcs(b))'
    BY CountIsHeld, PTL
  <2>2. QED BY <2>1, HeldStep
<1>2. ASSUME ~misbehaved', NEW b \in Buffers
      PROVE  native'[b] = "live" <=> HeldArcs(b)'
  <2>1. native[b] = "live" <=> HeldArcs(b)
    BY <1>2 DEF ObjectsInv, Lives
  <2>2. QED BY <1>1, <2>1 DEF Settle
<1>3. ExecutableHeld' <=> exeHandles' > 0 \/ \E k \in Tasks : NeedsExecutable(task'[k])
  BY DEF ExecutableHeld, NeedsExecutable, OpenPhases
<1>4. exeHandles' > 0 \/ (\E k \in Tasks : NeedsExecutable(task'[k])) => exeState' = "live"
  BY <1>3 DEF Settle, ObjectsInv, Lives
<1>5. exeState' = "live" => exeState = "live"
  BY DEF Settle
<1>6. ASSUME NEW b \in Buffers, native'[b] = "live"
      PROVE  native[b] = "live" \/ fresh # {}
  BY <1>6 DEF Settle
<1>7. clientHandles' > 0 \/ exeState' = "live" \/ (\E b \in Buffers : native'[b] = "live")
          => clientState' = "live"
  BY <1>5, <1>6 DEF Settle, ObjectsInv, Lives
<1>8. QED BY <1>2, <1>4, <1>7 DEF Lives

\* Handle counts are numbers.
LEMMA HandlesAreNat ==
    ASSUME NEW h \in [Buffers -> 0 .. MaxHandles + 1]
    PROVE  h \in [Buffers -> Nat]
  BY Constants

\* A buffer is borrowed when some waiting call lends it.
LEMMA BorrowedIsLent ==
    ASSUME NEW b
    PROVE  Borrowed(b) <=> \E k \in Tasks : b \in Lends(task[k])
  BY DEF Borrowed, Lends

\* Settle keeps the types of what it writes.
LEMMA SettleTypes ==
    ASSUME NEW fresh, Types, Settle(fresh)
    PROVE  /\ native' \in [Buffers -> {"unused", "live", "destroyed", "leaked"}]
           /\ clientState' \in {"live", "destroyed"} /\ exeState' \in {"live", "destroyed"}
  BY DEF Types, Settle

\* A buffer nothing holds: the one a call is about to wrap.
LEMMA FreshUnheld ==
    ASSUME ObjectsInv, NEW b \in Buffers, FreshBuffer(b)
    PROVE  ~misbehaved /\ ~HeldArcs(b)
  BY DEF FreshBuffer, ObjectsInv, Lives

-----------------------------------------------------------------------------
\* Steps that only clone, make and drop handles.

\* A step that only moves handles, pins and owners keeps the invariant.
LEMMA HandleStep ==
    ASSUME ObjectsInv, NEW fresh, fresh \subseteq Buffers, Settle(fresh),
           UNCHANGED <<task, waitsOn, misbehaved>>,
           handles' \in [Buffers -> 0 .. MaxHandles + 1], pins' \subseteq Buffers,
           owner' \in [Buffers -> {"none", "held", "dropped"}],
           \A b \in fresh : ~HeldArcs(b),
           fresh # {} => clientState = "live",
           \A b \in Buffers : handles'[b] > 0 => handles[b] > 0 \/ b \in fresh,
           \A b \in Buffers : Borrowed(b) => handles'[b] > 0,
           \A b \in pins' : b \in pins \/ handles[b] > 0,
           \A b \in Buffers : owner'[b] = owner[b] \/ owner[b] = "held" \/ b \in fresh,
           clientHandles' \in 0 .. 1, clientHandles' > 0 => clientHandles > 0,
           exeHandles' \in 0 .. 1, exeHandles' > 0 => exeHandles > 0
    PROVE  ObjectsInv'
<1>1. Types'
  BY SettleTypes DEF ObjectsInv, Types
<1>2. Shapes' /\ Sounds'
  BY DEF ObjectsInv, Shapes, Sounds
<1>3. \A k \in Tasks : task[k].outs \subseteq Retains(task[k])
  BY DEF Retains
<1>4. \A k \in Tasks : \A b \in Lends(task[k]) : b \in Buffers
  <2>1. \A k \in Tasks : task[k].ins \in BoundedSeq(Buffers, 2)
    BY DEF ObjectsInv, Types, TaskType
  <2>2. QED BY <2>1, RangeSubset DEF Lends
<1>5. Disciplined(fresh)
  BY <1>3, <1>4, BorrowedIsLent DEF Disciplined, HeldArcs
<1>6. OutputsApart' /\ LentKept' /\ Givens'
  BY <1>1, <1>5, ArcsStep, HandlesAreNat DEF Types
<1>7. Lives'
  BY <1>1, <1>2, <1>5, SettleStep, HandlesAreNat DEF Types
<1>8. QED BY <1>1, <1>2, <1>6, <1>7 DEF ObjectsInv

\* Clone of a Buffer.
LEMMA CloneHandleStep ==
    ASSUME ObjectsInv, NEW b \in Buffers, CloneHandle(b)
    PROVE  ObjectsInv'
<1>1. /\ handles[b] \in 1 .. MaxHandles - 1 /\ handles' = [handles EXCEPT ![b] = @ + 1]
      /\ UNCHANGED <<pins, owner, clientHandles, exeHandles>> /\ Settle({})
      /\ UNCHANGED <<task, waitsOn, misbehaved>>
  BY DEF CloneHandle, Keep
<1>2. /\ handles' \in [Buffers -> 0 .. MaxHandles + 1]
      /\ \A c \in Buffers : handles'[c] > 0 <=> handles[c] > 0
  BY <1>1, Constants DEF ObjectsInv, Types
<1>3. \A c \in Buffers : Borrowed(c) => handles'[c] > 0
  BY <1>2, BorrowedIsLent DEF ObjectsInv, LentKept
<1>4. QED BY <1>1, <1>2, <1>3, HandleStep DEF ObjectsInv, Types

\* Drop of a Buffer.
LEMMA DropHandleStep ==
    ASSUME ObjectsInv, NEW b \in Buffers, DropHandle(b)
    PROVE  ObjectsInv'
<1>1. /\ Movable(b) /\ handles' = [handles EXCEPT ![b] = @ - 1]
      /\ UNCHANGED <<pins, owner, clientHandles, exeHandles>> /\ Settle({})
      /\ UNCHANGED <<task, waitsOn, misbehaved>>
  BY DEF DropHandle, Keep
<1>2. handles[b] > 0 /\ (Borrowed(b) => handles[b] > 1) /\ handles[b] \in 0 .. MaxHandles + 1
  BY <1>1 DEF Movable, ObjectsInv, Types
<1>3. /\ handles' \in [Buffers -> 0 .. MaxHandles + 1]
      /\ \A c \in Buffers : handles'[c] > 0 => handles[c] > 0
      /\ Borrowed(b) => handles'[b] > 0
      /\ \A c \in Buffers \ {b} : handles'[c] = handles[c]
  BY <1>1, <1>2, Constants DEF ObjectsInv, Types
<1>4. \A c \in Buffers : Borrowed(c) => handles'[c] > 0
  BY <1>3, BorrowedIsLent DEF ObjectsInv, LentKept
<1>5. QED BY <1>1, <1>3, <1>4, HandleStep DEF ObjectsInv, Types

\* The new handle of a buffer just wrapped.
LEMMA WrapHandle ==
    ASSUME ObjectsInv, NEW b \in Buffers, FreshBuffer(b),
           handles' = [handles EXCEPT ![b] = 1]
    PROVE  /\ handles' \in [Buffers -> 0 .. MaxHandles + 1]
           /\ \A c \in Buffers : handles'[c] > 0 => handles[c] > 0 \/ c \in {b}
           /\ \A c \in Buffers : Borrowed(c) => handles'[c] > 0
           /\ \A c \in {b} : ~HeldArcs(c)
<1>1. /\ handles' \in [Buffers -> 0 .. MaxHandles + 1]
      /\ \A c \in Buffers : handles'[c] > 0 <=> handles[c] > 0 \/ c \in {b}
  BY Constants DEF ObjectsInv, Types
<1>2. \A c \in Buffers : Borrowed(c) => handles'[c] > 0
  BY <1>1, BorrowedIsLent DEF ObjectsInv, LentKept
<1>3. QED BY <1>1, <1>2, FreshUnheld

\* copy_to_device and copy_to_memory.
LEMMA CopyToStep ==
    ASSUME ObjectsInv, NEW b \in Buffers, NEW new \in Buffers, CopyTo(b, new)
    PROVE  ObjectsInv'
<1>1. /\ handles[b] > 0 /\ FreshBuffer(new) /\ handles' = [handles EXCEPT ![new] = 1]
      /\ UNCHANGED <<pins, owner, clientHandles, exeHandles>> /\ Settle({new})
      /\ UNCHANGED <<task, waitsOn, misbehaved>>
  BY DEF CopyTo, Keep
<1>2. clientState = "live"
  BY <1>1, FreshUnheld DEF ObjectsInv, Lives, HeldArcs
<1>3. QED BY <1>1, <1>2, WrapHandle, HandleStep DEF ObjectsInv, Types

\* view_of_device_buffer.
LEMMA ViewStep ==
    ASSUME ObjectsInv, NEW b \in Buffers, ViewOfDeviceBuffer(b)
    PROVE  ObjectsInv'
<1>1. /\ clientHandles > 0 /\ FreshBuffer(b) /\ handles' = [handles EXCEPT ![b] = 1]
      /\ owner' = [owner EXCEPT ![b] = "held"]
      /\ UNCHANGED <<pins, clientHandles, exeHandles>> /\ Settle({b})
      /\ UNCHANGED <<task, waitsOn, misbehaved>>
  BY DEF ViewOfDeviceBuffer, Keep
<1>2. clientState = "live"
  BY <1>1 DEF ObjectsInv, Lives
<1>3. QED BY <1>1, <1>2, WrapHandle, HandleStep DEF ObjectsInv, Types

\* external_reference and its drop.
LEMMA ReferenceStep ==
    ASSUME ObjectsInv, NEW b \in Buffers, ExternalReference(b) \/ DropReference(b)
    PROVE  ObjectsInv'
<1>1. /\ UNCHANGED <<handles, owner, clientHandles, exeHandles>> /\ Settle({})
      /\ UNCHANGED <<task, waitsOn, misbehaved>>
      /\ pins' \subseteq Buffers /\ \A c \in pins' : c \in pins \/ handles[c] > 0
  BY DEF ExternalReference, DropReference, Keep, ObjectsInv, Types
<1>2. \A c \in Buffers : Borrowed(c) => handles'[c] > 0
  BY <1>1, BorrowedIsLent DEF ObjectsInv, LentKept
<1>3. QED BY <1>1, <1>2, HandleStep DEF ObjectsInv, Types

\* Drop of the client and of the executable.
LEMMA DropOwnersStep ==
    ASSUME ObjectsInv, DropClient \/ DropExecutable
    PROVE  ObjectsInv'
<1>1. /\ UNCHANGED <<handles, pins, owner>> /\ Settle({})
      /\ UNCHANGED <<task, waitsOn, misbehaved>>
      /\ clientHandles' \in 0 .. 1 /\ (clientHandles' > 0 => clientHandles > 0)
      /\ exeHandles' \in 0 .. 1 /\ (exeHandles' > 0 => exeHandles > 0)
  BY DEF DropClient, DropExecutable, ObjectsInv, Types
<1>2. \A c \in Buffers : Borrowed(c) => handles'[c] > 0
  BY <1>1, BorrowedIsLent DEF ObjectsInv, LentKept
<1>3. QED BY <1>1, <1>2, HandleStep DEF ObjectsInv, Types

-----------------------------------------------------------------------------
\* Steps inside one call: it moves on and keeps what it holds.

\* r is a later state of the call q: same arguments, outputs and claims.
Later(q, r) ==
    /\ r.kind = q.kind /\ r.ins = q.ins /\ r.outs = q.outs /\ r.given = q.given
    /\ Uses(r) \subseteq Uses(q) /\ Lends(r) = Lends(q)
    /\ NeedsExecutable(r) <=> NeedsExecutable(q)

\* A call that only moves on keeps to the discipline.
LEMMA LaterDisciplined ==
    ASSUME ObjectsInv, UNCHANGED <<handles, pins>>,
           \A b \in Buffers : owner'[b] = owner[b] \/ owner[b] = "held",
           \A j \in Tasks : Later(task[j], task'[j])
    PROVE  Disciplined({})
<1>1. \A j \in Tasks : \A b \in Lends(task'[j]) : handles'[b] > 0
  BY DEF ObjectsInv, LentKept, Later
<1>2. \A j \in Tasks : Retains(task'[j]) = Retains(task[j])
  BY DEF Later, Retains
<1>3. QED BY <1>1, <1>2 DEF Disciplined, Later

\* A step of one call that only moves on keeps the invariant.
LEMMA LaterStep ==
    ASSUME ObjectsInv, UNCHANGED <<handles, pins, owner, misbehaved>>,
           NEW k \in Tasks, NEW r, task' = [task EXCEPT ![k] = r],
           ShapeOf(r), ~misbehaved => SoundOf(r), Later(task[k], r),
           waitsOn' \in [Threads -> Tasks \cup {Nobody}],
           \/ UNCHANGED <<clientHandles, exeHandles>> /\ Settle({})
           \/ UNCHANGED <<native, clientHandles, exeHandles, clientState, exeState>>
    PROVE  ObjectsInv'
<1>1. Types'
  <2>1. r \in TaskType
    BY DEF ShapeOf
  <2>2. QED BY <2>1, SettleTypes DEF ObjectsInv, Types
<1>2. Shapes' /\ Sounds'
  BY DEF ObjectsInv, Shapes, Sounds, Types
<1>3. \A j \in Tasks : Later(task[j], task'[j])
  BY DEF Later, ObjectsInv, Types
<1>4. Disciplined({})
  BY <1>3, LaterDisciplined
<1>5. OutputsApart' /\ LentKept' /\ Givens'
  BY <1>1, <1>4, ArcsStep, HandlesAreNat DEF Types
<1>6. \A j \in Tasks : NeedsExecutable(task'[j]) <=> NeedsExecutable(task[j])
  BY <1>3 DEF Later
<1>7. Lives'
  <2>1. CASE UNCHANGED <<clientHandles, exeHandles>> /\ Settle({})
    BY <1>1, <1>2, <1>4, <1>6, <2>1, SettleStep, HandlesAreNat DEF Types
  <2>2. CASE UNCHANGED <<native, clientHandles, exeHandles, clientState, exeState>>
    <3>1. \A j \in Tasks : Retains(task'[j]) = Retains(task[j])
      BY <1>3 DEF Later, Retains
    <3>2. \A b \in Buffers : HeldArcs(b)' <=> HeldArcs(b)
      BY <3>1 DEF HeldArcs
    <3>3. QED BY <1>6, <2>2, <3>2 DEF ObjectsInv, Lives
  <2>3. QED BY <2>1, <2>2
<1>8. QED BY <1>1, <1>2, <1>5, <1>7 DEF ObjectsInv

\* A call that changes its phase alone.
LEMMA PhaseStep ==
    ASSUME ObjectsInv, NEW k \in Tasks, task[k].phase = "pending",
           NEW at \in {"waiting", "forgotten"}, NEW failed \in BOOLEAN,
           NEW r, r = [task[k] EXCEPT !.phase = at, !.failed = failed]
    PROVE  ShapeOf(r) /\ (~misbehaved => SoundOf(r)) /\ Later(task[k], r)
<1>1. ShapeOf(task[k]) /\ (~misbehaved => SoundOf(task[k])) /\ task[k] \in TaskType
  BY DEF ObjectsInv, Shapes, Sounds, Types
<1>2. r \in TaskType
  BY <1>1 DEF TaskType
<1>3. /\ r.phase = at /\ r.kind = task[k].kind /\ r.ins = task[k].ins
      /\ r.outs = task[k].outs /\ r.given = task[k].given /\ r.reads = task[k].reads
      /\ r.work = task[k].work /\ r.event = task[k].event
      /\ r.dma = task[k].dma /\ r.mapped = task[k].mapped /\ r.host = task[k].host
  BY <1>1 DEF TaskType
<1>4. task[k].given = {} /\ task[k].kind \notin {"shard", "download"}
  BY <1>1 DEF ShapeOf, OpenPhases
<1>5. ShapeOf(r)
  BY <1>1, <1>2, <1>3, <1>4 DEF ShapeOf, OpenPhases
<1>6. ~misbehaved => SoundOf(r)
  BY <1>1, <1>3 DEF SoundOf, OpenPhases
<1>7. Later(task[k], r)
  BY <1>3, <1>4 DEF Later, Uses, Lends, NeedsExecutable, OpenPhases
<1>8. QED BY <1>5, <1>6, <1>7

\* wait, and the Drop that waits.
LEMMA WaitForStep ==
    ASSUME ObjectsInv, NEW t \in Threads, NEW k \in Tasks, NEW discard \in BOOLEAN,
           WaitFor(t, k, discard)
    PROVE  ObjectsInv'
<1>1. /\ task[k].phase = "pending"
      /\ waitsOn' = [waitsOn EXCEPT ![t] = k]
      /\ UNCHANGED <<handles, pins, owner, misbehaved, clientHandles, exeHandles>> /\ Settle({})
  BY DEF WaitFor, Keep
<1>2. task' = [task EXCEPT ![k] = [task[k] EXCEPT !.phase = "waiting", !.failed = discard]]
  BY DEF WaitFor, ObjectsInv, Types, TaskType
<1>3. waitsOn' \in [Threads -> Tasks \cup {Nobody}]
  BY <1>1 DEF ObjectsInv, Types
<1>. DEFINE r == [task[k] EXCEPT !.phase = "waiting", !.failed = discard]
<1>4. ShapeOf(r) /\ (~misbehaved => SoundOf(r)) /\ Later(task[k], r)
  BY <1>1, <1>2, PhaseStep
<1>5. task' = [task EXCEPT ![k] = r]
  BY <1>2
<1>. HIDE DEF r
<1>6. QED BY <1>1, <1>3, <1>4, <1>5, LaterStep

\* mem::forget of a pending value.
LEMMA ForgetStep ==
    ASSUME ObjectsInv, NEW t \in Threads, NEW k \in Tasks, Forget(t, k)
    PROVE  ObjectsInv'
<1>1. /\ task[k].phase = "pending"
      /\ UNCHANGED <<waitsOn, handles, pins, owner, misbehaved, clientHandles, exeHandles>>
      /\ Settle({})
  BY DEF Forget, Keep
<1>2. task[k].failed \in BOOLEAN
      /\ task' = [task EXCEPT ![k] = [task[k] EXCEPT !.phase = "forgotten", !.failed = task[k].failed]]
  BY DEF Forget, ObjectsInv, Types, TaskType
<1>3. waitsOn' \in [Threads -> Tasks \cup {Nobody}]
  BY <1>1 DEF ObjectsInv, Types
<1>. DEFINE r == [task[k] EXCEPT !.phase = "forgotten", !.failed = task[k].failed]
<1>4. ShapeOf(r) /\ (~misbehaved => SoundOf(r)) /\ Later(task[k], r)
  BY <1>1, <1>2, PhaseStep
<1>5. task' = [task EXCEPT ![k] = r]
  BY <1>2
<1>. HIDE DEF r
<1>6. QED BY <1>1, <1>3, <1>4, <1>5, LaterStep

\* A call whose work and events move on.
LEMMA EventShape ==
    ASSUME NEW q, ShapeOf(q), NEW r,
           r = [q EXCEPT !.work = r.work, !.event = r.event, !.failed = r.failed],
           r.failed \in BOOLEAN,
           r.work \in [DOMAIN q.work -> {"running", "done"}],
           r.event \in [DOMAIN q.event -> {"pending", "fired", "destroyed", "none"}],
           \A j \in DOMAIN q.work : r.work[j] = "running" => q.work[j] = "running"
    PROVE  ShapeOf(r) /\ Later(q, r)
<1>1. q \in TaskType
  BY DEF ShapeOf
<1>2. /\ r.work \in BoundedSeq({"running", "done"}, Devices)
      /\ r.event \in BoundedSeq({"pending", "fired", "destroyed", "none"}, Devices)
  <2>1. PICK m \in 0 .. Devices : q.work \in [1 .. m -> {"running", "done"}]
    BY <1>1, Bounded, Constants DEF TaskType
  <2>2. DOMAIN q.work = 1 .. m /\ DOMAIN q.event = 1 .. m
    BY <2>1 DEF ShapeOf
  <2>3. QED BY <2>2, Bounded, Constants
<1>3. /\ r.phase = q.phase /\ r.kind = q.kind /\ r.ins = q.ins
      /\ r.outs = q.outs /\ r.given = q.given /\ r.reads = q.reads
  BY <1>1 DEF TaskType
<1>4. r \in TaskType
  BY <1>1, <1>2 DEF TaskType
<1>5. DOMAIN r.event = DOMAIN r.work /\ (r.phase = "unused" => r.work = << >>)
  BY <1>3 DEF ShapeOf
<1>6. "running" \in ToSet(r.work) => "running" \in ToSet(q.work)
  BY DEF ToSet
<1>7. ShapeOf(r)
  BY <1>3, <1>4, <1>5 DEF ShapeOf
<1>8. Later(q, r)
  BY <1>3, <1>6 DEF Later, Uses, Lends, NeedsExecutable
<1>9. QED BY <1>3, <1>7, <1>8

\* Plugin::wait on the first event left.
LEMMA AwaitEventStep ==
    ASSUME ObjectsInv, NEW t \in Threads, AwaitEvent(t)
    PROVE  ObjectsInv'
<1>. DEFINE k == waitsOn[t]
            i == Min(LiveEvents(k))
<1>1. k \in Tasks
  BY DEF AwaitEvent, Idle, ObjectsInv, Types
<1>2. PICK error \in BOOLEAN :
         task' = [task EXCEPT ![k].event[i] = "destroyed", ![k].failed = @ \/ error]
  BY DEF AwaitEvent
<1>3. task[k].event[i] # "pending"
  BY DEF AwaitEvent
<1>4. ShapeOf(task[k]) /\ (~misbehaved => SoundOf(task[k])) /\ task[k] \in TaskType
  BY <1>1 DEF ObjectsInv, Shapes, Sounds, Types
<1>. HIDE DEF i
<1>. DEFINE event == [task[k].event EXCEPT ![i] = "destroyed"]
            failed == task[k].failed \/ error
            r == [task[k] EXCEPT !.work = task[k].work, !.event = event, !.failed = failed]
<1>5. task' = [task EXCEPT ![k] = r]
  BY <1>1, <1>2, <1>4 DEF ObjectsInv, Types, TaskType
<1>6. /\ failed \in BOOLEAN
      /\ task[k].work \in [DOMAIN task[k].work -> {"running", "done"}]
      /\ task[k].event \in [DOMAIN task[k].event -> {"pending", "fired", "destroyed", "none"}]
  BY <1>4, Bounded, Constants DEF TaskType
<1>7. event \in [DOMAIN task[k].event -> {"pending", "fired", "destroyed", "none"}]
  BY <1>6
<1>8. \A j \in DOMAIN event : event[j] = task[k].event[j] \/ (j = i /\ event[j] = "destroyed")
  BY <1>6
<1>. HIDE DEF event, failed
<1>9. ShapeOf(r) /\ Later(task[k], r) /\ r.work = task[k].work /\ r.event = event
  <2>1. /\ r = [task[k] EXCEPT !.work = r.work, !.event = r.event, !.failed = r.failed]
        /\ r.work = task[k].work /\ r.event = event /\ r.failed = failed
    BY <1>4 DEF TaskType
  <2>. HIDE DEF r
  <2>2. QED BY <1>4, <1>6, <1>7, <2>1, EventShape
<1>10. /\ r.phase = task[k].phase /\ r.kind = task[k].kind /\ r.ins = task[k].ins
       /\ r.outs = task[k].outs /\ r.reads = task[k].reads
       /\ r.dma = task[k].dma /\ r.mapped = task[k].mapped /\ r.host = task[k].host
  BY <1>4 DEF TaskType
<1>. HIDE DEF r
<1>11. ASSUME ~misbehaved PROVE SoundOf(r)
  BY <1>3, <1>4, <1>7, <1>8, <1>9, <1>10, <1>11 DEF SoundOf
<1>12. /\ UNCHANGED <<waitsOn, handles, pins, owner, misbehaved, clientHandles, exeHandles>>
       /\ Settle({})
  BY DEF AwaitEvent, Keep
<1>13. waitsOn' \in [Threads -> Tasks \cup {Nobody}]
  BY <1>12 DEF ObjectsInv, Types
<1>. HIDE DEF k
<1>14. QED BY <1>1, <1>5, <1>9, <1>11, <1>12, <1>13, LaterStep

\* The device finishes one piece of work.
LEMMA DeviceStepStep ==
    ASSUME ObjectsInv, NEW k \in Tasks, NEW i, DeviceStep(k, i)
    PROVE  ObjectsInv'
<1>1. /\ i \in DOMAIN task[k].work /\ task[k].work[i] = "running"
      /\ UNCHANGED <<waitsOn, handles, pins, owner, misbehaved>>
      /\ UNCHANGED <<native, clientHandles, exeHandles, clientState, exeState>>
  BY DEF DeviceStep
<1>2. ShapeOf(task[k]) /\ (~misbehaved => SoundOf(task[k])) /\ task[k] \in TaskType
  BY DEF ObjectsInv, Shapes, Sounds, Types
<1>. DEFINE work == [task[k].work EXCEPT ![i] = "done"]
            event == [task[k].event EXCEPT ![i] = IF @ = "pending" THEN "fired" ELSE @]
            r == [task[k] EXCEPT !.work = work, !.event = event, !.failed = task[k].failed]
<1>3. task' = [task EXCEPT ![k] = r]
  BY <1>2 DEF DeviceStep, ObjectsInv, Types, TaskType
<1>4. /\ task[k].failed \in BOOLEAN /\ DOMAIN task[k].event = DOMAIN task[k].work
      /\ task[k].work \in [DOMAIN task[k].work -> {"running", "done"}]
      /\ task[k].event \in [DOMAIN task[k].event -> {"pending", "fired", "destroyed", "none"}]
  BY <1>2, Bounded, Constants DEF TaskType, ShapeOf
<1>5. /\ work \in [DOMAIN task[k].work -> {"running", "done"}]
      /\ event \in [DOMAIN task[k].event -> {"pending", "fired", "destroyed", "none"}]
      /\ \A j \in DOMAIN task[k].work : work[j] = IF j = i THEN "done" ELSE task[k].work[j]
      /\ \A j \in DOMAIN task[k].event : event[j] =
             IF j = i /\ task[k].event[j] = "pending" THEN "fired" ELSE task[k].event[j]
  BY <1>1, <1>4
<1>. HIDE DEF work, event
<1>6. ShapeOf(r) /\ Later(task[k], r) /\ r.work = work /\ r.event = event
  <2>1. /\ r = [task[k] EXCEPT !.work = r.work, !.event = r.event, !.failed = r.failed]
        /\ r.work = work /\ r.event = event /\ r.failed = task[k].failed
    BY <1>2 DEF TaskType
  <2>2. \A j \in DOMAIN task[k].work : work[j] = "running" => task[k].work[j] = "running"
    BY <1>5
  <2>. HIDE DEF r
  <2>3. QED BY <1>2, <1>4, <1>5, <2>1, <2>2, EventShape
<1>7. /\ r.phase = task[k].phase /\ r.kind = task[k].kind /\ r.ins = task[k].ins
      /\ r.outs = task[k].outs /\ r.reads = task[k].reads
      /\ r.dma = task[k].dma /\ r.mapped = task[k].mapped /\ r.host = task[k].host
  BY <1>2 DEF TaskType
<1>. HIDE DEF r
<1>8. ASSUME ~misbehaved PROVE SoundOf(r)
  <2>1. "running" \in ToSet(task[k].work)
    BY <1>1 DEF ToSet
  <2>2. r.phase # "over"
    BY <1>2, <1>7, <1>8, <2>1 DEF SoundOf
  <2>3. QED BY <1>2, <1>4, <1>5, <1>6, <1>7, <1>8, <2>2 DEF SoundOf
<1>9. waitsOn' \in [Threads -> Tasks \cup {Nobody}]
  BY <1>1 DEF ObjectsInv, Types
<1>10. QED BY <1>1, <1>3, <1>6, <1>8, <1>9, LaterStep

\* The on-delete callback of a view.
LEMMA OwnerCallbackStep ==
    ASSUME ObjectsInv, NEW b \in Buffers, OwnerCallback(b)
    PROVE  ObjectsInv'
<1>1. /\ owner[b] = "held" /\ owner' = [owner EXCEPT ![b] = "dropped"]
      /\ UNCHANGED <<handles, pins, native, task, waitsOn, clientHandles,
                     exeHandles, clientState, exeState, misbehaved>>
  BY DEF OwnerCallback
<1>2. Types' /\ Shapes' /\ Sounds'
  BY <1>1 DEF ObjectsInv, Types, Shapes, Sounds
<1>3. \A c \in Buffers : owner'[c] = owner[c] \/ owner[c] = "held"
  BY <1>1 DEF ObjectsInv, Types
<1>4. \A j \in Tasks : Later(task[j], task'[j])
  BY <1>1 DEF Later
<1>5. Disciplined({})
  BY <1>1, <1>3, <1>4, LaterDisciplined
<1>6. OutputsApart' /\ LentKept' /\ Givens'
  BY <1>2, <1>5, ArcsStep, HandlesAreNat DEF Types
<1>7. Lives'
  BY <1>1 DEF ObjectsInv, Lives, HeldArcs
<1>8. QED BY <1>2, <1>6, <1>7 DEF ObjectsInv

\* The end of a call: outputs are handed over, the rest is released.
LEMMA ReturnStep ==
    ASSUME ObjectsInv, NEW t \in Threads, Return(t)
    PROVE  ObjectsInv'
<1>. DEFINE k == waitsOn[t]
            results == IF task[k].failed THEN {} ELSE task[k].outs
            r == [Unused EXCEPT !.phase = "over", !.reads = Unfinished(k),
                                !.work = task[k].work, !.event = task[k].event]
<1>1. k \in Tasks
  BY DEF Return, Idle, ObjectsInv, Types
<1>2. /\ LiveEvents(k) = {} /\ task' = [task EXCEPT ![k] = r]
      /\ handles' = [b \in Buffers |-> handles[b] + (IF b \in results THEN 1 ELSE 0)]
      /\ waitsOn' = [waitsOn EXCEPT ![t] = Nobody]
      /\ UNCHANGED <<pins, owner, misbehaved, clientHandles, exeHandles>> /\ Settle({})
  BY DEF Return, Keep
<1>3. ShapeOf(task[k]) /\ (~misbehaved => SoundOf(task[k])) /\ task[k] \in TaskType
  BY <1>1 DEF ObjectsInv, Shapes, Sounds, Types
<1>4. /\ r.kind = "none" /\ r.phase = "over" /\ r.ins = << >> /\ r.reads = Uses(task[k])
      /\ r.given = {} /\ r.outs = {} /\ r.work = task[k].work /\ r.event = task[k].event
      /\ r.mapped = FALSE
  BY DEF Unused, Unfinished, Uses
<1>5. r \in TaskType
  <2>1. Unfinished(k) \subseteq Buffers /\ << >> \in BoundedSeq(Buffers, 2)
    BY <1>3, EmptyBounded DEF Unfinished, TaskType
  <2>2. QED BY <1>3, <2>1 DEF Unused, TaskType
<1>. HIDE DEF r
<1>6. ShapeOf(r)
  BY <1>3, <1>4, <1>5 DEF ShapeOf, OpenPhases
<1>7. ASSUME ~misbehaved PROVE SoundOf(r)
  <2>1. \A i \in DOMAIN r.event : r.event[i] = "destroyed"
    <3>1. \A i \in DOMAIN task[k].event :
             /\ task[k].event[i] \in {"pending", "fired", "destroyed", "none"}
             /\ task[k].event[i] # "none"
             /\ task[k].event[i] \notin {"pending", "fired"}
      BY <1>2, <1>3, <1>7, Bounded, Constants DEF SoundOf, TaskType, LiveEvents
    <3>2. QED BY <1>4, <3>1
  <2>2. \A i \in DOMAIN r.work : r.work[i] = "done"
    BY <1>3, <1>4, <1>7, <2>1 DEF SoundOf, ShapeOf
  <2>3. "running" \notin ToSet(r.work)
    BY <2>2 DEF ToSet
  <2>4. QED BY <1>3, <1>4, <1>6, <2>1, <2>2, <2>3 DEF SoundOf, ShapeOf, OpenPhases
<1>. HIDE DEF k
<1>8. \A b \in Buffers : b \in results => b \in task[k].outs /\ handles[b] = 0
  BY <1>1 DEF ObjectsInv, OutputsApart
<1>. HIDE DEF results
<1>9. handles' \in [Buffers -> 0 .. MaxHandles + 1]
  BY <1>2, <1>8, Constants DEF ObjectsInv, Types
<1>10. Types'
  BY <1>1, <1>2, <1>5, <1>9, SettleTypes DEF ObjectsInv, Types
<1>11. Shapes' /\ Sounds'
  BY <1>1, <1>2, <1>6, <1>7 DEF ObjectsInv, Shapes, Sounds, Types
<1>12. /\ \A j \in Tasks \ {k} : task'[j] = task[j]
       /\ task'[k] = r
  BY <1>1, <1>2 DEF ObjectsInv, Types
<1>13. /\ Retains(r) = {} /\ Lends(r) = {} /\ ~NeedsExecutable(r)
       /\ Uses(r) \subseteq Uses(task[k])
  BY <1>4 DEF Retains, Lends, NeedsExecutable, Uses, OpenPhases
<1>14. \A j \in Tasks : \A b \in Lends(task'[j]) : b \in Buffers /\ handles[b] > 0
  <2>1. \A j \in Tasks : task[j].ins \in BoundedSeq(Buffers, 2)
    BY DEF ObjectsInv, Types, TaskType
  <2>2. \A j \in Tasks : Lends(task[j]) \subseteq Buffers
    BY <2>1, RangeSubset DEF Lends
  <2>3. QED BY <2>2, <1>12, <1>13 DEF ObjectsInv, LentKept
<1>15. \A b \in Buffers : /\ handles[b] > 0 => handles'[b] > 0
                          /\ handles'[b] > 0 => handles[b] > 0 \/ b \in task[k].outs
  BY <1>2, <1>8, Constants DEF ObjectsInv, Types
<1>16. Disciplined({})
  <2>1. \A j \in Tasks : \A b \in Retains(task'[j]) : b \in Retains(task[j])
    BY <1>12, <1>13
  <2>2. \A j \in Tasks : \A b \in Uses(task'[j]) : b \in Uses(task[j])
    BY <1>12, <1>13
  <2>3. \A j \in Tasks : \A b \in task'[j].outs : b \in task[j].outs
    BY <1>4, <1>12
  <2>4. \A b \in Buffers : handles'[b] > 0 =>
           handles[b] > 0 \/ \E j \in Tasks : b \in task[j].outs \ task'[j].outs
    BY <1>1, <1>4, <1>12, <1>15
  <2>5. \A j \in Tasks : \A b \in Lends(task'[j]) : handles'[b] > 0
    BY <1>14, <1>15
  <2>6. \A j \in Tasks : \A b \in task'[j].given :
            b \in task[j].given /\ task'[j].ins = task[j].ins
    BY <1>4, <1>12
  <2>7. QED BY <1>2, <2>1, <2>2, <2>3, <2>4, <2>5, <2>6 DEF Disciplined
<1>17. OutputsApart' /\ LentKept' /\ Givens'
  BY <1>10, <1>16, ArcsStep, HandlesAreNat DEF Types
<1>18. \A j \in Tasks : NeedsExecutable(task'[j]) => NeedsExecutable(task[j])
  BY <1>12, <1>13
<1>19. Lives'
  BY <1>2, <1>10, <1>11, <1>16, <1>18, SettleStep, HandlesAreNat DEF Types
<1>20. QED BY <1>10, <1>11, <1>17, <1>19 DEF ObjectsInv

-----------------------------------------------------------------------------
\* Steps that start a call.

\* A null event makes upload_pinned forget the buffer it was given.
Leaks ==
    /\ misbehaved' /\ UNCHANGED <<clientState, exeState>>
    /\ \E b \in Buffers : native' = [native EXCEPT ![b] = "leaked"]

\* A step that starts a call keeps the invariant.
LEMMA StartStep ==
    ASSUME ObjectsInv, NEW k \in Tasks, task[k].phase = "unused", ~misbehaved,
           NEW r, task' = [task EXCEPT ![k] = r],
           ShapeOf(r), ~misbehaved' => SoundOf(r), misbehaved' \in BOOLEAN,
           waitsOn' \in [Threads -> Tasks \cup {Nobody}],
           NEW fresh, fresh \subseteq Buffers, \A b \in fresh : ~HeldArcs(b),
           fresh # {} => clientState = "live",
           UNCHANGED <<pins, owner, clientHandles, exeHandles>>,
           Settle(fresh) \/ Leaks,
           r.outs \subseteq fresh,
           \A b \in ToSet(r.ins) : Reachable(b),
           \A b \in Uses(r) : Reachable(b),
           \A b \in r.given : GivenAlone(k, b)',
           NeedsExecutable(r) => exeHandles > 0,
           handles' \in [Buffers -> 0 .. MaxHandles + 1],
           \A b \in Buffers : handles'[b] > 0 => handles[b] > 0,
           \A b \in Buffers : b \in Lends(r) \/ Borrowed(b) => handles'[b] > 0
    PROVE  ObjectsInv'
<1>1. Types'
  <2>1. r \in TaskType
    BY DEF ShapeOf
  <2>2. /\ native' \in [Buffers -> {"unused", "live", "destroyed", "leaked"}]
        /\ clientState' \in {"live", "destroyed"} /\ exeState' \in {"live", "destroyed"}
    BY SettleTypes DEF ObjectsInv, Types, Leaks
  <2>3. QED BY <2>1, <2>2 DEF ObjectsInv, Types
<1>2. Shapes' /\ Sounds'
  BY DEF ObjectsInv, Shapes, Sounds, Types
<1>3. /\ \A j \in Tasks \ {k} : task'[j] = task[j]
      /\ task'[k] = r
  BY DEF ObjectsInv, Types
<1>4. task[k].outs = {}
  BY DEF ObjectsInv, Shapes, ShapeOf, OpenPhases
<1>5. Retains(r) \subseteq r.outs \cup ToSet(r.ins)
  BY DEF Retains
<1>6. \A j \in Tasks : Lends(task'[j]) \subseteq Buffers
  <2>1. \A j \in Tasks : task'[j].ins \in BoundedSeq(Buffers, 2)
    BY <1>1 DEF Types, TaskType
  <2>2. QED BY <2>1, RangeSubset DEF Lends
<1>7. Disciplined(fresh)
  <2>1. \A j \in Tasks : \A b \in Retains(task'[j]) :
           b \in Retains(task[j]) \cup fresh \/ Reachable(b)
    BY <1>3, <1>5
  <2>2. \A j \in Tasks : \A b \in Uses(task'[j]) : b \in Uses(task[j]) \/ Reachable(b)
    BY <1>3
  <2>3. \A j \in Tasks : \A b \in task'[j].outs :
            /\ b \in task[j].outs \cup fresh
            /\ b \in fresh => \A i \in Tasks \ {j} : b \notin task'[i].outs
    <3>1. \A j \in Tasks : \A b \in task[j].outs : b \notin fresh
      BY DEF HeldArcs, Retains
    <3>2. QED BY <1>3, <3>1
  <2>4. \A j \in Tasks : \A b \in Lends(task'[j]) : handles'[b] > 0
    BY <1>3, <1>6, BorrowedIsLent
  <2>5. \A j \in Tasks : \A b \in task'[j].given :
           \/ b \in task[j].given /\ task'[j].ins = task[j].ins
           \/ GivenAlone(j, b)'
    BY <1>3
  <2>6. QED BY <2>1, <2>2, <2>3, <2>4, <2>5 DEF Disciplined
<1>8. OutputsApart' /\ LentKept' /\ Givens'
  BY <1>1, <1>7, ArcsStep, HandlesAreNat DEF Types
<1>9. \A j \in Tasks : NeedsExecutable(task'[j]) => NeedsExecutable(task[j]) \/ exeHandles > 0
  BY <1>3
<1>10. Lives'
  <2>1. CASE Settle(fresh)
    BY <1>1, <1>2, <1>7, <1>9, <2>1, SettleStep, HandlesAreNat DEF Types
  <2>2. CASE Leaks
    <3>1. \A b \in Buffers : native'[b] = "live" => native[b] = "live"
      BY <2>2 DEF Leaks, ObjectsInv, Types
    <3>2. QED BY <1>9, <2>2, <3>1 DEF Leaks, ObjectsInv, Lives
  <2>3. QED BY <2>1, <2>2
<1>11. QED BY <1>1, <1>2, <1>8, <1>10 DEF ObjectsInv

\* What NewTask builds is sound before anything has run.
LEMMA NewTaskSound ==
    ASSUME NEW kind, NEW at, NEW t, NEW ins, NEW outs, NEW n,
           NewTaskArgs(kind, at, t, ins, outs, n), kind # "upload",
           kind = "sync" => outs # {}, kind = "download" => ins # << >>
    PROVE  SoundOf(NewTask(kind, at, t, ins, outs, n))
  BY DEF NewTask, NewTaskArgs, SoundOf, OpenPhases

\* A call name not used yet.
LEMMA FreshTaskUnused ==
    ASSUME ObjectsInv, NEW t \in Threads, NEW k \in Tasks, FreshTask(t, k)
    PROVE  /\ task[k].phase = "unused" /\ ~misbehaved
           /\ [waitsOn EXCEPT ![t] = k] \in [Threads -> Tasks \cup {Nobody}]
  BY DEF FreshTask, ObjectsInv, Types

\* What is borrowed has a handle.
LEMMA LentHandles ==
    ASSUME ObjectsInv, NEW b \in Buffers, Borrowed(b)
    PROVE  handles[b] > 0
  BY BorrowedIsLent DEF ObjectsInv, LentKept

\* Calls that return only after their events.
LEMMA BlockingStep ==
    ASSUME ObjectsInv, NEW t \in Threads, NEW k \in Tasks, FreshTask(t, k),
           NEW kind \in {"shard", "download", "sync"}, NEW ins, NEW outs, NEW n,
           NewTaskArgs(kind, "waiting", t, ins, outs, n),
           kind = "sync" => outs # {}, kind = "download" => ins # << >>,
           kind = "shard" => exeHandles > 0,
           \A b \in outs : FreshBuffer(b),
           outs # {} => clientState = "live",
           Blocking(t, k, kind, ins, outs, n)
    PROVE  ObjectsInv'
<1>1. /\ task[k].phase = "unused" /\ ~misbehaved
      /\ [waitsOn EXCEPT ![t] = k] \in [Threads -> Tasks \cup {Nobody}]
  BY FreshTaskUnused
<1>2. /\ \A b \in ToSet(ins) : b \in Buffers /\ handles[b] > 0
      /\ UNCHANGED <<handles, pins, owner>>
      /\ outs \subseteq Buffers /\ ins \in BoundedSeq(Buffers, 2)
  BY RangeSubset DEF Blocking, NewTaskArgs
<1>3. \A b \in outs : ~HeldArcs(b)
  BY <1>2, FreshUnheld
<1>4. \A b \in Buffers : Borrowed(b) => handles'[b] > 0
  BY <1>2, LentHandles
<1>5. handles' \in [Buffers -> 0 .. MaxHandles + 1]
  BY <1>2 DEF ObjectsInv, Types
<1>6. CASE /\ task' = [task EXCEPT ![k] = NewTask(kind, "waiting", t, ins, outs, n)]
           /\ waitsOn' = [waitsOn EXCEPT ![t] = k]
           /\ UNCHANGED misbehaved /\ Keep(outs)
  <2>. DEFINE r == NewTask(kind, "waiting", t, ins, outs, n)
  <2>1. ShapeOf(r) /\ SoundOf(r)
    BY NewTaskShape, NewTaskSound
  <2>2. /\ r.outs = outs /\ r.ins = ins /\ r.given = {}
        /\ Uses(r) \subseteq ToSet(ins) /\ Lends(r) \subseteq ToSet(ins)
        /\ NeedsExecutable(r) => kind = "shard"
    BY DEF NewTask, Uses, Lends, NeedsExecutable
  <2>3. task' = [task EXCEPT ![k] = r]
    BY <1>6
  <2>4. UNCHANGED <<clientHandles, exeHandles>> /\ Settle(outs)
    BY <1>6 DEF Keep
  <2>5. waitsOn' \in [Threads -> Tasks \cup {Nobody}] /\ misbehaved' \in BOOLEAN
    BY <1>1, <1>6 DEF ObjectsInv, Types
  <2>. HIDE DEF r
  <2>6. \A b \in ToSet(ins) : Reachable(b)
    BY <1>2 DEF Reachable
  <2>7. QED BY <1>1, <1>2, <1>3, <1>4, <1>5, <2>1, <2>2, <2>3, <2>4, <2>5, <2>6, StartStep
<1>7. CASE /\ task' = [task EXCEPT ![k] = [NewTask(kind, "over", t, ins, {}, n) EXCEPT !.ins = << >>]]
           /\ misbehaved' = TRUE /\ UNCHANGED waitsOn /\ Keep({})
  <2>. DEFINE r == [NewTask(kind, "over", t, ins, {}, n) EXCEPT !.ins = << >>]
  <2>1. ShapeOf(r)
    <3>1. ShapeOf(NewTask(kind, "waiting", t, ins, outs, n))
      BY NewTaskShape
    <3>2. << >> \in BoundedSeq(Buffers, 2)
      BY EmptyBounded
    <3>3. QED BY <3>1, <3>2 DEF NewTask, ShapeOf, TaskType, OpenPhases
  <2>2. /\ r.outs = {} /\ r.ins = << >> /\ r.given = {}
        /\ Uses(r) \subseteq ToSet(ins) /\ Lends(r) = {} /\ ~NeedsExecutable(r)
    BY DEF NewTask, Uses, Lends, NeedsExecutable, OpenPhases
  <2>3. task' = [task EXCEPT ![k] = r]
    BY <1>7
  <2>4. UNCHANGED <<clientHandles, exeHandles>> /\ Settle({})
    BY <1>7 DEF Keep
  <2>5. waitsOn' \in [Threads -> Tasks \cup {Nobody}] /\ misbehaved' \in BOOLEAN /\ misbehaved'
    BY <1>7 DEF ObjectsInv, Types
  <2>. HIDE DEF r
  <2>6. \A b \in ToSet(ins) : Reachable(b)
    BY <1>2 DEF Reachable
  <2>7. ToSet(r.ins) = {}
    BY <2>2 DEF ToSet
  <2>8. QED BY <1>1, <1>2, <1>4, <1>5, <2>1, <2>2, <2>3, <2>4, <2>5, <2>6, <2>7, StartStep
<1>8. QED BY <1>6, <1>7 DEF Blocking

\* to_host.
LEMMA ToHostStep ==
    ASSUME ObjectsInv, NEW t \in Threads, NEW k \in Tasks, FreshTask(t, k),
           NEW b \in Buffers, ToHost(t, k, b)
    PROVE  ObjectsInv'
<1>1. <<b>> \in [1 .. 1 -> Buffers] /\ <<b>> # << >> /\ 1 \in 0 .. 2 /\ 1 \in 1 .. Devices
  BY Constants
<1>2. NewTaskArgs("download", "waiting", t, <<b>>, {}, 1)
  BY <1>1, Bounded DEF NewTaskArgs
<1>3. QED BY <1>1, <1>2, BlockingStep DEF ToHost

\* buffer_on_device and buffer_in_memory.
LEMMA BufferOnDeviceStep ==
    ASSUME ObjectsInv, NEW t \in Threads, NEW k \in Tasks, FreshTask(t, k),
           NEW b \in Buffers, FreshBuffer(b), BufferOnDevice(t, k, b)
    PROVE  ObjectsInv'
<1>1. << >> \in BoundedSeq(Buffers, 2) /\ 1 \in 1 .. Devices
  BY EmptyBounded, Constants
<1>2. NewTaskArgs("sync", "waiting", t, << >>, {b}, 1)
  BY <1>1 DEF NewTaskArgs
<1>3. clientState = "live"
  BY DEF BufferOnDevice, ObjectsInv, Lives
<1> DEFINE kind == "sync"
           ins == << >>
           outs == {b}
           n == 1
<1>4. /\ kind \in {"shard", "download", "sync"} /\ kind # "download" /\ kind # "shard"
      /\ outs # {} /\ \A x \in outs : FreshBuffer(x)
  OBVIOUS
<1>5. NewTaskArgs(kind, "waiting", t, ins, outs, n) /\ Blocking(t, k, kind, ins, outs, n)
  BY <1>2 DEF BufferOnDevice
<1> HIDE DEF kind, ins, outs, n
<1>6. QED BY <1>3, <1>4, <1>5, BlockingStep

\* While the executable has a handle the client is live.
LEMMA ExecutableClient ==
    ASSUME ObjectsInv, exeHandles > 0
    PROVE  clientState = "live"
  BY DEF ObjectsInv, Lives

\* execute_sharded.
LEMMA ExecuteShardedStep ==
    ASSUME ObjectsInv, NEW t \in Threads, NEW k \in Tasks, FreshTask(t, k),
           NEW ins \in BoundedSeq(Buffers, 2), NEW b \in Buffers, FreshBuffer(b),
           ExecuteSharded(t, k, ins, b)
    PROVE  ObjectsInv'
<1>1. NewTaskArgs("shard", "waiting", t, ins, {b}, Devices)
  BY Constants DEF NewTaskArgs
<1>2. exeHandles > 0 /\ clientState = "live"
  BY ExecutableClient DEF ExecuteSharded
<1>3. QED BY <1>1, <1>2, BlockingStep DEF ExecuteSharded

\* upload_pinned_on_device, with its early returns.
LEMMA UploadPinnedStep ==
    ASSUME ObjectsInv, NEW t \in Threads, NEW k \in Tasks, FreshTask(t, k),
           NEW b \in Buffers, FreshBuffer(b), NEW dma \in BOOLEAN, UploadPinned(t, k, b, dma)
    PROVE  ObjectsInv'
<1>. DEFINE new == NewTask("upload", "pending", t, << >>, {b}, 1)
            started == [new EXCEPT !.dma = dma, !.mapped = dma, !.host = TRUE]
<1>1. /\ task[k].phase = "unused" /\ ~misbehaved
      /\ [waitsOn EXCEPT ![t] = k] \in [Threads -> Tasks \cup {Nobody}]
  BY FreshTaskUnused
<1>2. /\ clientState = "live" /\ ~HeldArcs(b)
      /\ \A c \in Buffers : Borrowed(c) => handles[c] > 0
      /\ handles \in [Buffers -> 0 .. MaxHandles + 1]
      /\ waitsOn \in [Threads -> Tasks \cup {Nobody}] /\ misbehaved \in BOOLEAN
  BY FreshUnheld, LentHandles DEF UploadPinned, ObjectsInv, Lives, Types
<1>3. UNCHANGED <<handles, pins, owner>>
  BY DEF UploadPinned
<1>4. ShapeOf(new)
  <2>1. << >> \in BoundedSeq(Buffers, 2) /\ 1 \in 1 .. Devices
    BY EmptyBounded, Constants
  <2>2. NewTaskArgs("upload", "pending", t, << >>, {b}, 1)
    BY <2>1 DEF NewTaskArgs
  <2>3. QED BY <2>2, NewTaskShape
<1>5. ToSet(<< >>) = {}
  BY DEF ToSet
<1>6. CASE /\ task' = [task EXCEPT ![k] = started]
           /\ UNCHANGED <<waitsOn, misbehaved>> /\ Keep({b})
  <2>1. ShapeOf(started) /\ SoundOf(started)
    BY <1>4 DEF NewTask, ShapeOf, SoundOf, TaskType, OpenPhases
  <2>2. /\ started.outs = {b} /\ started.ins = << >> /\ started.given = {}
        /\ Uses(started) = {} /\ Lends(started) = {} /\ ~NeedsExecutable(started)
    BY <1>5 DEF NewTask, Uses, Lends, NeedsExecutable
  <2>3. task' = [task EXCEPT ![k] = started]
    BY <1>6
  <2>4. UNCHANGED <<clientHandles, exeHandles>> /\ Settle({b})
    BY <1>6 DEF Keep
  <2>5. /\ {b} \subseteq Buffers
        /\ \A c \in {b} : ~HeldArcs(c)
        /\ misbehaved' \in BOOLEAN
        /\ waitsOn' \in [Threads -> Tasks \cup {Nobody}]
        /\ handles' \in [Buffers -> 0 .. MaxHandles + 1]
        /\ \A c \in Buffers : handles'[c] > 0 => handles[c] > 0
        /\ \A c \in Buffers : c \in Lends(started) \/ Borrowed(c) => handles'[c] > 0
    BY <1>2, <1>3, <1>6, <2>2
  <2>. HIDE DEF started
  <2>6. QED BY <1>1, <1>2, <1>3, <1>5, <2>1, <2>2, <2>3, <2>4, <2>5, StartStep
<1>7. CASE /\ task' = [task EXCEPT ![k] =
                 [started EXCEPT !.phase = "over", !.outs = {}, !.event = <<"none">>,
                                 !.mapped = FALSE, !.host = FALSE]]
           /\ native' = [native EXCEPT ![b] = "leaked"]
           /\ misbehaved' = TRUE
           /\ UNCHANGED <<waitsOn, exeState, clientState, clientHandles, exeHandles>>
  <2>. DEFINE r == [started EXCEPT !.phase = "over", !.outs = {}, !.event = <<"none">>,
                                   !.mapped = FALSE, !.host = FALSE]
  <2>1. ShapeOf(r)
    <3>1. <<"none">> \in BoundedSeq({"pending", "fired", "destroyed", "none"}, Devices)
      <4>1. <<"none">> \in [1 .. 1 -> {"pending", "fired", "destroyed", "none"}]
        OBVIOUS
      <4>2. 1 \in 0 .. Devices
        BY Constants
      <4>3. QED BY <4>1, <4>2, Bounded, Constants
    <3>2. r.event = <<"none">> /\ DOMAIN r.event = 1 .. 1 /\ DOMAIN r.work = 1 .. 1
      BY DEF NewTask
    <3>3. r \in TaskType
      BY <1>4, <3>1 DEF NewTask, ShapeOf, TaskType
    <3>4. /\ r.phase = "over" /\ r.ins = << >> /\ r.outs = {} /\ r.given = {}
          /\ r.kind = "upload"
      BY DEF NewTask
    <3>5. QED BY <3>2, <3>3, <3>4 DEF ShapeOf, OpenPhases
  <2>2. /\ r.outs = {} /\ r.ins = << >> /\ r.given = {}
        /\ Uses(r) = {} /\ Lends(r) = {} /\ ~NeedsExecutable(r)
    BY <1>5 DEF NewTask, Uses, Lends, NeedsExecutable
  <2>3. task' = [task EXCEPT ![k] = r]
    BY <1>7
  <2>4. Leaks
    BY <1>7 DEF Leaks
  <2>. HIDE DEF r
  <2>5. QED BY <1>1, <1>2, <1>3, <1>5, <1>7, <2>1, <2>2, <2>3, <2>4, StartStep
<1>8. CASE /\ task' = [task EXCEPT ![k] = [started EXCEPT !.phase = "waiting", !.outs = {},
                                                          !.failed = TRUE]]
           /\ waitsOn' = [waitsOn EXCEPT ![t] = k]
           /\ misbehaved' = TRUE
           /\ Keep({})
  <2>. DEFINE r == [started EXCEPT !.phase = "waiting", !.outs = {}, !.failed = TRUE]
  <2>1. ShapeOf(r)
    BY <1>4 DEF NewTask, ShapeOf, TaskType, OpenPhases
  <2>2. /\ r.outs = {} /\ r.ins = << >> /\ r.given = {}
        /\ Uses(r) = {} /\ Lends(r) = {} /\ ~NeedsExecutable(r)
    BY <1>5 DEF NewTask, Uses, Lends, NeedsExecutable
  <2>3. task' = [task EXCEPT ![k] = r]
    BY <1>8
  <2>4. UNCHANGED <<clientHandles, exeHandles>> /\ Settle({})
    BY <1>8 DEF Keep
  <2>. HIDE DEF r
  <2>5. QED BY <1>1, <1>2, <1>3, <1>5, <1>8, <2>1, <2>2, <2>3, <2>4, StartStep
<1>9. QED BY <1>6, <1>7, <1>8 DEF UploadPinned

\* Before a donating call: the argument it gives away is held by nothing else.
SoleArgument(ins, b) ==
    /\ b \notin pins /\ owner[b] = "none"
    /\ \A i, j \in DOMAIN ins : ins[i] = b /\ ins[j] = b => i = j
    /\ \A j \in Tasks : b \notin Retains(task[j]) \cup Uses(task[j])

\* submit_impl after its checks, for execute and execute_donating.
LEMMA SubmittedStep ==
    ASSUME ObjectsInv, NEW t \in Threads, NEW k \in Tasks, FreshTask(t, k),
           NEW at \in {"pending", "waiting"}, NEW ins \in BoundedSeq(Buffers, 2),
           NEW given, given \subseteq ToSet(ins), given # {} => at = "waiting",
           NEW out \in Buffers, FreshBuffer(out), exeHandles > 0,
           \A b \in ToSet(ins) : Reachable(b),
           \A b \in given : SoleArgument(ins, b) /\ handles'[b] = 0,
           UNCHANGED <<pins, owner>>,
           handles' \in [Buffers -> 0 .. MaxHandles + 1],
           \A b \in Buffers : handles'[b] > 0 => handles[b] > 0,
           \A b \in Buffers : Borrowed(b) => handles'[b] > 0,
           Submitted(t, k, at, ins, given, out)
    PROVE  ObjectsInv'
<1>1. /\ task[k].phase = "unused" /\ ~misbehaved
      /\ [waitsOn EXCEPT ![t] = k] \in [Threads -> Tasks \cup {Nobody}]
  BY FreshTaskUnused
<1>2. /\ clientState = "live" /\ ~HeldArcs(out) /\ ToSet(ins) \subseteq Buffers
      /\ waitsOn \in [Threads -> Tasks \cup {Nobody}] /\ misbehaved \in BOOLEAN
      /\ task \in [Tasks -> TaskType]
  BY FreshUnheld, ExecutableClient, RangeSubset DEF ObjectsInv, Types
<1>3. 1 \in 1 .. Devices /\ << >> \in BoundedSeq(Buffers, 2)
  BY Constants, EmptyBounded
<1>4. NewTaskArgs("exec", at, t, ins, {out}, 1)
  BY <1>3 DEF NewTaskArgs
<1>. DEFINE new == NewTask("exec", at, t, ins, {out}, 1)
<1>5. ShapeOf(new) /\ SoundOf(new)
  BY <1>4, NewTaskShape, NewTaskSound
<1>6. CASE /\ task' = [task EXCEPT ![k] = [new EXCEPT !.given = given]]
           /\ waitsOn' = IF at = "waiting" THEN [waitsOn EXCEPT ![t] = k] ELSE waitsOn
           /\ UNCHANGED misbehaved /\ Keep({out})
  <2>. DEFINE r == [new EXCEPT !.given = given]
  <2>1. ShapeOf(r)
    BY <1>2, <1>5 DEF NewTask, ShapeOf, TaskType, OpenPhases
  <2>2. SoundOf(r)
    BY <1>5 DEF NewTask, SoundOf, OpenPhases
  <2>3. /\ r.outs = {out} /\ r.ins = ins /\ r.given = given
        /\ Uses(r) \subseteq ToSet(ins) /\ Lends(r) = {}
    BY DEF NewTask, Uses, Lends
  <2>4. task' = [task EXCEPT ![k] = r]
    BY <1>6
  <2>5. UNCHANGED <<clientHandles, exeHandles>> /\ Settle({out})
    BY <1>6 DEF Keep
  <2>6. waitsOn' \in [Threads -> Tasks \cup {Nobody}] /\ misbehaved' \in BOOLEAN
    BY <1>1, <1>2, <1>6
  <2>. HIDE DEF r
  <2>7. task'[k] = r /\ \A j \in Tasks \ {k} : task'[j] = task[j]
    BY <1>2, <2>4
  <2>8. ASSUME NEW b \in given
        PROVE  GivenAlone(k, b)'
    <3>1. HeldArcs(b)
      BY DEF HeldArcs, Reachable, Retains
    <3>2. b # out
      BY <1>2, <3>1
    <3>3. \A j \in Tasks : b \notin task[j].outs
      BY DEF SoleArgument, Retains
    <3>4. \A j \in Tasks : b \notin task'[j].outs
      BY <2>3, <2>7, <3>2, <3>3
    <3>5. OnlyOnce(task'[k], b)
      BY <2>3, <2>7 DEF OnlyOnce, SoleArgument
    <3>6. \A j \in Tasks \ {k} : b \notin Retains(task'[j]) \cup Uses(task'[j])
      BY <2>7 DEF SoleArgument
    <3>7. handles'[b] = 0 /\ b \notin pins' /\ owner'[b] = "none"
      BY DEF SoleArgument
    <3>8. QED BY <3>4, <3>5, <3>6, <3>7 DEF GivenAlone
  <2>9. \A b \in r.given : GivenAlone(k, b)'
    BY <2>3, <2>8
  <2>10. {out} \subseteq Buffers /\ \A c \in {out} : ~HeldArcs(c)
    BY <1>2
  <2>11. /\ \A b \in ToSet(r.ins) : Reachable(b)
         /\ \A b \in Uses(r) : Reachable(b)
         /\ \A b \in Buffers : b \in Lends(r) \/ Borrowed(b) => handles'[b] > 0
    BY <2>3
  <2>. HIDE DEF new
  <2>12. QED
    BY <1>1, <1>2, <2>1, <2>2, <2>3, <2>4, <2>5, <2>6, <2>9, <2>10, <2>11, StartStep
<1>7. CASE /\ task' = [task EXCEPT ![k] = [NewTask("exec", "over", t, ins, {}, 1) EXCEPT !.ins = << >>]]
           /\ misbehaved' = TRUE /\ UNCHANGED waitsOn /\ Keep({})
  <2>. DEFINE r == [NewTask("exec", "over", t, ins, {}, 1) EXCEPT !.ins = << >>]
  <2>1. ShapeOf(r)
    BY <1>3, <1>5 DEF NewTask, ShapeOf, TaskType, OpenPhases
  <2>2. /\ r.outs = {} /\ r.ins = << >> /\ r.given = {}
        /\ Uses(r) \subseteq ToSet(ins) /\ Lends(r) = {} /\ ~NeedsExecutable(r)
    BY DEF NewTask, Uses, Lends, NeedsExecutable, OpenPhases
  <2>3. task' = [task EXCEPT ![k] = r]
    BY <1>7
  <2>4. UNCHANGED <<clientHandles, exeHandles>> /\ Settle({})
    BY <1>7 DEF Keep
  <2>5. waitsOn' \in [Threads -> Tasks \cup {Nobody}] /\ misbehaved' \in BOOLEAN /\ misbehaved'
    BY <1>2, <1>7
  <2>. HIDE DEF r
  <2>6. ToSet(r.ins) = {} /\ \A b \in Uses(r) : Reachable(b)
    BY <2>2 DEF ToSet
  <2>7. QED BY <1>1, <1>2, <2>1, <2>2, <2>3, <2>4, <2>5, <2>6, StartStep
<1>8. QED BY <1>6, <1>7 DEF Submitted

\* submit.
LEMMA SubmitStep ==
    ASSUME ObjectsInv, NEW t \in Threads, NEW k \in Tasks, FreshTask(t, k),
           NEW ins \in BoundedSeq(Buffers, 2), NEW out \in Buffers, FreshBuffer(out),
           Submit(t, k, ins, out)
    PROVE  ObjectsInv'
<1>1. \A b \in ToSet(ins) : Reachable(b)
  BY DEF Submit, Visible, Reachable
<1>2. /\ handles' \in [Buffers -> 0 .. MaxHandles + 1]
      /\ \A b \in Buffers : handles'[b] > 0 => handles[b] > 0
      /\ \A b \in Buffers : Borrowed(b) => handles'[b] > 0
  BY LentHandles DEF Submit, ObjectsInv, Types
<1>3. exeHandles > 0 /\ UNCHANGED <<pins, owner>> /\ Submitted(t, k, "pending", ins, {}, out)
  BY DEF Submit
<1>4. QED BY <1>1, <1>2, <1>3, SubmittedStep

\* Counting an argument: never negative, none when it is not an argument, and
\* one only when it is one argument once.
LEMMA CountArguments ==
    ASSUME NEW ins \in BoundedSeq(Buffers, 2), NEW b
    PROVE  /\ Count(ins, b) \in Nat
           /\ b \in ToSet(ins) => Count(ins, b) > 0
           /\ b \notin ToSet(ins) => Count(ins, b) = 0
           /\ Count(ins, b) = 1 => \A i, j \in DOMAIN ins : ins[i] = b /\ ins[j] = b => i = j
<1>. DEFINE at == {i \in DOMAIN ins : ins[i] = b}
<1>1. PICK m \in 0 .. 2 : ins \in [1 .. m -> Buffers]
  BY Bounded
<1>2. IsFiniteSet(at)
  <2>1. IsFiniteSet(1 .. m)
    BY FS_Interval
  <2>2. at \subseteq 1 .. m
    BY <1>1
  <2>3. QED BY <2>1, <2>2, FS_Subset
<1>3. Cardinality(at) \in Nat /\ (Cardinality(at) = 0 <=> at = {})
  BY <1>2, FS_CardinalityType, FS_EmptySet
<1>4. Cardinality(at) = 1 => \E x : at = {x}
  BY <1>2, FS_Singleton
<1>5. at = {} <=> b \notin ToSet(ins)
  BY DEF ToSet
<1>6. Count(ins, b) = Cardinality(at)
  BY DEF Count
<1>7. (\E x : at = {x}) => \A i, j \in DOMAIN ins : ins[i] = b /\ ins[j] = b => i = j
  OBVIOUS
<1>. HIDE DEF at
<1>8. QED BY <1>3, <1>4, <1>5, <1>6, <1>7

\* What the device reads is retained by its call or lent by its caller.
LEMMA UsesAccounted ==
    ASSUME ObjectsInv, ~misbehaved, NEW j \in Tasks
    PROVE  Uses(task[j]) \subseteq Retains(task[j]) \cup Lends(task[j])
<1>1. ShapeOf(task[j]) /\ SoundOf(task[j]) /\ task[j] \in TaskType
  BY DEF ObjectsInv, Shapes, Sounds, ShapeOf
<1>2. CASE task[j].phase \in OpenPhases
  <2>1. Uses(task[j]) \subseteq ToSet(task[j].ins)
    BY <1>1, <1>2 DEF SoundOf, Uses
  <2>2. task[j].kind \in {"sync", "upload"} => ToSet(task[j].ins) = {}
    BY <1>1 DEF ShapeOf, ToSet
  <2>3. task[j].kind \in {"exec", "shard", "download", "sync", "upload"}
    BY <1>1, <1>2 DEF SoundOf, TaskType
  <2>4. task[j].kind \in {"shard", "download"} => task[j].phase = "waiting"
    BY <1>1, <1>2 DEF ShapeOf
  <2>5. QED BY <2>1, <2>2, <2>3, <2>4 DEF Retains, Lends
<1>3. CASE task[j].phase = "unused"
  BY <1>1, <1>3 DEF ShapeOf, Uses, ToSet
<1>4. CASE task[j].phase = "over"
  BY <1>1, <1>4 DEF SoundOf, Uses
<1>5. task[j].phase \in {"unused", "pending", "waiting", "over", "forgotten"}
  BY <1>1 DEF TaskType
<1>6. QED BY <1>2, <1>3, <1>4, <1>5 DEF OpenPhases

\* validate_donation: an argument with one Arc, moved into the call, is held by
\* nothing else once the call's own handles are gone.
LEMMA DonationIsSole ==
    ASSUME ObjectsInv, ~misbehaved, NEW ins \in BoundedSeq(Buffers, 2), NEW b \in ToSet(ins),
           MayDonate(b),
           handles[b] >= Count(ins, b) + (IF Borrowed(b) THEN 1 ELSE 0)
    PROVE  SoleArgument(ins, b) /\ Count(ins, b) = handles[b]
<1>1. b \in Buffers /\ handles \in [Buffers -> 0 .. MaxHandles + 1] /\ Shapes
  BY RangeSubset DEF ObjectsInv, Types
<1>2. handles[b] \in Nat
  BY <1>1, HandlesAreNat
<1>3. Count(ins, b) \in Nat /\ Count(ins, b) > 0
  BY CountArguments
<1>4. IsFiniteSet(TaskArcs(b)) /\ (TaskArcs(b) = {} <=> \A k \in Tasks : b \notin Retains(task[k]))
  BY <1>1, ArcsRetained
<1>5. handles[b] > 0
  BY <1>2, <1>3
<1>6. handles[b] + Cardinality(pins \cap {b}) + Cardinality(TaskArcs(b)) = 1
  BY DEF MayDonate, StrongCount
<1>7. handles[b] = 1 /\ b \notin pins /\ TaskArcs(b) = {}
  BY <1>2, <1>4, <1>5, <1>6, CountOfHolders
<1>8. ~Borrowed(b) /\ Count(ins, b) = 1
  BY <1>2, <1>3, <1>7
<1>9. \A j \in Tasks : b \notin Lends(task[j])
  BY <1>8, BorrowedIsLent
<1>10. \A j \in Tasks : b \notin Retains(task[j]) \cup Uses(task[j])
  BY <1>4, <1>7, <1>9, UsesAccounted
<1>11. owner[b] = "none"
  BY DEF MayDonate
<1>12. \A i, j \in DOMAIN ins : ins[i] = b /\ ins[j] = b => i = j
  BY <1>8, CountArguments
<1>13. QED BY <1>7, <1>8, <1>10, <1>11, <1>12 DEF SoleArgument

\* execute_donating, refused or submitted.
LEMMA ExecuteDonatingStep ==
    ASSUME ObjectsInv, NEW t \in Threads, NEW k \in Tasks, FreshTask(t, k),
           NEW ins \in BoundedSeq(Buffers, 2), NEW given,
           NEW out \in Buffers, FreshBuffer(out), ExecuteDonating(t, k, ins, given, out)
    PROVE  ObjectsInv'
<1>1. /\ handles \in [Buffers -> 0 .. MaxHandles + 1] /\ pins \subseteq Buffers
      /\ owner \in [Buffers -> {"none", "held", "dropped"}]
      /\ clientHandles \in 0 .. 1 /\ exeHandles \in 0 .. 1
  BY DEF ObjectsInv, Types
<1>2. /\ exeHandles > 0 /\ given \subseteq DOMAIN ins /\ UNCHANGED <<pins, owner>>
      /\ \A b \in ToSet(ins) : handles[b] >= Count(ins, b) + (IF Borrowed(b) THEN 1 ELSE 0)
      /\ handles' = [b \in Buffers |-> handles[b] - Count(ins, b)]
  BY DEF ExecuteDonating
<1>3. ASSUME NEW b \in Buffers
      PROVE  /\ handles'[b] \in 0 .. MaxHandles + 1
             /\ handles'[b] > 0 => handles[b] > 0
             /\ Borrowed(b) => handles'[b] > 0
  <2>1. handles[b] \in 0 .. MaxHandles + 1 /\ MaxHandles \in Nat
    BY <1>1, Constants
  <2>2. handles'[b] = handles[b] - Count(ins, b)
    BY <1>2
  <2>3. CASE b \in ToSet(ins)
    <3>1. Count(ins, b) \in Nat
      BY CountArguments
    <3>2. handles[b] >= Count(ins, b) + (IF Borrowed(b) THEN 1 ELSE 0)
      BY <1>2, <2>3
    <3>3. CASE Borrowed(b)
      BY <2>1, <2>2, <3>1, <3>2, <3>3
    <3>4. CASE ~Borrowed(b)
      BY <2>1, <2>2, <3>1, <3>2, <3>4
    <3>5. QED BY <3>3, <3>4
  <2>4. CASE b \notin ToSet(ins)
    <3>1. Count(ins, b) = 0
      BY <2>4, CountArguments
    <3>2. Borrowed(b) => handles[b] > 0
      BY LentHandles
    <3>3. QED BY <2>1, <2>2, <3>1, <3>2
  <2>5. QED BY <2>3, <2>4
<1>4. /\ handles' \in [Buffers -> 0 .. MaxHandles + 1]
      /\ \A b \in Buffers : handles'[b] > 0 => handles[b] > 0
      /\ \A b \in Buffers : Borrowed(b) => handles'[b] > 0
  BY <1>2, <1>3
<1>5. CASE \A i \in given : MayDonate(ins[i])
  <2>. DEFINE gifts == {ins[i] : i \in given}
  <2>1. Submitted(t, k, "waiting", ins, gifts, out)
    BY <1>5 DEF ExecuteDonating
  <2>2. gifts \subseteq ToSet(ins) /\ ToSet(ins) \subseteq Buffers
    BY <1>2, RangeSubset DEF ToSet
  <2>3. ASSUME NEW b \in ToSet(ins)
        PROVE  Reachable(b)
    <3>1. Count(ins, b) \in Nat /\ Count(ins, b) > 0 /\ handles[b] \in Nat
      BY <2>2, <1>1, HandlesAreNat, CountArguments
    <3>2. handles[b] >= Count(ins, b) + (IF Borrowed(b) THEN 1 ELSE 0)
      BY <1>2
    <3>3. handles[b] > 0
      BY <3>1, <3>2
    <3>4. QED BY <3>3 DEF Reachable
  <2>4. ASSUME NEW b \in gifts
        PROVE  SoleArgument(ins, b) /\ handles'[b] = 0
    <3>1. b \in ToSet(ins) /\ MayDonate(b) /\ b \in Buffers
      BY <1>5, <2>2
    <3>2. ~misbehaved
      BY FreshTaskUnused
    <3>3. handles[b] >= Count(ins, b) + (IF Borrowed(b) THEN 1 ELSE 0)
      BY <1>2, <3>1
    <3>4. SoleArgument(ins, b) /\ Count(ins, b) = handles[b]
      BY <3>1, <3>2, <3>3, DonationIsSole
    <3>5. handles[b] \in Nat
      BY <1>1, <3>1, HandlesAreNat
    <3>6. QED BY <1>2, <3>1, <3>4, <3>5
  <2>. HIDE DEF gifts
  <2>5. QED BY <1>2, <1>4, <2>1, <2>2, <2>3, <2>4, SubmittedStep
<1>6. CASE ~\A i \in given : MayDonate(ins[i])
  <2>1. UNCHANGED <<task, waitsOn, misbehaved, clientHandles, exeHandles>> /\ Settle({})
    BY <1>6 DEF ExecuteDonating, Keep
  <2>2. QED BY <1>1, <1>2, <1>4, <2>1, HandleStep
<1>7. QED BY <1>5, <1>6

-----------------------------------------------------------------------------
\* Every action that starts a call keeps the invariant.
LEMMA CallStep ==
    ASSUME ObjectsInv, NEW t \in Threads, NEW k \in Tasks, Call(t, k)
    PROVE  ObjectsInv'
<1>1. FreshTask(t, k) /\ Arguments \subseteq BoundedSeq(Buffers, 2)
  BY DEF Call, Arguments
<1>2. CASE \E b \in Buffers : ToHost(t, k, b)
  BY <1>1, <1>2, ToHostStep
<1>3. ASSUME NEW new \in Buffers, FreshBuffer(new),
             \/ BufferOnDevice(t, k, new)
             \/ \E dma \in BOOLEAN : UploadPinned(t, k, new, dma)
             \/ \E ins \in Arguments :
                  \/ Submit(t, k, ins, new) \/ ExecuteSharded(t, k, ins, new)
                  \/ \E given \in SUBSET (1 .. 2) : ExecuteDonating(t, k, ins, given, new)
      PROVE  ObjectsInv'
  <2>1. CASE BufferOnDevice(t, k, new)
    BY <1>1, <1>3, <2>1, BufferOnDeviceStep
  <2>2. CASE \E dma \in BOOLEAN : UploadPinned(t, k, new, dma)
    BY <1>1, <1>3, <2>2, UploadPinnedStep
  <2>3. ASSUME NEW ins \in Arguments, Submit(t, k, ins, new)
        PROVE  ObjectsInv'
    BY <1>1, <1>3, <2>3, SubmitStep
  <2>4. ASSUME NEW ins \in Arguments, ExecuteSharded(t, k, ins, new)
        PROVE  ObjectsInv'
    BY <1>1, <1>3, <2>4, ExecuteShardedStep
  <2>5. ASSUME NEW ins \in Arguments, NEW given \in SUBSET (1 .. 2),
               ExecuteDonating(t, k, ins, given, new)
        PROVE  ObjectsInv'
    BY <1>1, <1>3, <2>5, ExecuteDonatingStep
  <2>6. QED BY <1>3, <2>1, <2>2, <2>3, <2>4, <2>5
<1>4. QED BY <1>2, <1>3 DEF Call

-----------------------------------------------------------------------------
\* A fresh client and its executable, nothing else.
LEMMA ObjectsStart == ObjectsInit => ObjectsInv
<1>. SUFFICES ASSUME ObjectsInit PROVE ObjectsInv
  OBVIOUS
<1>1. \A k \in Tasks : task[k] = Unused
  BY DEF ObjectsInit
<1>2. ShapeOf(Unused) /\ SoundOf(Unused) /\ Unused \in TaskType
  BY UnusedShape DEF ShapeOf
<1>3. /\ Unused.outs = {} /\ Unused.given = {} /\ Retains(Unused) = {}
      /\ Lends(Unused) = {} /\ ~NeedsExecutable(Unused)
  BY DEF Unused, Retains, Lends, NeedsExecutable
<1>4. Types
  <2>1. /\ handles \in [Buffers -> 0 .. MaxHandles + 1] /\ pins \subseteq Buffers
        /\ native \in [Buffers -> {"unused", "live", "destroyed", "leaked"}]
        /\ owner \in [Buffers -> {"none", "held", "dropped"}]
        /\ waitsOn \in [Threads -> Tasks \cup {Nobody}]
    BY Constants DEF ObjectsInit
  <2>2. task \in [Tasks -> TaskType]
    BY <1>2 DEF ObjectsInit
  <2>3. /\ clientHandles \in 0 .. 1 /\ exeHandles \in 0 .. 1
        /\ clientState \in {"live", "destroyed"} /\ exeState \in {"live", "destroyed"}
    BY DEF ObjectsInit
  <2>4. misbehaved \in BOOLEAN
    BY DEF ObjectsInit
  <2>5. QED BY <2>1, <2>2, <2>3, <2>4 DEF Types
<1>5. Shapes /\ Sounds /\ OutputsApart /\ LentKept /\ Givens
  BY <1>1, <1>2, <1>3 DEF Shapes, Sounds, OutputsApart, LentKept, Givens
<1>6. Lives
  <2>1. \A b \in Buffers : ~HeldArcs(b) /\ native[b] = "unused"
    BY <1>1, <1>3 DEF HeldArcs, ObjectsInit
  <2>2. QED BY <2>1 DEF Lives, ObjectsInit
<1>7. QED BY <1>4, <1>5, <1>6 DEF ObjectsInv

\* The invariant is inductive: one lemma for every action of the program, its
\* threads and the plugin.
LEMMA ObjectsStep == ObjectsInv /\ [ObjectsNext]_objectVars => ObjectsInv'
<1>. SUFFICES ASSUME ObjectsInv, [ObjectsNext]_objectVars PROVE ObjectsInv'
  OBVIOUS
<1>1. ASSUME NEW b \in Buffers,
             \/ CloneHandle(b) \/ DropHandle(b) \/ ViewOfDeviceBuffer(b)
             \/ ExternalReference(b) \/ DropReference(b) \/ OwnerCallback(b)
             \/ \E new \in Buffers : CopyTo(b, new)
      PROVE  ObjectsInv'
  BY <1>1, CloneHandleStep, DropHandleStep, ViewStep, ReferenceStep, OwnerCallbackStep,
     CopyToStep
<1>2. ASSUME NEW t \in Threads, NEW k \in Tasks,
             Call(t, k) \/ (\E discard \in BOOLEAN : WaitFor(t, k, discard)) \/ Forget(t, k)
      PROVE  ObjectsInv'
  BY <1>2, CallStep, WaitForStep, ForgetStep
<1>3. CASE DropClient \/ DropExecutable
  BY <1>3, DropOwnersStep
<1>4. CASE Progress
  <2>1. ASSUME NEW t \in Threads, AwaitEvent(t) \/ Return(t)
        PROVE  ObjectsInv'
    BY <2>1, AwaitEventStep, ReturnStep
  <2>2. ASSUME NEW k \in Tasks, NEW i \in 1 .. Devices, DeviceStep(k, i)
        PROVE  ObjectsInv'
    BY <2>2, DeviceStepStep
  <2>3. QED BY <1>4, <2>1, <2>2 DEF Progress
<1>5. CASE UNCHANGED objectVars
  <2>1. \A b : HeldArcs(b)' <=> HeldArcs(b)
    BY <1>5 DEF objectVars, HeldArcs
  <2>2. Types' /\ Shapes' /\ Sounds' /\ OutputsApart' /\ LentKept'
    BY <1>5 DEF objectVars, ObjectsInv, Types, Shapes, Sounds, OutputsApart, LentKept
  <2>3. Givens'
    BY <1>5 DEF objectVars, ObjectsInv, Givens, GivenAlone
  <2>4. Lives'
    BY <1>5, <2>1 DEF objectVars, ObjectsInv, Lives
  <2>5. QED BY <2>2, <2>3, <2>4 DEF ObjectsInv
<1>6. QED BY <1>1, <1>2, <1>3, <1>4, <1>5 DEF ObjectsNext

\* Work that runs belongs to a call that has not returned, and that call keeps
\* what the work uses.
LEMMA RunningIsKept ==
    ASSUME ObjectsInv, ~misbehaved, NEW k \in Tasks, Running(k)
    PROVE  /\ task[k].phase \in OpenPhases
           /\ \A b \in task[k].reads : native[b] = "live"
           /\ task[k].kind \in {"exec", "shard"} => exeState = "live"
           /\ clientState = "live"
<1>1. ShapeOf(task[k]) /\ SoundOf(task[k]) /\ task[k] \in TaskType
  BY DEF ObjectsInv, Shapes, Sounds, ShapeOf
<1>2. task[k].phase \in OpenPhases
  <2>1. task[k].phase # "unused"
    BY <1>1 DEF ShapeOf, Running, ToSet
  <2>2. task[k].phase # "over"
    BY <1>1 DEF SoundOf, Running
  <2>3. QED BY <1>1, <2>1, <2>2 DEF TaskType, OpenPhases
<1>3. \A b \in Buffers : HeldArcs(b) => native[b] = "live"
  BY DEF ObjectsInv, Lives
<1>4. ASSUME NEW b \in Retains(task[k]) \cup Lends(task[k])
      PROVE  b \in Buffers /\ native[b] = "live"
  <2>1. b \in Buffers
    <3>1. task[k].outs \subseteq Buffers /\ ToSet(task[k].ins) \subseteq Buffers
      BY <1>1, RangeSubset DEF TaskType
    <3>2. QED BY <3>1 DEF Retains, Lends
  <2>2. HeldArcs(b)
    BY DEF HeldArcs, ObjectsInv, LentKept
  <2>3. QED BY <1>3, <2>1, <2>2
<1>5. \A b \in task[k].reads : native[b] = "live"
  <2>1. task[k].reads \subseteq Retains(task[k]) \cup Lends(task[k])
    BY UsesAccounted DEF Uses, Running
  <2>2. QED BY <1>4, <2>1
<1>6. task[k].kind \in {"exec", "shard"} => exeState = "live"
  BY <1>2 DEF NeedsExecutable, ObjectsInv, Lives
<1>7. clientState = "live"
  <2>1. CASE task[k].kind \in {"exec", "shard"}
    BY <1>6, <2>1 DEF ObjectsInv, Lives
  <2>2. CASE task[k].kind = "download"
    <3>1. task[k].ins # << >> /\ task[k].phase = "waiting" /\ task[k].ins \in BoundedSeq(Buffers, 2)
      BY <1>1, <1>2, <2>2 DEF SoundOf, ShapeOf, TaskType
    <3>2. PICK m \in 0 .. 2 : task[k].ins \in [1 .. m -> Buffers]
      BY <3>1, Bounded
    <3>3. m # 0
      BY <3>1, <3>2
    <3>4. task[k].ins[1] \in ToSet(task[k].ins)
      BY <3>2, <3>3 DEF ToSet
    <3>5. task[k].ins[1] \in Lends(task[k])
      BY <2>2, <3>1, <3>4 DEF Lends
    <3>6. QED BY <1>4, <3>5 DEF ObjectsInv, Lives
  <2>3. CASE task[k].kind \in {"sync", "upload"}
    <3>1. PICK b : b \in task[k].outs
      BY <1>1, <1>2, <2>3 DEF SoundOf
    <3>2. b \in Retains(task[k])
      BY <3>1 DEF Retains
    <3>3. QED BY <1>4, <3>2 DEF ObjectsInv, Lives
  <2>4. QED BY <1>1, <1>2, <2>1, <2>2, <2>3 DEF SoundOf, TaskType
<1>8. QED BY <1>2, <1>5, <1>6, <1>7

-----------------------------------------------------------------------------
\* In every run of the program, its threads and the plugin: native objects live
\* exactly as long as something holds them, outputs belong to one call, lent
\* buffers keep a handle, and donated buffers are held by their call alone.
THEOREM ObjectsInvariant == ObjectsSpec => []ObjectsInv
<1>1. ObjectsInit => ObjectsInv
  BY ObjectsStart
<1>2. ObjectsInv /\ [ObjectsNext]_objectVars => ObjectsInv'
  BY ObjectsStep
<1>3. QED BY <1>1, <1>2, PTL DEF ObjectsSpec

\* Everything a piece of device work uses outlives it: buffers, executable,
\* client, and the host memory of a pinned upload (Drop of PendingExecution,
\* PendingUpload and the native objects, runtime.rs).
THEOREM NativeObjectsOutliveWork == ObjectsSpec => []NativeOutlivesWork
<1>1. ObjectsInv => NativeOutlivesWork
  <2>. SUFFICES ASSUME ObjectsInv PROVE NativeOutlivesWork
    OBVIOUS
  <2>1. ObjectsTypeOK
    BY DEF ObjectsInv, Types, ObjectsTypeOK
  <2>2. BuffersOutliveWork
    BY RunningIsKept DEF BuffersOutliveWork
  <2>3. HostMemoryStays
    <3>1. ASSUME ~misbehaved, NEW k \in Tasks, task[k].kind = "upload", Running(k)
          PROVE  task[k].host /\ (task[k].dma => task[k].mapped)
      BY <3>1, RunningIsKept DEF ObjectsInv, Sounds, SoundOf
    <3>2. QED BY <3>1 DEF HostMemoryStays
  <2>4. QED BY <2>1, <2>2, <2>3 DEF NativeOutlivesWork
<1>2. QED BY <1>1, ObjectsInvariant, PTL

\* A donated buffer is out of the program's reach: no handle, exported pointer or
\* external owner, no other running reader, and the call holds its last Arc
\* (validate_donation and execute_donating, runtime.rs).
THEOREM DonatedBuffersUnreachable == ObjectsSpec => []DonatedUnreachable
<1>1. ObjectsInv => DonatedUnreachable
  <2>. SUFFICES ASSUME ObjectsInv, NEW k \in Tasks, NEW b \in task[k].given
                PROVE  /\ handles[b] = 0 /\ b \notin pins /\ owner[b] = "none"
                       /\ StrongCount(b) = 1
                       /\ \A j \in Tasks \ {k} : ~(Running(j) /\ b \in task[j].reads)
    BY DEF DonatedUnreachable
  <2>1. GivenAlone(k, b)
    BY DEF ObjectsInv, Givens
  <2>2. StrongCount(b) = 1
    BY GivenCount DEF ObjectsInv
  <2>3. \A j \in Tasks \ {k} : ~(Running(j) /\ b \in task[j].reads)
    BY <2>1 DEF GivenAlone, Uses, Running
  <2>4. QED BY <2>1, <2>2, <2>3 DEF GivenAlone
<1>2. QED BY <1>1, ObjectsInvariant, PTL

\* When a call is over its device work is done on every device, also after an
\* error, its events are destroyed and its host memory is unmapped.
THEOREM ReturnedWorkDone == ObjectsSpec => []ReturnedMeansDone
<1>1. ObjectsInv => ReturnedMeansDone
  <2>. SUFFICES ASSUME ObjectsInv, ~misbehaved, NEW k \in Tasks, task[k].phase = "over"
                PROVE  ~Running(k) /\ LiveEvents(k) = {} /\ ~task[k].mapped
    BY DEF ReturnedMeansDone
  <2>1. SoundOf(task[k])
    BY DEF ObjectsInv, Sounds
  <2>2. QED BY <2>1 DEF SoundOf, Running, LiveEvents
<1>2. QED BY <1>1, ObjectsInvariant, PTL

-----------------------------------------------------------------------------
\* The key-value store.

\* The callback state exists from before the native creation call until after
\* the native destruction call, and the plugin calls back in between only.
Lifecycle ==
    \A n \in Nodes :
        /\ callbacks[n] = "installed" <=> client[n] \in {"creating", "live", "destroying"}
        /\ client[n] \in {"none", "refused", "destroyed"} => call[n] = "none"

StoreInv == StoreTypeOK /\ Lifecycle

\* Every step keeps the types of the store.
LEMMA StoreTypeStep ==
    ASSUME StoreTypeOK, [StoreNext]_storeVars
    PROVE  StoreTypeOK'
<1>1. CASE UNCHANGED storeVars
  BY <1>1 DEF storeVars, StoreTypeOK
<1>2. ASSUME NEW n \in Nodes, CreateClient(n)
      PROVE  StoreTypeOK'
  BY <1>2 DEF CreateClient, To, StoreTypeOK
<1>3. ASSUME NEW n \in Nodes, PutInsert(n)
      PROVE  StoreTypeOK'
  BY <1>3 DEF PutInsert, To, StoreTypeOK
<1>4. ASSUME NEW n \in Nodes, NotifyAll(n)
      PROVE  StoreTypeOK'
  BY <1>4 DEF NotifyAll, StoreTypeOK
<1>5. ASSUME NEW n \in Nodes, GetTurn(n)
      PROVE  StoreTypeOK'
  <2>1. UNCHANGED <<values, client, callbacks>>
    BY <1>5 DEF GetTurn
  <2>2. CASE Found(n)
    <3>1. PICK c \in {"done", "get"} : call' = [call EXCEPT ![n] = c]
      BY <2>2 DEF Found, To
    <3>2. QED BY <2>1, <2>2, <3>1 DEF Found, StoreTypeOK
  <2>3. CASE TimedOut(n)
    BY <2>1, <2>3 DEF TimedOut, To, StoreTypeOK
  <2>4. CASE To(n, "wait") /\ UNCHANGED <<want, overdue>>
    BY <2>1, <2>4 DEF To, StoreTypeOK
  <2>5. QED BY <1>5, <2>2, <2>3, <2>4 DEF GetTurn
<1>6. ASSUME NEW n \in Nodes, WaitTimedOut(n)
      PROVE  StoreTypeOK'
  BY <1>6 DEF WaitTimedOut, TimedOut, To, StoreTypeOK
<1>7. ASSUME NEW n \in Nodes, Created(n) \/ CallBackEnds(n)
      PROVE  StoreTypeOK'
  BY <1>7 DEF Created, CallBackEnds, To, StoreTypeOK
<1>8. ASSUME NEW n \in Nodes, DeadlinePasses(n) \/ SpuriousWake(n)
      PROVE  StoreTypeOK'
  BY <1>8 DEF DeadlinePasses, SpuriousWake, To, StoreTypeOK
<1>9. ASSUME NEW n \in Nodes, CallBack(n)
      PROVE  StoreTypeOK'
  BY <1>9 DEF CallBack, To, StoreTypeOK
<1>10. ASSUME NEW n \in Nodes, BeginDestroy(n) \/ DropFields(n)
       PROVE  StoreTypeOK'
  BY <1>10 DEF BeginDestroy, DropFields, StoreTypeOK
<1>11. QED
  BY <1>1, <1>2, <1>3, <1>4, <1>5, <1>6, <1>7, <1>8, <1>9, <1>10
     DEF StoreNext, PluginThread

\* Neither the plugin's thread nor the drop of the client breaks the order in
\* which the callback state is made, used and freed.
LEMMA LifecycleStep ==
    ASSUME StoreInv, [StoreNext]_storeVars
    PROVE  Lifecycle'
<1> USE DEF StoreInv, StoreTypeOK, Lifecycle
<1>1. CASE UNCHANGED storeVars
  BY <1>1 DEF storeVars
<1>2. ASSUME NEW n \in Nodes, CreateClient(n)
      PROVE  Lifecycle'
  BY <1>2 DEF CreateClient, To
<1>3. ASSUME NEW n \in Nodes, PutInsert(n) \/ DeadlinePasses(n) \/ SpuriousWake(n)
      PROVE  Lifecycle'
  BY <1>3 DEF PutInsert, DeadlinePasses, SpuriousWake, To
<1>4. ASSUME NEW n \in Nodes, NotifyAll(n)
      PROVE  Lifecycle'
  BY <1>4 DEF NotifyAll
<1>5. ASSUME NEW n \in Nodes, GetTurn(n) \/ WaitTimedOut(n)
      PROVE  Lifecycle'
  <2>1. call[n] \in {"get", "wait"} /\ UNCHANGED <<client, callbacks>>
    BY <1>5 DEF GetTurn, WaitTimedOut
  <2>2. \E c : call' = [call EXCEPT ![n] = c] \/ call' = call
    BY <1>5 DEF GetTurn, WaitTimedOut, Found, TimedOut, To
  <2>3. QED BY <2>1, <2>2
<1>6. ASSUME NEW n \in Nodes, Created(n) \/ CallBackEnds(n)
      PROVE  Lifecycle'
  BY <1>6 DEF Created, CallBackEnds, To
<1>7. ASSUME NEW n \in Nodes, CallBack(n)
      PROVE  Lifecycle'
  BY <1>7 DEF CallBack, To
<1>8. ASSUME NEW n \in Nodes, BeginDestroy(n) \/ DropFields(n)
      PROVE  Lifecycle'
  BY <1>8 DEF BeginDestroy, DropFields
<1>9. QED
  BY <1>1, <1>2, <1>3, <1>4, <1>5, <1>6, <1>7, <1>8 DEF StoreNext, PluginThread

\* The store, the plugin's threads and the clients keep their types and their
\* lifecycle (distributed.rs, and ClientInner of runtime.rs).
THEOREM StoreInvariant == StoreSpec => []StoreInv
<1>1. StoreInit => StoreInv
  BY DEF StoreInit, StoreInv, StoreTypeOK, Lifecycle
<1>2. StoreInv /\ [StoreNext]_storeVars => StoreInv'
  BY StoreTypeStep, LifecycleStep DEF StoreInv
<1>3. QED BY <1>1, <1>2, PTL DEF StoreSpec

\* No callback of the plugin, of any client of any number, reads callback state
\* that was freed (from_plugin_with_callbacks, the drop of ClientInner).
THEOREM CallbacksSafe == StoreSpec => []CallbackStateAlive
<1>1. StoreInv => CallbackStateAlive
  BY DEF StoreInv, StoreTypeOK, Lifecycle, CallbackStateAlive
<1>2. QED BY <1>1, StoreInvariant, PTL

\* The only way a callback reports a timeout is a passed deadline with the key
\* still missing under the lock (get's two exits).
LEMMA FailureStep ==
    ASSUME StoreTypeOK, [StoreNext]_storeVars, NEW n \in Nodes,
           call[n] # "failed", call'[n] = "failed"
    PROVE  overdue[n] /\ Key(n) \notin values
<1> USE DEF StoreTypeOK
<1>1. ~UNCHANGED storeVars
  BY DEF storeVars
<1>2. PICK m \in Nodes :
          \/ CreateClient(m) \/ PluginThread(m) \/ DeadlinePasses(m) \/ SpuriousWake(m)
          \/ CallBack(m) \/ BeginDestroy(m) \/ DropFields(m)
  BY <1>1 DEF StoreNext
<1>3. GetTurn(m) \/ WaitTimedOut(m)
  BY <1>2 DEF PluginThread, CreateClient, PutInsert, NotifyAll, Created, CallBackEnds,
         DeadlinePasses, SpuriousWake, CallBack, BeginDestroy, DropFields, To
<1>4. CASE GetTurn(m)
  BY <1>4 DEF GetTurn, Found, TimedOut, To
<1>5. CASE WaitTimedOut(m)
  BY <1>5 DEF WaitTimedOut, TimedOut, To
<1>6. QED BY <1>3, <1>4, <1>5

\* A get never answers that it timed out while its key is there, also when the
\* answer races the deadline (distributed.rs, InMemoryKeyValueStore::get).
THEOREM TimeoutsTrue == StoreSpec => TimeoutIsTrue
<1>1. StoreInv /\ [StoreNext]_storeVars =>
          [\A n \in Nodes : call[n] # "failed" /\ call'[n] = "failed" =>
               overdue[n] /\ Key(n) \notin values]_storeVars
  BY FailureStep DEF StoreInv
<1>2. QED BY <1>1, StoreInvariant, PTL DEF StoreSpec, TimeoutIsTrue

-----------------------------------------------------------------------------
\* The residency pool.

Phases == {"idle", "checked", "copying", "resident", "bound", "unbinding", "releasing"}

\* A component is charged from its reservation until that is dropped.
Held == Phases \ {"idle", "checked"}
Charges == [c \in Components |-> IF phase[c] \in Held THEN Payload(c) ELSE 0]

\* Who holds the buffers of a component.
HoldersOf(p) ==
    IF p = "bound" THEN {"bundle", "model"}
    ELSE IF p \in {"resident", "unbinding"} THEN {"bundle"} ELSE {}

PoolInv ==
    /\ PoolTypeOK
    /\ copies = [c \in Components |-> copies[c]] /\ holders = [c \in Components |-> holders[c]]
    /\ reserved = Sum(Charges, Components) /\ reserved <= Limit
    /\ \A c \in Components : /\ holders[c] = HoldersOf(phase[c])
                             /\ phase[c] \in {"idle", "checked", "releasing"} => copies[c] = 0

\* The bytes of a component's buffers, and of the first of them.
LEMMA Bytes ==
    ASSUME NEW c \in Components, NEW n \in 0 .. Len(Sizes[c])
    PROVE  /\ Payload(c) \in Nat
           /\ SumFunctionOnSet(Sizes[c], 1 .. n) \in Nat
           /\ SumFunctionOnSet(Sizes[c], 1 .. n) <= Payload(c)
           /\ n = 0 => SumFunctionOnSet(Sizes[c], 1 .. n) = 0
<1> DEFINE f == Sizes[c]
           S == 1 .. Len(f)
<1>1. Len(f) \in Nat /\ DOMAIN f = S /\ \A x \in S : f[x] \in Nat
  BY PoolAssumption
<1>2. IsFiniteSet(S)
  BY <1>1, FS_Interval
<1>3. 1 .. n \in SUBSET S /\ n \in Nat
  BY <1>1
<1>4. Payload(c) = Sum(f, S)
  BY <1>1 DEF Payload, SumFunction, Sum
<1>5. SumFunctionOnSet(f, 1 .. n) = Sum(f, 1 .. n)
  BY DEF Sum
<1>6. n = 0 => 1 .. n = {}
  BY <1>3
<1> HIDE DEF f, S
<1>7. Sum(f, S) \in Nat /\ Sum(f, 1 .. n) \in Nat
  <2>1. IsFiniteSet(1 .. n) /\ \A x \in 1 .. n : f[x] \in Nat
    BY <1>1, <1>2, <1>3, FS_Subset
  <2>2. QED BY <1>1, <1>2, <2>1, SumNat
<1>8. Sum(f, 1 .. n) <= Sum(f, S)
  BY <1>1, <1>2, <1>3, SumPart
<1>9. n = 0 => Sum(f, 1 .. n) = 0
  BY <1>6, SumNone
<1>10. QED BY <1>4, <1>5, <1>7, <1>8, <1>9 DEF f

\* A step that charges one component more, or less, changes the sum by its
\* payload; a step that charges the same components leaves it alone.
LEMMA ChargesMove ==
    ASSUME NEW c \in Components,
           \A d \in Components \ {c} : phase'[d] = phase[d]
    PROVE  /\ Sum(Charges, Components) \in Nat /\ Sum(Charges, Components)' \in Nat
           /\ Payload(c) \in Nat
           /\ (phase[c] \in Held) = (phase'[c] \in Held) =>
                 Sum(Charges, Components)' = Sum(Charges, Components)
           /\ phase[c] \notin Held /\ phase'[c] \in Held =>
                 Sum(Charges, Components)' = Sum(Charges, Components) + Payload(c)
           /\ phase[c] \in Held /\ phase'[c] \notin Held =>
                 Sum(Charges, Components)' = Sum(Charges, Components) - Payload(c)
<1> DEFINE f == Charges
           h == Charges'
<1>1. IsFiniteSet(Components)
  BY PoolAssumption
<1>2. \A d \in Components : Payload(d) \in Nat
  <2>1. \A d \in Components : 0 \in 0 .. Len(Sizes[d])
    BY PoolAssumption
  <2>2. QED BY <2>1, Bytes
<1>3. \A d \in Components : /\ f[d] = IF phase[d] \in Held THEN Payload(d) ELSE 0
                            /\ h[d] = IF phase'[d] \in Held THEN Payload(d) ELSE 0
  BY DEF Charges, Payload, Held, Phases
<1>4. \A d \in Components \ {c} : h[d] = f[d]
  BY <1>3
<1>5. \A d \in Components : f[d] \in Nat /\ h[d] \in Nat
  BY <1>2, <1>3
<1>6. Sum(Charges, Components) = Sum(f, Components) /\ Sum(Charges, Components)' = Sum(h, Components)
  BY DEF Sum
<1> HIDE DEF f, h
<1>7. Sum(h, Components) - h[c] = Sum(f, Components) - f[c]
  BY <1>1, <1>4, <1>5, SumChange
<1>8. Sum(f, Components) \in Nat /\ Sum(h, Components) \in Nat
  BY <1>1, <1>5, SumNat
<1> DEFINE a == Sum(f, Components)
           b == Sum(h, Components)
           x == f[c]
           y == h[c]
<1>9. a \in Nat /\ b \in Nat /\ x \in Nat /\ y \in Nat /\ b - y = a - x
  BY <1>5, <1>7, <1>8
<1>10. /\ x = IF phase[c] \in Held THEN Payload(c) ELSE 0
       /\ y = IF phase'[c] \in Held THEN Payload(c) ELSE 0
       /\ Payload(c) \in Nat
  BY <1>2, <1>3
<1>11. Sum(Charges, Components) = a /\ Sum(Charges, Components)' = b
  BY <1>6
<1> HIDE DEF a, b, x, y
<1>12. b = a + y - x
  BY <1>9
<1>13. QED BY <1>9, <1>10, <1>11, <1>12

\* A move of one component that leaves it k copies and the holders its new phase
\* has, and changes the counter as it starts or ceases to be charged.
OneMove(c, from, to, k) ==
    /\ phase[c] = from /\ phase' = [phase EXCEPT ![c] = to] /\ to \in Phases
    /\ copies' = [copies EXCEPT ![c] = k] /\ k \in 0 .. Len(Sizes[c])
    /\ to \in {"idle", "checked", "releasing"} => k = 0
    /\ holders' = [holders EXCEPT ![c] = HoldersOf(to)]
    /\ other' = other
    /\ from \in Held /\ to \notin Held => reserved' = reserved - Payload(c)
    /\ from \notin Held /\ to \in Held => /\ reserved' = reserved + Payload(c)
                                          /\ reserved + Payload(c) <= Limit
    /\ (from \in Held) = (to \in Held) => reserved' = reserved

\* Such a move keeps the pool right.
LEMMA OneComponent ==
    ASSUME PoolInv, NEW c \in Components, NEW from, NEW to, NEW k, OneMove(c, from, to, k)
    PROVE  PoolInv'
<1> DEFINE s == Sum(Charges, Components)
<1>1. /\ phase \in [Components -> Phases]
      /\ reserved = s /\ reserved \in Nat /\ reserved <= Limit
  BY DEF PoolInv, PoolTypeOK, Phases
<1>2. \A d \in Components \ {c} : phase'[d] = phase[d]
  BY <1>1 DEF OneMove
<1>3. phase[c] = from /\ phase'[c] = to
  BY <1>1 DEF OneMove
<1>4. s \in Nat /\ s' \in Nat /\ Payload(c) \in Nat
  BY <1>2, ChargesMove
<1>5. /\ (from \in Held) = (to \in Held) => s' = s
      /\ from \notin Held /\ to \in Held => s' = s + Payload(c)
      /\ from \in Held /\ to \notin Held => s' = s - Payload(c)
  BY <1>2, <1>3, ChargesMove
<1> HIDE DEF s
<1>6. Limit \in Nat
  BY PoolAssumption
<1>7. reserved' = s' /\ reserved' \in Nat /\ reserved' <= Limit
  <2>1. CASE from \in Held /\ to \notin Held
    BY <1>1, <1>4, <1>5, <1>6, <2>1 DEF OneMove
  <2>2. CASE from \notin Held /\ to \in Held
    BY <1>1, <1>4, <1>5, <1>6, <2>2 DEF OneMove
  <2>3. CASE (from \in Held) = (to \in Held)
    BY <1>1, <1>4, <1>5, <1>6, <2>3 DEF OneMove
  <2>4. QED BY <2>1, <2>2, <2>3
<1>8. PoolTypeOK'
  <2>1. phase' \in [Components -> Phases]
    BY <1>1 DEF OneMove
  <2>2. HoldersOf(to) \subseteq {"bundle", "model"}
    BY DEF HoldersOf
  <2>3. \A d \in Components : copies'[d] \in 0 .. Len(Sizes[d]) /\ holders'[d] \subseteq {"bundle", "model"}
    BY <2>2 DEF PoolInv, PoolTypeOK, OneMove
  <2>4. other' \in OtherBytes
    BY DEF PoolInv, PoolTypeOK, OneMove
  <2>5. QED BY <1>7, <2>1, <2>3, <2>4 DEF PoolTypeOK, Phases
<1>9. ASSUME NEW d \in Components
      PROVE  /\ holders'[d] = HoldersOf(phase'[d])
             /\ phase'[d] \in {"idle", "checked", "releasing"} => copies'[d] = 0
  <2>1. CASE d = c
    BY <1>3, <2>1 DEF PoolInv, OneMove
  <2>2. CASE d # c
    <3>1. phase'[d] = phase[d] /\ copies'[d] = copies[d] /\ holders'[d] = holders[d]
      BY <1>2, <2>2 DEF PoolInv, OneMove
    <3>2. QED BY <3>1 DEF PoolInv
  <2>3. QED BY <2>1, <2>2
<1>10. copies' = [d \in Components |-> copies'[d]] /\ holders' = [d \in Components |-> holders'[d]]
  BY DEF PoolInv, OneMove
<1>11. QED BY <1>7, <1>8, <1>9, <1>10 DEF PoolInv, s

\* A step that leaves the copies, or the holders, of a component as they are.
LEMMA SameAt ==
    ASSUME PoolInv, NEW c \in Components
    PROVE  /\ copies' = copies => copies' = [copies EXCEPT ![c] = copies[c]]
           /\ holders' = holders => holders' = [holders EXCEPT ![c] = HoldersOf(phase[c])]
           /\ copies[c] \in 0 .. Len(Sizes[c]) /\ holders[c] = HoldersOf(phase[c])
           /\ 0 \in 0 .. Len(Sizes[c]) /\ Len(Sizes[c]) \in Nat
           /\ phase[c] \in {"idle", "checked", "releasing"} => copies[c] = 0
<1>1. /\ copies = [d \in Components |-> copies[d]] /\ holders = [d \in Components |-> holders[d]]
      /\ copies[c] \in 0 .. Len(Sizes[c]) /\ holders[c] = HoldersOf(phase[c])
      /\ phase[c] \in {"idle", "checked", "releasing"} => copies[c] = 0
  BY DEF PoolInv, PoolTypeOK
<1>2. copies = [copies EXCEPT ![c] = copies[c]] /\ holders = [holders EXCEPT ![c] = holders[c]]
  BY <1>1
<1>3. 0 \in 0 .. Len(Sizes[c]) /\ Len(Sizes[c]) \in Nat
  BY PoolAssumption
<1>4. QED BY <1>1, <1>2, <1>3

\* Every step keeps the pool right.
LEMMA PoolStep ==
    ASSUME PoolInv, [PoolNext]_poolVars
    PROVE  PoolInv'
<1>1. ASSUME NEW c \in Components, CheckHeadroom(c) PROVE PoolInv'
  <2>1. Move(c, "idle", "checked") /\ UNCHANGED <<reserved, copies, holders, other>>
    BY <1>1 DEF CheckHeadroom
  <2>2. copies' = [copies EXCEPT ![c] = 0] /\ holders' = [holders EXCEPT ![c] = HoldersOf("checked")]
    BY <2>1, SameAt DEF HoldersOf, Move
  <2>3. OneMove(c, "idle", "checked", 0)
    BY <2>1, <2>2, SameAt DEF OneMove, Move, Held, Phases
  <2>4. QED BY <2>3, OneComponent
<1>2. ASSUME NEW c \in Components, Reserve(c) PROVE PoolInv'
  <2>1. UNCHANGED <<copies, holders, other>>
    BY <1>2 DEF Reserve
  <2>2. CASE /\ reserved + Payload(c) <= Limit
             /\ Move(c, "checked", "copying") /\ reserved' = reserved + Payload(c)
    <3>1. copies' = [copies EXCEPT ![c] = 0] /\ holders' = [holders EXCEPT ![c] = HoldersOf("copying")]
      BY <2>1, <2>2, SameAt DEF HoldersOf, Move
    <3>2. OneMove(c, "checked", "copying", 0)
      BY <2>1, <2>2, <3>1, SameAt DEF OneMove, Move, Held, Phases
    <3>3. QED BY <3>2, OneComponent
  <2>3. CASE Move(c, "checked", "idle") /\ UNCHANGED reserved
    <3>1. copies' = [copies EXCEPT ![c] = 0] /\ holders' = [holders EXCEPT ![c] = HoldersOf("idle")]
      BY <2>1, <2>3, SameAt DEF HoldersOf, Move
    <3>2. OneMove(c, "checked", "idle", 0)
      BY <2>1, <2>3, <3>1, SameAt DEF OneMove, Move, Held, Phases
    <3>3. QED BY <3>2, OneComponent
  <2>4. QED BY <1>2, <2>2, <2>3 DEF Reserve
<1>3. ASSUME NEW c \in Components, CopyBuffer(c) PROVE PoolInv'
  <2>1. phase[c] = "copying" /\ copies[c] < Len(Sizes[c]) /\ UNCHANGED <<reserved, other>>
    BY <1>3 DEF CopyBuffer
  <2>2. copies[c] + 1 \in 0 .. Len(Sizes[c])
    BY <2>1, SameAt
  <2>3. CASE /\ copies' = [copies EXCEPT ![c] = copies[c] + 1]
             /\ Move(c, "copying", "resident") /\ holders' = [holders EXCEPT ![c] = {"bundle"}]
    <3>1. OneMove(c, "copying", "resident", copies[c] + 1)
      BY <2>1, <2>2, <2>3 DEF OneMove, Move, Held, Phases, HoldersOf
    <3>2. QED BY <3>1, OneComponent
  <2>4. CASE copies' = [copies EXCEPT ![c] = copies[c] + 1] /\ UNCHANGED <<phase, holders>>
    <3>1. phase' = [phase EXCEPT ![c] = "copying"]
      BY <2>1, <2>4 DEF PoolInv, PoolTypeOK
    <3>2. holders' = [holders EXCEPT ![c] = HoldersOf("copying")]
      BY <2>1, <2>4, SameAt
    <3>3. OneMove(c, "copying", "copying", copies[c] + 1)
      BY <2>1, <2>2, <2>4, <3>1, <3>2 DEF OneMove, Held, Phases
    <3>4. QED BY <3>3, OneComponent
  <2>5. CASE /\ Move(c, "copying", "releasing") /\ copies' = [copies EXCEPT ![c] = 0]
             /\ UNCHANGED holders
    <3>1. holders' = [holders EXCEPT ![c] = HoldersOf("releasing")]
      BY <2>1, <2>5, SameAt DEF HoldersOf
    <3>2. OneMove(c, "copying", "releasing", 0)
      BY <2>1, <2>5, <3>1, SameAt DEF OneMove, Move, Held, Phases
    <3>3. QED BY <3>2, OneComponent
  <2>6. QED BY <1>3, <2>3, <2>4, <2>5 DEF CopyBuffer
<1>4. ASSUME NEW c \in Components, Bind(c) PROVE PoolInv'
  <2>1. Move(c, "resident", "bound") /\ UNCHANGED <<reserved, copies, other>>
    BY <1>4 DEF Bind
  <2>2. holders' = [holders EXCEPT ![c] = HoldersOf("bound")]
    <3>1. holders' = [holders EXCEPT ![c] = holders[c] \cup {"model"}]
      BY <1>4 DEF Bind
    <3>2. holders[c] \cup {"model"} = HoldersOf("bound")
      BY <2>1, SameAt DEF HoldersOf, Move
    <3>3. QED BY <3>1, <3>2
  <2>3. OneMove(c, "resident", "bound", copies[c])
    BY <2>1, <2>2, SameAt DEF OneMove, Move, Held, Phases
  <2>4. QED BY <2>3, OneComponent
<1>5. ASSUME NEW c \in Components, DropModel(c) PROVE PoolInv'
  <2>1. Move(c, "bound", "unbinding") /\ LetGo(c, "model") /\ UNCHANGED <<reserved, other>>
    BY <1>5 DEF DropModel, LetGo
  <2>2. holders' = [holders EXCEPT ![c] = HoldersOf("unbinding")]
    <3>1. holders' = [holders EXCEPT ![c] = holders[c] \ {"model"}]
      BY <2>1 DEF LetGo
    <3>2. holders[c] \ {"model"} = HoldersOf("unbinding")
      BY <2>1, SameAt DEF HoldersOf, Move
    <3>3. QED BY <3>1, <3>2
  <2>3. copies' = [copies EXCEPT ![c] = copies[c]]
    <3>1. holders'[c] # {}
      BY <2>2 DEF PoolInv, HoldersOf
    <3>2. QED BY <2>1, <3>1 DEF LetGo
  <2>4. OneMove(c, "bound", "unbinding", copies[c])
    BY <2>1, <2>2, <2>3, SameAt DEF OneMove, Move, Held, Phases
  <2>5. QED BY <2>4, OneComponent
<1>6. ASSUME NEW c \in Components, DropBundle(c) PROVE PoolInv'
  <2>1. PICK from \in {"resident", "unbinding"} : Move(c, from, "releasing")
    BY <1>6 DEF DropBundle
  <2>2. LetGo(c, "bundle") /\ UNCHANGED <<reserved, other>>
    BY <1>6 DEF DropBundle, LetGo
  <2>3. holders' = [holders EXCEPT ![c] = HoldersOf("releasing")]
    <3>1. holders' = [holders EXCEPT ![c] = holders[c] \ {"bundle"}]
      BY <2>2 DEF LetGo
    <3>2. holders[c] \ {"bundle"} = HoldersOf("releasing")
      BY <2>1, SameAt DEF HoldersOf, Move
    <3>3. QED BY <3>1, <3>2
  <2>4. copies' = [copies EXCEPT ![c] = 0]
    <3>1. holders'[c] = {}
      BY <2>3 DEF PoolInv, HoldersOf
    <3>2. QED BY <2>2, <3>1 DEF LetGo
  <2>5. OneMove(c, from, "releasing", 0)
    BY <2>1, <2>2, <2>3, <2>4, SameAt DEF OneMove, Move, Held, Phases
  <2>6. QED BY <2>5, OneComponent
<1>7. ASSUME NEW c \in Components, DropReservation(c) PROVE PoolInv'
  <2>1. /\ Move(c, "releasing", "idle") /\ reserved' = reserved - Payload(c)
        /\ UNCHANGED <<copies, holders, other>>
    BY <1>7 DEF DropReservation
  <2>2. copies' = [copies EXCEPT ![c] = 0] /\ holders' = [holders EXCEPT ![c] = HoldersOf("idle")]
    BY <2>1, SameAt DEF HoldersOf, Move
  <2>3. OneMove(c, "releasing", "idle", 0)
    BY <2>1, <2>2, SameAt DEF OneMove, Move, Held, Phases
  <2>4. QED BY <2>3, OneComponent
<1>8. CASE OtherAllocation
  <2>1. other' \in OtherBytes /\ UNCHANGED <<reserved, phase, copies, holders>>
    BY <1>8 DEF OtherAllocation
  <2>2. Sum(Charges, Components)' = Sum(Charges, Components)
    BY <2>1 DEF Sum, Charges, Held, Payload
  <2>3. QED BY <2>1, <2>2 DEF PoolInv, PoolTypeOK
<1>9. CASE UNCHANGED poolVars
  <2>1. UNCHANGED <<reserved, phase, copies, holders, other>>
    BY <1>9 DEF poolVars
  <2>2. Sum(Charges, Components)' = Sum(Charges, Components)
    BY <2>1 DEF Sum, Charges, Held, Payload
  <2>3. QED BY <2>1, <2>2 DEF PoolInv, PoolTypeOK
<1>10. QED
  BY <1>1, <1>2, <1>3, <1>4, <1>5, <1>6, <1>7, <1>8, <1>9 DEF PoolNext

\* An empty pool is right.
LEMMA PoolStarts ==
    ASSUME PoolInit
    PROVE  PoolInv
<1>1. /\ IsFiniteSet(Components) /\ Limit \in Nat /\ 0 \in OtherBytes
      /\ \A c \in Components : Len(Sizes[c]) \in Nat /\ 0 \in 0 .. Len(Sizes[c])
  BY PoolAssumption
<1>2. PoolTypeOK
  BY <1>1 DEF PoolInit, PoolTypeOK
<1>3. \A c \in Components : Charges[c] = 0
  BY DEF PoolInit, Charges, Held
<1> DEFINE h == Charges
<1>4. Sum(h, Components) = 0
  <2>1. \A c \in Components : h[c] = 0
    BY <1>3
  <2> HIDE DEF h
  <2>2. QED BY <1>1, <2>1, SumZero
<1>5. QED BY <1>1, <1>2, <1>4 DEF PoolInit, PoolInv, HoldersOf

\* The counter is the sum of what is charged, within the limit, and a component
\* has copies only while it is charged.
THEOREM PoolInvariant == PoolSpec => []PoolInv
<1>1. PoolInit => PoolInv
  BY PoolStarts
<1>2. PoolInv /\ [PoolNext]_poolVars => PoolInv'
  BY PoolStep
<1>3. QED BY <1>1, <1>2, PTL DEF PoolSpec

\* However prefetches, failures, binds and drops of any number of components
\* interleave, the weights in device memory are within the reservations, those
\* within the budget, and all of it comes back (WeightResidencyPool, Reservation).
THEOREM BudgetKept == PoolSpec => []WithinBudget
<1>1. PoolInv => WithinBudget
  <2> SUFFICES ASSUME PoolInv PROVE WithinBudget
    OBVIOUS
  <2> DEFINE f == [c \in Components |-> CopiedBytes(c)]
             h == Charges
  <2>1. IsFiniteSet(Components)
    BY PoolAssumption
  <2>2. ASSUME NEW c \in Components
        PROVE  /\ f[c] \in Nat /\ h[c] \in Nat /\ f[c] <= h[c]
               /\ phase[c] \in {"idle", "checked"} => f[c] = 0 /\ h[c] = 0
    <3>1. /\ copies[c] \in 0 .. Len(Sizes[c])
          /\ phase[c] \in {"idle", "checked", "releasing"} => copies[c] = 0
      BY SameAt
    <3>2. f[c] = SumFunctionOnSet(Sizes[c], 1 .. copies[c])
      BY DEF CopiedBytes
    <3>3. /\ Payload(c) \in Nat /\ f[c] \in Nat /\ f[c] <= Payload(c)
          /\ copies[c] = 0 => f[c] = 0
      <4> HIDE DEF f
      <4>1. QED BY <3>1, <3>2, Bytes
    <3>4. h[c] = IF phase[c] \in Held THEN Payload(c) ELSE 0
      BY DEF Charges
    <3>5. phase[c] \in {"idle", "checked", "copying", "resident", "bound", "unbinding", "releasing"}
      BY DEF PoolInv, PoolTypeOK
    <3> HIDE DEF f, h
    <3>6. CASE phase[c] \in Held
      BY <3>3, <3>4, <3>6 DEF Held, Phases
    <3>7. CASE phase[c] \notin Held
      <4>1. copies[c] = 0
        BY <3>1, <3>5, <3>7 DEF Held, Phases
      <4>2. QED BY <3>3, <3>4, <3>7, <4>1
    <3>8. QED BY <3>6, <3>7
  <2>3. WeightBytes = Sum(f, Components) /\ reserved = Sum(h, Components)
    BY DEF WeightBytes, SumFunction, Sum, PoolInv
  <2> HIDE DEF f, h
  <2>4. Sum(f, Components) <= Sum(h, Components)
    BY <2>1, <2>2, SumLeq
  <2>5. NothingKept
    <3> SUFFICES ASSUME \A c \in Components : phase[c] \in {"idle", "checked"}
                 PROVE  reserved = 0 /\ WeightBytes = 0
      BY DEF NothingKept
    <3>1. \A c \in Components : f[c] = 0 /\ h[c] = 0
      BY <2>2
    <3>2. QED BY <2>1, <2>3, <3>1, SumZero
  <2>6. QED BY <2>3, <2>4, <2>5 DEF WithinBudget, PoolInv
<1>2. QED BY <1>1, PoolInvariant, PTL
=============================================================================
