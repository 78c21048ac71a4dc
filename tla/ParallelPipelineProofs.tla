------------------------ MODULE ParallelPipelineProofs ------------------------
(***************************************************************************)
(* Proofs about ParallelPipeline for every number of items, workers and    *)
(* every capacity.                                                         *)
(*                                                                         *)
(* Types come first: Moves says what any step does to the threads' states  *)
(* (one thread goes somewhere, others are at most woken), so that each     *)
(* later proof only asks who moved and where to.                           *)
(*                                                                         *)
(* The capacity bound is inductive once the reorder map is known to be     *)
(* finite: each action moves one unit between the free credits, the        *)
(* holders, the completed channel, the map and the credit being released.  *)
(*                                                                         *)
(* Join order: a finished or dropped consumer has seen every thread end,   *)
(* and the dead stay dead.                                                 *)
(*                                                                         *)
(* The ordered stream: a value's index is its place in the source          *)
(* (Numbered), what was delivered is the prefix of the indices (Ordered),  *)
(* every claimed index is where the collector will meet it (Accounted),    *)
(* and nothing stops before the end or the first error (Stopped).  Then a  *)
(* step of the stage is a step of OrderedStream, or none.                  *)
(***************************************************************************)
EXTENDS ParallelPipeline, FiniteSetTheorems, SequenceTheorems, TLAPS

\* The source, the collector and the workers are distinct threads, and all there
\* are.
LEMMA ThreadSets ==
    /\ Workers \subseteq Threads /\ Source \in Threads /\ Collector \in Threads
    /\ Source \notin Workers /\ Collector \notin Workers /\ Source # Collector
    /\ Threads = Workers \cup {Source, Collector}
  BY PipelineAssumption DEF Workers, Threads, Source, Collector

\* What a channel operation leaves in a channel.
LEMMA ChannelType ==
    ASSUME NEW S, NEW q \in Seq(S)
    PROVE  /\ <<>> \in Seq(S)
           /\ \A x \in S : Append(q, x) \in Seq(S)
           /\ q # <<>> => Head(q) \in S /\ Tail(q) \in Seq(S)
  OBVIOUS

-----------------------------------------------------------------------------
\* How a step moves the threads.

\* Where a thread may go by itself.
Allowed(t, to) ==
    /\ t = Source => to \in {"produce", "exited"}
    /\ t \in Workers => to \in WorkerStates
    /\ t = Collector => to \in CollectorStates

\* Thread t goes to `to`; every other thread stays, or is woken.
Moves(t, to) ==
    /\ pc' \in [Threads -> States]
    /\ pc'[t] = to
    /\ \A u \in Threads \ {t} :
          \/ pc'[u] = pc[u]
          \/ u \in Workers /\ pc[u] = "waiting" /\ pc'[u] = "acquire"

\* A place a thread may go to is a state of a thread.
LEMMA AllowedStates ==
    ASSUME NEW t \in Threads, NEW to, Allowed(t, to)
    PROVE  to \in States
  BY ThreadSets DEF Allowed, States, WorkerStates

\* A step without a notification moves its thread and wakes nobody.
LEMMA GotoMoves ==
    ASSUME PcOK, NEW t \in Threads, NEW to, Allowed(t, to), Goto(t, to)
    PROVE  Moves(t, to)
  BY AllowedStates DEF Goto, PcOK, Moves

\* notify_one (ReleaseCredit) wakes at most one worker that waits for a credit.
LEMMA NotifyOneMoves ==
    ASSUME PcOK, NEW to, Allowed(Collector, to), NotifyOne(Collector, to)
    PROVE  Moves(Collector, to)
<1>1. to \in States /\ "acquire" \in States
  BY AllowedStates, ThreadSets DEF States, WorkerStates
<1>2. CASE Waiting = {}
  BY <1>2, GotoMoves, ThreadSets DEF NotifyOne
<1>3. CASE Waiting # {}
  <2>1. PICK w \in Waiting :
           pc' = [pc EXCEPT ![Collector] = to, ![w] = "acquire"]
    BY <1>3 DEF NotifyOne
  <2>2. w \in Workers /\ pc[w] = "waiting" /\ w # Collector /\ w \in Threads
    BY ThreadSets DEF Waiting
  <2>3. QED BY <1>1, <2>1, <2>2, ThreadSets DEF PcOK, Moves
<1>4. QED BY <1>2, <1>3

\* notify_all (closing the credits) wakes workers that wait, and no other thread.
LEMMA NotifyAllMoves ==
    ASSUME PcOK, NEW t \in Threads, NEW to, Allowed(t, to), NotifyAll(t, to)
    PROVE  Moves(t, to)
<1>1. to \in States /\ "acquire" \in States
  BY AllowedStates DEF States, WorkerStates
<1>2. QED BY <1>1 DEF NotifyAll, PcOK, Moves, Waiting

\* A move keeps every thread in a state of its own kind.
LEMMA MovesType ==
    ASSUME PcOK, NEW t \in Threads, NEW to, Allowed(t, to), Moves(t, to)
    PROVE  PcOK'
<1>1. "acquire" \in WorkerStates
  BY DEF WorkerStates
<1>2. QED BY <1>1, ThreadSets DEF PcOK, Moves, Allowed

\* Which thread moves in a step, and where to.
LEMMA SourceMoves ==
    ASSUME PcOK, SourceStep
    PROVE  \E to \in {"produce", "exited"} : Moves(Source, to)
<1>1. PICK to \in {"produce", "exited"} : Goto(Source, to)
  BY DEF SourceStep, SourceSend, SourceStop, SourcePanic
<1>2. Allowed(Source, to)
  BY ThreadSets DEF Allowed
<1>3. QED BY <1>1, <1>2, GotoMoves, ThreadSets

\* A worker's step moves that worker.
LEMMA WorkerMoves ==
    ASSUME PcOK, NEW w \in Workers, WorkerStep(w) \/ SpuriousWakeup(w)
    PROVE  \E to \in WorkerStates : Moves(w, to)
<1>1. w \in Threads /\ \A to \in WorkerStates : Allowed(w, to)
  BY ThreadSets DEF Allowed
<1>2. CASE CloseCredits(w)
  BY <1>1, <1>2, NotifyAllMoves DEF CloseCredits, WorkerStates
<1>3. CASE ~CloseCredits(w)
  <2>1. PICK to \in WorkerStates : Goto(w, to)
    BY <1>3 DEF WorkerStep, SpuriousWakeup, Acquire, LockInput, ClaimInput,
           InputEnded, SendCompleted, TransformPanic, WorkerExit, WorkerStates
  <2>2. QED BY <1>1, <2>1, GotoMoves
<1>4. QED BY <1>2, <1>3

\* A collector's step moves the collector.
LEMMA CollectorMoves ==
    ASSUME PcOK, CollectorStep
    PROVE  \E to \in CollectorStates : Moves(Collector, to)
<1>1. Collector \in Threads /\ \A to \in CollectorStates : Allowed(Collector, to)
  BY ThreadSets DEF Allowed
<1>2. CASE CollectorClose
  BY <1>1, <1>2, NotifyAllMoves DEF CollectorClose, CollectorStates
<1>3. CASE ReleaseCredit
  <2>1. AfterInsert(expected + 1, pending) \in CollectorStates
    BY DEF AfterInsert, CollectorStates
  <2>2. QED BY <1>1, <1>3, <2>1, NotifyOneMoves DEF ReleaseCredit
<1>4. CASE ~CollectorClose /\ ~ReleaseCredit
  <2>1. PICK to \in CollectorStates : Goto(Collector, to)
    BY <1>4 DEF CollectorStep, CollectorRecv, CollectorEnd, CollectorSend,
           CollectorExit, AfterInsert, CollectorStates
  <2>2. QED BY <1>1, <2>1, GotoMoves
<1>5. QED BY <1>2, <1>3, <1>4

-----------------------------------------------------------------------------
\* Type correctness.  TypeOK alone is not inductive: what the collector sends
\* is a value only because it has just found it in the map.

TypeInv == TypeOK /\ SendHasValue

\* Initially every channel is empty and every thread is at its start.
LEMMA TypeInit == Init => TypeInv
<1> SUFFICES ASSUME Init PROVE TypeInv
  OBVIOUS
<1>1. PcOK /\ SendHasValue
  BY ThreadSets DEF Init, PcOK, States, WorkerStates, CollectorStates,
                    SendHasValue
<1>2. InputOK
  <2>1. [index |-> 0, item |-> 0] \in Claims
    BY DEF Claims
  <2>2. claim \in [Workers -> Claims]
    BY <2>1 DEF Init
  <2>3. credits \in Nat /\ sent \in 0 .. ItemCount
    BY PipelineAssumption DEF Init
  <2>4. closed \in BOOLEAN
    BY Zenon DEF Init
  <2>5. /\ inbox \in Seq(Nat) /\ panicked \subseteq Threads /\ claimed \in Nat
        /\ inputLock \in Workers \cup {0} /\ outcome \in [Items -> Outcomes]
    BY DEF Init
  <2>6. QED BY <2>2, <2>3, <2>4, <2>5 DEF InputOK
<1>3. CollectorOK /\ ConsumerOK
  BY ThreadSets DEF Init, CollectorOK, ConsumerOK, PendingOK
<1>4. QED BY <1>1, <1>2, <1>3 DEF TypeInv, TypeOK

\* The source's steps keep the types.
LEMMA TypeSource == TypeInv /\ SourceStep => TypeInv'
<1> SUFFICES ASSUME TypeInv, SourceStep PROVE TypeInv'
  OBVIOUS
<1> USE DEF TypeInv, TypeOK, sourceVars, inputVars, creditVars, collectorVars,
            consumerVars
<1>1. PICK to \in {"produce", "exited"} : Moves(Source, to)
  BY SourceMoves
<1>2. PcOK'
  BY <1>1, MovesType, ThreadSets DEF Allowed
<1>3. SendHasValue'
  <2>1. pc'[Collector] = pc[Collector]
    BY <1>1, ThreadSets DEF Moves
  <2>2. QED BY <2>1 DEF SourceStep, SourceSend, SourceStop, SourcePanic,
                        SendHasValue
<1>4. InputOK'
  <2>1. CASE SourceSend
    BY <2>1, PipelineAssumption DEF SourceSend, InputOK
  <2>2. CASE SourceStop
    BY <2>2 DEF SourceStop, InputOK
  <2>3. CASE SourcePanic
    BY <2>3, ThreadSets DEF SourcePanic, InputOK
  <2>4. QED BY <2>1, <2>2, <2>3 DEF SourceStep
<1>5. CollectorOK' /\ ConsumerOK'
  BY DEF SourceStep, SourceSend, SourceStop, SourcePanic, CollectorOK,
         ConsumerOK, PendingOK
<1>6. QED BY <1>2, <1>3, <1>4, <1>5

\* A worker's steps keep the types.
LEMMA TypeWorker ==
    ASSUME NEW w \in Workers
    PROVE  TypeInv /\ (WorkerStep(w) \/ SpuriousWakeup(w)) => TypeInv'
<1> SUFFICES ASSUME TypeInv, WorkerStep(w) \/ SpuriousWakeup(w) PROVE TypeInv'
  OBVIOUS
<1> USE DEF TypeInv, TypeOK, sourceVars, inputVars, creditVars, collectorVars,
            consumerVars
<1>1. PICK to \in WorkerStates : Moves(w, to)
  BY WorkerMoves
<1>2. PcOK'
  BY <1>1, MovesType, ThreadSets DEF Allowed
<1>3. SendHasValue'
  <2>1. pc'[Collector] = pc[Collector]
    BY <1>1, ThreadSets DEF Moves
  <2>2. expected' = expected /\ pending' = pending
    BY DEF WorkerStep, SpuriousWakeup, Acquire, LockInput, ClaimInput,
           InputEnded, SendCompleted, TransformPanic, CloseCredits, WorkerExit
  <2>3. QED BY <2>1, <2>2 DEF SendHasValue
<1>4. InputOK'
  <2>1. CASE Acquire(w)
    BY <2>1 DEF Acquire, InputOK
  <2>2. CASE LockInput(w)
    BY <2>2 DEF LockInput, InputOK
  <2>3. CASE ClaimInput(w)
    <3>1. Head(inbox) \in Nat /\ Tail(inbox) \in Seq(Nat)
      BY <2>3 DEF ClaimInput, InputOK
    <3>2. [index |-> claimed, item |-> Head(inbox)] \in Claims
      BY <3>1 DEF Claims, InputOK
    <3>3. claim' \in [Workers -> Claims]
      BY <2>3, <3>2 DEF ClaimInput, InputOK
    <3>4. QED BY <2>3, <3>1, <3>3 DEF ClaimInput, InputOK
  <2>4. CASE InputEnded(w)
    BY <2>4 DEF InputEnded, InputOK
  <2>5. CASE SendCompleted(w)
    BY <2>5 DEF SendCompleted, InputOK
  <2>6. CASE TransformPanic(w)
    BY <2>6, ThreadSets DEF TransformPanic, DropInput, InputOK
  <2>7. CASE CloseCredits(w)
    BY <2>7 DEF CloseCredits, InputOK
  <2>8. CASE WorkerExit(w)
    BY <2>8 DEF WorkerExit, DropInput, InputOK
  <2>9. CASE SpuriousWakeup(w)
    BY <2>9 DEF SpuriousWakeup, InputOK
  <2>10. QED BY <2>1, <2>2, <2>3, <2>4, <2>5, <2>6, <2>7, <2>8, <2>9
            DEF WorkerStep
<1>5. CollectorOK'
  <2>1. PendingOK'
    BY DEF WorkerStep, SpuriousWakeup, Acquire, LockInput, ClaimInput,
           InputEnded, SendCompleted, TransformPanic, CloseCredits, WorkerExit,
           CollectorOK, PendingOK
  <2>2. completed' \in Seq(Claims)
    <3>1. claim[w] \in Claims
      BY DEF InputOK
    <3>2. completed' = completed \/ completed' = Append(completed, claim[w])
      BY DEF WorkerStep, SpuriousWakeup, Acquire, LockInput, ClaimInput,
             InputEnded, SendCompleted, TransformPanic, CloseCredits, WorkerExit
    <3>3. QED BY <3>1, <3>2, ChannelType DEF CollectorOK
  <2>3. QED BY <2>1, <2>2
        DEF WorkerStep, SpuriousWakeup, Acquire, LockInput, ClaimInput,
           InputEnded, SendCompleted, TransformPanic, CloseCredits, WorkerExit,
           CollectorOK
<1>6. ConsumerOK'
  BY DEF WorkerStep, SpuriousWakeup, Acquire, LockInput, ClaimInput, InputEnded,
         SendCompleted, TransformPanic, CloseCredits, WorkerExit, ConsumerOK
<1>7. QED BY <1>2, <1>3, <1>4, <1>5, <1>6

\* The collector's steps keep the types; what it takes out of the reorder buffer
\* was put in before.
LEMMA TypeCollector == TypeInv /\ CollectorStep => TypeInv'
<1> SUFFICES ASSUME TypeInv, CollectorStep PROVE TypeInv'
  OBVIOUS
<1> USE DEF TypeInv, TypeOK, sourceVars, inputVars, creditVars, collectorVars,
            consumerVars
<1>1. PICK to \in CollectorStates : Moves(Collector, to)
  BY CollectorMoves
<1>2. PcOK'
  BY <1>1, MovesType, ThreadSets DEF Allowed
<1>3. SendHasValue'
  <2>1. CASE CollectorRecv
    <3>1. pc'[Collector] = AfterInsert(expected, pending')
      BY <2>1, ThreadSets DEF CollectorRecv, Goto, PcOK
    <3>2. QED BY <2>1, <3>1 DEF CollectorRecv, SendHasValue, AfterInsert
  <2>2. CASE ReleaseCredit
    <3>1. AfterInsert(expected + 1, pending) \in CollectorStates
      BY DEF AfterInsert, CollectorStates
    <3>2. Allowed(Collector, AfterInsert(expected + 1, pending))
      BY <3>1, ThreadSets DEF Allowed
    <3>3. pc'[Collector] = AfterInsert(expected + 1, pending)
      BY <2>2, <3>2, NotifyOneMoves DEF ReleaseCredit, Moves
    <3>4. QED BY <2>2, <3>3 DEF ReleaseCredit, SendHasValue, AfterInsert
  <2>3. CASE CollectorSend \/ CollectorEnd \/ CollectorExit
    BY <2>3, ThreadSets DEF CollectorSend, CollectorEnd, CollectorExit, Goto,
                            PcOK, SendHasValue
  <2>4. CASE CollectorClose
    BY <2>4, ThreadSets DEF CollectorClose, NotifyAll, SendHasValue
  <2>5. QED BY <2>1, <2>2, <2>3, <2>4 DEF CollectorStep
<1>4. InputOK'
  <2>1. credits' \in Nat
    BY DEF CollectorStep, CollectorRecv, CollectorEnd, CollectorSend,
           ReleaseCredit, CollectorClose, CollectorExit, InputOK
  <2>2. closed' = closed \/ closed' = TRUE
    BY DEF CollectorStep, CollectorRecv, CollectorEnd, CollectorSend,
           ReleaseCredit, CollectorClose, CollectorExit
  <2>3. closed' \in BOOLEAN
    BY <2>2, Zenon DEF InputOK
  <2>4. UNCHANGED <<outcome, panicked, sent, inbox, inputLock, claimed, claim>>
    BY DEF CollectorStep, CollectorRecv, CollectorEnd, CollectorSend,
           ReleaseCredit, CollectorClose, CollectorExit
  <2>5. QED BY <2>1, <2>3, <2>4 DEF InputOK
<1>5. CollectorOK'
  <2>1. CASE CollectorRecv
    <3>1. Head(completed) \in Claims /\ Tail(completed) \in Seq(Claims)
      BY <2>1 DEF CollectorRecv, CollectorOK
    <3>2. Head(completed).index \in Nat /\ Head(completed).item \in Nat
      BY <3>1 DEF Claims
    <3>3. PendingOK'
      BY <2>1, <3>2 DEF CollectorRecv, CollectorOK, PendingOK
    <3>4. QED BY <2>1, <3>1, <3>3 DEF CollectorRecv, CollectorOK
  <2>2. CASE CollectorSend
    <3>1. PendingOK'
      BY <2>2 DEF CollectorSend, CollectorOK, PendingOK
    <3>2. pending[expected] \in Nat
      BY <2>2 DEF CollectorSend, CollectorOK, PendingOK, SendHasValue
    <3>3. output' \in Seq(Nat)
      <4>1. output \in Seq(Nat)
        BY DEF CollectorOK
      <4>2. output' = Append(output, pending[expected]) \/ output' = output
        BY <2>2 DEF CollectorSend
      <4>3. \A s \in Seq(Nat), x \in Nat : Append(s, x) \in Seq(Nat)
        OBVIOUS
      <4>4. QED BY <3>2, <4>1, <4>2, <4>3
    <3>4. QED BY <2>2, <3>1, <3>3 DEF CollectorSend, CollectorOK
  <2>3. CASE ReleaseCredit
    BY <2>3 DEF ReleaseCredit, CollectorOK, PendingOK
  <2>4. CASE CollectorEnd \/ CollectorClose \/ CollectorExit
    <3>1. completed' \in Seq(Claims)
      BY <2>4, ChannelType DEF CollectorEnd, CollectorClose, CollectorExit,
                               CollectorOK
    <3>2. UNCHANGED <<pending, expected, output>>
      BY <2>4 DEF CollectorEnd, CollectorClose, CollectorExit
    <3>3. QED BY <3>1, <3>2 DEF CollectorOK, PendingOK
  <2>5. QED BY <2>1, <2>2, <2>3, <2>4 DEF CollectorStep
<1>6. ConsumerOK'
  BY DEF CollectorStep, CollectorRecv, CollectorEnd, CollectorSend,
         ReleaseCredit, CollectorClose, CollectorExit, ConsumerOK
<1>7. QED BY <1>2, <1>3, <1>4, <1>5, <1>6

\* The consumer's calls keep the types.
LEMMA TypeConsumer == TypeInv /\ (Recv \/ Finish \/ Drop \/ Join) => TypeInv'
<1> SUFFICES ASSUME TypeInv, Recv \/ Finish \/ Drop \/ Join PROVE TypeInv'
  OBVIOUS
<1> USE DEF TypeInv, TypeOK, sourceVars, inputVars, creditVars, collectorVars,
            consumerVars
<1>1. PcOK' /\ SendHasValue'
  BY DEF Recv, Finish, Drop, Join, PcOK, SendHasValue
<1>2. InputOK'
  BY DEF Recv, Finish, Drop, Join, InputOK
<1>3. PendingOK' /\ completed' \in Seq(Claims) /\ expected' \in Nat
  BY DEF Recv, Finish, Drop, Join, CollectorOK, PendingOK
<1>4. output' \in Seq(Nat)
  <2>1. \/ output' \in {output, <<>>}
        \/ output # <<>> /\ output' = Tail(output)
    BY DEF Recv, Finish, Drop, Join
  <2>2. QED BY <2>1, ChannelType DEF CollectorOK
<1>5. received' \in Seq(Nat)
  <2>1. \/ received' = received
        \/ output # <<>> /\ received' = Append(received, Head(output))
    BY DEF Recv, Finish, Drop, Join
  <2>2. output # <<>> => Head(output) \in Nat
    BY ChannelType DEF CollectorOK
  <2>3. QED BY <2>1, <2>2, ChannelType DEF ConsumerOK
<1>6. joining' \in Threads
  BY PipelineAssumption DEF Recv, Finish, Drop, Join, ConsumerOK, Threads,
                            Source
<1>7. consumer' \in {"running", "ended", "joining", "finished", "panicked",
                     "dropped"}
  BY DEF Recv, Finish, Drop, Join, ConsumerOK
<1>8. QED BY <1>1, <1>2, <1>3, <1>4, <1>5, <1>6, <1>7
          DEF CollectorOK, ConsumerOK

\* A stuttering step keeps the types.
LEMMA TypeStutter == TypeInv /\ UNCHANGED vars => TypeInv'
  BY DEF TypeInv, TypeOK, PcOK, InputOK, CollectorOK, PendingOK, ConsumerOK,
         SendHasValue, vars, sourceVars, inputVars, creditVars, collectorVars,
         consumerVars

\* Type correctness of every reachable state, for all constants.
THEOREM TypeCorrect == Spec => []TypeInv
<1>1. TypeInv /\ [Next]_vars => TypeInv'
  BY TypeSource, TypeWorker, TypeCollector, TypeConsumer, TypeStutter
     DEF Next, Done
<1>2. QED BY TypeInit, <1>1, PTL DEF Spec

\* The type invariant the runs check, for all constants.
THEOREM TypeAlways == Spec => []TypeOK
<1>1. TypeInv => TypeOK
  BY DEF TypeInv
<1>2. QED BY TypeCorrect, <1>1, PTL

-----------------------------------------------------------------------------
\* The capacity bound.  It is inductive together with TypeInv once the reorder
\* map is known to be finite.

BoundInv == TypeInv /\ IsFiniteSet(DOMAIN pending) /\ StageBounded

HoldStates == {"lock", "recv", "work"}

\* The workers that hold a credit are finitely many.
LEMMA HoldingFinite == IsFiniteSet(Holding) /\ Cardinality(Holding) \in Nat
<1>1. IsFiniteSet(Workers)
  BY FS_Interval, PipelineAssumption DEF Workers
<1>2. Holding \subseteq Workers
  BY DEF Holding
<1>3. QED BY <1>1, <1>2, FS_Subset, FS_CardinalityType

\* Waking a waiter changes nobody's hold on a credit, so only the thread that
\* moves matters.
LEMMA HoldingMoves ==
    ASSUME PcOK, NEW t \in Threads, NEW to, Allowed(t, to), Moves(t, to)
    PROVE  /\ t \notin Workers => Holding' = Holding
           /\ t \in Workers =>
                Holding' = IF to \in HoldStates THEN Holding \cup {t}
                           ELSE Holding \ {t}
  BY ThreadSets DEF Moves, Holding, HoldStates

\* A worker's move changes the number of held credits by what its own state says.
LEMMA HoldingCard ==
    ASSUME PcOK, NEW w \in Workers, NEW to \in WorkerStates, Moves(w, to)
    PROVE  Cardinality(Holding') =
             Cardinality(Holding)
               + (IF to \in HoldStates /\ pc[w] \notin HoldStates THEN 1 ELSE 0)
               - (IF to \notin HoldStates /\ pc[w] \in HoldStates THEN 1 ELSE 0)
<1>1. Holding' = IF to \in HoldStates THEN Holding \cup {w} ELSE Holding \ {w}
  BY HoldingMoves, ThreadSets DEF Allowed
<1>2. w \in Holding <=> pc[w] \in HoldStates
  BY DEF Holding, HoldStates
<1>3. CASE to \in HoldStates
  <2>1. Cardinality(Holding') = IF w \in Holding THEN Cardinality(Holding)
                                ELSE Cardinality(Holding) + 1
    BY <1>1, <1>3, HoldingFinite, FS_AddElement
  <2>2. QED BY <1>2, <1>3, <2>1, HoldingFinite
<1>4. CASE to \notin HoldStates
  <2>1. Cardinality(Holding') = IF w \in Holding THEN Cardinality(Holding) - 1
                                ELSE Cardinality(Holding)
    BY <1>1, <1>4, HoldingFinite, FS_RemoveElement
  <2>2. QED BY <1>2, <1>4, <2>1, HoldingFinite
<1>5. QED BY <1>3, <1>4

\* The terms of StageBounded, each a natural number.
Queued == Len(completed)
Buffered == Cardinality(DOMAIN pending)
Releasing == IF pc[Collector] = "release" THEN 1 ELSE 0

\* The five terms of the capacity bound are natural numbers.
LEMMA BoundTerms ==
    ASSUME TypeInv, IsFiniteSet(DOMAIN pending)
    PROVE  /\ credits \in Nat /\ Cardinality(Holding) \in Nat /\ Queued \in Nat
           /\ Buffered \in Nat /\ Releasing \in Nat /\ Capacity \in Nat
  BY PipelineAssumption, HoldingFinite, FS_CardinalityType
     DEF TypeInv, TypeOK, InputOK, CollectorOK, Queued, Buffered, Releasing

\* StageBounded follows when the five terms do not grow together.
LEMMA BoundKept ==
    ASSUME TypeInv, IsFiniteSet(DOMAIN pending), StageBounded,
           credits' \in Nat, Cardinality(Holding') \in Nat, Queued' \in Nat,
           Buffered' \in Nat, Releasing' \in Nat,
           credits' + Cardinality(Holding') + Queued' + Buffered' + Releasing'
             <= credits + Cardinality(Holding) + Queued + Buffered + Releasing
    PROVE  StageBounded'
<1>1. credits + Cardinality(Holding) + Queued + Buffered + Releasing <= Capacity
  BY DEF StageBounded, Queued, Buffered, Releasing
<1>2. credits' + Cardinality(Holding') + Queued' + Buffered' + Releasing'
        <= Capacity
  BY <1>1, BoundTerms
<1>3. QED BY <1>2 DEF StageBounded, Queued, Buffered, Releasing

\* Initially all credits are free and nothing is inside the stage.
LEMMA BoundInit == Init => BoundInv
<1> SUFFICES ASSUME Init PROVE BoundInv
  OBVIOUS
<1>1. Holding = {} /\ DOMAIN pending = {} /\ completed = <<>>
      /\ credits = Capacity /\ pc[Collector] = "recv"
  BY ThreadSets DEF Init, Holding
<1>2. QED BY <1>1, TypeInit, FS_EmptySet, PipelineAssumption
          DEF BoundInv, StageBounded

\* The source neither takes nor gives a credit.
LEMMA BoundSource == BoundInv /\ SourceStep => BoundInv'
<1> SUFFICES ASSUME BoundInv, SourceStep PROVE BoundInv'
  OBVIOUS
<1> USE DEF BoundInv, TypeInv, TypeOK
<1>1. PICK to \in {"produce", "exited"} : Moves(Source, to)
  BY SourceMoves
<1>2. Holding' = Holding /\ pc'[Collector] = pc[Collector]
  BY <1>1, HoldingMoves, ThreadSets DEF Allowed, Moves
<1>3. UNCHANGED <<credits, completed, pending>>
  BY DEF SourceStep, SourceSend, SourceStop, SourcePanic, creditVars,
         collectorVars
<1>4. QED BY <1>2, <1>3, TypeSource DEF StageBounded

\* A worker turns a free credit into a held one, a held one into a completed
\* result, or gives it back.
LEMMA BoundWorker ==
    ASSUME NEW w \in Workers
    PROVE  BoundInv /\ (WorkerStep(w) \/ SpuriousWakeup(w)) => BoundInv'
<1> SUFFICES ASSUME BoundInv, WorkerStep(w) \/ SpuriousWakeup(w) PROVE BoundInv'
  OBVIOUS
<1>0. TypeInv /\ TypeInv' /\ PcOK /\ IsFiniteSet(DOMAIN pending) /\ StageBounded
  BY TypeWorker DEF BoundInv, TypeInv, TypeOK
<1>1. PICK to \in WorkerStates : Moves(w, to)
  BY <1>0, WorkerMoves
<1>2. pc'[Collector] = pc[Collector] /\ pc'[w] = to
  BY <1>1, ThreadSets DEF Moves
<1>3. pending' = pending
  BY DEF WorkerStep, SpuriousWakeup, Acquire, LockInput, ClaimInput, InputEnded,
         SendCompleted, TransformPanic, CloseCredits, WorkerExit, collectorVars
<1>4. Cardinality(Holding') =
        Cardinality(Holding)
          + (IF to \in HoldStates /\ pc[w] \notin HoldStates THEN 1 ELSE 0)
          - (IF to \notin HoldStates /\ pc[w] \in HoldStates THEN 1 ELSE 0)
  BY <1>0, <1>1, HoldingCard
<1>5. Buffered' = Buffered /\ Releasing' = Releasing
  BY <1>2, <1>3 DEF Buffered, Releasing
<1>6. Cardinality(Holding') \in Nat /\ credits' \in Nat /\ Queued' \in Nat
  <2>1. w \in Holding <=> pc[w] \in HoldStates
    BY DEF Holding, HoldStates
  <2>2. Cardinality(Holding') \in Nat
    <3>1. Holding' = IF to \in HoldStates THEN Holding \cup {w} ELSE Holding \ {w}
      BY <1>0, <1>1, HoldingMoves, ThreadSets DEF Allowed
    <3>2. IsFiniteSet(Holding')
      BY <3>1, HoldingFinite, FS_AddElement, FS_RemoveElement
    <3>3. QED BY <3>2, FS_CardinalityType
  <2>3. QED BY <1>0, <2>2 DEF TypeInv, TypeOK, InputOK, CollectorOK, Queued
<1>7. credits' + Cardinality(Holding') + Queued'
        <= credits + Cardinality(Holding) + Queued
  <2>0. /\ credits \in Nat /\ Cardinality(Holding) \in Nat /\ Queued \in Nat
        /\ w \in Threads /\ pc \in [Threads -> States]
    BY <1>0, BoundTerms, ThreadSets DEF PcOK
  <2>1. CASE Acquire(w)
    <3>1. completed' = completed
      BY <2>1 DEF Acquire
    <3>2. pc[w] = "acquire"
      BY <2>1 DEF Acquire
    <3>3. \/ credits' = credits /\ to \notin HoldStates
          \/ credits' = credits - 1 /\ to = "lock"
      BY <1>2, <2>0, <2>1 DEF Acquire, Goto, HoldStates
    <3>4. QED BY <1>4, <2>0, <3>1, <3>2, <3>3 DEF HoldStates, Queued
  <2>2. CASE SendCompleted(w)
    <3>1. credits' = credits /\ pc[w] \in HoldStates
      BY <2>2 DEF SendCompleted, creditVars, HoldStates
    <3>2. to \notin HoldStates
      BY <1>2, <2>0, <2>2 DEF SendCompleted, Goto, HoldStates
    <3>3. Queued' <= Queued + 1
      <4>1. completed \in Seq(Claims) /\ claim[w] \in Claims
        BY <1>0 DEF TypeInv, TypeOK, CollectorOK, InputOK
      <4>2. completed' = completed \/ completed' = Append(completed, claim[w])
        BY <2>2 DEF SendCompleted
      <4>3. QED BY <4>1, <4>2 DEF Queued
    <3>4. QED BY <1>4, <1>6, <2>0, <3>1, <3>2, <3>3
  <2>3. CASE ~Acquire(w) /\ ~SendCompleted(w)
    <3>1. credits' = credits /\ completed' = completed
      BY <2>3 DEF WorkerStep, SpuriousWakeup, LockInput, ClaimInput, InputEnded,
             TransformPanic, CloseCredits, WorkerExit, creditVars
    <3>2. to \in HoldStates => pc[w] \in HoldStates
      BY <1>2, <2>0, <2>3 DEF WorkerStep, SpuriousWakeup, LockInput, ClaimInput,
             InputEnded, TransformPanic, CloseCredits, WorkerExit, Goto,
             NotifyAll, HoldStates
    <3>3. QED BY <1>4, <1>6, <2>0, <3>1, <3>2 DEF Queued
  <2>4. QED BY <2>1, <2>2, <2>3
<1>8. credits' + Cardinality(Holding') + Queued' + Buffered' + Releasing'
        <= credits + Cardinality(Holding) + Queued + Buffered + Releasing
  BY <1>0, <1>5, <1>6, <1>7, BoundTerms
<1>9. StageBounded'
  BY <1>0, <1>5, <1>6, <1>8, BoundKept, BoundTerms
<1>10. QED BY <1>0, <1>3, <1>9 DEF BoundInv

\* Two facts of arithmetic on the terms.
LEMMA MoveOne ==
    \A c, q, b, b1 \in Nat :
        b1 <= b + 1 => c + (q - 1) + b1 + 0 <= c + q + b + 0
  OBVIOUS

\* The held credits can be added to both sides of the collector's balance.
LEMMA AddHolding ==
    \A h, c, q, b, r, c1, q1, b1, r1 \in Nat :
        c1 + q1 + b1 + r1 <= c + q + b + r
          => c1 + h + q1 + b1 + r1 <= c + h + q + b + r
  OBVIOUS

\* The collector turns a completed result into a buffered one, and a buffered one
\* into a credit to release.
LEMMA BoundCollector == BoundInv /\ CollectorStep => BoundInv'
<1> SUFFICES ASSUME BoundInv, CollectorStep PROVE BoundInv'
  OBVIOUS
<1>0. TypeInv /\ TypeInv' /\ PcOK /\ IsFiniteSet(DOMAIN pending) /\ StageBounded
  BY TypeCollector DEF BoundInv, TypeInv, TypeOK
<1>1. PICK to \in CollectorStates : Moves(Collector, to)
  BY <1>0, CollectorMoves
<1>2. Holding' = Holding /\ pc'[Collector] = to
  BY <1>0, <1>1, HoldingMoves, ThreadSets DEF Allowed, Moves
<1>3. /\ credits \in Nat /\ Cardinality(Holding) \in Nat /\ Queued \in Nat
      /\ Buffered \in Nat /\ Releasing \in Nat /\ completed \in Seq(Claims)
      /\ pc \in [Threads -> States] /\ Collector \in Threads
  BY <1>0, BoundTerms, ThreadSets DEF TypeInv, TypeOK, CollectorOK, PcOK
<1>n. /\ credits \in Nat /\ Cardinality(Holding) \in Nat /\ Queued \in Nat
      /\ Buffered \in Nat /\ Releasing \in Nat
  BY <1>3
<1>4. credits' \in Nat /\ Queued' \in Nat /\ Releasing' \in Nat
  BY <1>0 DEF TypeInv, TypeOK, InputOK, CollectorOK, Queued, Releasing
<1>5. /\ IsFiniteSet(DOMAIN pending')
      /\ Buffered' \in Nat
      /\ credits' + Queued' + Buffered' + Releasing'
           <= credits + Queued + Buffered + Releasing
  <2>1. CASE CollectorRecv
    <3>1. DOMAIN pending' = DOMAIN pending \cup {Head(completed).index}
      BY <2>1 DEF CollectorRecv
    <3>2. /\ IsFiniteSet(DOMAIN pending') /\ Buffered' \in Nat
          /\ Buffered' <= Buffered + 1
      <4> DEFINE i == Head(completed).index
      <4>1. /\ IsFiniteSet(DOMAIN pending \cup {i})
            /\ Cardinality(DOMAIN pending \cup {i}) =
                 IF i \in DOMAIN pending THEN Cardinality(DOMAIN pending)
                 ELSE Cardinality(DOMAIN pending) + 1
        BY <1>0, FS_AddElement
      <4>2. IsFiniteSet(DOMAIN pending') /\ Buffered' \in {Buffered, Buffered + 1}
        BY <3>1, <4>1 DEF Buffered
      <4>3. QED BY <1>3, <4>2
    <3>3. Queued' = Queued - 1
      BY <1>3, <2>1 DEF CollectorRecv, Queued
    <3>4. credits' = credits /\ Releasing = 0 /\ Releasing' = 0
      BY <1>2, <1>3, <2>1 DEF CollectorRecv, creditVars, Releasing, Goto,
                              AfterInsert
    <3>n. Buffered' \in Nat /\ Buffered' <= Buffered + 1
      BY <3>2
    <3>5. credits' + Queued' + Buffered' + Releasing'
            <= credits + Queued + Buffered + Releasing
      BY <1>n, <1>4, <3>n, <3>3, <3>4, MoveOne
    <3>6. QED BY <3>2, <3>5
  <2>2. CASE CollectorSend
    <3>1. DOMAIN pending' = DOMAIN pending \ {expected}
      BY <2>2 DEF CollectorSend
    <3>2. expected \in DOMAIN pending
      BY <1>0, <2>2 DEF CollectorSend, TypeInv, SendHasValue
    <3>3. /\ IsFiniteSet(DOMAIN pending') /\ Buffered' \in Nat
          /\ Buffered' = Buffered - 1
      BY <1>0, <1>3, <3>1, <3>2, FS_RemoveElement, FS_CardinalityType
         DEF Buffered
    <3>4. UNCHANGED <<credits, completed>> /\ Releasing = 0 /\ Releasing' <= 1
      BY <2>2 DEF CollectorSend, creditVars, Releasing
    <3>5. QED BY <1>3, <1>4, <3>3, <3>4 DEF Queued
  <2>3. CASE ReleaseCredit
    <3>1. UNCHANGED <<completed, pending>> /\ credits' = credits + 1
      BY <2>3 DEF ReleaseCredit
    <3>2. AfterInsert(expected + 1, pending) \in CollectorStates \ {"release"}
      BY DEF AfterInsert, CollectorStates
    <3>3. Allowed(Collector, AfterInsert(expected + 1, pending))
      BY <3>2, ThreadSets DEF Allowed
    <3>4. pc'[Collector] = AfterInsert(expected + 1, pending)
      BY <1>0, <2>3, <3>3, NotifyOneMoves DEF ReleaseCredit, Moves
    <3>5. Releasing = 1 /\ Releasing' = 0
      BY <2>3, <3>2, <3>4 DEF ReleaseCredit, Releasing
    <3>6. QED BY <1>0, <1>3, <3>1, <3>5 DEF Queued, Buffered
  <2>4. CASE CollectorEnd \/ CollectorClose
    <3>1. UNCHANGED <<completed, pending, credits>>
      BY <2>4 DEF CollectorEnd, CollectorClose, creditVars, collectorVars
    <3>2. Releasing = 0 /\ Releasing' = 0
      BY <1>3, <2>4 DEF CollectorEnd, CollectorClose, Goto, NotifyAll, Releasing
    <3>3. QED BY <1>0, <1>3, <3>1, <3>2 DEF Queued, Buffered
  <2>5. CASE CollectorExit
    <3>1. UNCHANGED <<pending, credits>> /\ Queued' = 0
      BY <2>5 DEF CollectorExit, creditVars, collectorVars, Queued
    <3>2. Releasing = 0 /\ Releasing' = 0
      BY <1>3, <2>5 DEF CollectorExit, Goto, Releasing
    <3>3. QED BY <1>0, <1>3, <3>1, <3>2 DEF Buffered
  <2>6. QED BY <2>1, <2>2, <2>3, <2>4, <2>5 DEF CollectorStep
<1>6. credits' + Cardinality(Holding') + Queued' + Buffered' + Releasing'
        <= credits + Cardinality(Holding) + Queued + Buffered + Releasing
  <2> DEFINE h == Cardinality(Holding)
  <2>1. Cardinality(Holding') = h
    BY <1>2
  <2>2. h \in Nat
    BY <1>3
  <2> HIDE DEF h
  <2>3. credits' + h + Queued' + Buffered' + Releasing'
          <= credits + h + Queued + Buffered + Releasing
    <3>1. /\ Buffered' \in Nat
          /\ credits' + Queued' + Buffered' + Releasing'
               <= credits + Queued + Buffered + Releasing
      BY <1>5
    <3>2. QED BY <1>n, <1>4, <3>1, <2>2, AddHolding
  <2>4. QED BY <2>1, <2>3 DEF h
<1>7. StageBounded'
  BY <1>0, <1>2, <1>3, <1>4, <1>5, <1>6, BoundKept
<1>8. QED BY <1>0, <1>5, <1>7 DEF BoundInv

\* The consumer's calls touch no credit.
LEMMA BoundOther ==
    BoundInv /\ (Recv \/ Finish \/ Drop \/ Join \/ UNCHANGED vars) => BoundInv'
<1> SUFFICES ASSUME BoundInv, Recv \/ Finish \/ Drop \/ Join \/ UNCHANGED vars
             PROVE  BoundInv'
  OBVIOUS
<1>1. TypeInv'
  BY TypeConsumer, TypeStutter DEF BoundInv
<1>2. UNCHANGED <<pc, credits, completed, pending>>
  BY DEF Recv, Finish, Drop, Join, vars, creditVars, collectorVars
<1>3. QED BY <1>1, <1>2 DEF BoundInv, StageBounded, Holding

\* pipeline.rs:265-267: whatever the numbers of workers and items, at most
\* `capacity` items are claimed and not yet released downstream.
THEOREM CapacityBound == Spec => []StageBounded
<1>1. BoundInv /\ [Next]_vars => BoundInv'
  BY BoundSource, BoundWorker, BoundCollector, BoundOther DEF Next, Done
<1>2. BoundInv => StageBounded
  BY DEF BoundInv
<1>3. QED BY BoundInit, <1>1, <1>2, PTL DEF Spec

\* A worker with a result never meets a full completed channel.
THEOREM SendNeverBlocks == Spec => []CompletedHasRoom
<1>1. BoundInv /\ [Next]_vars => BoundInv'
  BY BoundSource, BoundWorker, BoundCollector, BoundOther DEF Next, Done
<1>2. BoundInv => CompletedHasRoom
  <2> SUFFICES ASSUME BoundInv, NEW w \in Workers, pc[w] = "work"
               PROVE  Len(completed) < Capacity
    BY DEF CompletedHasRoom
  <2>1. w \in Holding
    BY DEF Holding
  <2>2. Cardinality(Holding) >= 1
    BY <2>1, HoldingFinite, FS_EmptySet
  <2>3. credits + Cardinality(Holding) + Queued + Buffered + Releasing <= Capacity
    BY DEF BoundInv, StageBounded, Queued, Buffered, Releasing
  <2>4. Queued < Capacity
    BY <2>2, <2>3, BoundTerms DEF BoundInv
  <2>5. QED BY <2>4 DEF Queued
<1>3. QED BY BoundInit, <1>1, <1>2, PTL DEF Spec

-----------------------------------------------------------------------------
\* What any step of a thread is to the others: thread t was alive, the dead stay
\* dead, and only t may have panicked.
Runs(t) ==
    /\ Alive(t)
    /\ \A u \in Threads : ~Alive(u) => ~Alive(u)'
    /\ panicked' = panicked \/ (panicked' = panicked \cup {t} /\ ~Alive(t)')
    /\ UNCHANGED <<outcome, received, consumer, joining>>

\* A step of one thread brings no other thread back to life.
LEMMA MovesRuns ==
    ASSUME NEW t \in Threads, NEW to, Moves(t, to), Alive(t)
    PROVE  \A u \in Threads : ~Alive(u) => ~Alive(u)'
  BY DEF Moves, Alive

\* Every step of a thread is one.
LEMMA ThreadRuns ==
    ASSUME PcOK
    PROVE  /\ SourceStep => Runs(Source)
           /\ \A w \in Workers : WorkerStep(w) \/ SpuriousWakeup(w) => Runs(w)
           /\ CollectorStep => Runs(Collector)
<1>1. ASSUME SourceStep PROVE Runs(Source)
  <2>1. Alive(Source) /\ Source \in Threads
    BY <1>1, ThreadSets DEF SourceStep, SourceSend, SourceStop, SourcePanic, Alive
  <2>2. \A u \in Threads : ~Alive(u) => ~Alive(u)'
    BY <1>1, <2>1, SourceMoves, MovesRuns
  <2>3. /\ panicked' = panicked \/ (panicked' = panicked \cup {Source} /\ ~Alive(Source)')
        /\ UNCHANGED <<outcome, received, consumer, joining>>
    BY <1>1, <2>1 DEF SourceStep, SourceSend, SourceStop, SourcePanic, consumerVars, Goto,
                      Alive, PcOK
  <2>4. QED BY <2>1, <2>2, <2>3 DEF Runs
<1>2. ASSUME NEW w \in Workers, WorkerStep(w) \/ SpuriousWakeup(w) PROVE Runs(w)
  <2>1. Alive(w) /\ w \in Threads
    BY <1>2, ThreadSets DEF WorkerStep, SpuriousWakeup, Acquire, LockInput, ClaimInput,
           InputEnded, SendCompleted, TransformPanic, CloseCredits, WorkerExit, Alive
  <2>2. \A u \in Threads : ~Alive(u) => ~Alive(u)'
    BY <1>2, <2>1, WorkerMoves, MovesRuns
  <2>3. panicked' = panicked \/ (panicked' = panicked \cup {w} /\ ~Alive(w)')
    BY <1>2, <2>1 DEF WorkerStep, SpuriousWakeup, Acquire, LockInput, ClaimInput,
           InputEnded, SendCompleted, TransformPanic, CloseCredits, WorkerExit, Goto,
           Alive, PcOK
  <2>4. UNCHANGED <<outcome, received, consumer, joining>>
    BY <1>2 DEF WorkerStep, SpuriousWakeup, Acquire, LockInput, ClaimInput,
           InputEnded, SendCompleted, TransformPanic, CloseCredits, WorkerExit, consumerVars
  <2>5. QED BY <2>1, <2>2, <2>3, <2>4 DEF Runs
<1>3. ASSUME CollectorStep PROVE Runs(Collector)
  <2>1. Alive(Collector) /\ Collector \in Threads
    BY <1>3, ThreadSets DEF CollectorStep, CollectorRecv, CollectorEnd, CollectorSend,
           ReleaseCredit, CollectorClose, CollectorExit, Alive
  <2>2. \A u \in Threads : ~Alive(u) => ~Alive(u)'
    BY <1>3, <2>1, CollectorMoves, MovesRuns
  <2>3. UNCHANGED <<panicked, outcome, received, consumer, joining>>
    BY <1>3 DEF CollectorStep, CollectorRecv, CollectorEnd, CollectorSend,
           ReleaseCredit, CollectorClose, CollectorExit, consumerVars
  <2>4. QED BY <2>1, <2>2, <2>3 DEF Runs
<1>4. QED BY <1>1, <1>2, <1>3

\* finish joins downstream first: what it has passed is dead and has not panicked.
JoinInv ==
    /\ OutputOpen => joining = Collector
    /\ consumer = "joining" =>
          \A t \in Threads : t > joining => ~Alive(t) /\ t \notin panicked
    /\ FinishMeansJoined

\* After finish has joined every thread none of them runs, so none panics and
\* none moves.
LEMMA JoinStep == TypeInv /\ JoinInv /\ [Next]_vars => JoinInv'
<1> SUFFICES ASSUME TypeInv, JoinInv, [Next]_vars PROVE JoinInv'
  OBVIOUS
<1>1. PcOK /\ ConsumerOK /\ panicked \subseteq Threads
  BY DEF TypeInv, TypeOK, InputOK
<1>2. ASSUME NEW t \in Threads, Runs(t)
      PROVE  JoinInv'
  <2>1. consumer # "finished"
    BY <1>2 DEF JoinInv, FinishMeansJoined, Runs
  <2>2. consumer' = consumer /\ joining' = joining /\ panicked' \subseteq panicked \cup {t}
    BY <1>2 DEF Runs
  <2>3. consumer = "joining" => ~(t > joining)
    BY <1>2 DEF JoinInv, Runs
  <2>4. QED BY <1>2, <2>1, <2>2, <2>3 DEF JoinInv, FinishMeansJoined, Runs, OutputOpen
<1>3. CASE Recv
  BY <1>3 DEF Recv, JoinInv, FinishMeansJoined, OutputOpen
<1>4. CASE Finish \/ Drop
  <2>1. joining = Collector /\ joining' = Collector /\ consumer' \in {"joining", "dropped"}
    BY <1>4 DEF Finish, Drop, JoinInv
  <2>2. \A t \in Threads : ~(t > Collector)
    BY PipelineAssumption DEF Threads, Collector
  <2>3. QED BY <2>1, <2>2 DEF JoinInv, FinishMeansJoined, OutputOpen
<1>5. CASE Join
  <2>1. /\ consumer = "joining" /\ ~Alive(joining) /\ UNCHANGED <<pc, panicked>>
        /\ \A t \in Threads : t > joining => ~Alive(t) /\ t \notin panicked
    BY <1>5 DEF Join, JoinInv
  <2>2. joining \in Threads /\ \A t \in Threads : t \in Nat
    BY <1>1, PipelineAssumption DEF ConsumerOK, Threads
  <2>3. CASE consumer' = "panicked"
    BY <2>3 DEF JoinInv, FinishMeansJoined, OutputOpen
  <2>4. CASE joining \notin panicked /\ joining # Source /\ joining' = joining - 1 /\ consumer' = consumer
    <3>1. \A t \in Threads : t > joining - 1 => t = joining \/ t > joining
      BY <2>2
    <3>2. \A t \in Threads : t > joining - 1 => ~Alive(t)' /\ t \notin panicked'
      BY <2>1, <2>4, <3>1 DEF Alive
    <3>3. QED BY <2>1, <2>4, <3>2 DEF JoinInv, FinishMeansJoined, OutputOpen
  <2>5. CASE joining \notin panicked /\ joining = Source /\ consumer' = "finished" /\ joining' = joining
    <3>1. \A t \in Threads : t = joining \/ t > joining
      BY <2>2, <2>5 DEF Source
    <3>2. \A t \in Threads : ~Alive(t)' /\ t \notin panicked'
      BY <2>1, <2>5, <3>1 DEF Alive
    <3>3. panicked' = {}
      BY <1>1, <2>1, <3>2
    <3>4. QED BY <2>5, <3>2, <3>3 DEF JoinInv, FinishMeansJoined, OutputOpen
  <2>6. QED BY <1>5, <2>3, <2>4, <2>5 DEF Join
<1>6. CASE UNCHANGED vars
  BY <1>6 DEF vars, consumerVars, JoinInv, FinishMeansJoined, OutputOpen, Alive
<1>7. QED BY <1>1, <1>2, <1>3, <1>4, <1>5, <1>6, ThreadRuns, ThreadSets DEF Next, Done

\* pipeline.rs: finish returning Ok means that every thread has been joined and
\* that none of them panicked.
THEOREM FinishJoinsAll == Spec => []FinishMeansJoined
<1>1. Init => JoinInv
  BY DEF Init, JoinInv, FinishMeansJoined, OutputOpen
<1>2. JoinInv => FinishMeansJoined
  BY DEF JoinInv
<1>3. QED BY <1>1, <1>2, JoinStep, TypeCorrect, PTL DEF Spec

-----------------------------------------------------------------------------
\* The ordered stream.  An item is numbered in source order when it is claimed,
\* the reorder map gives the values back in that order, and no thread stops
\* before everything claimed has been delivered unless an error was.

\* The collector may still send.
Active == pc[Collector] \in {"recv", "send", "release"}

\* A value is its number, from the source channel to the reorder map.
Numbered ==
    /\ claimed + Len(inbox) <= sent
    /\ InputOpen => claimed + Len(inbox) = sent
    /\ \A i \in 1 .. Len(inbox) : inbox[i] = claimed + i - 1
    /\ \A w \in Workers : pc[w] = "work" =>
          claim[w].index = claim[w].item /\ claim[w].index < claimed
    /\ \A j \in 1 .. Len(completed) :
          completed[j].index = completed[j].item /\ completed[j].index < claimed
    /\ \A i \in DOMAIN pending : pending[i] = i /\ i < claimed

\* How many values the collector has sent in all.
Delivered == Len(received) + Len(output)

\* What the consumer has been given, and will find in its channel.
Ordered ==
    /\ \A i \in 1 .. Len(received) : received[i] = i - 1
    /\ OutputOpen =>
          /\ \A i \in 1 .. Len(output) : output[i] = Len(received) + i - 1
          /\ Active => Delivered = expected + Releasing
          /\ Delivered <= claimed
          /\ \A i \in 0 .. Delivered - 1 : Fails(i) => i = Delivered - 1 /\ ~Active

\* Every number given out is somewhere the collector gets it from, unless a
\* thread panicked, and the one it waits for is not in the map.
Tracked(i) ==
    \/ i < expected + Releasing
    \/ i \in DOMAIN pending
    \/ \E j \in 1 .. Len(completed) : completed[j].index = i
    \/ \E w \in Workers : pc[w] = "work" /\ claim[w].index = i

Accounted ==
    /\ pc[Collector] = "recv" => expected \notin DOMAIN pending
    /\ Active /\ panicked = {} => \A i \in 0 .. claimed - 1 : Tracked(i)

\* Why the stage may stop: all is claimed, or an error is.
Cause == claimed >= ItemCount \/ \E i \in 0 .. claimed - 1 : Fails(i)

Stopping == closed \/ \E w \in Workers : pc[w] \in {"closing", "exiting", "exited"}

\* Why the source may have stopped, and why the stream may have ended.
SourceOver == sent = ItemCount \/ ~InputOpen \/ (sent > 0 /\ Fails(sent - 1))
StreamOver == Delivered = ItemCount \/ (Delivered > 0 /\ Fails(Delivered - 1))

Stopped ==
    panicked = {} => /\ ~Alive(Source) => SourceOver
                     /\ Active /\ Stopping => Cause
                     /\ OutputOpen /\ ~Active => StreamOver

StreamInv == Numbered /\ Ordered /\ Accounted /\ Stopped

\* Initially nothing is numbered, buffered or received.
LEMMA StreamInit == Init => StreamInv
<1> SUFFICES ASSUME Init PROVE StreamInv
  OBVIOUS
<1>1. /\ received = <<>> /\ output = <<>> /\ completed = <<>> /\ inbox = <<>>
      /\ DOMAIN pending = {} /\ expected = 0 /\ claimed = 0 /\ sent = 0 /\ closed = FALSE
      /\ pc[Source] = "produce" /\ pc[Collector] = "recv"
      /\ \A w \in Workers : pc[w] = "acquire"
  BY ThreadSets DEF Init
<1>2. Numbered /\ Ordered /\ Accounted
  BY <1>1 DEF Numbered, Ordered, Accounted, Delivered, Releasing
<1>3. Stopped
  BY <1>1 DEF Stopped, Stopping, Active, Alive
<1>4. QED BY <1>2, <1>3 DEF StreamInv

\* Whoever moves, and whoever is woken by it, the other workers stay where they
\* were as far as the stream can tell.
Steady == {"work", "closing", "exiting", "exited"}

\* Being woken is the only thing that happens to a thread in another's step, and
\* no state of Steady is entered or left by it.
LEMMA OthersSteady ==
    ASSUME NEW t \in Threads, NEW to, Moves(t, to)
    PROVE  \A w \in Workers \ {t} : \A s \in Steady : pc'[w] = s <=> pc[w] = s
  BY ThreadSets DEF Moves, Steady

\* The source's steps keep StreamInv: what it sends gets the next number.
LEMMA StreamSource == TypeInv /\ StreamInv /\ SourceStep => StreamInv'
<1> SUFFICES ASSUME TypeInv, StreamInv, SourceStep PROVE StreamInv'
  OBVIOUS
<1>1. PICK to \in {"produce", "exited"} : Moves(Source, to)
  BY SourceMoves DEF TypeInv, TypeOK
<1>2. pc'[Collector] = pc[Collector] /\ \A w \in Workers : \A s \in Steady : pc'[w] = s <=> pc[w] = s
  BY <1>1, OthersSteady, ThreadSets DEF Moves
<1>3. UNCHANGED <<outcome, claimed, claim, completed, pending, expected, output, received,
                  consumer, closed>>
  BY DEF SourceStep, SourceSend, SourceStop, SourcePanic, inputVars, creditVars,
         collectorVars, consumerVars
<1>4. /\ Active' <=> Active
      /\ InputOpen' <=> InputOpen
      /\ Stopping' <=> Stopping
      /\ Releasing' = Releasing /\ Delivered' = Delivered /\ OutputOpen' = OutputOpen
      /\ Cause' <=> Cause
  BY <1>2, <1>3 DEF Active, InputOpen, Stopping, Releasing, Delivered, OutputOpen, Cause,
                    Alive, Steady, Fails
<1>5. panicked' = {} => panicked = {}
  BY DEF SourceStep, SourceSend, SourceStop, SourcePanic
<1>6. /\ inbox \in Seq(Nat) /\ claimed \in Nat /\ sent \in 0 .. ItemCount
      /\ pc \in [Threads -> States]
  BY DEF TypeInv, TypeOK, InputOK, PcOK
<1>7. Numbered'
  <2>1. /\ \A w \in Workers : pc'[w] = "work" =>
              claim'[w].index = claim'[w].item /\ claim'[w].index < claimed'
        /\ \A j \in 1 .. Len(completed') :
              completed'[j].index = completed'[j].item /\ completed'[j].index < claimed'
        /\ \A i \in DOMAIN pending' : pending'[i] = i /\ i < claimed'
    BY <1>2, <1>3 DEF StreamInv, Numbered, Steady
  <2>2. /\ claimed' + Len(inbox') <= sent'
        /\ InputOpen' => claimed' + Len(inbox') = sent'
        /\ \A i \in 1 .. Len(inbox') : inbox'[i] = claimed' + i - 1
    <3>1. CASE SourceSend
      <4>1. claimed + Len(inbox) = sent /\ inbox' = Append(inbox, sent) /\ sent' = sent + 1
        BY <3>1 DEF SourceSend, StreamInv, Numbered
      <4>2. Len(inbox') = Len(inbox) + 1 /\ Len(inbox) \in Nat
        BY <1>6, <4>1
      <4>3. \A i \in 1 .. Len(inbox') : inbox'[i] = IF i = Len(inbox) + 1 THEN sent ELSE inbox[i]
        BY <1>6, <4>1
      <4>4. QED BY <1>3, <1>6, <4>1, <4>2, <4>3 DEF StreamInv, Numbered
    <3>2. CASE SourceStop \/ SourcePanic
      <4>1. UNCHANGED <<inbox, sent>>
        BY <3>2 DEF SourceStop, SourcePanic, sourceVars
      <4>2. QED BY <1>3, <1>4, <4>1 DEF StreamInv, Numbered
    <3>3. QED BY <3>1, <3>2 DEF SourceStep
  <2>3. QED BY <2>1, <2>2 DEF Numbered
<1>8. Ordered'
  BY <1>3, <1>4 DEF StreamInv, Ordered, Fails
<1>9. Accounted'
  <2>1. \A i : Tracked(i) => Tracked(i)'
    BY <1>2, <1>3, <1>4 DEF Tracked, Steady
  <2>2. QED BY <1>2, <1>3, <1>4, <1>5, <2>1 DEF StreamInv, Accounted
<1>10. Stopped'
  <2>1. ~Alive(Source)' /\ panicked' = {} => SourceOver'
    <3>1. CASE SourceSend
      <4>1. sent' = sent + 1 /\ (~Alive(Source)' => outcome[sent] = "sourceErr")
        BY <1>6, <3>1, ThreadSets DEF SourceSend, Goto, Alive
      <4>2. ~Alive(Source)' => outcome'[sent' - 1] = "sourceErr" /\ sent' > 0
        BY <1>3, <1>6, <4>1
      <4>3. QED BY <4>2 DEF SourceOver, Fails, Errors
    <3>2. CASE SourceStop
      BY <1>4, <1>6, <3>2, PipelineAssumption DEF SourceStop, sourceVars, SourceOver
    <3>3. CASE SourcePanic
      BY <3>3 DEF SourcePanic
    <3>4. QED BY <3>1, <3>2, <3>3 DEF SourceStep
  <2>2. StreamOver' <=> StreamOver
    BY <1>3, <1>4 DEF StreamOver, Fails
  <2>3. QED BY <1>4, <1>5, <2>1, <2>2 DEF StreamInv, Stopped
<1>11. QED BY <1>7, <1>8, <1>9, <1>10 DEF StreamInv

\* A worker that is alive sees the whole source channel.
LEMMA StreamWorker ==
    ASSUME NEW w \in Workers
    PROVE  TypeInv /\ StreamInv /\ (WorkerStep(w) \/ SpuriousWakeup(w)) => StreamInv'
<1> SUFFICES ASSUME TypeInv, StreamInv, WorkerStep(w) \/ SpuriousWakeup(w) PROVE StreamInv'
  OBVIOUS
<1>1. PICK to \in WorkerStates : Moves(w, to)
  BY WorkerMoves DEF TypeInv, TypeOK
<1>2. /\ pc'[Collector] = pc[Collector] /\ pc'[Source] = pc[Source] /\ pc'[w] = to
      /\ \A v \in Workers \ {w} : \A s \in Steady : pc'[v] = s <=> pc[v] = s
      /\ Alive(w)
  BY <1>1, OthersSteady, ThreadSets, ThreadRuns DEF Moves, Runs, TypeInv, TypeOK
<1>3. UNCHANGED <<outcome, pending, expected, output, received, consumer, sent>>
  BY DEF WorkerStep, SpuriousWakeup, Acquire, LockInput, ClaimInput, InputEnded,
         SendCompleted, TransformPanic, CloseCredits, WorkerExit, sourceVars,
         collectorVars, consumerVars
<1>4. /\ Active' <=> Active
      /\ InputOpen' => InputOpen
      /\ Releasing' = Releasing /\ Delivered' = Delivered /\ OutputOpen' = OutputOpen
      /\ StreamOver' <=> StreamOver
  BY <1>2, <1>3 DEF Active, InputOpen, Releasing, Delivered, OutputOpen, StreamOver, Alive,
                    Steady, Fails
<1>5. panicked' = {} => panicked = {}
  BY ThreadRuns DEF Runs, TypeInv, TypeOK
<1>6. /\ inbox \in Seq(Nat) /\ claimed \in Nat /\ sent \in 0 .. ItemCount /\ ItemCount \in Nat
      /\ pc \in [Threads -> States] /\ claim \in [Workers -> Claims] /\ expected \in Nat
      /\ completed \in Seq(Claims) /\ w \in Threads /\ pc'[w] \in WorkerStates
  BY <1>1, <1>2, ThreadSets, PipelineAssumption DEF TypeInv, TypeOK, InputOK, PcOK, CollectorOK
<1>7. InputOpen /\ claimed + Len(inbox) = sent
  BY <1>2 DEF InputOpen, StreamInv, Numbered
<1>8. CASE ClaimInput(w)
  <2>1. /\ pc[w] = "recv" /\ inbox # <<>> /\ inbox' = Tail(inbox) /\ claimed' = claimed + 1
        /\ claim' = [claim EXCEPT ![w] = [index |-> claimed, item |-> Head(inbox)]]
        /\ pc'[w] = "work" /\ UNCHANGED <<completed, panicked, closed>>
    BY <1>8, <1>6 DEF ClaimInput, Goto, creditVars
  <2>2. /\ Len(inbox') = Len(inbox) - 1 /\ Len(inbox) \in Nat /\ Len(inbox) > 0
        /\ \A i \in 1 .. Len(inbox') : inbox'[i] = inbox[i + 1]
        /\ Head(inbox) = inbox[1]
    BY <1>6, <2>1
  <2>3. claim'[w].index = claimed /\ claim'[w].item = claimed
    BY <1>6, <2>1, <2>2 DEF StreamInv, Numbered
  <2>4. \A v \in Workers \ {w} : claim'[v] = claim[v]
    BY <1>6, <2>1
  <2>5. \A v \in Workers : pc'[v] = "work" =>
            claim'[v].index = claim'[v].item /\ claim'[v].index < claimed'
    <3>1. ASSUME NEW v \in Workers \ {w}, pc'[v] = "work"
          PROVE  claim'[v].index = claim'[v].item /\ claim'[v].index < claimed'
      <4>1. pc[v] = "work" /\ claim'[v] = claim[v] /\ claim[v].index \in Nat
        BY <1>2, <1>6, <2>4, <3>1 DEF Steady, Claims
      <4>2. QED BY <1>6, <2>1, <4>1 DEF StreamInv, Numbered
    <3>2. QED BY <1>6, <2>1, <2>3, <3>1
  <2>6. Numbered'
    <3>1. /\ \A j \in 1 .. Len(completed') :
                completed'[j].index = completed'[j].item /\ completed'[j].index < claimed'
      <4>1. \A j \in 1 .. Len(completed) : completed[j].index \in Nat
        <5>1. \A j \in 1 .. Len(completed) : completed[j] \in Claims
          BY <1>6
        <5>2. QED BY <5>1 DEF Claims
      <4>2. QED BY <1>6, <2>1, <4>1 DEF StreamInv, Numbered
    <3>2. \A i \in DOMAIN pending' : pending'[i] = i /\ i < claimed'
      <4>1. \A i \in DOMAIN pending : i \in Nat
        BY DEF TypeInv, TypeOK, CollectorOK, PendingOK
      <4>2. QED BY <1>3, <1>6, <2>1, <4>1 DEF StreamInv, Numbered
    <3>3. /\ claimed' + Len(inbox') = sent'
          /\ \A i \in 1 .. Len(inbox') : inbox'[i] = claimed' + i - 1
      <4>1. claimed' + Len(inbox') = sent'
        <5> DEFINE n == Len(inbox)
                   m == Len(inbox')
        <5>1. /\ n \in Nat /\ m = n - 1 /\ claimed \in Nat /\ sent \in Nat /\ claimed + n = sent
              /\ claimed' = claimed + 1 /\ sent' = sent
          BY <1>3, <1>6, <1>7, <2>1, <2>2
        <5> HIDE DEF n, m
        <5>2. claimed' + m = sent'
          BY <5>1
        <5>3. QED BY <5>2 DEF m
      <4>2. \A i \in 1 .. Len(inbox) : inbox[i] = claimed + i - 1
        BY DEF StreamInv, Numbered
      <4>3. ASSUME NEW i \in 1 .. Len(inbox')
            PROVE  inbox'[i] = claimed' + i - 1
        <5>1. i + 1 \in 1 .. Len(inbox) /\ inbox'[i] = inbox[i + 1]
          BY <2>2
        <5>2. inbox[i + 1] = claimed + (i + 1) - 1
          BY <4>2, <5>1
        <5>3. QED BY <1>6, <2>1, <5>1, <5>2
      <4>4. QED BY <4>1, <4>3
    <3>4. claimed' + Len(inbox') <= sent'
      BY <1>3, <1>6, <3>3
    <3>5. QED BY <2>5, <3>1, <3>2, <3>3, <3>4 DEF Numbered
  <2>7. Ordered'
    <3>1. Delivered \in Nat
      BY DEF TypeInv, TypeOK, CollectorOK, ConsumerOK, Delivered
    <3>2. Delivered <= claimed => Delivered <= claimed'
      BY <1>6, <2>1, <3>1
    <3>3. QED BY <1>3, <1>4, <3>2 DEF StreamInv, Ordered, Fails
  <2>8. Accounted'
    <3>1. \A i : Tracked(i) => Tracked(i)'
      <4>1. \A v \in Workers : pc[v] = "work" => v # w /\ pc'[v] = "work" /\ claim'[v] = claim[v]
        BY <1>2, <2>1, <2>4 DEF Steady
      <4>2. QED BY <1>3, <1>4, <2>1, <4>1 DEF Tracked
    <3>2. ASSUME NEW i, i = claimed
          PROVE  Tracked(i)'
      BY <2>1, <2>3, <3>2 DEF Tracked
    <3>3. \A i \in 0 .. claimed' - 1 : i \in 0 .. claimed - 1 \/ i = claimed
      BY <1>6, <2>1
    <3>4. Active' /\ panicked' = {} => \A i \in 0 .. claimed' - 1 : Tracked(i)'
      BY <1>4, <1>5, <3>1, <3>2, <3>3 DEF StreamInv, Accounted
    <3>5. QED BY <1>2, <1>3, <3>4 DEF StreamInv, Accounted
  <2>9. Stopped'
    <3>1. SourceOver => SourceOver'
      BY <1>3, <1>4 DEF SourceOver, Fails
    <3>2. Cause => Cause'
      BY <1>3, <1>6, <2>1 DEF Cause, Fails
    <3>3. Stopping' => Stopping
      BY <1>2, <2>1 DEF Stopping, Steady
    <3>4. QED BY <1>2, <1>4, <1>5, <3>1, <3>2, <3>3 DEF StreamInv, Stopped, Alive
  <2>10. QED BY <2>6, <2>7, <2>8, <2>9 DEF StreamInv
<1>9. CASE ~ClaimInput(w)
  <2>1. UNCHANGED <<claimed, claim>> /\ pc'[w] # "work"
    BY <1>6, <1>9 DEF WorkerStep, SpuriousWakeup, Acquire, LockInput, InputEnded,
           SendCompleted, TransformPanic, CloseCredits, WorkerExit, inputVars, Goto, NotifyAll
  <2>2. \A v \in Workers : pc'[v] = "work" => pc[v] = "work" /\ v # w
    BY <1>2, <2>1 DEF Steady
  <2>3. \/ UNCHANGED completed
        \/ completed' = Append(completed, claim[w]) /\ pc[w] = "work"
    BY <1>9 DEF WorkerStep, SpuriousWakeup, Acquire, LockInput, InputEnded,
           SendCompleted, TransformPanic, CloseCredits, WorkerExit
  <2>4. \A j \in 1 .. Len(completed') :
           \/ completed'[j] = claim[w] /\ pc[w] = "work"
           \/ j \in 1 .. Len(completed) /\ completed'[j] = completed[j]
    BY <1>6, <2>3
  <2>5. Numbered'
    <3>1. \/ inbox' = inbox
          \/ inbox' = <<>> /\ ~InputOpen'
      <4>1. CASE TransformPanic(w)
        <5>1. pc'[w] = "exited"
          BY <1>6, <4>1 DEF TransformPanic, Goto
        <5>2. (\A v \in Workers \ {w} : ~Alive(v)) => ~InputOpen'
          BY <1>2, <5>1 DEF InputOpen, Alive, Steady
        <5>3. QED BY <4>1, <5>2 DEF TransformPanic, DropInput
      <4>2. CASE WorkerExit(w)
        <5>1. pc'[w] = "exited"
          BY <1>6, <4>2 DEF WorkerExit, Goto
        <5>2. (\A v \in Workers \ {w} : ~Alive(v)) => ~InputOpen'
          BY <1>2, <5>1 DEF InputOpen, Alive, Steady
        <5>3. QED BY <4>2, <5>2 DEF WorkerExit, DropInput
      <4>3. CASE ~TransformPanic(w) /\ ~WorkerExit(w)
        BY <1>9, <4>3 DEF WorkerStep, SpuriousWakeup, Acquire, LockInput, InputEnded,
                          SendCompleted, CloseCredits
      <4>4. QED BY <4>1, <4>2, <4>3
    <3>2. /\ claimed' + Len(inbox') <= sent'
          /\ InputOpen' => claimed' + Len(inbox') = sent'
          /\ \A i \in 1 .. Len(inbox') : inbox'[i] = claimed' + i - 1
      <4>1. CASE inbox' = inbox
        BY <1>3, <1>6, <1>7, <2>1, <4>1 DEF StreamInv, Numbered
      <4>2. CASE inbox' = <<>> /\ ~InputOpen'
        <5>1. Len(inbox) \in Nat /\ Len(inbox') = 0
          BY <1>6, <4>2
        <5>2. QED BY <1>3, <1>6, <1>7, <2>1, <4>2, <5>1
      <4>3. QED BY <3>1, <4>1, <4>2
    <3>3. QED BY <1>3, <2>1, <2>2, <2>4, <3>2 DEF StreamInv, Numbered
  <2>6. Ordered'
    BY <1>3, <1>4, <2>1 DEF StreamInv, Ordered, Fails
  <2>7. Accounted'
    <3>1. ASSUME panicked' = {}, Active, NEW i, Tracked(i)
          PROVE  Tracked(i)'
      <4>1. CASE pc[w] = "work" /\ claim[w].index = i
        <5>1. SendCompleted(w) /\ Alive(Collector)
          BY <3>1, <4>1, <1>9 DEF WorkerStep, SpuriousWakeup, Acquire, LockInput, InputEnded,
                 TransformPanic, CloseCredits, WorkerExit, Active, Alive
        <5>2. completed' = Append(completed, claim[w])
          BY <5>1 DEF SendCompleted
        <5>3. Len(completed') = Len(completed) + 1 /\ completed'[Len(completed) + 1] = claim[w]
          BY <1>6, <5>2
        <5>4. Len(completed) + 1 \in 1 .. Len(completed')
          BY <1>6, <5>3
        <5>5. QED BY <4>1, <5>3, <5>4 DEF Tracked
      <4>2. CASE \E j \in 1 .. Len(completed) : completed[j].index = i
        <5>1. \A j \in 1 .. Len(completed) : j \in 1 .. Len(completed') /\ completed'[j] = completed[j]
          BY <1>6, <2>3
        <5>2. QED BY <4>2, <5>1 DEF Tracked
      <4>3. CASE \E v \in Workers \ {w} : pc[v] = "work" /\ claim[v].index = i
        BY <1>2, <2>1, <4>3 DEF Tracked, Steady
      <4>4. CASE i < expected + Releasing \/ i \in DOMAIN pending
        BY <1>3, <1>4, <4>4 DEF Tracked
      <4>5. QED BY <3>1, <4>1, <4>2, <4>3, <4>4 DEF Tracked
    <3>2. QED BY <1>2, <1>3, <1>4, <1>5, <2>1, <3>1 DEF StreamInv, Accounted
  <2>8. Stopped'
    <3>1. SourceOver => SourceOver'
      BY <1>3, <1>4 DEF SourceOver, Fails
    <3>2. Cause' <=> Cause
      BY <1>3, <2>1 DEF Cause, Fails
    <3>3. ASSUME panicked' = {}, Active, Stopping'
          PROVE  Cause
      <4>1. CASE Stopping
        BY <1>5, <3>3, <4>1 DEF StreamInv, Stopped
      <4>2. CASE InputEnded(w)
        <5>1. inbox = <<>> /\ ~Alive(Source)
          BY <4>2 DEF InputEnded
        <5>2. claimed = sent
          BY <1>6, <1>7, <5>1
        <5>3. SourceOver
          BY <1>5, <3>3, <5>1 DEF StreamInv, Stopped
        <5>4. QED BY <1>6, <1>7, <5>2, <5>3 DEF SourceOver, Cause
      <4>3. CASE SendCompleted(w) /\ ~Stopping
        <5>1. Alive(Collector) /\ pc[w] = "work" /\ pc'[w] \in Steady
          BY <1>2, <3>3, <4>3 DEF Active, Alive, Stopping, Steady, SendCompleted, creditVars
        <5>2. Fails(claim[w].item)
          BY <1>6, <4>3, <5>1 DEF SendCompleted, Goto, Steady
        <5>3. claim[w].item \in 0 .. claimed - 1
          <6>1. claim[w].item \in Nat /\ claim[w].item < claimed
            BY <1>6, <5>1 DEF StreamInv, Numbered, Claims
          <6>2. QED BY <1>6, <6>1
        <5>4. QED BY <5>2, <5>3 DEF Cause
      <4>4. CASE ~Stopping /\ ~InputEnded(w) /\ ~SendCompleted(w)
        <5>1. closed' = closed /\ pc'[w] \notin {"closing", "exiting", "exited"}
          BY <1>5, <1>6, <1>9, <3>3, <4>4 DEF WorkerStep, SpuriousWakeup, Acquire, LockInput,
                 TransformPanic, CloseCredits, WorkerExit, Stopping, creditVars, Goto
        <5>2. QED BY <1>2, <3>3, <4>4, <5>1 DEF Stopping, Steady
      <4>5. QED BY <4>1, <4>2, <4>3, <4>4
    <3>4. QED BY <1>2, <1>4, <1>5, <3>1, <3>2, <3>3 DEF StreamInv, Stopped, Alive
  <2>9. QED BY <2>5, <2>6, <2>7, <2>8 DEF StreamInv
<1>10. QED BY <1>8, <1>9

\* The terms the collector works with.
LEMMA CollectorTypes ==
    ASSUME TypeInv
    PROVE  /\ expected \in Nat /\ claimed \in Nat /\ sent \in 0 .. ItemCount
           /\ completed \in Seq(Claims) /\ output \in Seq(Nat) /\ received \in Seq(Nat)
           /\ Len(output) \in Nat /\ Len(received) \in Nat /\ Releasing \in {0, 1}
           /\ pc \in [Threads -> States] /\ Collector \in Threads /\ ItemCount \in Nat
           /\ \A i \in DOMAIN pending : i \in Nat
  BY ThreadSets, PipelineAssumption
     DEF TypeInv, TypeOK, InputOK, PcOK, CollectorOK, PendingOK, ConsumerOK, Releasing

\* The collector's steps keep StreamInv: it emits the expected index only, and
\* counts each result once.
LEMMA StreamCollector == TypeInv /\ StreamInv /\ CollectorStep => StreamInv'
<1> SUFFICES ASSUME TypeInv, StreamInv, CollectorStep PROVE StreamInv'
  OBVIOUS
<1>1. PICK to \in CollectorStates : Moves(Collector, to)
  BY CollectorMoves DEF TypeInv, TypeOK
<1>2. /\ pc'[Source] = pc[Source] /\ pc'[Collector] = to
      /\ \A w \in Workers : \A s \in Steady : pc'[w] = s <=> pc[w] = s
  BY <1>1, OthersSteady, ThreadSets DEF Moves
<1>3. UNCHANGED <<outcome, inbox, claimed, claim, received, consumer, sent, panicked>>
  BY DEF CollectorStep, CollectorRecv, CollectorEnd, CollectorSend, ReleaseCredit,
         CollectorClose, CollectorExit, sourceVars, inputVars, consumerVars
<1>4. /\ InputOpen' <=> InputOpen
      /\ OutputOpen' = OutputOpen
      /\ Cause' <=> Cause
      /\ SourceOver' <=> SourceOver
  BY <1>2, <1>3 DEF InputOpen, OutputOpen, Cause, SourceOver, Alive, Steady, Fails
<1>5. /\ expected \in Nat /\ claimed \in Nat /\ sent \in 0 .. ItemCount
      /\ completed \in Seq(Claims) /\ output \in Seq(Nat) /\ received \in Seq(Nat)
      /\ Len(output) \in Nat /\ Len(received) \in Nat /\ Releasing \in {0, 1}
      /\ pc \in [Threads -> States] /\ Collector \in Threads /\ ItemCount \in Nat
      /\ \A i \in DOMAIN pending : i \in Nat
  BY CollectorTypes
<1>6. /\ claimed' + Len(inbox') <= sent'
      /\ InputOpen' => claimed' + Len(inbox') = sent'
      /\ \A i \in 1 .. Len(inbox') : inbox'[i] = claimed' + i - 1
      /\ \A w \in Workers : pc'[w] = "work" =>
            claim'[w].index = claim'[w].item /\ claim'[w].index < claimed'
  BY <1>2, <1>3, <1>4 DEF StreamInv, Numbered, Steady
<1>7. CASE CollectorRecv
  <2>1. /\ completed # <<>> /\ completed' = Tail(completed) /\ pc[Collector] = "recv"
        /\ pending' = [i \in DOMAIN pending \cup {Head(completed).index} |->
                          IF i = Head(completed).index THEN Head(completed).item
                          ELSE pending[i]]
        /\ to = AfterInsert(expected, pending') /\ UNCHANGED <<expected, output, closed>>
    BY <1>2, <1>5, <1>7 DEF CollectorRecv, Goto, creditVars
  <2>2. /\ Head(completed) = completed[1] /\ Len(completed') = Len(completed) - 1
        /\ Len(completed) \in Nat \ {0}
        /\ \A j \in 1 .. Len(completed') : completed'[j] = completed[j + 1]
    BY <1>5, <2>1
  <2>3. completed[1].index = completed[1].item /\ completed[1].index < claimed
    BY <2>2 DEF StreamInv, Numbered
  <2>4. Numbered'
    <3>1. \A j \in 1 .. Len(completed') :
             completed'[j].index = completed'[j].item /\ completed'[j].index < claimed'
      BY <1>3, <2>2 DEF StreamInv, Numbered
    <3>2. \A i \in DOMAIN pending' : pending'[i] = i /\ i < claimed'
      BY <1>3, <2>1, <2>2, <2>3 DEF StreamInv, Numbered
    <3>3. QED BY <1>6, <3>1, <3>2 DEF Numbered
  <2>5. /\ Active /\ Active' /\ Releasing = 0 /\ Releasing' = 0 /\ Delivered' = Delivered
        /\ pc'[Collector] = "recv" => expected' \notin DOMAIN pending'
    BY <1>2, <1>3, <2>1 DEF Active, Releasing, Delivered, AfterInsert
  <2>6. Ordered'
    BY <1>3, <1>4, <2>1, <2>5 DEF StreamInv, Ordered, Fails
  <2>7. \A i : Tracked(i) => Tracked(i)'
    <3>1. SUFFICES ASSUME NEW i, Tracked(i) PROVE Tracked(i)'
      OBVIOUS
    <3>2. CASE \E j \in 1 .. Len(completed) : completed[j].index = i
      <4>1. PICK j \in 1 .. Len(completed) : completed[j].index = i
        BY <3>2
      <4>2. CASE j = 1
        BY <2>1, <2>2, <4>1, <4>2 DEF Tracked
      <4>3. CASE j # 1
        <5>1. j - 1 \in 1 .. Len(completed') /\ completed'[j - 1] = completed[j]
          BY <2>2, <4>3
        <5>2. QED BY <4>1, <5>1 DEF Tracked
      <4>4. QED BY <4>2, <4>3
    <3>3. CASE \E w \in Workers : pc[w] = "work" /\ claim[w].index = i
      BY <1>2, <1>3, <3>3 DEF Tracked, Steady
    <3>4. CASE i < expected + Releasing \/ i \in DOMAIN pending
      BY <2>1, <2>5, <3>4 DEF Tracked
    <3>5. QED BY <3>1, <3>2, <3>3, <3>4 DEF Tracked
  <2>8. Accounted'
    BY <1>3, <2>5, <2>7 DEF StreamInv, Accounted
  <2>9. Stopped'
    <3>1. Stopping' <=> Stopping
      BY <1>2, <2>1 DEF Stopping, Steady
    <3>2. QED BY <1>2, <1>3, <1>4, <2>5, <3>1 DEF StreamInv, Stopped, Alive
  <2>10. QED BY <2>4, <2>6, <2>8, <2>9 DEF StreamInv
<1>8. CASE CollectorSend
  <2>1. /\ pc[Collector] = "send" /\ pending' = [i \in DOMAIN pending \ {expected} |-> pending[i]]
        /\ UNCHANGED <<completed, expected, closed>> /\ Active /\ Releasing = 0
        /\ expected \in DOMAIN pending
    BY <1>8 DEF CollectorSend, creditVars, Active, Releasing, TypeInv, SendHasValue
  <2>2. pending[expected] = expected /\ expected < claimed
    BY <2>1 DEF StreamInv, Numbered
  <2>3. Numbered'
    BY <1>3, <1>6, <2>1 DEF StreamInv, Numbered
  <2>4. CASE OutputOpen
    <3>1. /\ output' = Append(output, expected)
          /\ to = IF Fails(expected) THEN "closing" ELSE "release"
      BY <1>2, <1>5, <1>8, <2>2, <2>4 DEF CollectorSend, Goto
    <3>2. /\ Len(output') = Len(output) + 1
          /\ output'[Len(output) + 1] = expected
          /\ \A i \in 1 .. Len(output) : output'[i] = output[i]
      BY <1>5, <3>1
    <3>3. Delivered = expected /\ Delivered' = expected + 1 /\ Delivered' = Delivered + 1
      <4>1. Delivered = expected
        BY <1>5, <2>1, <2>4 DEF StreamInv, Ordered
      <4>2. Delivered' = Delivered + 1
        BY <1>3, <1>5, <3>2 DEF Delivered
      <4>3. QED BY <4>1, <4>2
    <3>4. /\ Active' <=> ~Fails(expected)
          /\ Active' => Releasing' = 1
          /\ pc'[Collector] # "recv"
      BY <1>2, <3>1 DEF Active, Releasing
    <3>5. Ordered'
      <4>1. \A i \in 1 .. Len(output') : output'[i] = Len(received') + i - 1
        <5>1. ASSUME NEW i \in 1 .. Len(output')
              PROVE  output'[i] = Len(received') + i - 1
          <6>1. CASE i = Len(output) + 1
            <7>1. Len(received) + Len(output) = expected
              BY <3>3 DEF Delivered
            <7>2. QED BY <1>3, <1>5, <3>2, <6>1, <7>1
          <6>2. CASE i # Len(output) + 1
            <7>1. i \in 1 .. Len(output)
              BY <1>5, <3>2, <6>2
            <7>2. QED BY <1>3, <2>4, <3>2, <7>1 DEF StreamInv, Ordered
          <6>3. QED BY <6>1, <6>2
        <5>2. QED BY <5>1
      <4>2. Active' => Delivered' = expected' + Releasing'
        BY <2>1, <3>3, <3>4
      <4>3. Delivered' <= claimed'
        BY <1>3, <1>5, <2>2, <3>3
      <4>4. \A i \in 0 .. Delivered' - 1 : Fails(i)' => i = Delivered' - 1 /\ ~Active'
        <5>1. ASSUME NEW i \in 0 .. Delivered' - 1, Fails(i)'
              PROVE  i = Delivered' - 1 /\ ~Active'
          <6>1. Fails(i)
            BY <1>3, <5>1 DEF Fails
          <6>2. i \notin 0 .. Delivered - 1
            BY <2>1, <2>4, <6>1 DEF StreamInv, Ordered
          <6>3. i = expected
            BY <1>5, <3>3, <5>1, <6>2
          <6>4. QED BY <1>5, <3>3, <3>4, <6>1, <6>3
        <5>2. QED BY <5>1
      <4>5. \A i \in 1 .. Len(received') : received'[i] = i - 1
        BY <1>3 DEF StreamInv, Ordered
      <4>6. QED BY <4>1, <4>2, <4>3, <4>4, <4>5 DEF Ordered
    <3>6. Accounted'
      <4>1. ASSUME Active', NEW i \in 0 .. claimed - 1, Tracked(i)
            PROVE  Tracked(i)'
        <5>1. CASE i < expected \/ i = expected
          <6>1. i < expected' + Releasing'
            BY <1>5, <2>1, <3>4, <4>1, <5>1
          <6>2. QED BY <6>1 DEF Tracked
        <5>2. CASE i \in DOMAIN pending /\ i # expected
          BY <2>1, <5>2 DEF Tracked
        <5>3. CASE \/ \E j \in 1 .. Len(completed) : completed[j].index = i
                   \/ \E w \in Workers : pc[w] = "work" /\ claim[w].index = i
          BY <1>2, <1>3, <2>1, <5>3 DEF Tracked, Steady
        <5>4. QED BY <1>5, <2>1, <4>1, <5>1, <5>2, <5>3 DEF Tracked
      <4>2. QED BY <1>3, <2>1, <3>4, <4>1 DEF StreamInv, Accounted
    <3>7. Stopped'
      <4>1. Stopping' <=> Stopping
        BY <1>2, <2>1 DEF Stopping, Steady
      <4>2. ~Active' => StreamOver'
        <5>1. ~Active' => Fails(expected)' /\ Delivered' - 1 = expected /\ Delivered' > 0
          BY <1>3, <1>5, <2>1, <3>3, <3>4 DEF Fails
        <5>2. ~Active' => outcome'[Delivered' - 1] \in Errors /\ Delivered' > 0
          BY <1>3, <2>1, <5>1 DEF Fails
        <5>3. QED BY <5>2 DEF StreamOver, Fails
      <4>3. QED BY <1>2, <1>3, <1>4, <2>1, <4>1, <4>2 DEF StreamInv, Stopped, Alive
    <3>8. QED BY <2>3, <3>5, <3>6, <3>7 DEF StreamInv
  <2>5. CASE ~OutputOpen
    <3>1. to = "closing" /\ UNCHANGED output
      BY <1>2, <1>5, <1>8, <2>5 DEF CollectorSend, Goto
    <3>2. ~Active' /\ ~OutputOpen' /\ pc'[Collector] # "recv"
      BY <1>2, <1>4, <2>5, <3>1 DEF Active
    <3>3. QED BY <1>2, <1>3, <1>4, <2>3, <3>2 DEF StreamInv, Ordered, Accounted, Stopped, Alive
  <2>6. QED BY <2>4, <2>5
<1>9. CASE ReleaseCredit
  <2>1. /\ pc[Collector] = "release" /\ expected' = expected + 1
        /\ UNCHANGED <<closed, completed, pending, output>>
    BY <1>9 DEF ReleaseCredit
  <2>2. to = AfterInsert(expected + 1, pending)
    <3>1. AfterInsert(expected + 1, pending) \in CollectorStates
      BY DEF AfterInsert, CollectorStates
    <3>2. Allowed(Collector, AfterInsert(expected + 1, pending))
      BY <3>1, ThreadSets DEF Allowed
    <3>3. pc'[Collector] = AfterInsert(expected + 1, pending)
      BY <1>9, <3>2, NotifyOneMoves DEF ReleaseCredit, Moves, TypeInv, TypeOK
    <3>4. QED BY <1>2, <3>3
  <2>3. /\ Active /\ Active' /\ Releasing = 1 /\ Releasing' = 0 /\ Delivered' = Delivered
        /\ pc'[Collector] = "recv" => expected' \notin DOMAIN pending'
        /\ expected' + Releasing' = expected + Releasing
    BY <1>2, <1>3, <1>5, <2>1, <2>2 DEF Active, Releasing, Delivered, AfterInsert
  <2>4. Numbered'
    BY <1>3, <1>6, <2>1 DEF StreamInv, Numbered
  <2>5. Ordered'
    BY <1>3, <1>4, <2>1, <2>3 DEF StreamInv, Ordered, Fails
  <2>6. \A i : Tracked(i) => Tracked(i)'
    BY <1>2, <1>3, <2>1, <2>3 DEF Tracked, Steady
  <2>7. Accounted'
    BY <1>3, <2>3, <2>6 DEF StreamInv, Accounted
  <2>8. Stopped'
    <3>1. Stopping' <=> Stopping
      BY <1>2, <2>1 DEF Stopping, Steady
    <3>2. QED BY <1>2, <1>3, <1>4, <2>3, <3>1 DEF StreamInv, Stopped, Alive
  <2>9. QED BY <2>4, <2>5, <2>7, <2>8 DEF StreamInv
<1>10. CASE CollectorEnd
  <2>1. /\ pc[Collector] = "recv" /\ completed = <<>> /\ ~InputOpen /\ to = "closing"
        /\ UNCHANGED <<completed, pending, expected, output>>
    BY <1>2, <1>5, <1>10 DEF CollectorEnd, Goto, collectorVars
  <2>2. /\ Active /\ ~Active' /\ Releasing = 0 /\ pc'[Collector] # "recv"
        /\ Delivered' = Delivered
    BY <1>2, <1>3, <2>1 DEF Active, Releasing, Delivered
  <2>3. Numbered'
    BY <1>3, <1>6, <2>1 DEF StreamInv, Numbered
  <2>4. Ordered'
    BY <1>3, <1>4, <2>1, <2>2 DEF StreamInv, Ordered, Fails
  <2>5. OutputOpen /\ panicked = {} => StreamOver
    <3>1. SUFFICES ASSUME OutputOpen, panicked = {} PROVE StreamOver
      OBVIOUS
    <3>2. Delivered = expected /\ Delivered <= claimed
      BY <1>5, <2>2, <3>1 DEF StreamInv, Ordered
    <3>3. ~(expected < claimed)
      <4>1. SUFFICES ASSUME expected < claimed PROVE FALSE
        OBVIOUS
      <4>2. Tracked(expected)
        BY <1>5, <2>2, <3>1, <4>1 DEF StreamInv, Accounted
      <4>3. expected \notin DOMAIN pending
        BY <2>1 DEF StreamInv, Accounted
      <4>4. \A w \in Workers : pc[w] # "work"
        BY <2>1 DEF InputOpen, Alive
      <4>5. QED BY <1>5, <2>1, <2>2, <4>2, <4>3, <4>4 DEF Tracked
    <3>4. Delivered = claimed
      BY <1>5, <3>2, <3>3
    <3>5. Cause
      <4>1. 1 \in Workers
        BY PipelineAssumption DEF Workers
      <4>2. Stopping
        BY <2>1, <4>1 DEF Stopping, InputOpen, Alive
      <4>3. QED BY <2>2, <3>1, <4>2 DEF StreamInv, Stopped
    <3>6. \A i \in 0 .. claimed - 1 : ~Fails(i)
      BY <2>2, <3>1, <3>4 DEF StreamInv, Ordered
    <3>7. claimed >= ItemCount
      BY <3>5, <3>6 DEF Cause
    <3>8. claimed <= sent
      <4>1. claimed + Len(inbox) <= sent /\ Len(inbox) \in Nat
        BY DEF StreamInv, Numbered, TypeInv, TypeOK, InputOK
      <4>2. QED BY <1>5, <4>1
    <3>9. QED BY <1>5, <3>4, <3>7, <3>8 DEF StreamOver
  <2>6. StreamOver' <=> StreamOver
    BY <1>3, <2>2 DEF StreamOver, Fails
  <2>7. QED BY <1>2, <1>3, <1>4, <2>2, <2>3, <2>4, <2>5, <2>6
            DEF StreamInv, Accounted, Stopped, Alive
<1>11. CASE CollectorClose \/ CollectorExit
  <2>1. /\ ~Active /\ to \in {"exiting", "exited"} /\ UNCHANGED <<pending, expected, output>>
        /\ completed' = completed \/ completed' = <<>>
    BY <1>2, <1>5, <1>11 DEF CollectorClose, CollectorExit, Goto, NotifyAll, Active, collectorVars
  <2>2. ~Active' /\ pc'[Collector] # "recv" /\ Delivered' = Delivered
    BY <1>2, <1>3, <2>1 DEF Active, Delivered
  <2>3. \A j \in 1 .. Len(completed') : j \in 1 .. Len(completed) /\ completed'[j] = completed[j]
    BY <2>1
  <2>4. Numbered'
    BY <1>3, <1>6, <2>1, <2>3 DEF StreamInv, Numbered
  <2>5. Ordered'
    BY <1>3, <1>4, <2>1, <2>2 DEF StreamInv, Ordered, Fails
  <2>6. StreamOver' <=> StreamOver
    BY <1>3, <2>2 DEF StreamOver, Fails
  <2>7. QED BY <1>2, <1>3, <1>4, <2>1, <2>2, <2>4, <2>5, <2>6
            DEF StreamInv, Accounted, Stopped, Alive
<1>12. QED BY <1>7, <1>8, <1>9, <1>10, <1>11 DEF CollectorStep

\* The consumer's calls keep StreamInv: recv takes the first output, drop and
\* finish end the stream.
LEMMA StreamConsumer == TypeInv /\ StreamInv /\ (Recv \/ Finish \/ Drop \/ Join) => StreamInv'
<1> SUFFICES ASSUME TypeInv, StreamInv, Recv \/ Finish \/ Drop \/ Join PROVE StreamInv'
  OBVIOUS
<1>1. UNCHANGED <<outcome, pc, panicked, sent, inbox, claimed, claim, closed, completed,
                  pending, expected>>
  BY DEF Recv, Finish, Drop, Join, sourceVars, inputVars, creditVars, collectorVars
<1>2. /\ Active' <=> Active
      /\ InputOpen' <=> InputOpen
      /\ Stopping' <=> Stopping
      /\ Cause' <=> Cause
      /\ SourceOver' <=> SourceOver
      /\ Releasing' = Releasing
      /\ \A i : Tracked(i)' <=> Tracked(i)
  BY <1>1 DEF Active, InputOpen, Stopping, Cause, SourceOver, Releasing, Tracked, Alive, Fails
<1>3. Numbered' /\ Accounted'
  BY <1>1, <1>2 DEF StreamInv, Numbered, Accounted
<1>4. output \in Seq(Nat) /\ received \in Seq(Nat) /\ Len(output) \in Nat /\ Len(received) \in Nat
  BY CollectorTypes
<1>5. CASE Recv /\ output # <<>>
  <2>1. received' = Append(received, Head(output)) /\ output' = Tail(output) /\ OutputOpen
        /\ OutputOpen' = OutputOpen
    BY <1>5 DEF Recv, OutputOpen
  <2>2. /\ Len(received') = Len(received) + 1 /\ Len(output') = Len(output) - 1
        /\ received'[Len(received) + 1] = output[1] /\ 1 \in 1 .. Len(output)
        /\ \A i \in 1 .. Len(received) : received'[i] = received[i]
        /\ \A i \in 1 .. Len(output') : i + 1 \in 1 .. Len(output) /\ output'[i] = output[i + 1]
    BY <1>4, <1>5, <2>1
  <2>3. Delivered' = Delivered
    BY <1>4, <2>2 DEF Delivered
  <2>4. \A i \in 1 .. Len(output) : output[i] = Len(received) + i - 1
    BY <2>1 DEF StreamInv, Ordered
  <2>5. \A i \in 1 .. Len(received') : received'[i] = i - 1
    <3>1. ASSUME NEW i \in 1 .. Len(received') PROVE received'[i] = i - 1
      <4>1. i \in 1 .. Len(received) \/ i = Len(received) + 1
        <5> DEFINE n == Len(received)
        <5>1. n \in Nat /\ i \in 1 .. n + 1
          BY <1>4, <2>2, <3>1
        <5> HIDE DEF n
        <5>2. i \in 1 .. n \/ i = n + 1
          BY <5>1
        <5>3. QED BY <5>2 DEF n
      <4>2. output[1] = Len(received) + 1 - 1
        BY <2>2, <2>4
      <4>3. CASE i \in 1 .. Len(received)
        BY <2>2, <4>3 DEF StreamInv, Ordered
      <4>4. CASE i = Len(received) + 1
        BY <1>4, <2>2, <4>2, <4>4
      <4>5. QED BY <4>1, <4>3, <4>4
    <3>2. QED BY <3>1
  <2>6. \A i \in 1 .. Len(output') : output'[i] = Len(received') + i - 1
    <3>1. ASSUME NEW i \in 1 .. Len(output') PROVE output'[i] = Len(received') + i - 1
      <4>1. i + 1 \in 1 .. Len(output) /\ output'[i] = output[i + 1]
        BY <2>2
      <4>2. output[i + 1] = Len(received) + (i + 1) - 1
        BY <2>4, <4>1
      <4>3. QED BY <1>4, <2>2, <4>1, <4>2
    <3>2. QED BY <3>1
  <2>7. Ordered'
    BY <1>1, <1>2, <2>1, <2>3, <2>5, <2>6 DEF StreamInv, Ordered, Fails
  <2>8. StreamOver' <=> StreamOver
    BY <1>1, <2>3 DEF StreamOver, Fails
  <2>9. QED BY <1>1, <1>2, <1>3, <2>1, <2>7, <2>8 DEF StreamInv, Stopped, Alive
<1>6. CASE Recv /\ output = <<>>
  <2>1. UNCHANGED <<received, output>> /\ OutputOpen' = OutputOpen
    BY <1>6 DEF Recv, OutputOpen
  <2>2. Delivered' = Delivered
    BY <2>1 DEF Delivered
  <2>3. Ordered'
    BY <1>1, <1>2, <2>1, <2>2 DEF StreamInv, Ordered, Fails
  <2>4. StreamOver' <=> StreamOver
    BY <1>1, <2>2 DEF StreamOver, Fails
  <2>5. QED BY <1>1, <1>2, <1>3, <2>1, <2>3, <2>4 DEF StreamInv, Stopped, Alive
<1>7. CASE Finish \/ Drop \/ Join
  <2>1. ~OutputOpen' /\ UNCHANGED received
    BY <1>7 DEF Finish, Drop, Join, OutputOpen
  <2>2. QED BY <1>1, <1>2, <1>3, <2>1 DEF StreamInv, Ordered, Stopped, Alive
<1>8. QED BY <1>5, <1>6, <1>7

\* A stuttering step keeps StreamInv.
LEMMA StreamStutter == StreamInv /\ UNCHANGED vars => StreamInv'
<1> SUFFICES ASSUME StreamInv, UNCHANGED vars PROVE StreamInv'
  OBVIOUS
<1> USE DEF vars, sourceVars, inputVars, creditVars, collectorVars, consumerVars
<1>1. Numbered'
  BY DEF StreamInv, Numbered, InputOpen, Alive
<1>2. Ordered'
  BY DEF StreamInv, Ordered, OutputOpen, Active, Releasing, Delivered, Fails
<1>3. Accounted'
  BY DEF StreamInv, Accounted, Active, Tracked, Releasing
<1>4. Stopped'
  BY DEF StreamInv, Stopped, Alive, Active, Stopping, Cause, SourceOver, StreamOver,
         OutputOpen, InputOpen, Delivered, Fails
<1>5. QED BY <1>1, <1>2, <1>3, <1>4 DEF StreamInv

\* The numbering, the order and the account of the items, in every run.
THEOREM StreamAlways == Spec => []StreamInv
<1>1. TypeInv /\ StreamInv /\ [Next]_vars => StreamInv'
  BY StreamSource, StreamWorker, StreamCollector, StreamConsumer, StreamStutter DEF Next, Done
<1>2. QED BY StreamInit, <1>1, TypeCorrect, PTL DEF Spec

\* What the consumer sees of the abstract stream.
Outlook == IF consumer = "running" THEN "open"
           ELSE IF consumer = "ended" /\ panicked = {} THEN "ended"
           ELSE "abandoned"
Failing == {i \in Items : Fails(i)}

\* A step of the stage is a step of the ordered stream or leaves it alone.
LEMMA StreamSteps ==
    TypeInv /\ StreamInv /\ [Next]_vars => [Stream!Next]_(Stream!vars)
<1> SUFFICES ASSUME TypeInv, StreamInv, [Next]_vars PROVE [Stream!Next]_(Stream!vars)
  OBVIOUS
<1>1. outcome' = outcome
  BY DEF Next, Done, SourceStep, SourceSend, SourceStop, SourcePanic, WorkerStep,
         SpuriousWakeup, Acquire, LockInput, ClaimInput, InputEnded, SendCompleted,
         TransformPanic, CloseCredits, WorkerExit, CollectorStep, CollectorRecv,
         CollectorEnd, CollectorSend, ReleaseCredit, CollectorClose, CollectorExit,
         Recv, Finish, Drop, Join, vars
<1>2. Failing' = Failing
  BY <1>1 DEF Failing, Fails
<1>3. CASE received' = received /\ Outlook' = Outlook
  BY <1>2, <1>3 DEF Stream!vars, Outlook, Failing
<1>4. CASE received' = received /\ Outlook # "abandoned" /\ Outlook' = "abandoned"
  BY <1>2, <1>4 DEF Stream!Next, Stream!Abandon, Outlook, Failing
<1>5. ASSUME NEW t \in Threads, Runs(t)
      PROVE  [Stream!Next]_(Stream!vars)
  <2>1. received' = received /\ consumer' = consumer /\ (panicked' = {} => panicked = {})
    BY <1>5 DEF Runs
  <2>2. Outlook' = Outlook \/ (Outlook # "abandoned" /\ Outlook' = "abandoned")
    BY <2>1 DEF Outlook
  <2>3. QED BY <1>3, <1>4, <2>1, <2>2
<1>6. CASE Finish \/ Drop \/ Join
  <2>1. received' = received /\ consumer' \notin {"running", "ended"}
    BY <1>6 DEF Finish, Drop, Join
  <2>2. Outlook' = "abandoned" /\ Outlook \in {"open", "ended", "abandoned"}
    BY <2>1 DEF Outlook
  <2>3. QED BY <1>3, <1>4, <2>1, <2>2
<1>7. CASE Recv
  <2>1. /\ OutputOpen /\ consumer = "running" /\ panicked' = panicked /\ Outlook = "open"
        /\ output \in Seq(Nat) /\ received \in Seq(Nat) /\ ItemCount \in Nat
        /\ Len(received) \in Nat /\ Len(output) \in Nat /\ sent \in 0 .. ItemCount
        /\ claimed \in Nat
    BY <1>7, CollectorTypes DEF Recv, OutputOpen, Outlook
  <2>2. CASE output # <<>>
    <3>1. /\ received' = Append(received, Head(output)) /\ Outlook' = Outlook
      BY <1>7, <2>1, <2>2 DEF Recv, Outlook
    <3>2. Len(output) > 0 /\ Head(output) = output[1]
      BY <2>1, <2>2
    <3>3. Head(output) = Len(received)
      BY <2>1, <3>2 DEF StreamInv, Ordered
    <3>4. Len(received) < ItemCount
      <4>1. claimed <= sent
        <5>1. claimed + Len(inbox) <= sent /\ Len(inbox) \in Nat
          BY DEF StreamInv, Numbered, TypeInv, TypeOK, InputOK
        <5>2. QED BY <2>1, <5>1
      <4>2. Len(received) + Len(output) <= claimed
        BY <2>1 DEF StreamInv, Ordered, Delivered
      <4>3. QED BY <2>1, <3>2, <4>1, <4>2
    <3>5. ~Stream!Failed
      <4>1. SUFFICES ASSUME NEW i \in 1 .. Len(received), received[i] \in Failing
                     PROVE  FALSE
        BY DEF Stream!Failed, Failing
      <4>2. received[i] = i - 1 /\ Fails(i - 1)
        BY <4>1 DEF StreamInv, Ordered, Failing
      <4>3. i - 1 \in 0 .. Delivered - 1 /\ i - 1 # Delivered - 1
        BY <2>1, <3>2 DEF Delivered
      <4>4. QED BY <2>1, <4>2, <4>3 DEF StreamInv, Ordered
    <3>6. QED BY <1>2, <2>1, <3>1, <3>3, <3>4, <3>5
              DEF Stream!Next, Stream!Deliver, Outlook, Failing
  <2>3. CASE output = <<>>
    <3>1. /\ received' = received /\ consumer' = "ended" /\ ~Alive(Collector)
      BY <1>7, <2>3 DEF Recv
    <3>2. CASE panicked # {}
      <4>1. Outlook' = "abandoned"
        BY <2>1, <3>1, <3>2 DEF Outlook
      <4>2. QED BY <1>4, <2>1, <3>1, <4>1
    <3>3. CASE panicked = {}
      <4>1. Outlook' = "ended"
        BY <2>1, <3>1, <3>3 DEF Outlook
      <4>2. ~Active
        BY <3>1 DEF Active, Alive
      <4>3. StreamOver /\ Delivered = Len(received)
        BY <2>1, <2>3, <3>3, <4>2 DEF StreamInv, Stopped, Delivered
      <4>4. Stream!Failed \/ Len(received) = ItemCount
        <5>1. CASE Len(received) > 0 /\ Fails(Len(received) - 1) /\ Len(received) # ItemCount
          <6>1. received[Len(received)] = Len(received) - 1 /\ Len(received) \in 1 .. Len(received)
            BY <2>1, <5>1 DEF StreamInv, Ordered
          <6>2. Len(received) - 1 \in Items
            <7>1. claimed + Len(inbox) <= sent /\ Len(inbox) \in Nat
              BY DEF StreamInv, Numbered, TypeInv, TypeOK, InputOK
            <7>2. Len(received) <= claimed
              BY <2>1, <4>3 DEF StreamInv, Ordered
            <7>3. QED BY <2>1, <5>1, <7>1, <7>2 DEF Items
          <6>3. received[Len(received)] \in Failing
            BY <5>1, <6>1, <6>2 DEF Failing
          <6>4. QED BY <6>1, <6>3 DEF Stream!Failed, Failing
        <5>2. QED BY <4>3, <5>1 DEF StreamOver
      <4>5. QED BY <1>2, <2>1, <3>1, <4>1, <4>4 DEF Stream!Next, Stream!End, Outlook, Failing
    <3>4. QED BY <3>2, <3>3
  <2>4. QED BY <2>2, <2>3
<1>8. CASE UNCHANGED vars
  <2>1. received' = received /\ consumer' = consumer /\ panicked' = panicked
    BY <1>8 DEF vars, consumerVars
  <2>2. QED BY <1>3, <2>1 DEF Outlook
<1>9. QED BY <1>5, <1>6, <1>7, <1>8, ThreadRuns, ThreadSets
          DEF Next, Done, TypeInv, TypeOK

\* pipeline.rs: whatever the threads do, the consumer gets the source's items in
\* source order, the first failing one last, and a clean end only after it or
\* after the whole source.
THEOREM StreamImplemented == Spec => ImplementsStream
<1>1. Init => Stream!Init
  BY DEF Init, Stream!Init, Items, Stream!Items
<1>2. QED
  BY <1>1, StreamSteps, TypeCorrect, StreamAlways, PTL DEF Spec, ImplementsStream, Stream!Spec
=============================================================================
