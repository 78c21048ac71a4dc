------------------------------ MODULE StageChain ------------------------------
(***************************************************************************)
(* A BoundedPipeline of sequential stages (rxla-train/src/pipeline.rs):    *)
(* from_iter over a ShufflePool, then StageCount times map.  Thread 0 is   *)
(* the source worker, thread k runs the k-th map, and channel k carries    *)
(* its results to thread k + 1, the last one to the consumer.  Items are   *)
(* their places in the source; Failure is the source's own error.          *)
(***************************************************************************)
EXTENDS ShufflePool, FiniteSets

CONSTANTS ItemCount,      \* items before the source ends or fails
          PoolSize,       \* capacity of the shuffle pool
          StageCount,     \* maps appended
          ChannelSize,    \* capacity of every stage
          Words,          \* random words a draw may give
          Faultings,      \* the sets of faults of maps: <<item, stage, fault>>
          NoValue

ItemNumbers == 0 .. ItemCount - 1
StageThreads == 1 .. StageCount
ChainThreads == 0 .. StageCount
Faults == {"fail", "panic"}

\* No map sees an item after its first fault.
ASSUME ChainAssumption ==
    /\ ItemCount \in Nat /\ StageCount \in Nat /\ Words \subseteq Nat
    /\ PoolSize \in Nat \ {0}      \* ensure!(capacity != 0), thrice
    /\ ChannelSize \in Nat \ {0}
    /\ \A F \in Faultings :
           /\ F \subseteq ItemNumbers \X StageThreads \X Faults
           /\ \A f, g \in F : f[1] = g[1] => f = g
    /\ NoValue \notin Int \X BOOLEAN

VARIABLES broken,      \* the source fails after its last item
          faulty,      \* items a map fails or panics on: <<item, stage, fault>>
          pool,        \* the shuffle pool
          at,          \* per thread: "take", "send" or "exited"
          hold,        \* per thread: the value it is about to send
          panicked,    \* threads that panicked
          channel,     \* channel k: from thread k
          received,    \* what recv returned
          stream,      \* "open", "ended", "finishing" or "finished"
          joining,     \* the thread finish waits for
          result       \* of finish

chainVars == <<broken, faulty, pool, at, hold, panicked, channel, received, stream, joining, result>>

ChainSource == [n \in 0 .. ItemCount - (IF broken THEN 0 ELSE 1) |->
                    IF n = ItemCount THEN Failure ELSE n]
Faulty(item, stage, fault) == <<item, stage, fault>> \in faulty

\* A value is <<what it is, whether its Result is an Err>>.
ChainInit ==
    /\ broken \in BOOLEAN
    /\ faulty \in Faultings
    /\ pool = NewPool(PoolSize)
    /\ at = [t \in ChainThreads |-> "take"]
    /\ hold = [t \in ChainThreads |-> NoValue]
    /\ panicked = {}
    /\ channel = [t \in ChainThreads |-> <<>>]
    /\ received = <<>>
    /\ stream = "open" /\ joining = StageCount /\ result = "none"

\* Whether the receiver of channel t still exists.
\* Mutant: finish joins before it drops the consumer's receiver.
ReceiverOfUndropped(t) == IF t = StageCount THEN TRUE ELSE at[t + 1] # "exited"
ReceiverOf(t) == IF t = StageCount THEN stream \in {"open", "ended"} ELSE at[t + 1] # "exited"

SourceTake(word) ==
    /\ at[0] = "take"
    /\ LET taken == Take(pool, ChainSource, word)
       IN  /\ pool' = taken.pool
           /\ IF taken.result = Exhausted
              THEN at' = [at EXCEPT ![0] = "exited"] /\ UNCHANGED hold
              ELSE /\ at' = [at EXCEPT ![0] = "send"]
                   /\ hold' = [hold EXCEPT ![0] = <<taken.result, taken.result = Failure>>]
    /\ UNCHANGED <<broken, faulty, panicked, channel, received, stream, joining, result>>

\* Receive a value and transform it, unless it is an error already.
Transform(t, value) == <<value[1], value[2] \/ Faulty(value[1], t, "fail")>>
MapTake(t) ==
    /\ at[t] = "take" /\ channel[t - 1] # <<>>
    /\ channel' = [channel EXCEPT ![t - 1] = Tail(@)]
    /\ LET value == Head(channel[t - 1])
       IN  IF ~value[2] /\ Faulty(value[1], t, "panic")
           THEN /\ at' = [at EXCEPT ![t] = "exited"]
                /\ panicked' = panicked \union {t}
                /\ UNCHANGED hold
           ELSE /\ at' = [at EXCEPT ![t] = "send"]
                /\ hold' = [hold EXCEPT ![t] = Transform(t, value)]
                /\ UNCHANGED panicked
    /\ UNCHANGED <<broken, faulty, pool, received, stream, joining, result>>
MapEnd(t) ==
    /\ at[t] = "take" /\ channel[t - 1] = <<>> /\ at[t - 1] = "exited"
    /\ at' = [at EXCEPT ![t] = "exited"]
    /\ UNCHANGED <<broken, faulty, pool, hold, panicked, channel, received, stream, joining, result>>

\* Mutant: a stage goes on after it has sent an error.
AfterSendAlways(value) == "take"
AfterSend(value) == IF value[2] THEN "exited" ELSE "take"
Send(t) ==
    /\ at[t] = "send"
    /\ IF ReceiverOf(t)
       THEN /\ Len(channel[t]) < ChannelSize
            /\ channel' = [channel EXCEPT ![t] = Append(@, hold[t])]
            /\ at' = [at EXCEPT ![t] = AfterSend(hold[t])]
       ELSE at' = [at EXCEPT ![t] = "exited"] /\ UNCHANGED channel
    /\ hold' = [hold EXCEPT ![t] = NoValue]
    /\ UNCHANGED <<broken, faulty, pool, panicked, received, stream, joining, result>>

\* recv
Recv ==
    /\ stream = "open" /\ channel[StageCount] # <<>>
    /\ received' = Append(received, Head(channel[StageCount])[1])
    /\ channel' = [channel EXCEPT ![StageCount] = Tail(@)]
    /\ UNCHANGED <<broken, faulty, pool, at, hold, panicked, stream, joining, result>>
RecvEnd ==
    /\ stream = "open" /\ channel[StageCount] = <<>> /\ at[StageCount] = "exited"
    /\ stream' = "ended"
    /\ UNCHANGED <<broken, faulty, pool, at, hold, panicked, channel, received, joining, result>>

\* finish: close the consumer's end, then join the threads downstream-first;
\* the first that panicked ends it.
FinishBegin ==
    /\ stream \in {"open", "ended"}
    /\ stream' = "finishing"
    /\ UNCHANGED <<broken, faulty, pool, at, hold, panicked, channel, received, joining, result>>
\* Mutant: the error of join is ignored.
JoinFailsNever(t) == FALSE
JoinFails(t) == t \in panicked
Join ==
    /\ stream = "finishing" /\ at[joining] = "exited"
    /\ IF JoinFails(joining)
       THEN stream' = "finished" /\ result' = "panicked" /\ UNCHANGED joining
       ELSE IF joining = 0
       THEN stream' = "finished" /\ result' = "ok" /\ UNCHANGED joining
       ELSE joining' = joining - 1 /\ UNCHANGED <<stream, result>>
    /\ UNCHANGED <<broken, faulty, pool, at, hold, panicked, channel, received>>

ThreadStep(t) == \/ t = 0 /\ \E word \in Words : SourceTake(word)
                 \/ t # 0 /\ (MapTake(t) \/ MapEnd(t))
                 \/ Send(t)
ChainNext ==
    \/ \E word \in Words : SourceTake(word)
    \/ \E t \in StageThreads : MapTake(t) \/ MapEnd(t)
    \/ \E t \in ChainThreads : Send(t)
    \/ Recv \/ RecvEnd \/ FinishBegin \/ Join

ChainSpec == ChainInit /\ [][ChainNext]_chainVars

-----------------------------------------------------------------------------
\* Properties.

\* Every variable keeps its type, and no channel or pool holds more values
\* than its capacity.
ChainTypeOK ==
    /\ at \in [ChainThreads -> {"take", "send", "exited"}]
    /\ panicked \subseteq StageThreads
    /\ stream \in {"open", "ended", "finishing", "finished"} /\ joining \in ChainThreads
    /\ \A t \in ChainThreads : Len(channel[t]) <= ChannelSize /\ (hold[t] = NoValue) = (at[t] # "send")
    /\ Len(pool.items) <= PoolSize

Stream == INSTANCE ShuffledStream WITH
    failing <- {f[1] : f \in {g \in faulty : g[3] = "fail"}},
    panicking <- {f[1] : f \in {g \in faulty : g[3] = "panic"}},
    stream <- IF stream \in {"finishing", "finished"} THEN "abandoned" ELSE stream

\* Whatever the threads' speeds, the consumer sees one shuffled stream: each
\* item at most once and no earlier than the pool allows, the first error
\* last, and no clean end before that or the last item.
ImplementsShuffledStream == Stream!Spec

\* Once the consumer lets go, full channels and waiting threads all give way:
\* finish returns, and it reports a panic if and only if a stage panicked
\* before the stages below it had been joined.
FinishReturns == (stream = "finishing") ~> (stream = "finished")
FinishTells ==
    stream = "finished" => result = (IF panicked = {} THEN "ok" ELSE "panicked")
=============================================================================
