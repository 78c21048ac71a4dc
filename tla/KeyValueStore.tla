---------------------------- MODULE KeyValueStore ----------------------------
(***************************************************************************)
(* The rendezvous of distributed PJRT clients in one process               *)
(* (rxla-pjrt/src/distributed.rs): InMemoryKeyValueStore, a map under a    *)
(* mutex with a condition variable, reached from the plugin's threads      *)
(* through callbacks whose state belongs to the client being created.      *)
(*                                                                         *)
(* Each node has one plugin thread: while the client is created it         *)
(* publishes the node's key and gets every other node's; a live client may *)
(* get keys again at any time.  A deadline may pass whenever a get runs.   *)
(***************************************************************************)
EXTENDS Naturals, FiniteSets

CONSTANTS Nodes,
          Missing    \* a key nobody publishes

ASSUME StoreAssumption == Cardinality(Nodes) > 1 /\ Missing \notin Nodes

VARIABLES values,    \* keys present (a key's value is the node's)
          call,      \* what the node's plugin thread does
          want,      \* keys the running callback or creation still has to get
          overdue,   \* the deadline of the running get has passed
          client, callbacks

storeVars == <<values, call, want, overdue, client, callbacks>>

StoreInit ==
    /\ values = {}
    /\ call = [n \in Nodes |-> "none"]
    /\ want = [n \in Nodes |-> {}]
    /\ overdue = [n \in Nodes |-> FALSE]
    /\ client = [n \in Nodes |-> "none"]
    /\ callbacks = [n \in Nodes |-> "none"]

To(n, c) == call' = [call EXCEPT ![n] = c]
Key(n) == CHOOSE key \in want[n] : TRUE

\* from_plugin_with_callbacks: the callback state is installed, then the plugin
\* creates the client, which publishes this node.
CreateClient(n) ==
    /\ client[n] = "none"
    /\ client' = [client EXCEPT ![n] = "creating"]
    /\ callbacks' = [callbacks EXCEPT ![n] = "installed"]
    /\ want' = [want EXCEPT ![n] = Nodes \ {n}]
    /\ To(n, "put") /\ UNCHANGED <<values, overdue>>

\* put inserts under the lock and notifies after releasing it.
PutInsert(n) ==
    /\ call[n] = "put" /\ To(n, "notify")
    /\ values' = values \cup {n}
    /\ UNCHANGED <<want, overdue, client, callbacks>>

\* Mutant: one waiter is woken.
NotifyOne(n) ==
    /\ call[n] = "notify"
    /\ \E w \in {m \in Nodes : call[m] = "wait"} \cup {n} :
          call' = [call EXCEPT ![n] = "get", ![w] = "get"]
    /\ UNCHANGED <<values, want, overdue, client, callbacks>>

NotifyAll(n) ==
    /\ call[n] = "notify"
    /\ call' = [m \in Nodes |-> IF m = n \/ call[m] = "wait" THEN "get" ELSE call[m]]
    /\ UNCHANGED <<values, want, overdue, client, callbacks>>

\* The deadline of a get passes.
DeadlinePasses(n) ==
    /\ call[n] \in {"get", "wait"} /\ ~overdue[n]
    /\ overdue' = [overdue EXCEPT ![n] = TRUE]
    /\ UNCHANGED <<values, call, want, client, callbacks>>

Found(n) ==
    /\ want' = [want EXCEPT ![n] = @ \ {Key(n)}]
    /\ overdue' = [overdue EXCEPT ![n] = FALSE]
    /\ To(n, IF want'[n] = {} THEN "done" ELSE "get")

TimedOut(n) ==
    /\ overdue' = [overdue EXCEPT ![n] = FALSE]
    /\ To(n, "failed") /\ UNCHANGED want

\* One turn of get's loop under the lock: the key, the deadline, then the wait,
\* which releases the lock.
GetTurn(n) ==
    /\ call[n] = "get" /\ want[n] # {}
    /\ IF Key(n) \in values THEN Found(n)
       ELSE IF overdue[n] THEN TimedOut(n)
       ELSE To(n, "wait") /\ UNCHANGED <<want, overdue>>
    /\ UNCHANGED <<values, client, callbacks>>

\* wait_timeout gives up: an error only when the key has not come meanwhile.
WaitTimedOut(n) ==
    /\ call[n] = "wait" /\ overdue[n]
    /\ IF Key(n) \in values THEN To(n, "get") /\ UNCHANGED <<want, overdue>>
       ELSE TimedOut(n)
    /\ UNCHANGED <<values, client, callbacks>>

SpuriousWake(n) ==
    /\ call[n] = "wait" /\ To(n, "get")
    /\ UNCHANGED <<values, want, overdue, client, callbacks>>

\* The callbacks of the creation have answered: the client exists, or creation
\* failed and the box with the callback state is dropped without a client.
Created(n) ==
    /\ client[n] = "creating"
    /\ \/ /\ call[n] = "done"
          /\ client' = [client EXCEPT ![n] = "live"] /\ UNCHANGED callbacks
       \/ /\ call[n] = "failed"
          /\ client' = [client EXCEPT ![n] = "refused"]
          /\ callbacks' = [callbacks EXCEPT ![n] = "freed"]
    /\ To(n, "none") /\ want' = [want EXCEPT ![n] = {}]
    /\ UNCHANGED <<values, overdue>>

\* A live client's plugin calls back from a thread of its own, until destroy.
CallBack(n) ==
    /\ client[n] = "live" /\ call[n] = "none"
    /\ To(n, "get")
    /\ \E key \in Nodes \cup {Missing} : want' = [want EXCEPT ![n] = {key}]
    /\ UNCHANGED <<values, overdue, client, callbacks>>

CallBackEnds(n) ==
    /\ client[n] \in {"live", "destroying"} /\ call[n] \in {"done", "failed"}
    /\ To(n, "none") /\ want' = [want EXCEPT ![n] = {}]
    /\ UNCHANGED <<values, overdue, client, callbacks>>

\* Mutant: the callback state goes before the client is destroyed.
BeginDestroyFreeing(n) ==
    /\ client[n] = "live" /\ client' = [client EXCEPT ![n] = "destroying"]
    /\ callbacks' = [callbacks EXCEPT ![n] = "freed"]
    /\ UNCHANGED <<values, call, want, overdue>>

\* ClientInner: Drop destroys the client, which returns when no callback runs any
\* more; the fields, the callback state among them, go afterwards.
BeginDestroy(n) ==
    /\ client[n] = "live" /\ client' = [client EXCEPT ![n] = "destroying"]
    /\ UNCHANGED <<values, call, want, overdue, callbacks>>

DropFields(n) ==
    /\ client[n] = "destroying" /\ call[n] = "none"
    /\ client' = [client EXCEPT ![n] = "destroyed"]
    /\ callbacks' = [callbacks EXCEPT ![n] = "freed"]
    /\ UNCHANGED <<values, call, want, overdue>>

PluginThread(n) ==
    \/ PutInsert(n) \/ NotifyAll(n) \/ GetTurn(n) \/ WaitTimedOut(n)
    \/ Created(n) \/ CallBackEnds(n)

StoreNext == \E n \in Nodes :
    \/ CreateClient(n) \/ PluginThread(n) \/ DeadlinePasses(n) \/ SpuriousWake(n)
    \/ CallBack(n) \/ BeginDestroy(n) \/ DropFields(n)

StoreSpec == StoreInit /\ [][StoreNext]_storeVars

-----------------------------------------------------------------------------
StoreTypeOK ==
    /\ values \subseteq Nodes
    /\ call \in [Nodes -> {"none", "put", "notify", "get", "wait", "done", "failed"}]
    /\ want \in [Nodes -> SUBSET (Nodes \cup {Missing})]
    /\ \A n \in Nodes : call[n] = "none" => want[n] = {}
    /\ overdue \in [Nodes -> BOOLEAN]
    /\ client \in [Nodes -> {"none", "creating", "live", "refused", "destroying", "destroyed"}]
    /\ callbacks \in [Nodes -> {"none", "installed", "freed"}]

\* No callback runs on callback state that was freed, whether the client was
\* created, refused or is being destroyed.
CallbackStateAlive ==
    /\ StoreTypeOK
    /\ \A n \in Nodes : call[n] # "none" => callbacks[n] = "installed"

\* A get answers that it timed out only if its key is not there at that moment,
\* also when the answer raced the deadline.
TimeoutIsTrue ==
    [][\A n \in Nodes : call[n] # "failed" /\ call'[n] = "failed" =>
           overdue[n] /\ Key(n) \notin values]_storeVars

\* A put reaches everybody waiting for the key: it is never so from some point on
\* that a get sleeps while its key is present, even if no deadline ever passes.
PutWakesGetters == []<>(\A n \in Nodes : call[n] = "wait" => Key(n) \notin values)

\* What the store promises a waiting get.
StoreAnswers == TimeoutIsTrue /\ PutWakesGetters
==============================================================================
