-------------------------- MODULE MCDeviceResources --------------------------
(***************************************************************************)
(* The native resources around a device, one part of the run each: the     *)
(* PJRT objects of one client, the weight residency pool, and the          *)
(* rendezvous of distributed clients.  The parts share no state; a         *)
(* behaviour moves the part it starts with.                                *)
(***************************************************************************)
EXTENDS PjrtObjects, ResidencyPool, KeyValueStore

VARIABLE part

MCSizes == [c \in Components |-> IF c = "text" THEN <<1, 2>> ELSE <<2, 1, 1>>]

allVars == <<part, objectVars, poolVars, storeVars>>

Init ==
    /\ part \in {"objects", "pool", "store"}
    /\ ObjectsInit /\ PoolInit /\ StoreInit

Next ==
    /\ UNCHANGED part
    /\ \/ part = "objects" /\ ObjectsNext /\ UNCHANGED <<poolVars, storeVars>>
       \/ part = "pool" /\ PoolNext /\ UNCHANGED <<objectVars, storeVars>>
       \/ part = "store" /\ StoreNext /\ UNCHANGED <<objectVars, poolVars>>

\* The device finishes what it was given, a thread whose wait can end ends it, and
\* a thread in put goes on.  Each of these steps happens a bounded number of
\* times, so fairness of the three together is fairness of each.  Nobody
\* promises that a deadline passes.
Moving ==
    /\ UNCHANGED part
    /\ \/ part = "objects" /\ Progress /\ UNCHANGED <<poolVars, storeVars>>
       \/ /\ part = "store" /\ UNCHANGED <<objectVars, poolVars>>
          /\ \E n \in Nodes : PutInsert(n) \/ NotifyAll(n)

Spec == Init /\ [][Next]_allVars /\ WF_allVars(Moving)
==============================================================================
