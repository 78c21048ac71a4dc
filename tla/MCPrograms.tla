------------------------------- MODULE MCPrograms -------------------------------
(***************************************************************************)
(* A tensor program, one part of the run each: recorded, differentiated and*)
(* lowered (the instance of MCAlgorithms), and executed with the buffers a *)
(* session owns.  The session's instance has two programs traced           *)
(* separately, the second with its slots and inputs in another order and a *)
(* pruned input, and the first one compiled for another client.  The parts *)
(* share no state; a behaviour moves the part it starts with.              *)
(***************************************************************************)
EXTENDS MCAlgorithms, Session

CONSTANTS cpu, gpu, g1, g2, s1

MCState(i) == [kind |-> "state", index |-> i]
MCInput(i) == [kind |-> "input", index |-> i]
MCFirst(client) ==
    [owner |-> g1, client |-> client, visible |-> 1,
     arguments |-> <<MCInput(1), MCState(1), MCInput(2), MCState(2), MCState(3)>>,
     parameters |-> <<1, 3>>, inputTypes |-> <<"F32", "F32", "F32", "F32", "I32">>,
     types |-> <<"F32", "F32", "I32">>, slotNames |-> <<"value", "total", "step">>,
     inputNames |-> <<"scale", "x">>]
MCSecond ==
    [owner |-> g2, client |-> cpu, visible |-> 2,
     arguments |-> <<MCState(1), MCInput(2), MCState(2), MCState(3), MCInput(3)>>,
     parameters |-> <<0, 2, 5>>, inputTypes |-> <<"F32", "F32", "I32", "F32", "F32">>,
     types |-> <<"F32", "I32", "F32">>, slotNames |-> <<"total", "step", "value">>,
     inputNames |-> <<"unused", "x", "scale">>]
MCPlan == <<MCFirst(cpu), MCSecond, MCFirst(gpu)>>

\* Lists of bindings: all well-formed ones, doubled, pruned and out-of-range
\* registrations, a resident or foreign parameter, another client, another type.
MCBinding(owner, resident, i, buffer) ==
    [owner |-> owner, resident |-> resident, index |-> i, buffer |-> buffer]
MCBindingsOf(p) ==
    LET good(i, v) == MCBinding(MCPlan[p].owner, FALSE, i, Buffer(MCPlan[p].client, "F32", v))
        last == Len(MCPlan[p].parameters)
    IN  SeqOf({good(i, v) : i \in {last - 1, last}, v \in Values}, 2)
        \union {<<good(1, 0)>>, <<good(last + 1, 0)>>}
        \union {<<[good(last, 1) EXCEPT !.resident = TRUE]>>, <<[good(last, 1) EXCEPT !.buffer.type = "U8"]>>}
        \union {<<[good(last, 1) EXCEPT !.buffer.client = c]>> : c \in Clients}
        \union {<<[good(last, 1) EXCEPT !.owner = g]>> : g \in {g1, g2}}
MCBindings == <<MCBindingsOf(1), MCBindingsOf(2), MCBindingsOf(3)>>
MCPayloadBytes(type) == IF type = "F32" THEN 2 ELSE 1
MCTransition(n, v) ==
    CASE n = "value" -> (v["value"] + v["x"]) % 2
      [] n = "total" -> (v["total"] + v["value"] * v["scale"]) % 2
      [] n = "step" -> (v["step"] + 1) % 2

-----------------------------------------------------------------------------
VARIABLE part

ProgramsInit ==
    /\ part \in {"graph", "session"}
    /\ ProgramInit /\ (part = "session" => family = "colors")
    /\ SessionInit

ProgramsNext ==
    /\ UNCHANGED part
    /\ \/ part = "graph" /\ ProgramNext /\ UNCHANGED sessionVars
       \/ part = "session" /\ SessionNext /\ UNCHANGED programVars

ProgramsSpec == ProgramsInit /\ [][ProgramsNext]_<<part, programVars, sessionVars>>
=============================================================================
