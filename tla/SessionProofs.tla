---------------------------- MODULE SessionProofs ----------------------------
(***************************************************************************)
(* Proofs about Session, for any programs, clients, sessions and callers.  *)
(*                                                                         *)
(* A session fits its program (Fits) when its buffers are those of the     *)
(* slots and its bindings are those the caller meant, the free ones        *)
(* numbered by their order.  What a caller holds is a complete list of the *)
(* slots of some program (HeldRight).  Every operation then keeps names    *)
(* together with their values.                                             *)
(*                                                                         *)
(* Then about ModelAbi, for all sets of paths, any number of inputs and    *)
(* declarations in any order.  A model is right (ModelRight) if its two    *)
(* numberings fit what was declared: the graph numbers inputs and states   *)
(* separately, each input by its rank among them (GraphRight); the schema  *)
(* has an entry for each declaration, in the graph's order, and only       *)
(* states that were added after tracing follow (SchemaRight).  The states  *)
(* and the resident parameters are what a caller does not pass, so the     *)
(* values of a call, in schema order without these, are numbered as the    *)
(* graph numbers its inputs (VisibleRight).                                *)
(***************************************************************************)
EXTENDS Session, ModelAbi, Counting

Weights == [InputNames -> Values \union {Nothing}]
NoWeights == [n \in InputNames |-> Nothing]

\* The free inputs of a list of bindings.
FreeOf(p, inputs) == {i \in 1 .. InputCount(p) : Plan[p].parameters[i] # 0 /\ inputs[i].kind # "fixed"}

InputsBound(p, inputs, weights) ==
    /\ inputs \in [1 .. InputCount(p) -> InputBindings]
    /\ \A i \in 1 .. InputCount(p) :
           /\ inputs[i].kind = "unused" => Plan[p].parameters[i] = 0
           /\ inputs[i].kind = "fixed" =>
                  /\ Plan[p].parameters[i] # 0
                  /\ ValidBuffer(p, inputs[i].buffer, Plan[p].inputTypes[Plan[p].parameters[i]])
                  /\ weights[Plan[p].inputNames[i]] = inputs[i].buffer.value
           /\ inputs[i].kind = "dynamic" =>
                  /\ Plan[p].parameters[i] # 0
                  /\ weights[Plan[p].inputNames[i]] = Nothing
                  /\ inputs[i].index = OrderIn(i, FreeOf(p, inputs))

StatesFit(p, states) ==
    /\ states \in [1 .. SlotCount(p) -> Buffers]
    /\ \A i \in 1 .. SlotCount(p) : ValidBuffer(p, states[i], Plan[p].types[i])

Fits(live, weights) ==
    /\ StatesFit(live.program, live.states)
    /\ InputsBound(live.program, live.inputs, weights)
    /\ live.dynamic = DynamicCount(live.inputs)

HeldOf(p, list) ==
    /\ list \in [1 .. SlotCount(p) -> [slot : Slots, buffer : Buffers]]
    /\ \A k \in 1 .. SlotCount(p) : list[k].slot = Slot(p, k)

HeldRight ==
    /\ held \in HeldStates \union {Nothing}
    /\ held # Nothing => \E p \in Executables : HeldOf(p, held)

SessionInv ==
    /\ SessionTypeOK
    /\ HeldRight
    /\ \A s \in Sessions : IF Live(s) THEN Fits(session[s], intended[s])
                                      ELSE intended[s] = NoWeights

-----------------------------------------------------------------------------
\* Counting.

\* An injection of an interval into itself misses nothing.
LEMMA Pigeons ==
    ASSUME NEW n \in Nat, NEW f \in [1 .. n -> 1 .. n],
           \A a, b \in 1 .. n : f[a] = f[b] => a = b
    PROVE  \A i \in 1 .. n : \E k \in 1 .. n : f[k] = i
<1>1. f \in Injection(1 .. n, 1 .. n)
  BY DEF Injection, IsInjective
<1>2. IsFiniteSet(1 .. n)
  BY FS_Interval
<1>3. f \in Surjection(1 .. n, 1 .. n)
  BY <1>1, <1>2, FS_Injection
<1>4. QED BY <1>3 DEF Surjection

\* The order of the elements of a set of positions counts them.
LEMMA Orders ==
    ASSUME NEW m \in Nat, NEW F \in SUBSET (1 .. m)
    PROVE  /\ IsFiniteSet(F) /\ Cardinality(F) \in Nat
           /\ \A i \in F : OrderIn(i, F) \in 1 .. Cardinality(F)
           /\ \A i, j \in F : OrderIn(i, F) = OrderIn(j, F) => i = j
           /\ \A k \in 1 .. Cardinality(F) : \E i \in F : OrderIn(i, F) = k
<1>1. \A i \in F : OrderIn(i, F) = Cardinality(Upto(i, F))
  BY DEF OrderIn, Upto
<1>2. /\ IsFiniteSet(F) /\ Cardinality(F) \in Nat
      /\ \A i \in F : Cardinality(Upto(i, F)) \in 1 .. Cardinality(F)
      /\ \A i, j \in F : Cardinality(Upto(i, F)) = Cardinality(Upto(j, F)) => i = j
      /\ \A k \in 1 .. Cardinality(F) : \E i \in F : Cardinality(Upto(i, F)) = k
  BY Ranks
<1>3. QED BY <1>1, <1>2

-----------------------------------------------------------------------------
\* Programs and lists of slots.

\* The plan of a program.
LEMMA PlanOf ==
    ASSUME NEW p \in Executables
    PROVE  /\ SlotCount(p) \in Nat /\ SlotCount(p) # 0 /\ InputCount(p) \in Nat
           /\ Plan[p].client \in Clients /\ Plan[p].visible \in Nat
           /\ Plan[p].types \in [1 .. SlotCount(p) -> Types]
           /\ Plan[p].slotNames \in [1 .. SlotCount(p) -> SlotNames]
           /\ \A i, j \in 1 .. SlotCount(p) : Plan[p].slotNames[i] = Plan[p].slotNames[j] => i = j
           /\ \A n \in SlotNames : \E i \in 1 .. SlotCount(p) : Plan[p].slotNames[i] = n
           /\ \A i \in 1 .. InputCount(p) : Plan[p].parameters[i] \in 0 .. Len(Plan[p].arguments)
           /\ \A i, j \in 1 .. InputCount(p) : Plan[p].inputNames[i] = Plan[p].inputNames[j] => i = j
           /\ \A i \in 1 .. InputCount(p) :
                  Plan[p].parameters[i] # 0 => Plan[p].inputNames[i] \in InputNames
<1>1. /\ Plan[p].types \in Seq(Types) /\ Plan[p].parameters \in Seq(0 .. Len(Plan[p].arguments))
      /\ Plan[p].client \in Clients /\ Plan[p].visible \in Nat
      /\ Plan[p].slotNames \in [1 .. SlotCount(p) -> SlotNames]
      /\ IsInjective(Plan[p].slotNames) /\ Range(Plan[p].slotNames) = SlotNames
      /\ DOMAIN Plan[p].inputNames = 1 .. InputCount(p) /\ IsInjective(Plan[p].inputNames)
      /\ \A i \in 1 .. InputCount(p) :
             Plan[p].parameters[i] # 0 => Plan[p].inputNames[i] \in InputNames
      /\ SlotNames # {}
  BY PlanAssumption
<1>2. SlotCount(p) \in Nat /\ InputCount(p) \in Nat
  BY <1>1 DEF SlotCount, InputCount
<1>3. \A n \in SlotNames : \E i \in 1 .. SlotCount(p) : Plan[p].slotNames[i] = n
  BY <1>1 DEF Range
<1>4. SlotCount(p) # 0
  BY <1>1, <1>2, <1>3
<1>5. /\ \A i, j \in 1 .. SlotCount(p) : Plan[p].slotNames[i] = Plan[p].slotNames[j] => i = j
      /\ \A i, j \in 1 .. InputCount(p) : Plan[p].inputNames[i] = Plan[p].inputNames[j] => i = j
  BY <1>1 DEF IsInjective
<1>6. Plan[p].types \in [1 .. SlotCount(p) -> Types]
  BY <1>1 DEF SlotCount
<1>7. \A i \in 1 .. InputCount(p) : Plan[p].parameters[i] \in 0 .. Len(Plan[p].arguments)
  BY <1>1 DEF InputCount
<1>8. QED BY <1>1, <1>2, <1>3, <1>4, <1>5, <1>6, <1>7

\* A complete list of slots has each slot once.
LEMMA Complete ==
    ASSUME NEW p \in Executables, NEW m \in Nat, NEW slots \in [1 .. m -> Slots],
           CompleteLayout(p, slots)
    PROVE  /\ m = SlotCount(p)
           /\ \A k \in 1 .. m : slots[k].index \in 1 .. SlotCount(p) /\ slots[k] = Slot(p, slots[k].index)
           /\ \A j, k \in 1 .. m : slots[j].index = slots[k].index => j = k
           /\ \A i \in 1 .. SlotCount(p) : \E k \in 1 .. m : slots[k].index = i
<1>1. m = SlotCount(p) /\ IsInjective(slots) /\ \A k \in 1 .. m : ValidSlot(p, slots[k])
  BY DEF CompleteLayout
<1>2. \A k \in 1 .. m : slots[k].index \in 1 .. SlotCount(p) /\ slots[k] = Slot(p, slots[k].index)
  BY <1>1 DEF ValidSlot, Slots, Slot
<1>3. \A j, k \in 1 .. m : slots[j].index = slots[k].index => j = k
  BY <1>1, <1>2 DEF IsInjective
<1> DEFINE f == [k \in 1 .. m |-> slots[k].index]
<1>4. f \in [1 .. m -> 1 .. m] /\ \A a, b \in 1 .. m : f[a] = f[b] => a = b
  BY <1>1, <1>2, <1>3
<1>5. \A i \in 1 .. m : \E k \in 1 .. m : f[k] = i
  <2> HIDE DEF f
  <2> QED BY <1>4, Pigeons
<1>6. QED BY <1>1, <1>2, <1>3, <1>5

-----------------------------------------------------------------------------
\* State a caller offers.

\* A list of a caller is a complete list of slots; so are zeros.
LEMMA ZerosHeld ==
    ASSUME NEW p \in Executables
    PROVE  HeldOf(p, ZeroState(p))
<1>1. /\ SlotCount(p) \in Nat /\ Plan[p].client \in Clients /\ 0 \in Values
      /\ Plan[p].types \in [1 .. SlotCount(p) -> Types]
  BY PlanOf, PlanAssumption
<1>2. Plan[p].owner \in Owners
  BY DEF Owners
<1>3. ASSUME NEW i \in 1 .. SlotCount(p)
      PROVE  Slot(p, i) \in Slots /\ Buffer(Plan[p].client, Plan[p].types[i], 0) \in Buffers
  BY <1>1, <1>2 DEF Slot, Slots, Buffer, Buffers
<1>4. QED BY <1>3 DEF HeldOf, ZeroState

\* Offers are made of the entries of one such list.
LEMMA Offered ==
    ASSUME HeldRight, NEW p \in Executables, NEW offer \in Offers(p)
    PROVE  \E q \in Executables, m \in Nat, list \in {ZeroState(p), held} \ {Nothing} :
               HeldOf(q, list) /\ offer \in [1 .. m -> Range(list)]
<1>1. PICK list \in {ZeroState(p), held} \ {Nothing} : offer \in Lists(list)
  BY DEF Offers
<1>2. PICK q \in Executables : HeldOf(q, list)
  <2>1. CASE list = ZeroState(p)
    BY <2>1, ZerosHeld
  <2>2. CASE list = held
    BY <1>1, <2>2 DEF HeldRight
  <2>3. QED BY <1>1, <2>1, <2>2
<1>3. Len(list) \in Nat /\ Len(list) # 0
  <2>1. SlotCount(q) \in Nat /\ SlotCount(q) # 0
    BY PlanOf
  <2>2. Len(list) = SlotCount(q)
    BY <1>2, <2>1 DEF HeldOf
  <2>3. QED BY <2>1, <2>2
<1>4. PICK n \in {Len(list) - 1, Len(list)} : offer \in [1 .. n -> Range(list)]
  BY <1>1 DEF Lists
<1>5. n \in Nat
  BY <1>3
<1>6. QED BY <1>1, <1>2, <1>4, <1>5

\* bind_states orders a complete offer by slot; every buffer keeps its slot.
LEMMA BoundStates ==
    ASSUME HeldRight, NEW p \in Executables, NEW offer \in Offers(p), BindsStates(p, offer)
    PROVE  /\ StatesFit(p, BindStates(p, offer))
           /\ \E q \in Executables, list \in {ZeroState(p), held} \ {Nothing} :
                  /\ HeldOf(q, list) /\ Plan[q].owner = Plan[p].owner
                  /\ \A i \in 1 .. SlotCount(p) : /\ i \in 1 .. SlotCount(q)
                                                  /\ BindStates(p, offer)[i] = list[i].buffer
<1>1. PICK q \in Executables, m \in Nat, list \in {ZeroState(p), held} \ {Nothing} :
          HeldOf(q, list) /\ offer \in [1 .. m -> Range(list)]
  BY Offered
<1>2. ASSUME NEW k \in 1 .. m
      PROVE  \E j \in 1 .. SlotCount(q) : /\ offer[k] = list[j] /\ offer[k].slot = Slot(q, j)
                                          /\ offer[k] \in [slot : Slots, buffer : Buffers]
  BY <1>1 DEF Range, HeldOf
<1> DEFINE slots == [k \in DOMAIN offer |-> offer[k].slot]
<1>3. DOMAIN offer = 1 .. m
  BY <1>1
<1>4. slots \in [1 .. m -> Slots] /\ \A k \in 1 .. m : slots[k] = offer[k].slot
  BY <1>2, <1>3
<1>5. CompleteLayout(p, slots)
  BY DEF BindsStates
<1>6. \A k \in 1 .. m : ValidBuffer(p, offer[k].buffer, Plan[p].types[offer[k].slot.index])
  BY <1>3 DEF BindsStates
<1> HIDE DEF slots
<1>7. /\ \A k \in 1 .. m : slots[k].index \in 1 .. SlotCount(p) /\ slots[k] = Slot(p, slots[k].index)
      /\ \A i \in 1 .. SlotCount(p) : \E k \in 1 .. m : slots[k].index = i
  <2>1. slots \in [1 .. m -> Slots]
    BY <1>4
  <2>2. QED BY <1>5, <2>1, Complete
<1>8. ASSUME NEW i \in 1 .. SlotCount(p)
      PROVE  /\ BindStates(p, offer)[i] \in Buffers
             /\ ValidBuffer(p, BindStates(p, offer)[i], Plan[p].types[i])
             /\ Plan[q].owner = Plan[p].owner /\ i \in 1 .. SlotCount(q)
             /\ BindStates(p, offer)[i] = list[i].buffer
  <2> DEFINE k == CHOOSE k \in DOMAIN offer : offer[k].slot.index = i
  <2>1. k \in 1 .. m /\ offer[k].slot.index = i
    BY <1>3, <1>4, <1>7
  <2>2. BindStates(p, offer)[i] = offer[k].buffer
    BY DEF BindStates
  <2> HIDE DEF k
  <2>3. PICK j \in 1 .. SlotCount(q) : /\ offer[k] = list[j] /\ offer[k].slot = Slot(q, j)
                                       /\ offer[k] \in [slot : Slots, buffer : Buffers]
    BY <1>2, <2>1
  <2>4. offer[k].slot = Slot(p, i)
    BY <1>4, <1>7, <2>1
  <2>5. i = j /\ Plan[q].owner = Plan[p].owner
    BY <2>3, <2>4 DEF Slot
  <2>6. offer[k].buffer \in Buffers
    BY <2>3
  <2>7. QED BY <1>6, <2>1, <2>2, <2>3, <2>5, <2>6
<1>9. StatesFit(p, BindStates(p, offer))
  BY <1>8 DEF StatesFit, BindStates
<1>10. 1 \in 1 .. SlotCount(p)
  BY PlanOf
<1>11. QED BY <1>1, <1>8, <1>9, <1>10

-----------------------------------------------------------------------------
\* Bindings.

BindingRecords == [owner : Owners, resident : BOOLEAN, index : Nat, buffer : Buffers]

\* What a caller binds.
LEMMA CallerLists ==
    ASSUME NEW p \in Executables, NEW bindings \in BindingLists[p] \union {<<>>}
    PROVE  bindings \in Seq(BindingRecords)
<1>1. CASE bindings \in BindingLists[p]
  BY <1>1, BindingAssumption DEF BindingRecords
<1>2. CASE bindings = <<>>
  BY <1>2
<1>3. QED BY <1>1, <1>2

\* bind_inputs keeps what the caller means by its names, and numbers the rest.
LEMMA BoundInputs ==
    ASSUME NEW p \in Executables, NEW bindings \in Seq(BindingRecords), ValidBindings(p, bindings)
    PROVE  /\ InputsBound(p, BindInputs(p, bindings), ValuesByName(p, bindings))
           /\ ValuesByName(p, bindings) \in Weights
<1> DEFINE inputs == BindInputs(p, bindings)
           w == ValuesByName(p, bindings)
           At(i) == CHOOSE k \in DOMAIN bindings : bindings[k].index = i
           D == DOMAIN bindings
           names == Plan[p].inputNames
           parameters == Plan[p].parameters
           F == {i \in 1 .. InputCount(p) : parameters[i] # 0 /\ ~Given(bindings, i)}
<1>1. /\ InputCount(p) \in Nat
      /\ \A i, j \in 1 .. InputCount(p) : names[i] = names[j] => i = j
      /\ \A i \in 1 .. InputCount(p) : parameters[i] # 0 => names[i] \in InputNames
  BY PlanOf
<1>2. /\ D = 1 .. Len(bindings) /\ Len(bindings) \in Nat
      /\ \A k \in D : bindings[k] \in BindingRecords
  OBVIOUS
<1>3. \A k \in D : /\ bindings[k].index \in 1 .. InputCount(p)
                   /\ parameters[bindings[k].index] # 0
                   /\ ValidBuffer(p, bindings[k].buffer, Plan[p].inputTypes[parameters[bindings[k].index]])
  BY DEF ValidBindings
<1>4. \A j, k \in D : bindings[j].index = bindings[k].index => j = k
  <2>1. \A j, k \in D : j < k => bindings[j].index # bindings[k].index
    BY <1>2 DEF ValidBindings
  <2>2. \A j, k \in D : j < k \/ k < j \/ j = k
    BY <1>2
  <2>3. QED BY <2>1, <2>2
<1>5. \A k \in D : bindings[k].buffer \in Buffers /\ bindings[k].buffer.value \in Values
  BY <1>2 DEF BindingRecords, Buffers
<1>6. w = [n \in InputNames |-> IF \E k \in D : names[bindings[k].index] = n
                                THEN bindings[CHOOSE k \in D : names[bindings[k].index] = n].buffer.value
                                ELSE Nothing]
  BY DEF ValuesByName
<1>7. w \in Weights
  <2>1. ASSUME NEW n \in InputNames PROVE w[n] \in Values \union {Nothing}
    BY <1>5, <1>6
  <2> HIDE DEF w
  <2>2. QED BY <1>6, <2>1 DEF Weights
<1>8. inputs = [i \in 1 .. InputCount(p) |->
                   IF Given(bindings, i) THEN [kind |-> "fixed", buffer |-> bindings[At(i)].buffer]
                   ELSE IF parameters[i] = 0 THEN [kind |-> "unused"]
                   ELSE [kind |-> "dynamic", index |-> DynamicIndex(p, bindings, i)]]
  BY DEF BindInputs
<1> HIDE DEF inputs, w, names, parameters, D
<1>9. ASSUME NEW i \in 1 .. InputCount(p), Given(bindings, i)
      PROVE  /\ At(i) \in D /\ bindings[At(i)].index = i
             /\ parameters[i] # 0 /\ w[names[i]] = bindings[At(i)].buffer.value
  <2>1. At(i) \in D /\ bindings[At(i)].index = i
    BY <1>9 DEF Given, D
  <2> DEFINE k == At(i)
  <2> HIDE DEF k
  <2>2. k \in D /\ bindings[k].index = i
    BY <2>1 DEF k
  <2>3. parameters[i] # 0
    BY <1>3, <2>2
  <2>4. names[i] \in InputNames
    BY <1>1, <2>3
  <2>5. \A j \in D : names[bindings[j].index] = names[i] => j = k
    BY <1>1, <1>3, <1>4, <2>2
  <2>6. (CHOOSE j \in D : names[bindings[j].index] = names[i]) = k
    BY <2>2, <2>5
  <2>7. w[names[i]] = bindings[k].buffer.value
    BY <1>6, <2>2, <2>4, <2>6
  <2>8. QED BY <2>1, <2>3, <2>7 DEF k
<1>10. ASSUME NEW i \in 1 .. InputCount(p), ~Given(bindings, i), parameters[i] # 0
       PROVE  w[names[i]] = Nothing
  <2>1. \A j \in D : names[bindings[j].index] # names[i]
    BY <1>1, <1>3, <1>10 DEF Given, D
  <2>2. QED BY <1>1, <1>6, <1>10, <2>1
<1>11. \A i \in 1 .. InputCount(p) : inputs[i].kind = "fixed" <=> Given(bindings, i)
  BY <1>8
<1>12. FreeOf(p, inputs) = F
  BY <1>11 DEF FreeOf, parameters
<1>13. ASSUME NEW i \in 1 .. InputCount(p)
       PROVE  DynamicIndex(p, bindings, i) = OrderIn(i, F) /\ DynamicIndex(p, bindings, i) \in Nat
  <2>1. {j \in 1 .. i : parameters[j] # 0 /\ ~Given(bindings, j)} = {j \in F : j <= i}
    BY <1>1
  <2>2. DynamicIndex(p, bindings, i) = OrderIn(i, F)
    BY <2>1 DEF DynamicIndex, OrderIn, parameters
  <2>3. IsFiniteSet(1 .. InputCount(p))
    BY <1>1, FS_Interval
  <2>4. {j \in F : j <= i} \in SUBSET (1 .. InputCount(p))
    OBVIOUS
  <2> HIDE DEF F
  <2>5. Cardinality({j \in F : j <= i}) \in Nat
    BY <2>3, <2>4, FS_Subset, FS_CardinalityType
  <2>6. QED BY <2>2, <2>5 DEF OrderIn
<1>14. ASSUME NEW i \in 1 .. InputCount(p)
       PROVE  /\ inputs[i] \in InputBindings
              /\ inputs[i].kind = "unused" => parameters[i] = 0
              /\ inputs[i].kind = "fixed" =>
                     /\ parameters[i] # 0
                     /\ ValidBuffer(p, inputs[i].buffer, Plan[p].inputTypes[parameters[i]])
                     /\ w[names[i]] = inputs[i].buffer.value
              /\ inputs[i].kind = "dynamic" =>
                     /\ parameters[i] # 0
                     /\ w[names[i]] = Nothing
                     /\ inputs[i].index = OrderIn(i, F)
  <2> HIDE DEF F, At
  <2>1. CASE Given(bindings, i)
    <3>1. inputs[i] = [kind |-> "fixed", buffer |-> bindings[At(i)].buffer]
      BY <1>8, <2>1
    <3>2. /\ bindings[At(i)].buffer \in Buffers
          /\ ValidBuffer(p, bindings[At(i)].buffer, Plan[p].inputTypes[parameters[i]])
      BY <1>3, <1>5, <1>9, <2>1
    <3>3. QED BY <1>9, <2>1, <3>1, <3>2 DEF InputBindings
  <2>2. CASE ~Given(bindings, i) /\ parameters[i] = 0
    BY <1>8, <2>2 DEF InputBindings
  <2>3. CASE ~Given(bindings, i) /\ parameters[i] # 0
    <3>1. inputs[i] = [kind |-> "dynamic", index |-> DynamicIndex(p, bindings, i)]
      BY <1>8, <2>3
    <3>2. QED BY <1>10, <1>13, <2>3, <3>1 DEF InputBindings
  <2>4. QED BY <2>1, <2>2, <2>3
<1> HIDE DEF F
<1>15. inputs \in [1 .. InputCount(p) -> InputBindings]
  <2>1. DOMAIN inputs = 1 .. InputCount(p) /\ inputs = [i \in 1 .. InputCount(p) |-> inputs[i]]
    BY <1>8
  <2>2. QED BY <1>14, <2>1
<1>16. InputsBound(p, inputs, w)
  BY <1>12, <1>14, <1>15 DEF InputsBound, names, parameters
<1>17. QED BY <1>7, <1>16 DEF inputs, w

-----------------------------------------------------------------------------
\* How sessions are put together.

\* A session of fitting parts.
LEMMA Assembled ==
    ASSUME NEW p \in Executables, NEW states, NEW inputs, NEW w \in Weights,
           StatesFit(p, states), InputsBound(p, inputs, w)
    PROVE  /\ NewSession(p, states, inputs) \in LiveSessions
           /\ Fits(NewSession(p, states, inputs), w)
<1>1. SlotCount(p) \in Nat /\ InputCount(p) \in Nat
  BY PlanOf
<1>2. states \in Seq(Buffers) /\ inputs \in Seq(InputBindings) /\ DOMAIN inputs = 1 .. InputCount(p)
  BY <1>1 DEF StatesFit, InputsBound
<1>3. DynamicCount(inputs) \in Nat
  <2> DEFINE F == {i \in DOMAIN inputs : inputs[i].kind = "dynamic"}
  <2>1. F \in SUBSET (1 .. InputCount(p)) /\ IsFiniteSet(1 .. InputCount(p))
    BY <1>1, <1>2, FS_Interval
  <2>2. DynamicCount(inputs) = Cardinality(F)
    BY DEF DynamicCount
  <2> HIDE DEF F
  <2>3. QED BY <2>1, <2>2, FS_Subset, FS_CardinalityType
<1>4. QED BY <1>2, <1>3 DEF NewSession, LiveSessions, Fits

\* A live session, and the same with other state.
LEMMA Restated ==
    ASSUME SessionInv, NEW s \in Sessions, Live(s)
    PROVE  /\ session[s] \in LiveSessions /\ session[s].program \in Executables
           /\ Fits(session[s], intended[s]) /\ intended[s] \in Weights
           /\ \A states : StatesFit(session[s].program, states) =>
                 /\ [session[s] EXCEPT !.states = states] \in LiveSessions
                 /\ Fits([session[s] EXCEPT !.states = states], intended[s])
<1>1. /\ session[s] \in LiveSessions /\ session[s].program \in Executables
      /\ Fits(session[s], intended[s]) /\ intended[s] \in Weights
  BY DEF SessionInv, SessionTypeOK, Live, LiveSessions, Weights
<1>2. ASSUME NEW states, StatesFit(session[s].program, states)
      PROVE  /\ [session[s] EXCEPT !.states = states] \in LiveSessions
             /\ Fits([session[s] EXCEPT !.states = states], intended[s])
  <2>1. SlotCount(session[s].program) \in Nat
    BY <1>1, PlanOf
  <2>2. states \in Seq(Buffers)
    BY <1>2, <2>1 DEF StatesFit
  <2>3. [session[s] EXCEPT !.states = states] =
            [program |-> session[s].program, states |-> states, inputs |-> session[s].inputs,
             dynamic |-> session[s].dynamic]
    BY <1>1 DEF LiveSessions
  <2>4. QED BY <1>1, <1>2, <2>2, <2>3 DEF LiveSessions, Fits
<1>3. QED BY <1>1, <1>2

\* A session with new bindings is the session of its program with its states and
\* these bindings.
LEMMA Rebound ==
    ASSUME SessionInv, NEW s \in Sessions, Live(s), NEW inputs,
           session' = [session EXCEPT ![s].inputs = inputs, ![s].dynamic = DynamicCount(inputs)]
    PROVE  session' = [session EXCEPT ![s] =
                           NewSession(session[s].program, session[s].states, inputs)]
<1> DEFINE r == session[s]
           u == [r EXCEPT !.inputs = inputs, !.dynamic = DynamicCount(inputs)]
<1>1. session' = [session EXCEPT ![s] = u]
  BY DEF SessionInv, SessionTypeOK
<1>2. r = [program |-> r.program, states |-> r.states, inputs |-> r.inputs, dynamic |-> r.dynamic]
  BY Restated DEF LiveSessions
<1>3. /\ DOMAIN u = DOMAIN r /\ u.program = r.program /\ u.states = r.states
      /\ u.inputs = inputs /\ u.dynamic = DynamicCount(inputs)
  BY <1>2
<1>4. DOMAIN u = {"program", "states", "inputs", "dynamic"}
  BY <1>2, <1>3
<1>5. u = [f \in DOMAIN u |-> u[f]]
  OBVIOUS
<1> HIDE DEF u
<1>6. u = [program |-> u.program, states |-> u.states, inputs |-> u.inputs, dynamic |-> u.dynamic]
  BY <1>4, <1>5
<1>7. QED BY <1>1, <1>3, <1>6 DEF NewSession

\* identify_states makes a complete list of the slots.
LEMMA Identified ==
    ASSUME NEW p \in Executables, NEW states \in [1 .. SlotCount(p) -> Buffers]
    PROVE  HeldOf(p, IdentifyStates(p, states))
<1>1. SlotCount(p) \in Nat /\ Plan[p].owner \in Owners
  BY PlanOf DEF Owners
<1>2. \A i \in 1 .. SlotCount(p) : Slot(p, i) \in Slots
  BY <1>1 DEF Slot, Slots
<1>3. QED BY <1>2 DEF HeldOf, IdentifyStates

\* Such a list can be held.
LEMMA MayHold ==
    ASSUME NEW p \in Executables, NEW list, HeldOf(p, list)
    PROVE  list \in HeldStates /\ list # Nothing
<1>1. SlotCount(p) \in Nat
  BY PlanOf
<1> DEFINE Entries == [slot : Slots, buffer : Buffers]
<1>2. list \in HeldStates
  <2>1. list \in [1 .. SlotCount(p) -> Entries]
    BY DEF HeldOf
  <2>2. HeldStates = Seq(Entries)
    BY DEF HeldStates
  <2> HIDE DEF Entries
  <2>3. QED BY <1>1, <2>1, <2>2
<1>3. QED BY <1>2, NothingAssumption

\* An operation on one session keeps the others as they are.
LEMMA OneSession ==
    ASSUME SessionInv, NEW s \in Sessions, NEW live \in LiveSessions, NEW w \in Weights,
           Fits(live, w), session' = [session EXCEPT ![s] = live],
           intended' = [intended EXCEPT ![s] = w], HeldRight'
    PROVE  SessionInv'
<1>1. /\ session \in [Sessions -> LiveSessions \union {Nothing}]
      /\ intended \in [Sessions -> Weights]
  BY DEF SessionInv, SessionTypeOK, Weights
<1>2. /\ session' \in [Sessions -> LiveSessions \union {Nothing}]
      /\ intended' \in [Sessions -> Weights]
  BY <1>1
<1>3. ASSUME NEW t \in Sessions
      PROVE  IF Live(t)' THEN Fits(session'[t], intended'[t]) ELSE intended'[t] = NoWeights
  <2>1. CASE t = s
    <3>1. session'[t] = live /\ intended'[t] = w
      BY <1>1, <2>1
    <3>2. Live(t)'
      BY <3>1, NothingAssumption DEF Live
    <3>3. QED BY <3>1, <3>2
  <2>2. CASE t # s
    <3>1. session'[t] = session[t] /\ intended'[t] = intended[t]
      BY <1>1, <2>2
    <3>2. Live(t)' <=> Live(t)
      BY <3>1 DEF Live
    <3>3. QED BY <3>1, <3>2 DEF SessionInv
  <2>3. QED BY <2>1, <2>2
<1>4. ASSUME NEW t \in Sessions, Live(t)'
      PROVE  /\ Len(session'[t].states) = SlotCount(session'[t].program)
             /\ Len(session'[t].inputs) = InputCount(session'[t].program)
  <2>1. session'[t].program \in Executables
    BY <1>2, <1>4 DEF Live, LiveSessions
  <2>2. SlotCount(session'[t].program) \in Nat /\ InputCount(session'[t].program) \in Nat
    BY <2>1, PlanOf
  <2>3. Fits(session'[t], intended'[t])
    BY <1>3, <1>4
  <2>4. /\ DOMAIN session'[t].states = 1 .. SlotCount(session'[t].program)
        /\ DOMAIN session'[t].inputs = 1 .. InputCount(session'[t].program)
    BY <2>3 DEF Fits, StatesFit, InputsBound
  <2>5. session'[t].states \in Seq(Buffers) /\ session'[t].inputs \in Seq(InputBindings)
    BY <1>2, <1>4 DEF Live, LiveSessions
  <2> DEFINE states == session'[t].states
             inputs == session'[t].inputs
             n == SlotCount(session'[t].program)
             m == InputCount(session'[t].program)
  <2> HIDE DEF states, inputs, n, m
  <2>6. /\ n \in Nat /\ m \in Nat /\ DOMAIN states = 1 .. n /\ DOMAIN inputs = 1 .. m
        /\ states \in Seq(Buffers) /\ inputs \in Seq(InputBindings)
    BY <2>2, <2>4, <2>5 DEF states, inputs, n, m
  <2>7. Len(states) = n /\ Len(inputs) = m
    BY <2>6
  <2>8. QED BY <2>7 DEF states, inputs, n, m
<1>5. SessionTypeOK'
  <2>1. held' \in HeldStates \union {Nothing}
    BY DEF HeldRight
  <2>2. QED BY <1>2, <1>4, <2>1 DEF SessionTypeOK, Weights
<1>6. QED BY <1>3, <1>5 DEF SessionInv

-----------------------------------------------------------------------------
\* Switching programs.

\* map_state_by_name pairs slots of one name.
LEMMA Mapped ==
    ASSUME NEW p \in Executables, NEW q \in Executables, NEW mapping \in Mappings(p, q)
    PROVE  \E m \in Nat :
               /\ mapping \in [1 .. m -> [from : Slots, to : Slots]]
               /\ \A k \in 1 .. m :
                      Plan[p].slotNames[mapping[k].from.index] = Plan[q].slotNames[mapping[k].to.index]
<1> DEFINE M == MapStateByName(NamedSlots(p), NamedSlots(q))
           Pair(pair) == /\ pair \in [from : Slots, to : Slots]
                         /\ Plan[p].slotNames[pair.from.index] = Plan[q].slotNames[pair.to.index]
<1>1. MapsByName(p, NamedSlots(p), q, NamedSlots(q)) /\ mapping \in Lists(M)
  BY DEF Mappings
<1>2. /\ SlotCount(p) \in Nat /\ SlotCount(q) \in Nat /\ SlotCount(p) # 0
      /\ Plan[p].owner \in Owners /\ Plan[q].owner \in Owners
  BY PlanOf DEF Owners
<1>3. /\ DOMAIN NamedSlots(p) = 1 .. SlotCount(p) /\ DOMAIN NamedSlots(q) = 1 .. SlotCount(q)
      /\ \A k \in 1 .. SlotCount(p) : /\ NamedSlots(p)[k][1] = Plan[p].slotNames[k]
                                      /\ NamedSlots(p)[k][2] = Slot(p, k)
      /\ \A k \in 1 .. SlotCount(q) : /\ NamedSlots(q)[k][1] = Plan[q].slotNames[k]
                                      /\ NamedSlots(q)[k][2] = Slot(q, k)
  BY DEF NamedSlots
<1>4. \A k \in 1 .. SlotCount(p) : \E j \in 1 .. SlotCount(q) : NamedSlots(q)[j][1] = NamedSlots(p)[k][1]
  BY <1>1, <1>3 DEF MapsByName
<1>5. M = [k \in 1 .. SlotCount(p) |->
              [from |-> NamedSlots(p)[k][2],
               to |-> NamedSlots(q)[CHOOSE j \in 1 .. SlotCount(q) :
                                       NamedSlots(q)[j][1] = NamedSlots(p)[k][1]][2]]]
  BY <1>3 DEF MapStateByName
<1> HIDE DEF M
<1>6. ASSUME NEW k \in 1 .. SlotCount(p) PROVE Pair(M[k])
  <2> DEFINE j == CHOOSE j \in 1 .. SlotCount(q) : NamedSlots(q)[j][1] = NamedSlots(p)[k][1]
  <2>1. j \in 1 .. SlotCount(q) /\ NamedSlots(q)[j][1] = NamedSlots(p)[k][1]
    BY <1>4
  <2>2. M[k] = [from |-> NamedSlots(p)[k][2], to |-> NamedSlots(q)[j][2]]
    BY <1>5
  <2> HIDE DEF j
  <2>3. M[k] = [from |-> Slot(p, k), to |-> Slot(q, j)]
    BY <1>3, <2>1, <2>2
  <2>4. Plan[p].slotNames[k] = Plan[q].slotNames[j]
    BY <1>3, <2>1
  <2>5. QED BY <1>2, <2>1, <2>3, <2>4 DEF Slot, Slots
<1>7. Len(M) = SlotCount(p)
  BY <1>2, <1>5
<1>8. PICK m \in {Len(M) - 1, Len(M)} : mapping \in [1 .. m -> Range(M)]
  BY <1>1 DEF Lists
<1>9. m \in Nat
  BY <1>2, <1>7
<1>10. ASSUME NEW k \in 1 .. m PROVE Pair(mapping[k])
  <2>1. mapping[k] \in Range(M) /\ DOMAIN M = 1 .. SlotCount(p)
    BY <1>5, <1>8
  <2>2. PICK j \in 1 .. SlotCount(p) : mapping[k] = M[j]
    BY <2>1 DEF Range
  <2>3. QED BY <1>6, <2>2
<1>11. mapping \in [1 .. m -> [from : Slots, to : Slots]]
  BY <1>8, <1>10
<1>12. QED BY <1>9, <1>10, <1>11

\* switch_program moves every buffer to the slot of its name, where it fits.
LEMMA Moved ==
    ASSUME NEW p \in Executables, NEW q \in Executables, NEW mapping \in Mappings(p, q),
           NEW states, StatesFit(p, states),
           CompleteLayout(p, [k \in DOMAIN mapping |-> mapping[k].from]),
           CompleteLayout(q, [k \in DOMAIN mapping |-> mapping[k].to]),
           Switchable(p, states, q, mapping)
    PROVE  /\ StatesFit(q, MovedStates(states, mapping))
           /\ \A i \in 1 .. SlotCount(q) : \E j \in 1 .. SlotCount(p) :
                 /\ MovedStates(states, mapping)[i] = states[j]
                 /\ Plan[p].slotNames[j] = Plan[q].slotNames[i]
<1>1. PICK m \in Nat :
          /\ mapping \in [1 .. m -> [from : Slots, to : Slots]]
          /\ \A k \in 1 .. m :
                 Plan[p].slotNames[mapping[k].from.index] = Plan[q].slotNames[mapping[k].to.index]
  BY Mapped
<1> DEFINE from == [k \in DOMAIN mapping |-> mapping[k].from]
           to == [k \in DOMAIN mapping |-> mapping[k].to]
<1>2. /\ from \in [1 .. m -> Slots] /\ to \in [1 .. m -> Slots]
      /\ \A k \in 1 .. m : from[k] = mapping[k].from /\ to[k] = mapping[k].to
  BY <1>1
<1>3. CompleteLayout(p, from) /\ CompleteLayout(q, to)
  OBVIOUS
<1> HIDE DEF from, to
<1>4. /\ m = SlotCount(p)
      /\ \A k \in 1 .. m : from[k].index \in 1 .. SlotCount(p)
  BY <1>2, <1>3, Complete
<1>5. /\ m = SlotCount(q)
      /\ \A j, k \in 1 .. m : to[j].index = to[k].index => j = k
      /\ \A i \in 1 .. SlotCount(q) : \E k \in 1 .. m : to[k].index = i
  BY <1>2, <1>3, Complete
<1>6. DOMAIN states = 1 .. m /\ \A j \in 1 .. m : states[j] \in Buffers
  BY <1>4 DEF StatesFit
<1>7. ASSUME NEW i \in 1 .. m
      PROVE  \E k \in 1 .. m : /\ mapping[k].to.index = i
                               /\ MovedStates(states, mapping)[i] = states[mapping[k].from.index]
  <2> DEFINE Goes(j) == \E k \in 1 .. m : mapping[k].from.index = j /\ mapping[k].to.index = i
             j == CHOOSE j \in 1 .. m : Goes(j)
  <2>1. PICK k \in 1 .. m : mapping[k].to.index = i
    <3>1. i \in 1 .. SlotCount(q)
      BY <1>5
    <3>2. PICK k \in 1 .. m : to[k].index = i
      BY <1>5, <3>1
    <3>3. QED BY <1>2, <3>2
  <2>2. mapping[k].from.index \in 1 .. m
    BY <1>2, <1>4
  <2>3. \E x \in 1 .. m : Goes(x)
    BY <2>1, <2>2
  <2>4. j \in 1 .. m /\ Goes(j)
    <3> HIDE DEF Goes
    <3> QED BY <2>3
  <2>5. MovedStates(states, mapping)[i] = states[j]
    BY <1>1, <1>6 DEF MovedStates
  <2> HIDE DEF j
  <2>6. QED BY <2>4, <2>5
<1>8. ASSUME NEW i \in 1 .. m
      PROVE  /\ MovedStates(states, mapping)[i] \in Buffers
             /\ ValidBuffer(q, MovedStates(states, mapping)[i], Plan[q].types[i])
             /\ \E j \in 1 .. m : /\ MovedStates(states, mapping)[i] = states[j]
                                  /\ Plan[p].slotNames[j] = Plan[q].slotNames[i]
  <2>1. PICK k \in 1 .. m : /\ mapping[k].to.index = i
                            /\ MovedStates(states, mapping)[i] = states[mapping[k].from.index]
    BY <1>7
  <2>2. mapping[k].from.index \in 1 .. m
    BY <1>2, <1>4
  <2>3. ValidBuffer(q, states[mapping[k].from.index], Plan[q].types[mapping[k].to.index])
    BY <1>1 DEF Switchable
  <2>4. QED BY <1>1, <1>6, <2>1, <2>2, <2>3
<1>9. MovedStates(states, mapping) \in [1 .. m -> Buffers]
  <2>1. MovedStates(states, mapping) = [i \in 1 .. m |-> MovedStates(states, mapping)[i]]
    BY <1>6 DEF MovedStates
  <2>2. QED BY <1>8, <2>1
<1>10. QED BY <1>4, <1>5, <1>8, <1>9 DEF StatesFit

-----------------------------------------------------------------------------
\* Running a program.

\* The sessions as stores of named values.
LEMMA StoreAt ==
    ASSUME NEW p \in Executables, NEW states \in [1 .. SlotCount(p) -> Buffers]
    PROVE  /\ StoreOf(p, states) \in [SlotNames -> Values]
           /\ \A i \in 1 .. SlotCount(p) :
                 StoreOf(p, states)[Plan[p].slotNames[i]] = states[i].value
<1> DEFINE At(n) == CHOOSE i \in 1 .. SlotCount(p) : Plan[p].slotNames[i] = n
<1>1. ASSUME NEW n \in SlotNames
      PROVE  At(n) \in 1 .. SlotCount(p) /\ Plan[p].slotNames[At(n)] = n
  BY PlanOf
<1>2. \A i \in 1 .. SlotCount(p) : states[i].value \in Values
  BY DEF Buffers
<1>3. StoreOf(p, states) = [n \in SlotNames |-> states[At(n)].value]
  BY DEF StoreOf
<1> HIDE DEF At
<1>4. StoreOf(p, states) \in [SlotNames -> Values]
  BY <1>1, <1>2, <1>3
<1>5. ASSUME NEW i \in 1 .. SlotCount(p)
      PROVE  StoreOf(p, states)[Plan[p].slotNames[i]] = states[i].value
  <2>1. Plan[p].slotNames[i] \in SlotNames
    BY PlanOf
  <2>2. \A j \in 1 .. SlotCount(p) : Plan[p].slotNames[j] = Plan[p].slotNames[i] => j = i
    BY PlanOf
  <2>3. At(Plan[p].slotNames[i]) = i
    BY <1>1, <2>1, <2>2
  <2>4. QED BY <1>3, <2>1, <2>3
<1>6. QED BY <1>4, <1>5

\* The free inputs of a session are those bound dynamically, and as many as it says.
LEMMA FreeNumbers ==
    ASSUME SessionInv, NEW s \in Sessions, Live(s)
    PROVE  LET p == session[s].program
               inputs == session[s].inputs
           IN  /\ FreeInputs(s) = FreeOf(p, inputs)
               /\ FreeInputs(s) = {i \in DOMAIN inputs : inputs[i].kind = "dynamic"}
               /\ session[s].dynamic = Cardinality(FreeInputs(s))
               /\ FreeInputs(s) \in SUBSET (1 .. InputCount(p))
<1> DEFINE p == session[s].program
           inputs == session[s].inputs
<1>1. p \in Executables /\ InputsBound(p, inputs, intended[s]) /\ session[s].dynamic = DynamicCount(inputs)
  BY Restated DEF Fits
<1> HIDE DEF p, inputs
<1>2. DOMAIN inputs = 1 .. InputCount(p)
  BY <1>1 DEF InputsBound
<1>3. \A i \in 1 .. InputCount(p) : inputs[i].kind \in {"fixed", "unused", "dynamic"}
  BY <1>1 DEF InputsBound, InputBindings
<1>4. FreeInputs(s) = FreeOf(p, inputs)
  BY <1>2 DEF FreeInputs, FreeOf, p, inputs
<1>5. FreeInputs(s) = {i \in DOMAIN inputs : inputs[i].kind = "dynamic"}
  BY <1>1, <1>2, <1>3, <1>4 DEF FreeOf, InputsBound
<1>6. session[s].dynamic = Cardinality(FreeInputs(s))
  BY <1>1, <1>5 DEF DynamicCount
<1>7. FreeInputs(s) \in SUBSET (1 .. InputCount(p))
  BY <1>4 DEF FreeOf
<1>8. QED BY <1>4, <1>5, <1>6, <1>7 DEF p, inputs

\* What a run reads by name.
Named(s, values) ==
    [n \in SlotNames \union InputNames |->
        IF n \in SlotNames THEN StoreOf(session[s].program, session[s].states)[n]
        ELSE IF intended[s][n] # Nothing THEN intended[s][n] ELSE values[n]]

\* The argument that execution_arguments puts at a parameter.
ArgumentOf(s, inputs, a) ==
    IF a.kind = "state" THEN session[s].states[a.index]
    ELSE LET binding == session[s].inputs[a.index]
         IN  IF binding.kind = "fixed" THEN binding.buffer ELSE inputs[binding.index]

\* It has the value meant by the argument's name.
LEMMA ArgumentRight ==
    ASSUME SessionInv, NEW s \in Sessions, Live(s), NEW values \in [InputNames -> Values],
           NEW k \in DOMAIN Plan[session[s].program].arguments
    PROVE  LET p == session[s].program
               a == Plan[p].arguments[k]
           IN  /\ ArgumentName(p, a) \in SlotNames \union InputNames
               /\ ArgumentOf(s, CallValues(s, values), a).value = Named(s, values)[ArgumentName(p, a)]
<1> DEFINE p == session[s].program
           a == Plan[p].arguments[k]
           inputs == session[s].inputs
           w == intended[s]
           F == FreeInputs(s)
<1>1. /\ p \in Executables /\ StatesFit(p, session[s].states) /\ InputsBound(p, inputs, w)
  BY Restated DEF Fits
<1>2. /\ a \in [kind : {"state", "input"}, index : Nat] /\ k # 0
      /\ a.kind = "state" => a.index \in 1 .. SlotCount(p)
      /\ a.kind # "state" => a.index \in 1 .. InputCount(p) /\ Plan[p].parameters[a.index] = k
  <2>1. Plan[p].arguments \in Seq([kind : {"state", "input"}, index : Nat])
    BY <1>1, PlanAssumption
  <2>2. IF a.kind = "state" THEN a.index \in 1 .. SlotCount(p)
        ELSE a.index \in 1 .. InputCount(p) /\ Plan[p].parameters[a.index] = k
    <3>1. \A j \in DOMAIN Plan[p].arguments :
              LET b == Plan[p].arguments[j]
              IN  IF b.kind = "state" THEN b.index \in 1 .. SlotCount(p)
                  ELSE b.index \in 1 .. InputCount(p) /\ Plan[p].parameters[b.index] = j
      <4> HIDE DEF p
      <4>1. QED BY <1>1, PlanAssumption
    <3>2. QED BY <3>1
  <2>3. k # 0 /\ a \in [kind : {"state", "input"}, index : Nat]
    <3> DEFINE R == [kind : {"state", "input"}, index : Nat]
               list == Plan[p].arguments
    <3>1. list \in Seq(R) /\ k \in DOMAIN list
      BY <2>1
    <3> HIDE DEF R, list
    <3>2. k \in 1 .. Len(list) /\ list[k] \in R
      BY <3>1
    <3>3. k # 0
      BY <3>2
    <3>4. QED BY <3>2, <3>3 DEF R, list
  <2> HIDE DEF a
  <2>4. QED BY <2>2, <2>3
<1>3. F = FreeOf(p, inputs) /\ F \in SUBSET (1 .. InputCount(p))
  BY FreeNumbers
<1>4. CallValues(s, values) =
          [j \in 1 .. Cardinality(F) |->
              Buffer(Plan[p].client, "F32",
                     values[Plan[p].inputNames[CHOOSE i \in F : OrderIn(i, F) = j]])]
  BY DEF CallValues
<1> HIDE DEF F
<1>5. CASE a.kind = "state"
  <2>1. ArgumentName(p, a) = Plan[p].slotNames[a.index] /\ ArgumentName(p, a) \in SlotNames
    <3> HIDE DEF a, p
    <3>1. ArgumentName(p, a) = Plan[p].slotNames[a.index]
      BY <1>5 DEF ArgumentName
    <3>2. Plan[p].slotNames \in [1 .. SlotCount(p) -> SlotNames]
      BY <1>1, PlanOf
    <3>3. a.index \in 1 .. SlotCount(p)
      BY <1>2, <1>5
    <3>4. QED BY <3>1, <3>2, <3>3
  <2>2. ArgumentOf(s, CallValues(s, values), a) = session[s].states[a.index]
    BY <1>5 DEF ArgumentOf
  <2>3. session[s].states \in [1 .. SlotCount(p) -> Buffers]
    BY <1>1 DEF StatesFit
  <2>4. StoreOf(p, session[s].states)[ArgumentName(p, a)] = session[s].states[a.index].value
    <3>1. \A i \in 1 .. SlotCount(p) :
              StoreOf(p, session[s].states)[Plan[p].slotNames[i]] = session[s].states[i].value
      BY <1>1, <2>3, StoreAt
    <3>2. QED BY <1>2, <1>5, <2>1, <3>1
  <2>5. QED BY <2>1, <2>2, <2>4 DEF Named
<1>6. CASE a.kind # "state"
  <2> DEFINE i == a.index
             name == Plan[p].inputNames[i]
             binding == inputs[i]
  <2>1. i \in 1 .. InputCount(p) /\ Plan[p].parameters[i] # 0
    BY <1>2, <1>6
  <2>2. ArgumentName(p, a) = name /\ name \in InputNames /\ name \notin SlotNames
    <3>1. SlotNames \cap InputNames = {}
      BY PlanAssumption
    <3>2. name \in InputNames
      <4>1. \A j \in 1 .. InputCount(p) : Plan[p].parameters[j] # 0 => Plan[p].inputNames[j] \in InputNames
        BY <1>1, PlanOf
      <4>2. QED BY <2>1, <4>1
    <3>3. QED BY <1>6, <3>1, <3>2 DEF ArgumentName
  <2>3. Named(s, values)[name] = IF w[name] # Nothing THEN w[name] ELSE values[name]
    BY <2>2 DEF Named
  <2>4. ArgumentOf(s, CallValues(s, values), a) =
            IF binding.kind = "fixed" THEN binding.buffer ELSE CallValues(s, values)[binding.index]
    BY <1>6 DEF ArgumentOf
  <2>5. binding \in InputBindings /\ binding.kind \in {"fixed", "unused", "dynamic"}
    BY <1>1, <2>1 DEF InputsBound, InputBindings
  <2>6. binding.kind # "unused"
    BY <1>1, <2>1 DEF InputsBound
  <2>7. CASE binding.kind = "fixed"
    <3>1. w[name] = binding.buffer.value
      BY <1>1, <2>1, <2>7 DEF InputsBound
    <3>2. binding.buffer \in Buffers
      BY <2>5, <2>7 DEF InputBindings
    <3>3. binding.buffer.value # Nothing
      BY <3>2, NothingAssumption DEF Buffers
    <3>4. QED BY <2>2, <2>3, <2>4, <2>7, <3>1, <3>3
  <2>8. CASE binding.kind = "dynamic"
    <3>1. w[name] = Nothing /\ binding.index = OrderIn(i, F)
      BY <1>1, <1>3, <2>1, <2>8 DEF InputsBound
    <3>2. i \in F
      BY <1>3, <2>1, <2>8 DEF FreeOf
    <3>3. /\ OrderIn(i, F) \in 1 .. Cardinality(F)
          /\ \A j \in F : OrderIn(j, F) = OrderIn(i, F) => j = i
      <4>1. InputCount(p) \in Nat
        BY <1>1, PlanOf
      <4>2. QED BY <1>3, <3>2, <4>1, Orders
    <3>4. (CHOOSE j \in F : OrderIn(j, F) = OrderIn(i, F)) = i
      BY <3>2, <3>3
    <3>5. CallValues(s, values)[OrderIn(i, F)] = Buffer(Plan[p].client, "F32", values[name])
      BY <1>4, <3>3, <3>4
    <3>6. ArgumentOf(s, CallValues(s, values), a).value = values[name]
      <4>1. ArgumentOf(s, CallValues(s, values), a) = Buffer(Plan[p].client, "F32", values[name])
        BY <2>4, <2>8, <3>1, <3>5
      <4>2. Buffer(Plan[p].client, "F32", values[name]).value = values[name]
        BY DEF Buffer
      <4>3. QED BY <4>1, <4>2
    <3>7. Named(s, values)[name] = values[name]
      BY <2>3, <3>1
    <3>8. QED BY <2>2, <3>6, <3>7
  <2>9. QED BY <2>5, <2>6, <2>7, <2>8
<1>7. QED BY <1>5, <1>6

\* The program reads every name it keeps with the value meant.
LEMMA ArgumentsRight ==
    ASSUME SessionInv, NEW s \in Sessions, Live(s), NEW values \in [InputNames -> Values]
    PROVE  LET p == session[s].program
           IN  /\ Named(s, values) \in [SlotNames \union InputNames -> Values]
               /\ NamedValues(p, ExecutionArguments(s, CallValues(s, values)))
                      = [n \in ArgumentNames(p) |-> Named(s, values)[n]]
<1> DEFINE p == session[s].program
           args == ExecutionArguments(s, CallValues(s, values))
           D == DOMAIN Plan[p].arguments
           name(k) == ArgumentName(p, Plan[p].arguments[k])
<1>1. /\ p \in Executables /\ session[s].states \in [1 .. SlotCount(p) -> Buffers]
      /\ intended[s] \in Weights
  BY Restated DEF Fits, StatesFit
<1>2. Named(s, values) \in [SlotNames \union InputNames -> Values]
  <2>1. StoreOf(p, session[s].states) \in [SlotNames -> Values]
    BY <1>1, StoreAt
  <2>2. \A n \in InputNames : intended[s][n] # Nothing => intended[s][n] \in Values
    BY <1>1 DEF Weights
  <2>3. QED BY <2>1, <2>2 DEF Named
<1>3. DOMAIN args = D /\ \A k \in D : args[k] = ArgumentOf(s, CallValues(s, values), Plan[p].arguments[k])
  BY DEF ExecutionArguments, ArgumentOf
<1>4. \A k \in D : args[k].value = Named(s, values)[name(k)]
  BY <1>3, ArgumentRight
<1>5. NamedValues(p, args) = [n \in ArgumentNames(p) |-> args[CHOOSE k \in D : name(k) = n].value]
  <2> HIDE DEF args, D
  <2> QED BY <1>3 DEF NamedValues
<1> HIDE DEF args
<1>6. ASSUME NEW n \in ArgumentNames(p)
      PROVE  NamedValues(p, args)[n] = Named(s, values)[n]
  <2>1. \E k \in D : name(k) = n
    BY DEF ArgumentNames
  <2> DEFINE k == CHOOSE k \in D : name(k) = n
  <2>2. k \in D /\ name(k) = n
    <3> HIDE DEF name, D
    <3> QED BY <2>1
  <2>3. NamedValues(p, args)[n] = args[k].value
    BY <1>5
  <2> HIDE DEF k
  <2>4. QED BY <1>4, <2>2, <2>3
<1>7. NamedValues(p, args) = [n \in ArgumentNames(p) |-> NamedValues(p, args)[n]]
  BY <1>5
<1>8. QED BY <1>2, <1>6, <1>7 DEF args

\* Two lists, one after the other.
LEMMA Joined ==
    ASSUME NEW S, NEW a \in Seq(S), NEW b \in Seq(S)
    PROVE  /\ a \o b \in Seq(S) /\ Len(a \o b) = Len(a) + Len(b)
           /\ DOMAIN (a \o b) = 1 .. Len(a) + Len(b)
           /\ \A i \in 1 .. Len(b) : (a \o b)[Len(a) + i] = b[i]
OBVIOUS

\* What run commits: checked results are the transition's, slot by slot.
LEMMA Committed ==
    ASSUME NEW p \in Executables, NEW arguments, NEW outputs \in Executions(p, arguments),
           Len(outputs) = Len(ResultTypes(p)),
           \A k \in DOMAIN outputs : ValidBuffer(p, outputs[k], ResultTypes(p)[k])
    PROVE  NewStates(p, outputs) =
               [i \in 1 .. SlotCount(p) |->
                   Buffer(Plan[p].client, Plan[p].types[i],
                          Transition(Plan[p].slotNames[i], NamedValues(p, arguments)))]
<1> DEFINE right == Results(p, arguments)
           v == Plan[p].visible
           n == SlotCount(p)
           T(i) == Transition(Plan[p].slotNames[i], NamedValues(p, arguments))
           A == [k \in 1 .. v |-> Buffer(Plan[p].client, "F32", 0)]
           B == [i \in 1 .. n |-> Buffer(Plan[p].client, Plan[p].types[i], T(i))]
<1>1. /\ v \in Nat /\ n \in Nat /\ n # 0 /\ Plan[p].types \in [1 .. n -> Types]
      /\ Len(Plan[p].types) = n
  BY PlanOf DEF SlotCount
<1>2. right = A \o B
  BY DEF Results
<1> HIDE DEF T, n, v
<1> DEFINE S == Range(A) \union Range(B)
<1>3. A \in Seq(S) /\ Len(A) = v /\ B \in Seq(S) /\ Len(B) = n
  BY <1>1 DEF Range
<1>4. /\ DOMAIN right = 1 .. v + n /\ Len(right) = v + n /\ right \in Seq(S)
      /\ \A i \in 1 .. n : right[v + i] = B[i]
  <2> HIDE DEF A, B, S, right
  <2>1. /\ A \o B \in Seq(S) /\ Len(A \o B) = Len(A) + Len(B)
        /\ DOMAIN (A \o B) = 1 .. Len(A) + Len(B)
        /\ \A i \in 1 .. Len(B) : (A \o B)[Len(A) + i] = B[i]
    BY <1>3, Joined
  <2>2. QED BY <1>2, <1>3, <2>1
<1>6. /\ Len(ResultTypes(p)) = v + n
      /\ \A i \in 1 .. n : ResultTypes(p)[v + i] = Plan[p].types[i]
  <2> DEFINE C == [k \in 1 .. v |-> "F32"]
             E == Plan[p].types
  <2>1. C \in Seq(Types) /\ Len(C) = v /\ E \in Seq(Types) /\ Len(E) = n
    <3>1. "F32" \in Types
      BY DEF Types
    <3>2. QED BY <1>1, <3>1
  <2>2. ResultTypes(p) = C \o E
    BY DEF ResultTypes, v
  <2> HIDE DEF C, E
  <2>3. Len(C \o E) = v + n /\ \A i \in 1 .. n : (C \o E)[v + i] = E[i]
    <3>1. /\ Len(C \o E) = Len(C) + Len(E)
          /\ \A i \in 1 .. Len(E) : (C \o E)[Len(C) + i] = E[i]
      BY <2>1, Joined
    <3>2. QED BY <2>1, <3>1
  <2>4. QED BY <2>2, <2>3 DEF E
<1> HIDE DEF right
<1>7. /\ Len(outputs) = v + n /\ DOMAIN outputs = 1 .. v + n
      /\ \A i \in 1 .. n : outputs[v + i] = B[i]
  <2>1. CASE outputs = right
    BY <1>1, <1>4, <2>1
  <2>2. CASE outputs = Front(right)
    <3>1. Len(outputs) = v + n - 1
      BY <1>1, <1>4, <2>2 DEF Front
    <3>2. QED BY <1>1, <1>6, <3>1
  <2>3. ASSUME NEW k \in DOMAIN right, outputs = [right EXCEPT ![k].type = OtherType]
        PROVE  /\ Len(outputs) = v + n /\ DOMAIN outputs = 1 .. v + n
               /\ \A i \in 1 .. n : outputs[v + i] = B[i]
    <3>1. DOMAIN outputs = 1 .. v + n /\ Len(outputs) = v + n
      BY <1>1, <1>4, <2>3
    <3>2. ASSUME NEW i \in 1 .. n PROVE outputs[v + i] = B[i]
      <4>1. v + i \in 1 .. v + n
        BY <1>1
      <4>2. CASE v + i # k
        BY <1>4, <2>3, <4>1, <4>2
      <4>3. CASE v + i = k
        <5>1. outputs[v + i] = [B[i] EXCEPT !.type = OtherType]
          BY <1>4, <2>3, <4>1, <4>3
        <5>2. B[i] = [client |-> Plan[p].client, type |-> Plan[p].types[i], value |-> T(i)]
          BY DEF Buffer
        <5>3. outputs[v + i].type = Plan[p].types[i]
          BY <1>6, <3>1, <4>1 DEF ValidBuffer
        <5> HIDE DEF B
        <5>4. QED BY <5>1, <5>2, <5>3
      <4>4. QED BY <4>2, <4>3
    <3>3. QED BY <3>1, <3>2
  <2>4. QED BY <2>1, <2>2, <2>3 DEF Executions, right
<1>8. NewStates(p, outputs) = SubSeq(outputs, v + 1, v + n)
  BY <1>7 DEF NewStates, v
<1>9. SubSeq(outputs, v + 1, v + n) = [i \in 1 .. n |-> outputs[v + i]]
  BY <1>1, <1>7
<1>10. NewStates(p, outputs) = B
  <2> HIDE DEF B
  <2>1. [i \in 1 .. n |-> outputs[v + i]] = [i \in 1 .. n |-> B[i]]
    BY <1>7
  <2>2. B = [i \in 1 .. n |-> B[i]]
    BY DEF B
  <2>3. QED BY <1>8, <1>9, <2>1, <2>2
<1>11. QED BY <1>10 DEF T, n

-----------------------------------------------------------------------------
\* The invariant.

\* Where no session changes, what the caller holds may.
LEMMA SameSessions ==
    ASSUME SessionInv, UNCHANGED <<session, intended>>, HeldRight'
    PROVE  SessionInv'
<1>1. held' \in HeldStates \union {Nothing}
  BY DEF HeldRight
<1>2. SessionTypeOK'
  BY <1>1 DEF SessionInv, SessionTypeOK, Live
<1>3. QED BY <1>2 DEF SessionInv, Live

\* What the caller holds changes with held alone.
LEMMA SameHeld ==
    ASSUME HeldRight, held' = held
    PROVE  HeldRight'
BY DEF HeldRight

\* Taking the state of a program out makes it held.
LEMMA TakenOut ==
    ASSUME NEW p \in Executables, NEW states \in [1 .. SlotCount(p) -> Buffers],
           held' = IdentifyStates(p, states)
    PROVE  HeldRight'
<1>1. HeldOf(p, held')
  BY Identified
<1>2. held' \in HeldStates
  BY <1>1, MayHold
<1>3. QED BY <1>1, <1>2 DEF HeldRight

\* An empty list of bindings is always right.
LEMMA NoBindings ==
    ASSUME NEW p \in Executables
    PROVE  /\ InputsBound(p, BindInputs(p, <<>>), ValuesByName(p, <<>>))
           /\ ValuesByName(p, <<>>) \in Weights /\ ValuesByName(p, <<>>) = NoWeights
<1>1. <<>> \in Seq(BindingRecords) /\ ValidBindings(p, <<>>)
  BY DEF ValidBindings
<1>2. ValuesByName(p, <<>>) = NoWeights
  BY DEF ValuesByName, NoWeights
<1>3. QED BY <1>1, <1>2, BoundInputs

\* The states of a session with the buffers of another client.
LEMMA Copied ==
    ASSUME NEW p \in Executables, NEW states \in [1 .. SlotCount(p) -> Buffers], NEW c \in Clients
    PROVE  LET copy == [k \in DOMAIN states |-> [states[k] EXCEPT !.client = c]]
           IN  /\ copy \in [1 .. SlotCount(p) -> Buffers]
               /\ \A k \in 1 .. SlotCount(p) : copy[k].value = states[k].value
BY DEF Buffers

\* The results of a run fit, and each has the value of the transition.
LEMMA RunStates ==
    ASSUME SessionInv, NEW s \in Sessions, Live(s), NEW values \in [InputNames -> Values],
           NEW outputs \in Executions(session[s].program, ExecutionArguments(s, CallValues(s, values))),
           Len(outputs) = Len(ResultTypes(session[s].program)),
           \A k \in DOMAIN outputs :
               ValidBuffer(session[s].program, outputs[k], ResultTypes(session[s].program)[k])
    PROVE  LET p == session[s].program
           IN  /\ StatesFit(p, NewStates(p, outputs))
               /\ Named(s, values) \in [SlotNames \union InputNames -> Values]
               /\ \A i \in 1 .. SlotCount(p) :
                     NewStates(p, outputs)[i].value = Transition(Plan[p].slotNames[i], Named(s, values))
<1> DEFINE p == session[s].program
           arguments == ExecutionArguments(s, CallValues(s, values))
           v == Named(s, values)
           T(i) == Transition(Plan[p].slotNames[i], NamedValues(p, arguments))
           states == NewStates(p, outputs)
<1>1. p \in Executables
  BY Restated
<1>2. v \in [SlotNames \union InputNames -> Values] /\ NamedValues(p, arguments) = [n \in ArgumentNames(p) |-> v[n]]
  BY ArgumentsRight
<1>3. states = [i \in 1 .. SlotCount(p) |-> Buffer(Plan[p].client, Plan[p].types[i], T(i))]
  BY <1>1, Committed
<1> HIDE DEF states, v, arguments, p
<1>4. ASSUME NEW i \in 1 .. SlotCount(p)
      PROVE  /\ states[i] \in Buffers /\ ValidBuffer(p, states[i], Plan[p].types[i])
             /\ states[i].value = Transition(Plan[p].slotNames[i], v)
  <2>1. /\ Plan[p].slotNames[i] \in SlotNames /\ Plan[p].client \in Clients
        /\ Plan[p].types[i] \in Types
    BY <1>1, PlanOf
  <2>2. /\ Transition(Plan[p].slotNames[i], v) \in Values
        /\ Transition(Plan[p].slotNames[i], [n \in ArgumentNames(p) |-> v[n]])
               = Transition(Plan[p].slotNames[i], v)
    BY <1>1, <1>2, <2>1, TransitionAssumption
  <2>3. T(i) = Transition(Plan[p].slotNames[i], v)
    BY <1>2, <2>2
  <2>4. states[i] = Buffer(Plan[p].client, Plan[p].types[i], Transition(Plan[p].slotNames[i], v))
    BY <1>3, <2>3
  <2>5. QED BY <2>1, <2>2, <2>4 DEF Buffer, Buffers, ValidBuffer
<1>5. StatesFit(p, states)
  BY <1>3, <1>4 DEF StatesFit
<1>6. QED BY <1>2, <1>4, <1>5 DEF states, v, p

\* Every operation keeps sessions fitting.
LEMMA SessionStep ==
    ASSUME SessionInv, [SessionNext]_sessionVars
    PROVE  SessionInv'
<1>0. HeldRight
  BY DEF SessionInv
<1>1. ASSUME NEW s \in Sessions, NEW p \in Executables, Open(s, p) PROVE SessionInv'
  <2>1. PICK offer \in Offers(p) :
            /\ BindsStates(p, offer)
            /\ session' = [session EXCEPT ![s] =
                               NewSession(p, BindStates(p, offer), BindInputs(p, <<>>))]
    BY <1>1 DEF Open
  <2>2. intended' = [intended EXCEPT ![s] = ValuesByName(p, <<>>)] /\ held' = held
    BY <1>1 DEF Open
  <2>3. StatesFit(p, BindStates(p, offer))
    BY <1>0, <2>1, BoundStates
  <2> DEFINE live == NewSession(p, BindStates(p, offer), BindInputs(p, <<>>))
             w == ValuesByName(p, <<>>)
  <2>4. live \in LiveSessions /\ Fits(live, w) /\ w \in Weights
    BY <2>3, NoBindings, Assembled
  <2>5. session' = [session EXCEPT ![s] = live] /\ intended' = [intended EXCEPT ![s] = w]
    BY <2>1, <2>2
  <2>6. HeldRight'
    BY <1>0, <2>2, SameHeld
  <2> HIDE DEF live, w
  <2>7. QED BY <2>4, <2>5, <2>6, OneSession
<1>2. ASSUME NEW s \in Sessions, NEW t \in Sessions, Fork(s, t) PROVE SessionInv'
  <2>1. Live(s) /\ intended' = [intended EXCEPT ![t] = intended[s]] /\ held' = held
    BY <1>2 DEF Fork
  <2> DEFINE p == session[s].program
  <2>2. PICK offer \in Offers(p) :
            /\ BindsStates(p, offer)
            /\ session' = [session EXCEPT ![t] = [session[s] EXCEPT !.states = BindStates(p, offer)]]
    BY <1>2 DEF Fork
  <2>3. p \in Executables
    BY <2>1, Restated
  <2>4. StatesFit(p, BindStates(p, offer))
    BY <1>0, <2>2, <2>3, BoundStates
  <2> DEFINE live == [session[s] EXCEPT !.states = BindStates(p, offer)]
             w == intended[s]
  <2>5. live \in LiveSessions /\ Fits(live, w) /\ w \in Weights
    BY <2>1, <2>4, Restated
  <2>6. session' = [session EXCEPT ![t] = live] /\ intended' = [intended EXCEPT ![t] = w]
    BY <2>1, <2>2
  <2>7. HeldRight'
    BY <1>0, <2>1, SameHeld
  <2> HIDE DEF live, w
  <2>8. QED BY <2>5, <2>6, <2>7, OneSession
<1>3. ASSUME NEW s \in Sessions, ReplaceState(s) PROVE SessionInv'
  <2> DEFINE p == session[s].program
  <2>1. Live(s) /\ intended' = intended /\ held' = IdentifyStates(p, session[s].states)
    BY <1>3 DEF ReplaceState
  <2>2. PICK offer \in Offers(p) :
            BindsStates(p, offer) /\ session' = [session EXCEPT ![s].states = BindStates(p, offer)]
    BY <1>3 DEF ReplaceState
  <2>3. p \in Executables /\ session[s].states \in [1 .. SlotCount(p) -> Buffers]
    BY <2>1, Restated DEF Fits, StatesFit
  <2>4. StatesFit(p, BindStates(p, offer))
    BY <1>0, <2>2, <2>3, BoundStates
  <2> DEFINE live == [session[s] EXCEPT !.states = BindStates(p, offer)]
             w == intended[s]
  <2>5. live \in LiveSessions /\ Fits(live, w) /\ w \in Weights
    BY <2>1, <2>4, Restated
  <2>6. session' = [session EXCEPT ![s] = live] /\ intended' = [intended EXCEPT ![s] = w]
    BY <2>1, <2>2 DEF SessionInv, SessionTypeOK
  <2>7. HeldRight'
    BY <2>1, <2>3, TakenOut
  <2> HIDE DEF live, w
  <2>8. QED BY <2>5, <2>6, <2>7, OneSession
<1>4. ASSUME NEW s \in Sessions, IntoState(s) PROVE SessionInv'
  <2> DEFINE p == session[s].program
             w == ValuesByName(p, <<>>)
  <2>1. /\ Live(s) /\ held' = IdentifyStates(p, session[s].states)
        /\ session' = [session EXCEPT ![s] = Nothing] /\ intended' = [intended EXCEPT ![s] = w]
    BY <1>4 DEF IntoState
  <2>2. p \in Executables /\ session[s].states \in [1 .. SlotCount(p) -> Buffers]
    BY <2>1, Restated DEF Fits, StatesFit
  <2>3. HeldRight'
    BY <2>1, <2>2, TakenOut
  <2>4. w \in Weights /\ w = NoWeights
    BY <2>2, NoBindings
  <2> HIDE DEF w
  <2>5. /\ session' \in [Sessions -> LiveSessions \union {Nothing}]
        /\ intended' \in [Sessions -> Weights] /\ held' \in HeldStates \union {Nothing}
    BY <2>1, <2>3, <2>4 DEF SessionInv, SessionTypeOK, Weights, HeldRight
  <2>6. ASSUME NEW t \in Sessions, Live(t)'
        PROVE  Live(t) /\ session'[t] = session[t] /\ intended'[t] = intended[t]
    BY <2>1, <2>6 DEF SessionInv, SessionTypeOK, Live
  <2>7. ASSUME NEW t \in Sessions, ~Live(t)' PROVE intended'[t] = NoWeights
    <3>1. CASE t = s
      BY <2>1, <2>4, <3>1 DEF SessionInv, SessionTypeOK
    <3>2. CASE t # s
      <4>1. ~Live(t) /\ intended'[t] = intended[t]
        BY <2>1, <2>7, <3>2 DEF SessionInv, SessionTypeOK, Live
      <4>2. QED BY <4>1 DEF SessionInv
    <3>3. QED BY <3>1, <3>2
  <2>8. SessionTypeOK'
    BY <2>5, <2>6 DEF SessionInv, SessionTypeOK, Weights
  <2>9. QED BY <2>3, <2>6, <2>7, <2>8 DEF SessionInv
<1>5. ASSUME NEW s \in Sessions, NEW c \in Clients, NEW perTensor, NEW total,
             CopyState(s, c, perTensor, total)
      PROVE  SessionInv'
  <2> DEFINE p == session[s].program
             copy == [k \in DOMAIN session[s].states |-> [session[s].states[k] EXCEPT !.client = c]]
  <2>1. Live(s) /\ held' = IdentifyStates(p, copy) /\ UNCHANGED <<session, intended>>
    BY <1>5 DEF CopyState
  <2>2. p \in Executables /\ session[s].states \in [1 .. SlotCount(p) -> Buffers]
    BY <2>1, Restated DEF Fits, StatesFit
  <2>3. copy \in [1 .. SlotCount(p) -> Buffers]
    BY <2>2, Copied
  <2> HIDE DEF copy
  <2>4. HeldRight'
    BY <2>1, <2>2, <2>3, TakenOut
  <2>5. QED BY <2>1, <2>4, SameSessions
<1>6. ASSUME NEW s \in Sessions, Live(s), NEW bindings \in BindingLists[session[s].program],
             BindParameters(s, bindings)
      PROVE  SessionInv'
  <2> DEFINE p == session[s].program
             inputs == BindInputs(p, bindings)
             w == ValuesByName(p, bindings)
             live == NewSession(p, session[s].states, inputs)
  <2>1. /\ ValidBindings(p, bindings) /\ intended' = [intended EXCEPT ![s] = w] /\ held' = held
        /\ session' = [session EXCEPT ![s].inputs = inputs, ![s].dynamic = DynamicCount(inputs)]
    BY <1>6 DEF BindParameters
  <2>2. p \in Executables /\ StatesFit(p, session[s].states) /\ session[s] \in LiveSessions
    BY <1>6, Restated DEF Fits
  <2>3. InputsBound(p, inputs, w) /\ w \in Weights
    BY <2>1, <2>2, CallerLists, BoundInputs
  <2>4. live \in LiveSessions /\ Fits(live, w)
    BY <2>2, <2>3, Assembled
  <2>5. session' = [session EXCEPT ![s] = live]
    BY <1>6, <2>1, Rebound
  <2>6. HeldRight'
    BY <1>0, <2>1, SameHeld
  <2> HIDE DEF live, w
  <2>7. QED BY <2>1, <2>3, <2>4, <2>5, <2>6, OneSession
<1>7. ASSUME NEW s \in Sessions, Live(s), NEW q \in Executables,
             NEW mapping \in Mappings(session[s].program, q),
             NEW bindings \in BindingLists[q], SwitchProgram(s, q, mapping, bindings)
      PROVE  SessionInv'
  <2> DEFINE p == session[s].program
             inputs == BindInputs(q, bindings)
             w == ValuesByName(q, bindings)
             moved == MovedStates(session[s].states, mapping)
             live == NewSession(q, moved, inputs)
  <2>1. /\ CompleteLayout(p, [k \in DOMAIN mapping |-> mapping[k].from])
        /\ CompleteLayout(q, [k \in DOMAIN mapping |-> mapping[k].to])
        /\ Switchable(p, session[s].states, q, mapping) /\ ValidBindings(q, bindings)
        /\ session' = [session EXCEPT ![s] = live]
        /\ intended' = [intended EXCEPT ![s] = w] /\ held' = held
    BY <1>7 DEF SwitchProgram
  <2>2. p \in Executables /\ StatesFit(p, session[s].states)
    BY <1>7, Restated DEF Fits
  <2>3. InputsBound(q, inputs, w) /\ w \in Weights
    BY <2>1, CallerLists, BoundInputs
  <2>4. StatesFit(q, moved)
    BY <2>1, <2>2, Moved
  <2>5. live \in LiveSessions /\ Fits(live, w)
    BY <2>3, <2>4, Assembled
  <2>6. HeldRight'
    BY <1>0, <2>1, SameHeld
  <2> HIDE DEF live, w
  <2>7. QED BY <2>1, <2>3, <2>5, <2>6, OneSession
<1>8. ASSUME NEW s \in Sessions, NEW values \in [InputNames -> Values], Run(s, values)
      PROVE  SessionInv'
  <2> DEFINE p == session[s].program
  <2>1. Live(s) /\ held' = held /\ intended' = intended
    BY <1>8 DEF Run
  <2>2. PICK outputs \in Executions(p, ExecutionArguments(s, CallValues(s, values))) :
            /\ Len(outputs) = Len(ResultTypes(p))
            /\ \A k \in DOMAIN outputs : ValidBuffer(p, outputs[k], ResultTypes(p)[k])
            /\ session' = [session EXCEPT ![s].states = NewStates(p, outputs)]
    BY <1>8 DEF Run
  <2>3. StatesFit(p, NewStates(p, outputs))
    BY <2>1, <2>2, RunStates
  <2> DEFINE live == [session[s] EXCEPT !.states = NewStates(p, outputs)]
             w == intended[s]
  <2>4. live \in LiveSessions /\ Fits(live, w) /\ w \in Weights
    BY <2>1, <2>3, Restated
  <2>5. session' = [session EXCEPT ![s] = live] /\ intended' = [intended EXCEPT ![s] = w]
    BY <2>1, <2>2 DEF SessionInv, SessionTypeOK
  <2>6. HeldRight'
    BY <1>0, <2>1, SameHeld
  <2> HIDE DEF live, w
  <2>7. QED BY <2>4, <2>5, <2>6, OneSession
<1>9. CASE UNCHANGED sessionVars
  <2>1. UNCHANGED <<session, held, intended>>
    BY <1>9 DEF sessionVars
  <2>2. QED BY <1>0, <2>1, SameHeld, SameSessions
<1>10. QED
  BY <1>1, <1>2, <1>3, <1>4, <1>5, <1>6, <1>7, <1>8, <1>9 DEF SessionNext

\* At the start there is no session.
LEMMA SessionStarts ==
    ASSUME SessionInit
    PROVE  SessionInv
<1> DEFINE p == CHOOSE p \in Executables : TRUE
<1>1. p \in Executables
  BY PlanAssumption
<1> HIDE DEF p
<1>2. ValuesByName(p, <<>>) \in Weights /\ ValuesByName(p, <<>>) = NoWeights
  BY <1>1, NoBindings
<1>3. intended = [s \in Sessions |-> ValuesByName(p, <<>>)]
  BY DEF SessionInit, p
<1>4. QED BY <1>2, <1>3 DEF SessionInit, SessionInv, SessionTypeOK, HeldRight, Live, Weights

\* Sessions always fit their programs, and callers hold complete lists.
THEOREM SessionInvariant == SessionSpec => []SessionInv
<1>1. SessionInit => SessionInv
  BY SessionStarts
<1>2. SessionInv /\ [SessionNext]_sessionVars => SessionInv'
  BY SessionStep
<1>3. QED BY <1>1, <1>2, PTL DEF SessionSpec

\* Whatever was moved, copied, bound or switched before, everything a session
\* would execute with fits its program, the values a run takes are numbered
\* densely, and no argument is a pruned input (bind_inputs, execution_arguments).
THEOREM CallsAlwaysFit == SessionSpec => []CallsFit
<1>1. SessionInv => CallsFit
  <2> SUFFICES ASSUME SessionInv PROVE CallsFit
    OBVIOUS
  <2>1. ASSUME NEW s \in Sessions, Live(s)
        PROVE  LET p == session[s].program
                   inputs == session[s].inputs
                   Kind(kind) == {i \in DOMAIN inputs : inputs[i].kind = kind}
               IN  /\ \A i \in DOMAIN session[s].states :
                          ValidBuffer(p, session[s].states[i], Plan[p].types[i])
                   /\ \A i \in Kind("fixed") :
                          ValidBuffer(p, inputs[i].buffer, Plan[p].inputTypes[Plan[p].parameters[i]])
                   /\ {inputs[i].index : i \in Kind("dynamic")} = 1 .. session[s].dynamic
                   /\ session[s].dynamic = Cardinality(FreeInputs(s))
                   /\ \A k \in DOMAIN Plan[p].arguments :
                          Plan[p].arguments[k].kind = "input" => Plan[p].arguments[k].index \notin Kind("unused")
    <3> DEFINE p == session[s].program
               inputs == session[s].inputs
               w == intended[s]
               Kind(kind) == {i \in DOMAIN inputs : inputs[i].kind = kind}
               F == FreeInputs(s)
    <3>1. p \in Executables /\ StatesFit(p, session[s].states) /\ InputsBound(p, inputs, w)
      BY <2>1, Restated DEF Fits
    <3>2. /\ F = FreeOf(p, inputs) /\ F = Kind("dynamic") /\ session[s].dynamic = Cardinality(F)
          /\ F \in SUBSET (1 .. InputCount(p))
      BY <2>1, FreeNumbers
    <3>3. DOMAIN inputs = 1 .. InputCount(p) /\ InputCount(p) \in Nat
      BY <3>1, PlanOf DEF InputsBound
    <3>4. \A i \in DOMAIN session[s].states : ValidBuffer(p, session[s].states[i], Plan[p].types[i])
      BY <3>1 DEF StatesFit
    <3>5. \A i \in Kind("fixed") :
              ValidBuffer(p, inputs[i].buffer, Plan[p].inputTypes[Plan[p].parameters[i]])
      BY <3>1, <3>3 DEF InputsBound
    <3>6. {inputs[i].index : i \in Kind("dynamic")} = 1 .. session[s].dynamic
      <4>1. \A i \in F : inputs[i].index = OrderIn(i, F)
        BY <3>1, <3>2, <3>3 DEF InputsBound
      <4> HIDE DEF F, Kind
      <4>2. /\ \A i \in F : OrderIn(i, F) \in 1 .. Cardinality(F)
            /\ \A k \in 1 .. Cardinality(F) : \E i \in F : OrderIn(i, F) = k
        BY <3>2, <3>3, Orders
      <4>3. {inputs[i].index : i \in F} = 1 .. Cardinality(F)
        BY <4>1, <4>2
      <4>4. QED BY <3>2, <4>3
    <3>7. ASSUME NEW k \in DOMAIN Plan[p].arguments, Plan[p].arguments[k].kind = "input"
          PROVE  Plan[p].arguments[k].index \notin Kind("unused")
      <4> DEFINE i == Plan[p].arguments[k].index
      <4>1. Plan[p].arguments \in Seq([kind : {"state", "input"}, index : Nat])
        BY <3>1, PlanAssumption
      <4>2. k # 0
        BY <4>1
      <4>3. i \in 1 .. InputCount(p) /\ Plan[p].parameters[i] = k
        BY <3>1, <3>7, PlanAssumption
      <4>4. inputs[i].kind # "unused"
        BY <3>1, <4>2, <4>3 DEF InputsBound
      <4>5. QED BY <4>4
    <3>8. QED BY <3>2, <3>4, <3>5, <3>6, <3>7
  <2>2. SessionTypeOK
    BY DEF SessionInv
  <2> HIDE DEF SessionInv
  <2>3. QED BY <2>1, <2>2 DEF CallsFit
<1>2. QED BY <1>1, SessionInvariant, PTL

-----------------------------------------------------------------------------
\* The refinement of SlotStore.

Zero == [n \in SlotNames |-> 0]

\* States with the values of one name at the slots of that name are one store.
LEMMA SameStores ==
    ASSUME NEW p \in Executables, NEW states \in [1 .. SlotCount(p) -> Buffers],
           NEW q \in Executables, NEW others \in [1 .. SlotCount(q) -> Buffers],
           \A i \in 1 .. SlotCount(p) : \E j \in 1 .. SlotCount(q) :
               Plan[q].slotNames[j] = Plan[p].slotNames[i] /\ others[j].value = states[i].value
    PROVE  StoreOf(p, states) = StoreOf(q, others)
<1>1. ASSUME NEW n \in SlotNames PROVE StoreOf(p, states)[n] = StoreOf(q, others)[n]
  <2>1. PICK i \in 1 .. SlotCount(p) : Plan[p].slotNames[i] = n
    BY PlanOf
  <2>2. PICK j \in 1 .. SlotCount(q) :
            Plan[q].slotNames[j] = Plan[p].slotNames[i] /\ others[j].value = states[i].value
    OBVIOUS
  <2>3. StoreOf(p, states)[n] = states[i].value
    BY <2>1, StoreAt
  <2>4. StoreOf(q, others)[n] = others[j].value
    <3>1. \A k \in 1 .. SlotCount(q) : StoreOf(q, others)[Plan[q].slotNames[k]] = others[k].value
      BY StoreAt
    <3>2. QED BY <2>1, <2>2, <3>1
  <2>5. QED BY <2>2, <2>3, <2>4
<1>2. StoreOf(p, states) \in [SlotNames -> Values] /\ StoreOf(q, others) \in [SlotNames -> Values]
  BY StoreAt
<1>3. QED BY <1>1, <1>2

\* A complete list is the store of its buffers, whichever program of its trace
\* is taken to read it.
LEMMA KeptIs ==
    ASSUME NEW p \in Executables, NEW list, HeldOf(p, list)
    PROVE  /\ [k \in 1 .. SlotCount(p) |-> list[k].buffer] \in [1 .. SlotCount(p) -> Buffers]
           /\ KeptOf(list) = StoreOf(p, [k \in 1 .. SlotCount(p) |-> list[k].buffer])
           /\ KeptOf(list) # Nothing
<1> DEFINE n == SlotCount(p)
           states == [k \in 1 .. n |-> list[k].buffer]
           q == CHOOSE q \in Executables : Plan[q].owner = list[1].slot.owner
<1>1. n \in Nat /\ n # 0
  BY PlanOf
<1>2. /\ DOMAIN list = 1 .. n /\ list[1].slot = Slot(p, 1)
      /\ \A k \in 1 .. n : list[k].buffer \in Buffers
  BY <1>1 DEF HeldOf
<1>3. Plan[p].owner = list[1].slot.owner
  BY <1>2 DEF Slot
<1>4. q \in Executables /\ Plan[q].owner = Plan[p].owner
  BY <1>3
<1>5. list # Nothing
  BY MayHold
<1>6. KeptOf(list) = StoreOf(q, states)
  BY <1>2, <1>5 DEF KeptOf
<1> HIDE DEF q
<1>7. Plan[q].slotNames = Plan[p].slotNames
  BY <1>4, PlanAssumption
<1>8. states \in [1 .. n -> Buffers]
  BY <1>2
<1>9. StoreOf(q, states) = StoreOf(p, states)
  BY <1>7 DEF StoreOf
<1>10. StoreOf(p, states) \in [SlotNames -> Values]
  BY <1>8, StoreAt
<1>11. QED BY <1>6, <1>8, <1>9, <1>10, NothingAssumption

\* What is taken out of a session is kept as it was.
LEMMA KeptIdentified ==
    ASSUME NEW p \in Executables, NEW states \in [1 .. SlotCount(p) -> Buffers]
    PROVE  KeptOf(IdentifyStates(p, states)) = StoreOf(p, states)
<1>1. HeldOf(p, IdentifyStates(p, states))
  BY Identified
<1>2. [k \in 1 .. SlotCount(p) |-> IdentifyStates(p, states)[k].buffer] = states
  BY DEF IdentifyStates
<1>3. QED BY <1>1, <1>2, KeptIs

\* An accepted offer is the state kept, or zeros.
LEMMA OfferedStore ==
    ASSUME HeldRight, NEW p \in Executables, NEW offer \in Offers(p), BindsStates(p, offer)
    PROVE  /\ StoreOf(p, BindStates(p, offer)) \in {Zero, KeptOf(held)}
           /\ StoreOf(p, BindStates(p, offer)) # Nothing
<1> DEFINE states == BindStates(p, offer)
<1>1. PICK q \in Executables, list \in {ZeroState(p), held} \ {Nothing} :
          /\ HeldOf(q, list) /\ Plan[q].owner = Plan[p].owner
          /\ \A i \in 1 .. SlotCount(p) : i \in 1 .. SlotCount(q) /\ states[i] = list[i].buffer
  BY BoundStates
<1>2. states \in [1 .. SlotCount(p) -> Buffers]
  BY BoundStates DEF StatesFit
<1> HIDE DEF states
<1>3. StoreOf(p, states) \in [SlotNames -> Values]
  BY <1>2, StoreAt
<1>4. CASE list = ZeroState(p)
  <2>1. \A i \in 1 .. SlotCount(p) : states[i].value = 0
    <3>1. \A i \in 1 .. SlotCount(p) : ZeroState(p)[i].buffer.value = 0
      BY DEF ZeroState, Buffer
    <3>2. QED BY <1>1, <1>4, <3>1
  <2>2. ASSUME NEW n \in SlotNames PROVE StoreOf(p, states)[n] = 0
    <3>1. PICK i \in 1 .. SlotCount(p) : Plan[p].slotNames[i] = n
      BY PlanOf
    <3>2. StoreOf(p, states)[n] = states[i].value
      BY <1>2, <3>1, StoreAt
    <3>3. QED BY <2>1, <3>2
  <2>3. StoreOf(p, states) = Zero
    BY <1>3, <2>2 DEF Zero
  <2>4. QED BY <1>3, <2>3, NothingAssumption DEF states
<1>5. CASE list = held
  <2> DEFINE others == [k \in 1 .. SlotCount(q) |-> list[k].buffer]
  <2>1. others \in [1 .. SlotCount(q) -> Buffers] /\ KeptOf(list) = StoreOf(q, others)
    BY <1>1, KeptIs
  <2>2. Plan[q].slotNames = Plan[p].slotNames
    BY <1>1, PlanAssumption
  <2>3. \A i \in 1 .. SlotCount(p) : \E j \in 1 .. SlotCount(q) :
            Plan[q].slotNames[j] = Plan[p].slotNames[i] /\ others[j].value = states[i].value
    BY <1>1, <2>2
  <2> HIDE DEF others
  <2>4. StoreOf(p, states) = StoreOf(q, others)
    BY <1>2, <2>1, <2>3, SameStores
  <2>5. QED BY <1>3, <1>5, <2>1, <2>4, NothingAssumption DEF states
<1>6. QED BY <1>1, <1>4, <1>5

\* A session that is opened or changed changes its own store.
LEMMA StoreMoves ==
    ASSUME SessionInv, NEW s \in Sessions, NEW live \in LiveSessions,
           session' = [session EXCEPT ![s] = live]
    PROVE  StoreNow' = [StoreNow EXCEPT ![s] = StoreOf(live.program, live.states)]
<1>1. session \in [Sessions -> LiveSessions \union {Nothing}]
  BY DEF SessionInv, SessionTypeOK
<1>2. StoreNow' = [t \in Sessions |-> IF session'[t] # Nothing
                                      THEN StoreOf(session'[t].program, session'[t].states) ELSE Nothing]
  BY DEF StoreNow, Live, StoreOf
<1>3. ASSUME NEW t \in Sessions
      PROVE  StoreNow'[t] = IF t = s THEN StoreOf(live.program, live.states) ELSE StoreNow[t]
  <2>1. CASE t = s
    <3>1. session'[t] = live /\ live # Nothing
      BY <1>1, <2>1, NothingAssumption
    <3>2. QED BY <1>2, <2>1, <3>1
  <2>2. CASE t # s
    <3>1. session'[t] = session[t]
      BY <1>1, <2>2
    <3>2. QED BY <1>2, <2>2, <3>1 DEF StoreNow, Live
  <2>3. QED BY <2>1, <2>2
<1>4. StoreNow = [t \in Sessions |-> StoreNow[t]] /\ StoreNow' = [t \in Sessions |-> StoreNow'[t]]
  BY <1>2 DEF StoreNow
<1> HIDE DEF StoreNow
<1>5. QED BY <1>3, <1>4

\* The store of a live session.
LEMMA StoreIs ==
    ASSUME SessionInv, NEW s \in Sessions
    PROVE  /\ Live(s) => /\ StoreNow[s] = StoreOf(session[s].program, session[s].states)
                         /\ StoreNow[s] # Nothing
                         /\ session[s].states \in [1 .. SlotCount(session[s].program) -> Buffers]
                         /\ session[s].program \in Executables
           /\ ~Live(s) => StoreNow[s] = Nothing
<1>1. ASSUME Live(s)
      PROVE  /\ session[s].states \in [1 .. SlotCount(session[s].program) -> Buffers]
             /\ session[s].program \in Executables
             /\ StoreOf(session[s].program, session[s].states) # Nothing
  <2>1. /\ session[s].states \in [1 .. SlotCount(session[s].program) -> Buffers]
        /\ session[s].program \in Executables
    BY <1>1, Restated DEF Fits, StatesFit
  <2>2. StoreOf(session[s].program, session[s].states) \in [SlotNames -> Values]
    BY <2>1, StoreAt
  <2>3. QED BY <2>1, <2>2, NothingAssumption
<1>2. QED BY <1>1 DEF StoreNow

\* A change of one session's bindings, seen from the store.
LEMMA Rebinds ==
    ASSUME SessionInv, NEW s \in Sessions, Live(s), NEW live \in LiveSessions, NEW w \in Weights,
           session' = [session EXCEPT ![s] = live], intended' = [intended EXCEPT ![s] = w],
           held' = held, StoreOf(live.program, live.states) = StoreNow[s]
    PROVE  Store!Next
<1>1. StoreNow' = StoreNow
  <2>1. StoreNow' = [StoreNow EXCEPT ![s] = StoreNow[s]]
    BY StoreMoves
  <2>2. StoreNow = [t \in Sessions |-> StoreNow[t]]
    BY DEF StoreNow
  <2> HIDE DEF StoreNow
  <2>3. QED BY <2>1, <2>2
<1>2. StoreNow[s] # Nothing
  BY StoreIs
<1>3. KeptOf(held)' = KeptOf(held)
  BY DEF KeptOf
<1>4. w \in [InputNames -> Values \union {Nothing}]
  BY DEF Weights
<1>5. Store!Rebind(s, w)
  BY <1>1, <1>2, <1>3 DEF Store!Rebind
<1>6. QED BY <1>4, <1>5 DEF Store!Next

\* Every operation of a session is an operation on named values.
LEMMA StoreStep ==
    ASSUME SessionInv, [SessionNext]_sessionVars
    PROVE  [Store!Next]_Store!vars
<1>0. HeldRight /\ SessionTypeOK
  BY DEF SessionInv
<1>1. ASSUME NEW s \in Sessions, NEW p \in Executables, Open(s, p) PROVE Store!Next
  <2>1. PICK offer \in Offers(p) :
            /\ BindsStates(p, offer)
            /\ session' = [session EXCEPT ![s] =
                               NewSession(p, BindStates(p, offer), BindInputs(p, <<>>))]
    BY <1>1 DEF Open
  <2>2. ~Live(s) /\ intended' = [intended EXCEPT ![s] = ValuesByName(p, <<>>)] /\ held' = held
    BY <1>1 DEF Open
  <2> DEFINE live == NewSession(p, BindStates(p, offer), BindInputs(p, <<>>))
             values == StoreOf(p, BindStates(p, offer))
  <2>3. StatesFit(p, BindStates(p, offer))
    BY <1>0, <2>1, BoundStates
  <2>4. live \in LiveSessions /\ live.program = p /\ live.states = BindStates(p, offer)
    BY <2>3, NoBindings, Assembled DEF NewSession
  <2>5. values \in {Zero, KeptOf(held)} \ {Nothing}
    BY <1>0, <2>1, OfferedStore
  <2>6. StoreNow' = [StoreNow EXCEPT ![s] = values]
    BY <2>1, <2>4, StoreMoves
  <2>7. StoreNow[s] = Nothing
    BY <2>2, StoreIs
  <2>8. intended' = intended
    BY <1>0, <2>2, NoBindings DEF SessionInv, SessionTypeOK
  <2>9. KeptOf(held)' = KeptOf(held)
    BY <2>2 DEF KeptOf
  <2> HIDE DEF values, live
  <2>10. Store!Open(s, values)
    BY <2>6, <2>7, <2>8, <2>9 DEF Store!Open
  <2>11. QED BY <2>5, <2>10 DEF Store!Next, Store!Zero, Zero
<1>2. ASSUME NEW s \in Sessions, NEW t \in Sessions, Fork(s, t) PROVE Store!Next
  <2>1. /\ Live(s) /\ (t = s \/ ~Live(t))
        /\ intended' = [intended EXCEPT ![t] = intended[s]] /\ held' = held
    BY <1>2 DEF Fork
  <2> DEFINE p == session[s].program
  <2>2. PICK offer \in Offers(p) :
            /\ BindsStates(p, offer)
            /\ session' = [session EXCEPT ![t] = [session[s] EXCEPT !.states = BindStates(p, offer)]]
    BY <1>2 DEF Fork
  <2> DEFINE live == [session[s] EXCEPT !.states = BindStates(p, offer)]
             values == StoreOf(p, BindStates(p, offer))
  <2>3. p \in Executables /\ session[s] \in LiveSessions
    BY <2>1, Restated
  <2>4. StatesFit(p, BindStates(p, offer))
    BY <1>0, <2>2, <2>3, BoundStates
  <2>5. live \in LiveSessions /\ live.program = p /\ live.states = BindStates(p, offer)
    BY <2>1, <2>3, <2>4, Restated DEF LiveSessions
  <2>6. values \in {Zero, KeptOf(held)} \ {Nothing}
    BY <1>0, <2>2, <2>3, OfferedStore
  <2>7. StoreNow' = [StoreNow EXCEPT ![t] = values]
    BY <2>2, <2>5, StoreMoves
  <2>8. StoreNow[s] # Nothing /\ (t = s \/ StoreNow[t] = Nothing)
    BY <2>1, StoreIs
  <2>9. KeptOf(held)' = KeptOf(held)
    BY <2>1 DEF KeptOf
  <2> HIDE DEF values, live, p
  <2>10. Store!Fork(s, t, values)
    BY <2>1, <2>7, <2>8, <2>9 DEF Store!Fork
  <2>11. QED BY <2>6, <2>10 DEF Store!Next, Store!Zero, Zero
<1>3. ASSUME NEW s \in Sessions, ReplaceState(s) PROVE Store!Next
  <2> DEFINE p == session[s].program
  <2>1. Live(s) /\ intended' = intended /\ held' = IdentifyStates(p, session[s].states)
    BY <1>3 DEF ReplaceState
  <2>2. PICK offer \in Offers(p) :
            BindsStates(p, offer) /\ session' = [session EXCEPT ![s].states = BindStates(p, offer)]
    BY <1>3 DEF ReplaceState
  <2> DEFINE live == [session[s] EXCEPT !.states = BindStates(p, offer)]
             values == StoreOf(p, BindStates(p, offer))
  <2>3. p \in Executables /\ session[s] \in LiveSessions
    BY <2>1, Restated
  <2>4. StatesFit(p, BindStates(p, offer))
    BY <1>0, <2>2, <2>3, BoundStates
  <2>5. live \in LiveSessions /\ live.program = p /\ live.states = BindStates(p, offer)
    BY <2>1, <2>3, <2>4, Restated DEF LiveSessions
  <2>6. values \in {Zero, KeptOf(held)} \ {Nothing}
    BY <1>0, <2>2, <2>3, OfferedStore
  <2>7. StoreNow' = [StoreNow EXCEPT ![s] = values]
    <3>1. session' = [session EXCEPT ![s] = live]
      BY <1>0, <2>2 DEF SessionTypeOK
    <3>2. QED BY <2>5, <3>1, StoreMoves
  <2>8. StoreNow[s] # Nothing /\ KeptOf(held') = StoreNow[s]
    BY <2>1, StoreIs, KeptIdentified
  <2>9. KeptOf(held)' = KeptOf(held')
    BY DEF KeptOf
  <2> HIDE DEF values, live, p
  <2>10. Store!Exchange(s, values)
    BY <2>1, <2>7, <2>8, <2>9 DEF Store!Exchange
  <2>11. QED BY <2>6, <2>10 DEF Store!Next, Store!Zero, Zero
<1>4. ASSUME NEW s \in Sessions, IntoState(s) PROVE Store!Next
  <2> DEFINE p == session[s].program
  <2>1. /\ Live(s) /\ held' = IdentifyStates(p, session[s].states)
        /\ session' = [session EXCEPT ![s] = Nothing]
        /\ intended' = [intended EXCEPT ![s] = ValuesByName(p, <<>>)]
    BY <1>4 DEF IntoState
  <2>2. /\ p \in Executables /\ StoreNow[s] # Nothing
        /\ KeptOf(held') = StoreNow[s]
    BY <2>1, StoreIs, KeptIdentified
  <2>3. intended' = [intended EXCEPT ![s] = NoWeights]
    BY <2>1, <2>2, NoBindings
  <2>4. StoreNow' = [StoreNow EXCEPT ![s] = Nothing]
    <3>1. StoreNow' = [t \in Sessions |-> IF session'[t] # Nothing
                                          THEN StoreOf(session'[t].program, session'[t].states) ELSE Nothing]
      BY DEF StoreNow, Live, StoreOf
    <3>2. ASSUME NEW t \in Sessions
          PROVE  StoreNow'[t] = IF t = s THEN Nothing ELSE StoreNow[t]
      <4>1. CASE t = s
        BY <1>0, <2>1, <3>1, <4>1 DEF SessionTypeOK
      <4>2. CASE t # s
        <5>1. session'[t] = session[t]
          BY <1>0, <2>1, <4>2 DEF SessionTypeOK
        <5>2. QED BY <3>1, <4>2, <5>1 DEF StoreNow, Live
      <4>3. QED BY <4>1, <4>2
    <3>3. StoreNow = [t \in Sessions |-> StoreNow[t]] /\ StoreNow' = [t \in Sessions |-> StoreNow'[t]]
      BY <3>1 DEF StoreNow
    <3> HIDE DEF StoreNow
    <3>4. QED BY <3>2, <3>3
  <2>5. KeptOf(held)' = KeptOf(held')
    BY DEF KeptOf
  <2>6. Store!Close(s)
    BY <2>2, <2>3, <2>4, <2>5 DEF Store!Close, Store!NoWeights, NoWeights
  <2>7. QED BY <2>6 DEF Store!Next
<1>5. ASSUME NEW s \in Sessions, NEW c \in Clients, NEW perTensor, NEW total,
             CopyState(s, c, perTensor, total)
      PROVE  Store!Next
  <2> DEFINE p == session[s].program
             states == session[s].states
             copy == [k \in DOMAIN states |-> [states[k] EXCEPT !.client = c]]
  <2>1. Live(s) /\ held' = IdentifyStates(p, copy) /\ UNCHANGED <<session, intended>>
    BY <1>5 DEF CopyState
  <2>2. /\ p \in Executables /\ states \in [1 .. SlotCount(p) -> Buffers]
        /\ StoreNow[s] # Nothing /\ StoreNow[s] = StoreOf(p, states)
    BY <2>1, StoreIs
  <2>3. /\ copy \in [1 .. SlotCount(p) -> Buffers]
        /\ \A k \in 1 .. SlotCount(p) : copy[k].value = states[k].value
    BY <2>2, Copied
  <2> HIDE DEF copy, states, p
  <2>4. StoreOf(p, copy) = StoreOf(p, states)
    BY <2>2, <2>3, SameStores
  <2>5. KeptOf(held') = StoreNow[s]
    BY <2>1, <2>2, <2>3, <2>4, KeptIdentified
  <2>6. KeptOf(held)' = KeptOf(held')
    BY DEF KeptOf
  <2>7. StoreNow' = StoreNow
    BY <2>1 DEF StoreNow, Live, StoreOf
  <2>8. Store!Snapshot(s)
    BY <2>1, <2>2, <2>5, <2>6, <2>7 DEF Store!Snapshot
  <2>9. QED BY <2>8 DEF Store!Next
<1>6. ASSUME NEW s \in Sessions, Live(s), NEW bindings \in BindingLists[session[s].program],
             BindParameters(s, bindings)
      PROVE  Store!Next
  <2> DEFINE p == session[s].program
             inputs == BindInputs(p, bindings)
             w == ValuesByName(p, bindings)
             live == NewSession(p, session[s].states, inputs)
  <2>1. /\ ValidBindings(p, bindings) /\ intended' = [intended EXCEPT ![s] = w] /\ held' = held
        /\ session' = [session EXCEPT ![s].inputs = inputs, ![s].dynamic = DynamicCount(inputs)]
    BY <1>6 DEF BindParameters
  <2>2. p \in Executables /\ StatesFit(p, session[s].states)
    BY <1>6, Restated DEF Fits
  <2>3. InputsBound(p, inputs, w) /\ w \in Weights
    BY <2>1, <2>2, CallerLists, BoundInputs
  <2>4. session' = [session EXCEPT ![s] = live]
    BY <1>6, <2>1, Rebound
  <2>5. live \in LiveSessions
    BY <2>2, <2>3, Assembled
  <2>6. live.program = p /\ live.states = session[s].states
    BY DEF NewSession
  <2>7. StoreOf(live.program, live.states) = StoreNow[s]
    BY <1>6, <2>6, StoreIs
  <2> HIDE DEF live, w
  <2>8. QED BY <1>6, <2>1, <2>3, <2>4, <2>5, <2>7, Rebinds
<1>7. ASSUME NEW s \in Sessions, Live(s), NEW q \in Executables,
             NEW mapping \in Mappings(session[s].program, q),
             NEW bindings \in BindingLists[q], SwitchProgram(s, q, mapping, bindings)
      PROVE  Store!Next
  <2> DEFINE p == session[s].program
             states == session[s].states
             inputs == BindInputs(q, bindings)
             w == ValuesByName(q, bindings)
             moved == MovedStates(states, mapping)
             live == NewSession(q, moved, inputs)
  <2>1. /\ CompleteLayout(p, [k \in DOMAIN mapping |-> mapping[k].from])
        /\ CompleteLayout(q, [k \in DOMAIN mapping |-> mapping[k].to])
        /\ Switchable(p, states, q, mapping) /\ ValidBindings(q, bindings)
        /\ session' = [session EXCEPT ![s] = live]
        /\ intended' = [intended EXCEPT ![s] = w] /\ held' = held
    BY <1>7 DEF SwitchProgram
  <2>2. p \in Executables /\ StatesFit(p, states)
    BY <1>7, Restated DEF Fits
  <2>3. InputsBound(q, inputs, w) /\ w \in Weights
    BY <2>1, CallerLists, BoundInputs
  <2>4. /\ StatesFit(q, moved)
        /\ \A i \in 1 .. SlotCount(q) : \E j \in 1 .. SlotCount(p) :
              moved[i] = states[j] /\ Plan[p].slotNames[j] = Plan[q].slotNames[i]
    BY <2>1, <2>2, Moved
  <2>5. live \in LiveSessions /\ live.program = q /\ live.states = moved
    BY <2>3, <2>4, Assembled DEF NewSession
  <2>6. StoreOf(q, moved) = StoreOf(p, states)
    <3> HIDE DEF moved, states, p
    <3>1. \A i \in 1 .. SlotCount(q) : \E j \in 1 .. SlotCount(p) :
              Plan[p].slotNames[j] = Plan[q].slotNames[i] /\ states[j].value = moved[i].value
      BY <2>4
    <3>2. moved \in [1 .. SlotCount(q) -> Buffers] /\ states \in [1 .. SlotCount(p) -> Buffers]
      BY <2>2, <2>4 DEF StatesFit
    <3>3. QED BY <2>2, <3>1, <3>2, SameStores
  <2>7. StoreOf(live.program, live.states) = StoreNow[s]
    BY <1>7, <2>5, <2>6, StoreIs
  <2> HIDE DEF live, w
  <2>8. QED BY <1>7, <2>1, <2>3, <2>5, <2>7, Rebinds
<1>8. ASSUME NEW s \in Sessions, NEW values \in [InputNames -> Values], Run(s, values)
      PROVE  Store!Next
  <2> DEFINE p == session[s].program
             inputs == [n \in InputNames |-> IF intended[s][n] # Nothing THEN intended[s][n] ELSE values[n]]
  <2>1. Live(s) /\ held' = held /\ intended' = intended
    BY <1>8 DEF Run
  <2>2. PICK outputs \in Executions(p, ExecutionArguments(s, CallValues(s, values))) :
            /\ Len(outputs) = Len(ResultTypes(p))
            /\ \A k \in DOMAIN outputs : ValidBuffer(p, outputs[k], ResultTypes(p)[k])
            /\ session' = [session EXCEPT ![s].states = NewStates(p, outputs)]
    BY <1>8 DEF Run
  <2> DEFINE states == NewStates(p, outputs)
             live == [session[s] EXCEPT !.states = states]
             named == [n \in SlotNames \union InputNames |->
                          IF n \in SlotNames THEN StoreNow[s][n] ELSE inputs[n]]
             next == [n \in SlotNames |-> Transition(n, named)]
  <2>3. /\ StatesFit(p, states)
        /\ Named(s, values) \in [SlotNames \union InputNames -> Values]
        /\ \A i \in 1 .. SlotCount(p) :
              states[i].value = Transition(Plan[p].slotNames[i], Named(s, values))
    BY <2>1, <2>2, RunStates
  <2>4. /\ p \in Executables /\ session[s] \in LiveSessions /\ intended[s] \in Weights
        /\ live \in LiveSessions
    BY <2>1, <2>3, Restated
  <2>5. live.program = p /\ live.states = states
    BY <2>4 DEF LiveSessions
  <2>6. StoreNow[s] = StoreOf(p, session[s].states) /\ StoreNow[s] # Nothing
    BY <2>1, StoreIs
  <2>7. named = Named(s, values)
    BY <2>6 DEF Named
  <2>8. inputs \in [InputNames -> Values]
    BY <2>4 DEF Weights
  <2> HIDE DEF live, states, named
  <2>9. StoreOf(p, states) = next
    <3>1. states \in [1 .. SlotCount(p) -> Buffers]
      BY <2>3 DEF StatesFit
    <3>2. ASSUME NEW n \in SlotNames PROVE StoreOf(p, states)[n] = Transition(n, named)
      <4>1. PICK i \in 1 .. SlotCount(p) : Plan[p].slotNames[i] = n
        BY <2>4, PlanOf
      <4>2. StoreOf(p, states)[n] = states[i].value
        BY <2>4, <3>1, <4>1, StoreAt
      <4>3. QED BY <2>3, <2>7, <4>1, <4>2
    <3>3. StoreOf(p, states) = [n \in SlotNames |-> StoreOf(p, states)[n]]
      BY DEF StoreOf
    <3>4. QED BY <3>2, <3>3
  <2>10. StoreNow' = [StoreNow EXCEPT ![s] = next]
    <3>1. session' = [session EXCEPT ![s] = live]
      BY <1>0, <2>2 DEF SessionTypeOK, live, states
    <3>2. StoreNow' = [StoreNow EXCEPT ![s] = StoreOf(live.program, live.states)]
      BY <2>4, <3>1, StoreMoves
    <3>3. QED BY <2>5, <2>9, <3>2
  <2>11. KeptOf(held)' = KeptOf(held)
    BY <2>1 DEF KeptOf
  <2>12. \A n \in InputNames : intended[s][n] # Nothing => inputs[n] = intended[s][n]
    OBVIOUS
  <2> HIDE DEF inputs
  <2>13. Store!Run(s, inputs)
    BY <2>1, <2>6, <2>10, <2>11, <2>12 DEF Store!Run, named
  <2>14. QED BY <2>8, <2>13 DEF Store!Next
<1>9. CASE UNCHANGED sessionVars
  <2>1. UNCHANGED <<session, held, intended>>
    BY <1>9 DEF sessionVars
  <2>2. StoreNow' = StoreNow /\ KeptOf(held)' = KeptOf(held)
    BY <2>1 DEF StoreNow, Live, StoreOf, KeptOf
  <2>3. QED BY <2>1, <2>2 DEF Store!vars
<1>10. QED
  BY <1>1, <1>2, <1>3, <1>4, <1>5, <1>6, <1>7, <1>8, <1>9 DEF SessionNext

\* Without sessions there are no stores.
LEMMA StoreStarts ==
    ASSUME SessionInit
    PROVE  Store!Init
<1> DEFINE p == CHOOSE p \in Executables : TRUE
<1>1. p \in Executables
  BY PlanAssumption
<1> HIDE DEF p
<1>2. intended = [s \in Sessions |-> NoWeights]
  BY <1>1, NoBindings DEF SessionInit, p
<1>3. StoreNow = [s \in Sessions |-> Nothing] /\ KeptOf(held) = Nothing
  BY DEF SessionInit, StoreNow, Live, KeptOf
<1>4. QED BY <1>2, <1>3 DEF Store!Init, Store!NoWeights, NoWeights

\* Runs, replacements, moves between sessions, copies between clients and
\* switches between programs act on named values (Session, StateProgram).
THEOREM SessionsAreStores == SessionSpec => ImplementsSlotStore
<1>1. SessionInit => Store!Init
  BY StoreStarts
<1>2. SessionInv /\ [SessionNext]_sessionVars => [Store!Next]_Store!vars
  BY StoreStep
<1>3. QED BY <1>1, <1>2, SessionInvariant, PTL DEF SessionSpec, ImplementsSlotStore, Store!Spec

-----------------------------------------------------------------------------
\* The model's ABI.

AnyPath == ParameterPaths \cup StatePaths \cup TransformPaths
Kinds == {"input", "parameter", "state"}
Names == [kind : Kinds, which : Nat \cup AnyPath]
Schemas ==
    [inputs : Nat, parameters : Seq(ParameterPaths), states : Seq(StatePaths),
     arguments : Seq([kind : Kinds, index : Nat])]
Models ==
    [status : {"tracing", "applied"}, identity : {1, 2}, residency : SUBSET ParameterPaths,
     schema : Schemas, graph : Seq([kind : {"input", "state"}, index : Nat]), inputCount : Nat,
     slots : Seq(Names), states : Seq(AnyPath \X Nat), meaning : Seq(Names)]

\* The graph: the declaration behind a state is its slot's, and an input's number
\* counts the inputs up to it.
InputPlaces(g) == {i \in DOMAIN g : g[i].kind = "input"}
GraphRight(m) ==
    /\ Len(m.meaning) = Len(m.graph)
    /\ m.inputCount = Cardinality(InputPlaces(m.graph))
    /\ \A i \in DOMAIN m.graph :
          /\ m.graph[i].kind = "input" => m.graph[i].index = PlaceIn(i, InputPlaces(m.graph))
          /\ m.graph[i].kind = "state" => /\ m.graph[i].index \in DOMAIN m.slots
                                          /\ m.slots[m.graph[i].index] = m.meaning[i]

\* Entry a of a schema, for the declaration with this meaning, which the graph
\* has as an argument g.
EntryRight(a, schema, residency, g, name) ==
    \/ /\ a.kind = "input" /\ a.index \in 1 .. schema.inputs
       /\ name = Name("input", a.index) /\ g.kind = "input"
    \/ /\ a.kind = "parameter" /\ a.index \in DOMAIN schema.parameters
       /\ name = Name("parameter", schema.parameters[a.index])
       /\ g.kind = "input" <=> schema.parameters[a.index] \notin residency
    \/ a.kind = "state" /\ g.kind = "state"

SchemaRight(m) ==
    LET arguments == m.schema.arguments
    IN  /\ Len(arguments) <= Len(m.graph)
        /\ m.status = "tracing" => Len(arguments) = Len(m.graph)
        /\ \A i \in DOMAIN arguments :
              EntryRight(arguments[i], m.schema, m.residency, m.graph[i], m.meaning[i])
        /\ \A i \in DOMAIN m.graph : i > Len(arguments) => m.graph[i].kind = "state"

ModelRight(m) == m \in Models /\ GraphRight(m) /\ SchemaRight(m)

\* A selection is made of the first trace's parameters, and has its schema; so has
\* the second trace once it is applied, which there is only with a selection.
SelectionRight ==
    /\ selection.made \in BOOLEAN
    /\ selection.made =>
          /\ model[1].status = "applied" /\ selection.schema = model[1].schema
          /\ selection.identity \in {1, 2}
          /\ \A i \in DOMAIN selection.ids : selection.ids[i] \in DOMAIN selection.schema.parameters
    /\ model[2] # NoModel => selection.made
    /\ model[2].status = "applied" => model[2].schema = selection.schema

AbiInv ==
    /\ model = [t \in {1, 2} |-> model[t]]
    /\ \A t \in {1, 2} : model[t] = NoModel \/ ModelRight(model[t])
    /\ SelectionRight
    /\ call.kind # "donating" => call.bound = call.wanted

-----------------------------------------------------------------------------
\* Ranks and filters.

\* The member of a set with a given rank.
LEMMA AscendingAt ==
    ASSUME NEW n \in Nat, NEW S \in SUBSET (1 .. n)
    PROVE  /\ IsFiniteSet(S) /\ Cardinality(S) \in Nat
           /\ \A k \in 1 .. Cardinality(S) : Ascending(S)[k] \in S
           /\ \A i \in S : /\ PlaceIn(i, S) \in 1 .. Cardinality(S)
                           /\ Ascending(S)[PlaceIn(i, S)] = i
<1>1. \A i \in S : PlaceIn(i, S) = Cardinality(Upto(i, S))
  BY DEF PlaceIn, Upto
<1>2. /\ IsFiniteSet(S) /\ Cardinality(S) \in Nat
      /\ \A i \in S : PlaceIn(i, S) \in 1 .. Cardinality(S)
      /\ \A i, j \in S : PlaceIn(i, S) = PlaceIn(j, S) => i = j
      /\ \A k \in 1 .. Cardinality(S) : \E i \in S : PlaceIn(i, S) = k
  <2>1. /\ IsFiniteSet(S) /\ Cardinality(S) \in Nat
        /\ \A i \in S : Cardinality(Upto(i, S)) \in 1 .. Cardinality(S)
        /\ \A i, j \in S : Cardinality(Upto(i, S)) = Cardinality(Upto(j, S)) => i = j
        /\ \A k \in 1 .. Cardinality(S) : \E i \in S : Cardinality(Upto(i, S)) = k
    BY Ranks
  <2>2. QED BY <1>1, <2>1
<1>3. \A k \in 1 .. Cardinality(S) : Ascending(S)[k] = CHOOSE i \in S : PlaceIn(i, S) = k
  BY DEF Ascending
<1>4. \A k \in 1 .. Cardinality(S) :
         Ascending(S)[k] \in S /\ PlaceIn(Ascending(S)[k], S) = k
  BY <1>2, <1>3
<1>5. QED BY <1>2, <1>4

\* What a filtered sequence holds where.
LEMMA FilterAt ==
    ASSUME NEW n \in Nat, NEW S \in SUBSET (1 .. n), NEW s
    PROVE  \A i \in S : Filter(s, S)[PlaceIn(i, S)] = s[i]
<1>1. Filter(s, S) = [k \in 1 .. Cardinality(S) |-> s[Ascending(S)[k]]]
  BY DEF Filter
<1>2. ASSUME NEW i \in S PROVE Filter(s, S)[PlaceIn(i, S)] = s[i]
  <2>1. PlaceIn(i, S) \in 1 .. Cardinality(S) /\ Ascending(S)[PlaceIn(i, S)] = i
    BY AscendingAt
  <2>2. QED BY <1>1, <2>1
<1>3. QED BY <1>2

\* Filtering by all positions changes nothing.
LEMMA FilterAll ==
    ASSUME NEW n \in Nat, NEW s
    PROVE  Filter(s, 1 .. n) = [k \in 1 .. n |-> s[k]]
<1>1. ASSUME NEW i \in 1 .. n PROVE PlaceIn(i, 1 .. n) = i
  <2>1. {j \in 1 .. n : j <= i} = 1 .. i
    OBVIOUS
  <2>2. Cardinality(1 .. i) = i
    BY FS_Interval
  <2>3. QED BY <2>1, <2>2 DEF PlaceIn
<1>2. Cardinality(1 .. n) = n
  BY FS_Interval
<1>3. \A i \in 1 .. n : Filter(s, 1 .. n)[i] = s[i]
  <2>1. 1 .. n \in SUBSET (1 .. n)
    OBVIOUS
  <2> DEFINE S == 1 .. n
  <2>2. S \in SUBSET (1 .. n)
    BY <2>1
  <2>3. \A i \in S : PlaceIn(i, S) = i
    BY <1>1
  <2>4. \A i \in S : Filter(s, S)[PlaceIn(i, S)] = s[i]
    <3> HIDE DEF S
    <3>1. QED BY <2>2, FilterAt
  <2>5. \A i \in S : Filter(s, S)[i] = s[i]
    <3> HIDE DEF S
    <3>1. QED BY <2>3, <2>4
  <2>6. QED BY <2>5
<1>4. Filter(s, 1 .. n) = [k \in 1 .. n |-> Filter(s, 1 .. n)[k]]
  BY <1>2 DEF Filter
<1>5. QED BY <1>3, <1>4

\* A greater number added to a set comes last, and changes no rank.
LEMMA RankAdded ==
    ASSUME NEW n \in Nat, NEW S \in SUBSET (1 .. n)
    PROVE  /\ Cardinality(S \cup {n + 1}) = Cardinality(S) + 1
           /\ PlaceIn(n + 1, S \cup {n + 1}) = Cardinality(S) + 1
           /\ \A i \in 1 .. n : PlaceIn(i, S \cup {n + 1}) = PlaceIn(i, S)
<1>1. IsFiniteSet(S)
  BY AscendingAt
<1>2. n + 1 \notin S
  OBVIOUS
<1>3. Cardinality(S \cup {n + 1}) = Cardinality(S) + 1
  BY <1>1, <1>2, FS_AddElement
<1>4. {j \in S \cup {n + 1} : j <= n + 1} = S \cup {n + 1}
  <2>1. \A j \in S \cup {n + 1} : j <= n + 1
    OBVIOUS
  <2>2. QED BY <2>1
<1>5. ASSUME NEW i \in 1 .. n PROVE {j \in S \cup {n + 1} : j <= i} = {j \in S : j <= i}
  OBVIOUS
<1>6. QED BY <1>3, <1>4, <1>5 DEF PlaceIn

-----------------------------------------------------------------------------
\* Tracing.

\* The record of a model.
LEMMA ModelFields ==
    ASSUME NEW m \in Models
    PROVE  /\ m = [status |-> m.status, identity |-> m.identity, residency |-> m.residency,
                   schema |-> m.schema, graph |-> m.graph, inputCount |-> m.inputCount,
                   slots |-> m.slots, states |-> m.states, meaning |-> m.meaning]
           /\ m.status \in {"tracing", "applied"} /\ m.identity \in {1, 2}
           /\ m.residency \in SUBSET ParameterPaths /\ m.inputCount \in Nat
           /\ m.graph \in Seq([kind : {"input", "state"}, index : Nat])
           /\ m.slots \in Seq(Names) /\ m.states \in Seq(AnyPath \X Nat) /\ m.meaning \in Seq(Names)
           /\ m.schema = [inputs |-> m.schema.inputs, parameters |-> m.schema.parameters,
                          states |-> m.schema.states, arguments |-> m.schema.arguments]
           /\ m.schema.inputs \in Nat /\ m.schema.parameters \in Seq(ParameterPaths)
           /\ m.schema.states \in Seq(StatePaths)
           /\ m.schema.arguments \in Seq([kind : Kinds, index : Nat])
BY DEF Models, Schemas

\* The end of a longer sequence.
LEMMA Appended ==
    ASSUME NEW S, NEW s \in Seq(S), NEW x \in S
    PROVE  /\ Append(s, x) \in Seq(S) /\ Len(Append(s, x)) = Len(s) + 1
           /\ Append(s, x)[Len(s) + 1] = x
           /\ \A i \in 1 .. Len(s) : Append(s, x)[i] = s[i]
           /\ DOMAIN s = 1 .. Len(s) /\ DOMAIN Append(s, x) = 1 .. Len(s) + 1 /\ Len(s) \in Nat
OBVIOUS

\* A new argument of the graph: an input takes the next number, a state a new slot.
LEMMA GraphGrows ==
    ASSUME NEW m \in Models, GraphRight(m), NEW name \in Names, NEW g, NEW slots, NEW count,
           \/ /\ g = Arg("input", m.inputCount + 1) /\ slots = m.slots /\ count = m.inputCount + 1
           \/ /\ g = Arg("state", Len(m.slots) + 1) /\ slots = Append(m.slots, name)
              /\ count = m.inputCount,
           NEW n \in Models, n.graph = Append(m.graph, g), n.inputCount = count,
           n.slots = slots, n.meaning = Append(m.meaning, name)
    PROVE  GraphRight(n)
<1> DEFINE c == Len(m.graph)
           F == InputPlaces(m.graph)
           G == InputPlaces(n.graph)
<1>1. /\ m.graph \in Seq([kind : {"input", "state"}, index : Nat]) /\ m.inputCount \in Nat
      /\ m.slots \in Seq(Names) /\ m.meaning \in Seq(Names)
  BY ModelFields
<1>2. /\ Len(m.meaning) = c /\ m.inputCount = Cardinality(F) /\ c \in Nat
      /\ \A i \in 1 .. c :
            /\ m.graph[i].kind = "input" => m.graph[i].index = PlaceIn(i, F)
            /\ m.graph[i].kind = "state" => /\ m.graph[i].index \in 1 .. Len(m.slots)
                                            /\ m.slots[m.graph[i].index] = m.meaning[i]
  <2>1. DOMAIN m.graph = 1 .. c /\ c \in Nat /\ DOMAIN m.slots = 1 .. Len(m.slots)
    BY <1>1
  <2>2. QED BY <2>1 DEF GraphRight
<1>3. g \in [kind : {"input", "state"}, index : Nat]
  <2>1. m.inputCount + 1 \in Nat /\ Len(m.slots) + 1 \in Nat
    BY <1>1
  <2>2. QED BY <2>1 DEF Arg
<1>4. /\ Len(n.graph) = c + 1 /\ n.graph[c + 1] = g /\ DOMAIN n.graph = 1 .. c + 1
      /\ \A i \in 1 .. c : n.graph[i] = m.graph[i]
  BY <1>1, <1>3, Appended
<1>5. /\ Len(n.meaning) = c + 1 /\ n.meaning[c + 1] = name
      /\ \A i \in 1 .. c : n.meaning[i] = m.meaning[i]
  <2>1. m.meaning \in Seq(Names) /\ Len(m.meaning) = c
    BY <1>1, <1>2
  <2> HIDE DEF c
  <2>2. QED BY <2>1, Appended
<1>6. F \in SUBSET (1 .. c)
  BY <1>1 DEF InputPlaces
<1> HIDE DEF c, F
<1>7. CASE g = Arg("input", m.inputCount + 1) /\ slots = m.slots /\ count = m.inputCount + 1
  <2>1. g.kind = "input" /\ g.index = m.inputCount + 1
    BY <1>7 DEF Arg
  <2>2. G = F \cup {c + 1}
    <3>1. \A i \in 1 .. c : i \in G <=> i \in F
      BY <1>1, <1>4 DEF InputPlaces, F, c
    <3>2. c + 1 \in G /\ \A i \in G : i \in 1 .. c + 1
      BY <1>2, <1>4, <2>1 DEF InputPlaces
    <3> HIDE DEF G
    <3>3. \A i \in 1 .. c + 1 : i \in 1 .. c \/ i = c + 1
      BY <1>2
    <3>4. QED BY <1>6, <3>1, <3>2, <3>3
  <2> HIDE DEF G
  <2>3. /\ Cardinality(G) = Cardinality(F) + 1 /\ PlaceIn(c + 1, G) = Cardinality(F) + 1
        /\ \A i \in 1 .. c : PlaceIn(i, G) = PlaceIn(i, F)
    <3>1. c \in Nat /\ F \in SUBSET (1 .. c)
      BY <1>2, <1>6
    <3>2. /\ Cardinality(F \cup {c + 1}) = Cardinality(F) + 1
          /\ PlaceIn(c + 1, F \cup {c + 1}) = Cardinality(F) + 1
          /\ \A i \in 1 .. c : PlaceIn(i, F \cup {c + 1}) = PlaceIn(i, F)
      BY <3>1, RankAdded
    <3>3. QED BY <2>2, <3>2
  <2>4. n.slots = m.slots /\ n.inputCount = Cardinality(G)
    BY <1>2, <1>7, <2>3
  <2>5. ASSUME NEW i \in 1 .. c + 1
        PROVE  /\ n.graph[i].kind = "input" => n.graph[i].index = PlaceIn(i, G)
               /\ n.graph[i].kind = "state" => /\ n.graph[i].index \in DOMAIN n.slots
                                               /\ n.slots[n.graph[i].index] = n.meaning[i]
    <3>1. CASE i = c + 1
      BY <1>2, <1>4, <2>1, <2>3, <3>1
    <3>2. CASE i \in 1 .. c
      <4>1. n.graph[i] = m.graph[i] /\ n.meaning[i] = m.meaning[i] /\ PlaceIn(i, G) = PlaceIn(i, F)
        BY <1>4, <1>5, <2>3, <3>2
      <4>2. DOMAIN n.slots = 1 .. Len(m.slots)
        BY <1>1, <2>4
      <4>3. QED BY <1>2, <2>4, <3>2, <4>1, <4>2
    <3>3. i = c + 1 \/ i \in 1 .. c
      BY <1>2
    <3>4. QED BY <3>1, <3>2, <3>3
  <2>6. QED BY <1>4, <1>5, <2>4, <2>5 DEF GraphRight, G
<1>8. CASE g = Arg("state", Len(m.slots) + 1) /\ slots = Append(m.slots, name)
           /\ count = m.inputCount
  <2>1. g.kind = "state" /\ g.index = Len(m.slots) + 1
    BY <1>8 DEF Arg
  <2>2. G = F
    <3>1. \A i \in 1 .. c : i \in G <=> i \in F
      BY <1>1, <1>4 DEF InputPlaces, F, c
    <3>2. c + 1 \notin G /\ \A i \in G : i \in 1 .. c + 1
      BY <1>2, <1>4, <2>1 DEF InputPlaces
    <3> HIDE DEF G
    <3>3. \A i \in 1 .. c + 1 : i \in 1 .. c \/ i = c + 1
      BY <1>2
    <3>4. QED BY <1>6, <3>1, <3>2, <3>3
  <2> HIDE DEF G
  <2>3. /\ n.slots[Len(m.slots) + 1] = name /\ DOMAIN n.slots = 1 .. Len(m.slots) + 1
        /\ \A i \in 1 .. Len(m.slots) : n.slots[i] = m.slots[i]
    BY <1>1, <1>8, Appended
  <2>4. n.inputCount = Cardinality(G)
    BY <1>2, <1>8, <2>2
  <2>5. ASSUME NEW i \in 1 .. c + 1
        PROVE  /\ n.graph[i].kind = "input" => n.graph[i].index = PlaceIn(i, G)
               /\ n.graph[i].kind = "state" => /\ n.graph[i].index \in DOMAIN n.slots
                                               /\ n.slots[n.graph[i].index] = n.meaning[i]
    <3>1. CASE i = c + 1
      <4>1. Len(m.slots) + 1 \in 1 .. Len(m.slots) + 1
        BY <1>1
      <4>2. QED BY <1>4, <1>5, <2>1, <2>3, <3>1, <4>1
    <3>2. CASE i \in 1 .. c
      <4>1. n.graph[i].kind = "input" => n.graph[i].index = PlaceIn(i, G)
        BY <1>2, <1>4, <2>2, <3>2
      <4>2. ASSUME n.graph[i].kind = "state"
            PROVE  n.graph[i].index \in DOMAIN n.slots /\ n.slots[n.graph[i].index] = n.meaning[i]
        <5>1. n.graph[i].index \in 1 .. Len(m.slots) /\ m.slots[n.graph[i].index] = n.meaning[i]
          BY <1>2, <1>4, <1>5, <3>2, <4>2
        <5>2. Len(m.slots) \in Nat
          BY <1>1
        <5> DEFINE x == n.graph[i].index
        <5>3. x \in 1 .. Len(m.slots) /\ m.slots[x] = n.meaning[i]
          BY <5>1
        <5> HIDE DEF x
        <5>4. x \in DOMAIN n.slots /\ n.slots[x] = n.meaning[i]
          <6>1. x \in 1 .. Len(m.slots) + 1
            BY <5>2, <5>3
          <6>2. n.slots[x] = m.slots[x]
            BY <2>3, <5>3
          <6>3. QED BY <2>3, <5>3, <6>1, <6>2
        <5>5. QED BY <5>4 DEF x
      <4>3. QED BY <4>1, <4>2
    <3>3. i = c + 1 \/ i \in 1 .. c
      BY <1>2
    <3>4. QED BY <3>1, <3>2, <3>3
  <2>6. QED BY <1>4, <1>5, <2>4, <2>5 DEF GraphRight, G
<1>9. QED BY <1>7, <1>8

\* A new entry of the schema; the earlier ones stay right.
LEMMA SchemaGrows ==
    ASSUME NEW m \in Models, SchemaRight(m), m.status = "tracing", Len(m.meaning) = Len(m.graph),
           NEW name \in Names, NEW g \in [kind : {"input", "state"}, index : Nat],
           NEW a \in [kind : Kinds, index : Nat],
           NEW n \in Models, n.residency = m.residency,
           n.graph = Append(m.graph, g), n.meaning = Append(m.meaning, name),
           n.schema.arguments = Append(m.schema.arguments, a),
           EntryRight(a, n.schema, m.residency, g, name),
           m.schema.inputs <= n.schema.inputs,
           \A i \in DOMAIN m.schema.parameters :
              i \in DOMAIN n.schema.parameters /\ n.schema.parameters[i] = m.schema.parameters[i]
    PROVE  SchemaRight(n)
<1> DEFINE c == Len(m.graph)
           old == m.schema.arguments
           new == n.schema.arguments
<1>1. /\ m.graph \in Seq([kind : {"input", "state"}, index : Nat])
      /\ m.meaning \in Seq(Names) /\ old \in Seq([kind : Kinds, index : Nat])
      /\ m.schema.inputs \in Nat /\ n.schema.inputs \in Nat
  BY ModelFields
<1>2. Len(old) = c /\ \A i \in DOMAIN old :
         EntryRight(old[i], m.schema, m.residency, m.graph[i], m.meaning[i])
  BY DEF SchemaRight
<1>3. /\ Len(n.graph) = c + 1 /\ n.graph[c + 1] = g /\ DOMAIN n.graph = 1 .. c + 1
      /\ c \in Nat /\ \A i \in 1 .. c : n.graph[i] = m.graph[i]
  BY <1>1, Appended
<1>4. n.meaning[c + 1] = name /\ \A i \in 1 .. c : n.meaning[i] = m.meaning[i]
  <2>1. m.meaning \in Seq(Names) /\ Len(m.meaning) = c
    BY <1>1
  <2> HIDE DEF c
  <2>2. /\ Append(m.meaning, name)[c + 1] = name
        /\ \A i \in 1 .. c : Append(m.meaning, name)[i] = m.meaning[i]
    BY <2>1, Appended
  <2>3. QED BY <2>2
<1>5. /\ Len(new) = c + 1 /\ new[c + 1] = a /\ DOMAIN new = 1 .. c + 1
      /\ DOMAIN old = 1 .. c /\ \A i \in 1 .. c : new[i] = old[i]
  BY <1>1, <1>2, Appended
<1> HIDE DEF c, old, new
<1>6. ASSUME NEW i \in 1 .. c
      PROVE  EntryRight(new[i], n.schema, n.residency, n.graph[i], n.meaning[i])
  <2>1. EntryRight(old[i], m.schema, m.residency, m.graph[i], m.meaning[i])
    BY <1>2, <1>5
  <2>2. \A k \in 1 .. m.schema.inputs : k \in 1 .. n.schema.inputs
    BY <1>1
  <2>3. EntryRight(old[i], n.schema, m.residency, m.graph[i], m.meaning[i])
    BY <2>1, <2>2 DEF EntryRight
  <2>4. QED BY <1>3, <1>4, <1>5, <2>3
<1>7. ASSUME NEW i \in 1 .. c + 1
      PROVE  EntryRight(new[i], n.schema, n.residency, n.graph[i], n.meaning[i])
  <2>1. i = c + 1 \/ i \in 1 .. c
    BY <1>3
  <2>2. CASE i = c + 1
    <3>1. new[i] = a /\ n.graph[i] = g /\ n.meaning[i] = name
      BY <1>3, <1>4, <1>5, <2>2
    <3>2. QED BY <3>1
  <2>3. QED BY <1>6, <2>1, <2>2
<1>8. \A i \in DOMAIN n.graph : ~(i > Len(new))
  BY <1>3, <1>5
<1>9. Len(new) <= Len(n.graph) /\ Len(new) = Len(n.graph) /\ DOMAIN new = 1 .. c + 1
  BY <1>3, <1>5
<1>10. QED BY <1>7, <1>8, <1>9 DEF SchemaRight, new

\* The fields that tracing leaves as they are.
Same(n, m) ==
    /\ n.status = m.status /\ n.identity = m.identity /\ n.residency = m.residency

\* What the graph's operations make of a model's record.
LEMMA GraphRecords ==
    ASSUME NEW m \in Models, NEW name \in Names
    PROVE  /\ LET n == GraphInput(m, name) IN
              /\ n \in Models /\ Same(n, m) /\ n.schema = m.schema /\ n.states = m.states
              /\ n.graph = Append(m.graph, Arg("input", m.inputCount + 1))
              /\ n.inputCount = m.inputCount + 1 /\ n.slots = m.slots
              /\ n.meaning = Append(m.meaning, name)
           /\ LET n == GraphState(m, name) IN
              /\ n \in Models /\ Same(n, m) /\ n.schema = m.schema /\ n.states = m.states
              /\ n.graph = Append(m.graph, Arg("state", Len(m.slots) + 1))
              /\ n.inputCount = m.inputCount /\ n.slots = Append(m.slots, name)
              /\ n.meaning = Append(m.meaning, name)
<1> DEFINE g == Append(m.graph, Arg("input", m.inputCount + 1))
           h == Append(m.graph, Arg("state", Len(m.slots) + 1))
           s == Append(m.slots, name)
           w == Append(m.meaning, name)
           count == m.inputCount + 1
           Args == [kind : {"input", "state"}, index : Nat]
<1>1. /\ g \in Seq(Args) /\ h \in Seq(Args) /\ s \in Seq(Names) /\ w \in Seq(Names)
      /\ count \in Nat
  <2>1. /\ m.graph \in Seq(Args) /\ m.slots \in Seq(Names) /\ m.meaning \in Seq(Names)
        /\ m.inputCount \in Nat
    BY ModelFields
  <2>2. Arg("input", m.inputCount + 1) \in Args /\ Arg("state", Len(m.slots) + 1) \in Args
    BY <2>1 DEF Arg
  <2> HIDE DEF Args
  <2>3. QED BY <2>1, <2>2, Appended
<1>2. ASSUME NEW n, n = [m EXCEPT !.graph = g, !.inputCount = count, !.meaning = w]
      PROVE  /\ n \in Models /\ Same(n, m) /\ n.schema = m.schema /\ n.states = m.states
             /\ n.graph = g /\ n.inputCount = count /\ n.slots = m.slots /\ n.meaning = w
  <2> HIDE DEF g, h, s, w, count
  <2>1. QED BY <1>1, <1>2 DEF Models, Same
<1>3. ASSUME NEW n, n = [m EXCEPT !.graph = h, !.slots = s, !.meaning = w]
      PROVE  /\ n \in Models /\ Same(n, m) /\ n.schema = m.schema /\ n.states = m.states
             /\ n.graph = h /\ n.inputCount = m.inputCount /\ n.slots = s /\ n.meaning = w
  <2> HIDE DEF g, h, s, w, count
  <2>1. QED BY <1>1, <1>3 DEF Models, Same
<1>4. /\ GraphInput(m, name) = [m EXCEPT !.graph = g, !.inputCount = count, !.meaning = w]
      /\ GraphState(m, name) = [m EXCEPT !.graph = h, !.slots = s, !.meaning = w]
  BY DEF GraphInput, GraphState
<1> HIDE DEF g, h, s, w, count, Args
<1>5. QED BY <1>2, <1>3, <1>4 DEF g, h, s, w, count

\* One list of the schema and its arguments grow.
Pushed(p, m, a, field, list, states) ==
    \/ /\ field = "inputs"
       /\ p = [m EXCEPT !.schema.inputs = list,
                        !.schema.arguments = Append(m.schema.arguments, a)]
       /\ list \in Nat /\ states = m.states
    \/ /\ field = "parameters"
       /\ p = [m EXCEPT !.schema.parameters = list,
                        !.schema.arguments = Append(m.schema.arguments, a)]
       /\ list \in Seq(ParameterPaths) /\ states = m.states
    \/ /\ field = "states"
       /\ p = [m EXCEPT !.schema.states = list,
                        !.schema.arguments = Append(m.schema.arguments, a),
                        !.states = states]
       /\ list \in Seq(StatePaths)

\* The record that comes of it.
PushedRecord(p, m, a, field, list, states) ==
    /\ p \in Models /\ Same(p, m) /\ p.graph = m.graph /\ p.inputCount = m.inputCount
    /\ p.slots = m.slots /\ p.meaning = m.meaning /\ p.states = states
    /\ p.schema.arguments = Append(m.schema.arguments, a)
    /\ p.schema.inputs = IF field = "inputs" THEN list ELSE m.schema.inputs
    /\ p.schema.parameters = IF field = "parameters" THEN list ELSE m.schema.parameters
    /\ p.schema.states = IF field = "states" THEN list ELSE m.schema.states

\* What a declaration makes of a model's record.
LEMMA SchemaRecords ==
    ASSUME NEW m \in Models, NEW a \in [kind : Kinds, index : Nat],
           NEW field, NEW list, NEW states \in Seq(AnyPath \X Nat), NEW p,
           Pushed(p, m, a, field, list, states)
    PROVE  PushedRecord(p, m, a, field, list, states)
<1> DEFINE y == Append(m.schema.arguments, a)
           s == m.schema
<1>1. s \in Schemas /\ y \in Seq([kind : Kinds, index : Nat]) /\ m.states \in Seq(AnyPath \X Nat)
  <2>1. s \in Schemas /\ s.arguments \in Seq([kind : Kinds, index : Nat])
        /\ m.states \in Seq(AnyPath \X Nat)
    BY DEF Models, Schemas
  <2>2. QED BY <2>1, Appended
<1> DEFINE Grown(t) ==
              \/ /\ field = "inputs" /\ list \in Nat
                 /\ t = [s EXCEPT !.inputs = list, !.arguments = y]
              \/ /\ field = "parameters" /\ list \in Seq(ParameterPaths)
                 /\ t = [s EXCEPT !.parameters = list, !.arguments = y]
              \/ /\ field = "states" /\ list \in Seq(StatePaths)
                 /\ t = [s EXCEPT !.states = list, !.arguments = y]
<1> HIDE DEF y
<1>2. ASSUME NEW t, Grown(t)
      PROVE  /\ t \in Schemas /\ t.arguments = y
             /\ t.inputs = IF field = "inputs" THEN list ELSE s.inputs
             /\ t.parameters = IF field = "parameters" THEN list ELSE s.parameters
             /\ t.states = IF field = "states" THEN list ELSE s.states
  <2> HIDE DEF s
  <2>1. CASE /\ field = "inputs" /\ list \in Nat
             /\ t = [s EXCEPT !.inputs = list, !.arguments = y]
    BY <1>1, <2>1 DEF Schemas
  <2>2. CASE /\ field = "parameters" /\ list \in Seq(ParameterPaths)
             /\ t = [s EXCEPT !.parameters = list, !.arguments = y]
    BY <1>1, <2>2 DEF Schemas
  <2>3. CASE /\ field = "states" /\ list \in Seq(StatePaths)
             /\ t = [s EXCEPT !.states = list, !.arguments = y]
    BY <1>1, <2>3 DEF Schemas
  <2>4. QED BY <1>2, <2>1, <2>2, <2>3
<1>3. ASSUME NEW t, t \in Schemas, p = [m EXCEPT !.schema = t, !.states = states]
      PROVE  /\ p \in Models /\ Same(p, m) /\ p.graph = m.graph /\ p.inputCount = m.inputCount
             /\ p.slots = m.slots /\ p.meaning = m.meaning /\ p.states = states
             /\ p.schema = t
  BY <1>3 DEF Models, Same
<1>4. \E t : Grown(t) /\ p = [m EXCEPT !.schema = t, !.states = states]
  <2>1. states = m.states =>
           \A t : [m EXCEPT !.schema = t] = [m EXCEPT !.schema = t, !.states = states]
    BY ModelFields
  <2>2. CASE /\ p = [m EXCEPT !.schema.inputs = list, !.schema.arguments = y]
             /\ field = "inputs" /\ list \in Nat /\ states = m.states
    <3> DEFINE t == [s EXCEPT !.inputs = list, !.arguments = y]
    <3>1. p = [m EXCEPT !.schema = t]
      BY <2>2, ModelFields
    <3>2. QED BY <2>1, <2>2, <3>1
  <2>3. CASE /\ p = [m EXCEPT !.schema.parameters = list, !.schema.arguments = y]
             /\ field = "parameters" /\ list \in Seq(ParameterPaths) /\ states = m.states
    <3> DEFINE t == [s EXCEPT !.parameters = list, !.arguments = y]
    <3>1. p = [m EXCEPT !.schema = t]
      BY <2>3, ModelFields
    <3>2. QED BY <2>1, <2>3, <3>1
  <2>4. CASE /\ p = [m EXCEPT !.schema.states = list, !.schema.arguments = y, !.states = states]
             /\ field = "states" /\ list \in Seq(StatePaths)
    <3> DEFINE t == [s EXCEPT !.states = list, !.arguments = y]
    <3>1. p = [m EXCEPT !.schema = t, !.states = states]
      BY <2>4, ModelFields
    <3>2. QED BY <2>4, <3>1
  <2>5. QED BY <2>2, <2>3, <2>4 DEF y, Pushed
<1> HIDE DEF Grown
<1>5. PICK t : Grown(t) /\ p = [m EXCEPT !.schema = t, !.states = states]
  BY <1>4
<1>6. /\ t \in Schemas /\ t.arguments = y
      /\ t.inputs = IF field = "inputs" THEN list ELSE s.inputs
      /\ t.parameters = IF field = "parameters" THEN list ELSE s.parameters
      /\ t.states = IF field = "states" THEN list ELSE s.states
  BY <1>2, <1>5
<1>7. /\ p \in Models /\ Same(p, m) /\ p.graph = m.graph /\ p.inputCount = m.inputCount
      /\ p.slots = m.slots /\ p.meaning = m.meaning /\ p.states = states /\ p.schema = t
  BY <1>3, <1>5, <1>6
<1>8. QED BY <1>6, <1>7 DEF y, PushedRecord

\* A declared input.
LEMMA InputTraced ==
    ASSUME NEW m, ModelRight(m), m.status = "tracing"
    PROVE  ModelRight(WithInput(m)) /\ Same(WithInput(m), m)
<1> DEFINE index == m.schema.inputs + 1
           a == Arg("input", index)
           name == Name("input", index)
           p == [m EXCEPT !.schema.inputs = index,
                          !.schema.arguments = Append(m.schema.arguments, a)]
           n == GraphInput(p, name)
           g == Arg("input", m.inputCount + 1)
<1>1. m \in Models /\ GraphRight(m) /\ SchemaRight(m) /\ Len(m.meaning) = Len(m.graph)
  BY DEF ModelRight, GraphRight
<1>2. /\ index \in Nat /\ m.schema.inputs <= index /\ index \in 1 .. index
      /\ m.inputCount + 1 \in Nat /\ m.states \in Seq(AnyPath \X Nat)
  <2>1. m.schema.inputs \in Nat /\ m.inputCount \in Nat /\ m.states \in Seq(AnyPath \X Nat)
    BY <1>1, ModelFields
  <2>2. QED BY <2>1
<1>3. /\ a \in [kind : Kinds, index : Nat] /\ a.kind = "input" /\ a.index = index
      /\ name \in Names /\ g \in [kind : {"input", "state"}, index : Nat] /\ g.kind = "input"
  BY <1>2 DEF Arg, Name, Names, Kinds
<1>4. WithInput(m) = n
  BY DEF WithInput
<1>5. /\ p \in Models /\ Same(p, m) /\ p.graph = m.graph /\ p.inputCount = m.inputCount
      /\ p.slots = m.slots /\ p.meaning = m.meaning
      /\ p.schema.arguments = Append(m.schema.arguments, a)
      /\ p.schema.inputs = index /\ p.schema.parameters = m.schema.parameters
  <2>1. Pushed(p, m, a, "inputs", index, m.states)
    BY <1>2 DEF Pushed
  <2> HIDE DEF p, a, index
  <2>2. PushedRecord(p, m, a, "inputs", index, m.states)
    BY <1>1, <1>2, <1>3, <2>1, SchemaRecords
  <2>3. QED BY <2>2 DEF PushedRecord
<1> HIDE DEF p, a, name
<1>6. /\ n \in Models /\ Same(n, p) /\ n.schema = p.schema
      /\ n.graph = Append(p.graph, Arg("input", p.inputCount + 1))
      /\ n.inputCount = p.inputCount + 1 /\ n.slots = p.slots /\ n.meaning = Append(p.meaning, name)
  BY <1>3, <1>5, GraphRecords
<1> HIDE DEF n, g, index
<1>7. /\ Same(n, m) /\ n.graph = Append(m.graph, g) /\ n.inputCount = m.inputCount + 1
      /\ n.slots = m.slots /\ n.meaning = Append(m.meaning, name)
  BY <1>5, <1>6 DEF Same, g
<1>8. GraphRight(n)
  BY <1>1, <1>3, <1>6, <1>7, GraphGrows DEF g
<1>9. EntryRight(a, n.schema, m.residency, g, name)
  BY <1>2, <1>3, <1>5, <1>6 DEF EntryRight, name
<1>10. SchemaRight(n)
  <2>1. n.residency = m.residency /\ m.schema.inputs <= n.schema.inputs
    BY <1>2, <1>5, <1>6, <1>7 DEF Same
  <2>2. \A i \in DOMAIN m.schema.parameters :
           i \in DOMAIN n.schema.parameters /\ n.schema.parameters[i] = m.schema.parameters[i]
    BY <1>5, <1>6
  <2>3. n.schema.arguments = Append(m.schema.arguments, a)
    BY <1>5, <1>6
  <2>4. QED BY <1>1, <1>3, <1>6, <1>7, <1>9, <2>1, <2>2, <2>3, SchemaGrows
<1>11. QED BY <1>4, <1>6, <1>7, <1>8, <1>10 DEF ModelRight

\* A declared state.
LEMMA StateTraced ==
    ASSUME NEW m, ModelRight(m), m.status = "tracing", NEW path \in StatePaths
    PROVE  ModelRight(WithState(m, path)) /\ Same(WithState(m, path), m)
<1> DEFINE a == Arg("state", Len(m.schema.states) + 1)
           name == Name("state", path)
           list == Append(m.schema.states, path)
           states == Append(m.states, <<path, Len(m.slots) + 1>>)
           p == [m EXCEPT !.schema.states = list,
                          !.schema.arguments = Append(m.schema.arguments, a),
                          !.states = states]
           n == GraphState(p, name)
           g == Arg("state", Len(m.slots) + 1)
<1>1. m \in Models /\ GraphRight(m) /\ SchemaRight(m) /\ Len(m.meaning) = Len(m.graph)
  BY DEF ModelRight, GraphRight
<1>2. /\ m.schema.states \in Seq(StatePaths) /\ m.slots \in Seq(Names)
      /\ m.states \in Seq(AnyPath \X Nat) /\ Len(m.schema.states) \in Nat /\ Len(m.slots) \in Nat
      /\ m.schema.inputs \in Nat
  <2>1. /\ m.schema.states \in Seq(StatePaths) /\ m.slots \in Seq(Names)
        /\ m.states \in Seq(AnyPath \X Nat) /\ m.schema.inputs \in Nat
    BY <1>1, ModelFields
  <2>2. QED BY <2>1
<1>3. /\ a \in [kind : Kinds, index : Nat] /\ a.kind = "state"
      /\ name \in Names /\ g \in [kind : {"input", "state"}, index : Nat] /\ g.kind = "state"
  BY <1>2 DEF Arg, Name, Names, Kinds, AnyPath
<1>4. list \in Seq(StatePaths) /\ states \in Seq(AnyPath \X Nat)
  <2>1. <<path, Len(m.slots) + 1>> \in AnyPath \X Nat
    BY <1>2 DEF AnyPath
  <2> HIDE DEF AnyPath
  <2>2. QED BY <1>2, <2>1, Appended
<1>5. WithState(m, path) = n
  BY DEF WithState
<1>6. /\ p \in Models /\ Same(p, m) /\ p.graph = m.graph /\ p.inputCount = m.inputCount
      /\ p.slots = m.slots /\ p.meaning = m.meaning
      /\ p.schema.arguments = Append(m.schema.arguments, a)
      /\ p.schema.inputs = m.schema.inputs /\ p.schema.parameters = m.schema.parameters
  <2>1. Pushed(p, m, a, "states", list, states)
    BY <1>4 DEF Pushed
  <2> HIDE DEF p, a, list, states
  <2>2. PushedRecord(p, m, a, "states", list, states)
    BY <1>1, <1>3, <1>4, <2>1, SchemaRecords
  <2>3. QED BY <2>2 DEF PushedRecord
<1> HIDE DEF p, a, name, list, states
<1>7. /\ n \in Models /\ Same(n, p) /\ n.schema = p.schema
      /\ n.graph = Append(p.graph, Arg("state", Len(p.slots) + 1))
      /\ n.inputCount = p.inputCount /\ n.slots = Append(p.slots, name)
      /\ n.meaning = Append(p.meaning, name)
  BY <1>3, <1>6, GraphRecords
<1> HIDE DEF n, g
<1>8. /\ Same(n, m) /\ n.graph = Append(m.graph, g) /\ n.inputCount = m.inputCount
      /\ n.slots = Append(m.slots, name) /\ n.meaning = Append(m.meaning, name)
  BY <1>6, <1>7 DEF Same, g
<1>9. GraphRight(n)
  BY <1>1, <1>3, <1>7, <1>8, GraphGrows DEF g
<1>10. EntryRight(a, n.schema, m.residency, g, name)
  BY <1>3 DEF EntryRight
<1>11. SchemaRight(n)
  <2>1. n.residency = m.residency /\ m.schema.inputs <= n.schema.inputs
    BY <1>2, <1>6, <1>7, <1>8 DEF Same
  <2>2. \A i \in DOMAIN m.schema.parameters :
           i \in DOMAIN n.schema.parameters /\ n.schema.parameters[i] = m.schema.parameters[i]
    BY <1>6, <1>7
  <2>3. n.schema.arguments = Append(m.schema.arguments, a)
    BY <1>6, <1>7
  <2>4. QED BY <1>1, <1>3, <1>7, <1>8, <1>10, <2>1, <2>2, <2>3, SchemaGrows
<1>12. QED BY <1>5, <1>7, <1>8, <1>9, <1>11 DEF ModelRight

\* A declared parameter: a state of the graph if it is resident, else an input.
LEMMA ParameterTraced ==
    ASSUME NEW m, ModelRight(m), m.status = "tracing", NEW path \in ParameterPaths
    PROVE  ModelRight(WithParameter(m, path)) /\ Same(WithParameter(m, path), m)
<1> DEFINE c == Len(m.schema.parameters)
           a == Arg("parameter", c + 1)
           name == Name("parameter", path)
           list == Append(m.schema.parameters, path)
           p == IF path \in m.residency THEN GraphState(m, name) ELSE GraphInput(m, name)
           g == IF path \in m.residency THEN Arg("state", Len(m.slots) + 1)
                                        ELSE Arg("input", m.inputCount + 1)
           n == [p EXCEPT !.schema.parameters = Append(p.schema.parameters, path),
                          !.schema.arguments = Append(p.schema.arguments, a)]
<1>1. m \in Models /\ GraphRight(m) /\ SchemaRight(m) /\ Len(m.meaning) = Len(m.graph)
  BY DEF ModelRight, GraphRight
<1>2. /\ m.schema.parameters \in Seq(ParameterPaths) /\ m.slots \in Seq(Names)
      /\ m.inputCount \in Nat /\ c \in Nat /\ Len(m.slots) \in Nat /\ m.schema.inputs \in Nat
  <2>1. /\ m.schema.parameters \in Seq(ParameterPaths) /\ m.slots \in Seq(Names)
        /\ m.inputCount \in Nat /\ m.schema.inputs \in Nat
    BY <1>1, ModelFields
  <2>2. QED BY <2>1
<1>3. /\ a \in [kind : Kinds, index : Nat] /\ a.kind = "parameter" /\ a.index = c + 1
      /\ name \in Names /\ g \in [kind : {"input", "state"}, index : Nat]
  BY <1>2 DEF Arg, Name, Names, Kinds, AnyPath
<1>4. list \in Seq(ParameterPaths) /\ DOMAIN list = 1 .. c + 1 /\ list[c + 1] = path
      /\ \A i \in DOMAIN m.schema.parameters :
            i \in DOMAIN list /\ list[i] = m.schema.parameters[i]
  <2>1. /\ list \in Seq(ParameterPaths) /\ DOMAIN list = 1 .. c + 1 /\ list[c + 1] = path
        /\ DOMAIN m.schema.parameters = 1 .. c
        /\ \A i \in 1 .. c : list[i] = m.schema.parameters[i]
    BY <1>2, Appended
  <2> HIDE DEF list, c
  <2>2. QED BY <1>2, <2>1
<1>5. WithParameter(m, path) = n
  BY DEF WithParameter
<1> HIDE DEF name, n, list
<1>6. /\ p \in Models /\ Same(p, m) /\ p.schema = m.schema /\ p.graph = Append(m.graph, g)
      /\ p.meaning = Append(m.meaning, name) /\ p.states \in Seq(AnyPath \X Nat)
  <2>1. m.states \in Seq(AnyPath \X Nat)
    BY <1>1, ModelFields
  <2>2. QED BY <1>1, <1>3, <2>1, GraphRecords
<1>7. GraphRight(p)
  <2>1. CASE path \in m.residency
    <3> DEFINE s == GraphState(m, name)
               h == Arg("state", Len(m.slots) + 1)
    <3>1. p = s
      BY <2>1
    <3>2. /\ s \in Models /\ s.graph = Append(m.graph, h) /\ s.inputCount = m.inputCount
          /\ s.slots = Append(m.slots, name) /\ s.meaning = Append(m.meaning, name)
      BY <1>1, <1>3, GraphRecords
    <3> HIDE DEF s, p
    <3>3. GraphRight(s)
      BY <1>1, <1>3, <3>2, GraphGrows
    <3>4. QED BY <3>1, <3>3
  <2>2. CASE path \notin m.residency
    <3> DEFINE s == GraphInput(m, name)
               h == Arg("input", m.inputCount + 1)
    <3>1. p = s
      BY <2>2
    <3>2. /\ s \in Models /\ s.graph = Append(m.graph, h) /\ s.inputCount = m.inputCount + 1
          /\ s.slots = m.slots /\ s.meaning = Append(m.meaning, name)
      BY <1>1, <1>3, GraphRecords
    <3> HIDE DEF s, p
    <3>3. GraphRight(s)
      BY <1>1, <1>3, <3>2, GraphGrows
    <3>4. QED BY <3>1, <3>3
  <2>3. QED BY <2>1, <2>2
<1>8. g.kind = "input" <=> path \notin m.residency
  BY DEF Arg
<1> HIDE DEF p, g, a
<1>9. /\ n \in Models /\ Same(n, p) /\ n.graph = p.graph /\ n.inputCount = p.inputCount
      /\ n.slots = p.slots /\ n.meaning = p.meaning
      /\ n.schema.arguments = Append(m.schema.arguments, a)
      /\ n.schema.inputs = m.schema.inputs /\ n.schema.parameters = list
  <2>1. Pushed(n, p, a, "parameters", list, p.states)
    BY <1>4, <1>6 DEF Pushed, n, list
  <2>2. PushedRecord(n, p, a, "parameters", list, p.states)
    BY <1>3, <1>6, <2>1, SchemaRecords
  <2>3. QED BY <1>6, <2>2 DEF PushedRecord
<1>10. Same(n, m)
  BY <1>6, <1>9 DEF Same
<1>11. GraphRight(n)
  BY <1>7, <1>9 DEF GraphRight
<1>12. EntryRight(a, n.schema, m.residency, g, name)
  <2>1. c + 1 \in 1 .. c + 1
    BY <1>2
  <2>2. a.index \in DOMAIN n.schema.parameters /\ n.schema.parameters[a.index] = path
    BY <1>3, <1>4, <1>9, <2>1
  <2>3. QED BY <1>3, <1>8, <2>2 DEF EntryRight, name
<1>13. SchemaRight(n)
  <2>1. n.residency = m.residency /\ m.schema.inputs <= n.schema.inputs
    BY <1>2, <1>9, <1>10 DEF Same
  <2>2. \A i \in DOMAIN m.schema.parameters :
           i \in DOMAIN n.schema.parameters /\ n.schema.parameters[i] = m.schema.parameters[i]
    BY <1>4, <1>9
  <2>3. n.graph = Append(m.graph, g) /\ n.meaning = Append(m.meaning, name)
    BY <1>6, <1>9
  <2>4. QED BY <1>1, <1>3, <1>9, <1>12, <2>1, <2>2, <2>3, SchemaGrows
<1>14. QED BY <1>5, <1>9, <1>10, <1>11, <1>13 DEF ModelRight

\* A state added after tracing: no entry of the schema, the last argument of the graph.
LEMMA TransformAdded ==
    ASSUME NEW m, ModelRight(m), m.status = "applied", NEW path \in TransformPaths
    PROVE  /\ ModelRight(WithTransformState(m, path))
           /\ Same(WithTransformState(m, path), m)
           /\ WithTransformState(m, path).schema = m.schema
<1> DEFINE name == Name("state", path)
           g == Arg("state", Len(m.slots) + 1)
           s == GraphState(m, name)
           states == Append(s.states, <<path, Len(m.slots) + 1>>)
           n == [s EXCEPT !.states = states]
           c == Len(m.graph)
<1>1. m \in Models /\ GraphRight(m) /\ SchemaRight(m) /\ Len(m.meaning) = c
  BY DEF ModelRight, GraphRight
<1>2. /\ m.slots \in Seq(Names) /\ m.states \in Seq(AnyPath \X Nat) /\ Len(m.slots) \in Nat
      /\ m.graph \in Seq([kind : {"input", "state"}, index : Nat]) /\ m.meaning \in Seq(Names)
      /\ m.schema.arguments \in Seq([kind : Kinds, index : Nat])
  <2>1. /\ m.slots \in Seq(Names) /\ m.states \in Seq(AnyPath \X Nat)
        /\ m.graph \in Seq([kind : {"input", "state"}, index : Nat]) /\ m.meaning \in Seq(Names)
        /\ m.schema.arguments \in Seq([kind : Kinds, index : Nat])
    BY <1>1, ModelFields
  <2>2. QED BY <2>1
<1>3. /\ name \in Names /\ g \in [kind : {"input", "state"}, index : Nat] /\ g.kind = "state"
  BY <1>2 DEF Arg, Name, Names, Kinds, AnyPath
<1>4. WithTransformState(m, path) = n
  BY DEF WithTransformState
<1>5. /\ s \in Models /\ Same(s, m) /\ s.schema = m.schema /\ s.states = m.states
      /\ s.graph = Append(m.graph, g) /\ s.inputCount = m.inputCount
      /\ s.slots = Append(m.slots, name) /\ s.meaning = Append(m.meaning, name)
  <2> HIDE DEF name
  <2>1. QED BY <1>1, <1>3, GraphRecords
<1> HIDE DEF s, name
<1>6. states \in Seq(AnyPath \X Nat)
  <2>1. <<path, Len(m.slots) + 1>> \in AnyPath \X Nat
    BY <1>2 DEF AnyPath
  <2> HIDE DEF AnyPath
  <2>2. QED BY <1>2, <1>5, <2>1, Appended
<1> HIDE DEF states
<1>7. /\ n \in Models /\ Same(n, s) /\ n.schema = s.schema /\ n.graph = s.graph
      /\ n.inputCount = s.inputCount /\ n.slots = s.slots /\ n.meaning = s.meaning
  BY <1>5, <1>6 DEF Models, Same
<1> HIDE DEF n
<1>8. GraphRight(n)
  <2>1. GraphRight(s)
    BY <1>1, <1>3, <1>5, GraphGrows DEF g
  <2>2. QED BY <1>7, <2>1 DEF GraphRight
<1> HIDE DEF g
<1>9. SchemaRight(n)
  <2> DEFINE old == m.schema.arguments
             d == Len(old)
  <2>1. /\ d <= c /\ d \in Nat /\ c \in Nat /\ DOMAIN old = 1 .. d
        /\ \A i \in DOMAIN old : EntryRight(old[i], m.schema, m.residency, m.graph[i], m.meaning[i])
        /\ \A i \in 1 .. c : i > d => m.graph[i].kind = "state"
    BY <1>1, <1>2 DEF SchemaRight
  <2>2. /\ Len(n.graph) = c + 1 /\ n.graph[c + 1] = g /\ DOMAIN n.graph = 1 .. c + 1
        /\ \A i \in 1 .. c : n.graph[i] = m.graph[i]
    BY <1>2, <1>3, <1>5, <1>7, Appended
  <2>3. \A i \in 1 .. c : n.meaning[i] = m.meaning[i]
    BY <1>1, <1>2, <1>3, <1>5, <1>7, Appended
  <2>4. n.schema = m.schema /\ n.residency = m.residency /\ n.status # "tracing"
    BY <1>5, <1>7 DEF Same
  <2> HIDE DEF old, c, d
  <2>5. \A i \in 1 .. d : i \in 1 .. c
    BY <2>1
  <2>6. \A i \in 1 .. c + 1 : i > d => n.graph[i].kind = "state"
    <3>1. \A i \in 1 .. c + 1 : i = c + 1 \/ i \in 1 .. c
      BY <2>1
    <3>2. QED BY <1>3, <2>1, <2>2, <3>1
  <2>7. d <= c + 1
    BY <2>1
  <2>8. \A i \in 1 .. d : EntryRight(old[i], n.schema, n.residency, n.graph[i], n.meaning[i])
    BY <2>1, <2>2, <2>3, <2>4, <2>5
  <2>9. n.schema.arguments = old /\ DOMAIN old = 1 .. d /\ Len(old) = d
    BY <2>1, <2>4 DEF old, d
  <2>10. QED BY <2>2, <2>4, <2>6, <2>7, <2>8, <2>9 DEF SchemaRight
<1>10. QED BY <1>4, <1>5, <1>7, <1>8, <1>9 DEF ModelRight, Same

\* The end of a trace leaves all but the status and the identity as it is.
LEMMA TraceEnded ==
    ASSUME NEW m, ModelRight(m), NEW n, NEW id \in {1, 2},
           n = [m EXCEPT !.status = "applied", !.identity = id]
    PROVE  ModelRight(n) /\ n.status = "applied" /\ n.schema = m.schema
<1>1. m \in Models /\ GraphRight(m) /\ SchemaRight(m)
  BY DEF ModelRight
<1>2. /\ n \in Models /\ n.status = "applied" /\ n.residency = m.residency /\ n.schema = m.schema
      /\ n.graph = m.graph /\ n.inputCount = m.inputCount /\ n.slots = m.slots
      /\ n.meaning = m.meaning
  BY <1>1 DEF Models
<1>3. GraphRight(n)
  BY <1>1, <1>2 DEF GraphRight
<1>4. SchemaRight(n)
  BY <1>1, <1>2 DEF SchemaRight
<1>5. QED BY <1>2, <1>3, <1>4 DEF ModelRight

\* A trace begins with nothing.
LEMMA FreshRight ==
    ASSUME NEW id \in {1, 2}, NEW resident \in SUBSET ParameterPaths
    PROVE  ModelRight(Fresh(id, resident)) /\ Fresh(id, resident).status = "tracing"
<1> DEFINE n == Fresh(id, resident)
<1>1. EmptySchema \in Schemas
  BY DEF EmptySchema, Schemas
<1>2. /\ n \in Models /\ n.status = "tracing" /\ n.graph = <<>> /\ n.meaning = <<>>
      /\ n.inputCount = 0 /\ n.schema.arguments = <<>>
  BY <1>1 DEF Fresh, Models, EmptySchema
<1> HIDE DEF n
<1>3. GraphRight(n)
  <2>1. InputPlaces(n.graph) = {}
    BY <1>2 DEF InputPlaces
  <2>2. Cardinality({}) = 0
    BY FS_EmptySet
  <2>3. Len(n.meaning) = Len(n.graph) /\ DOMAIN n.graph = {}
    BY <1>2
  <2>4. QED BY <1>2, <2>1, <2>2, <2>3 DEF GraphRight
<1>4. SchemaRight(n)
  BY <1>2 DEF SchemaRight
<1>5. QED BY <1>2, <1>3, <1>4 DEF ModelRight, n

-----------------------------------------------------------------------------
\* Calls.

\* A name is something.
LEMMA NamePassed ==
    ASSUME NEW kind, NEW which
    PROVE  Name(kind, which) # NotPassed
<1>1. DOMAIN Name(kind, which) = {"kind", "which"} /\ DOMAIN NotPassed = {"made"}
  BY DEF Name, NotPassed
<1>2. QED BY <1>1

\* A sequence as a function.
LEMMA Elements ==
    ASSUME NEW S, NEW s \in Seq(S)
    PROVE  /\ Len(s) \in Nat /\ DOMAIN s = 1 .. Len(s) /\ \A k \in 1 .. Len(s) : s[k] \in S
           /\ s = [k \in 1 .. Len(s) |-> s[k]]
OBVIOUS

\* The arguments of a graph are inputs and states.
LEMMA GraphKinds ==
    ASSUME NEW m \in Models
    PROVE  /\ Len(m.graph) \in Nat /\ DOMAIN m.graph = 1 .. Len(m.graph)
           /\ \A k \in 1 .. Len(m.graph) : m.graph[k].kind \in {"input", "state"}
<1> DEFINE S == [kind : {"input", "state"}, index : Nat]
<1>1. m.graph \in Seq(S)
  BY ModelFields
<1>2. \A a \in S : a.kind \in {"input", "state"}
  OBVIOUS
<1> HIDE DEF S
<1>3. /\ Len(m.graph) \in Nat /\ DOMAIN m.graph = 1 .. Len(m.graph)
      /\ \A k \in 1 .. Len(m.graph) : m.graph[k] \in S
  BY <1>1, Elements
<1>4. QED BY <1>2, <1>3

\* What a call binds: the values of the graph's inputs, in their order.
LEMMA VisibleRight ==
    ASSUME NEW m, ModelRight(m)
    PROVE  /\ InputPlaces(m.graph) \in SUBSET (1 .. Len(m.schema.arguments))
           /\ \E values : /\ Bind(m) = Filter(values, InputPlaces(m.graph))
                          /\ \A i \in InputPlaces(m.graph) : values[i] = m.meaning[i]
<1> DEFINE args == m.schema.arguments
           d == Len(args)
           F == InputPlaces(m.graph)
           value(a) == CASE a.kind = "input" -> InputBuffers(m)[a.index]
                         [] a.kind = "parameter" -> OrderParameters(m)[a.index]
                         [] OTHER -> NotPassed
           values == [i \in DOMAIN args |-> value(args[i])]
<1>1. m \in Models /\ GraphRight(m) /\ SchemaRight(m)
  BY DEF ModelRight
<1>2. /\ m.graph \in Seq([kind : {"input", "state"}, index : Nat])
      /\ args \in Seq([kind : Kinds, index : Nat])
  BY <1>1, ModelFields
<1>3. /\ \A i \in 1 .. d : EntryRight(args[i], m.schema, m.residency, m.graph[i], m.meaning[i])
      /\ \A i \in DOMAIN m.graph : i > d => m.graph[i].kind = "state"
      /\ d \in Nat /\ d <= Len(m.graph) /\ DOMAIN args = 1 .. d
  BY <1>1, <1>2 DEF SchemaRight
<1>4. ASSUME NEW i \in 1 .. d
      PROVE  /\ i \in F => value(args[i]) = m.meaning[i] /\ value(args[i]) # NotPassed
             /\ i \notin F => value(args[i]) = NotPassed
  <2> DEFINE a == args[i]
  <2>1. i \in F <=> m.graph[i].kind = "input"
    BY <1>2, <1>3 DEF InputPlaces
  <2>2. EntryRight(a, m.schema, m.residency, m.graph[i], m.meaning[i])
    BY <1>3
  <2> HIDE DEF a, F
  <2>3. CASE /\ a.kind = "input" /\ a.index \in 1 .. m.schema.inputs
             /\ m.meaning[i] = Name("input", a.index) /\ m.graph[i].kind = "input"
    <3>1. value(a) = Name("input", a.index)
      BY <2>3 DEF InputBuffers
    <3>2. QED BY <2>1, <2>3, <3>1, NamePassed DEF a
  <2>4. CASE /\ a.kind = "parameter" /\ a.index \in DOMAIN m.schema.parameters
             /\ m.meaning[i] = Name("parameter", m.schema.parameters[a.index])
             /\ m.graph[i].kind = "input" <=> m.schema.parameters[a.index] \notin m.residency
    <3>1. value(a) = IF m.schema.parameters[a.index] \in m.residency THEN NotPassed ELSE m.meaning[i]
      BY <2>4 DEF OrderParameters, Parameters, Resident
    <3>2. m.meaning[i] # NotPassed
      BY <2>4, NamePassed
    <3>3. m.graph[i].kind = "input" <=> m.schema.parameters[a.index] \notin m.residency
      BY <2>4
    <3> HIDE DEF value
    <3>4. QED BY <2>1, <3>1, <3>2, <3>3 DEF a
  <2>5. CASE a.kind = "state" /\ m.graph[i].kind = "state"
    BY <2>1, <2>5 DEF a
  <2>6. QED BY <2>2, <2>3, <2>4, <2>5 DEF EntryRight
<1>5. F \in SUBSET (1 .. d)
  <2>1. \A i \in 1 .. Len(m.graph) : ~(i > d) => i \in 1 .. d
    BY <1>2, <1>3
  <2>2. \A i \in F : i \in 1 .. Len(m.graph) /\ m.graph[i].kind = "input"
    BY <1>2 DEF InputPlaces
  <2>3. QED BY <1>2, <1>3, <2>1, <2>2
<1> HIDE DEF F, value, d
<1>6. {i \in DOMAIN values : values[i] # NotPassed} = F
  BY <1>3, <1>4, <1>5
<1>7. Bind(m) = Filter(values, F)
  <2>1. Bind(m) = Present(values)
    BY DEF Bind, Assemble, value
  <2>2. QED BY <1>6, <2>1 DEF Present
<1>8. \A i \in F : values[i] = m.meaning[i]
  BY <1>3, <1>4, <1>5
<1>9. QED BY <1>5, <1>7, <1>8 DEF F, d

\* Without states, every argument of the graph is an input the schema has.
LEMMA AllInputs ==
    ASSUME NEW m, ModelRight(m), ~Stateful(m)
    PROVE  /\ InputPlaces(m.graph) = 1 .. Len(m.graph)
           /\ Len(m.schema.arguments) = Len(m.graph) /\ Len(m.graph) \in Nat
           /\ m.meaning = [k \in 1 .. Len(m.graph) |-> m.meaning[k]]
<1> DEFINE n == Len(m.graph)
           d == Len(m.schema.arguments)
           F == InputPlaces(m.graph)
<1>1. m \in Models /\ GraphRight(m) /\ SchemaRight(m)
  BY DEF ModelRight
<1>2. /\ m.graph \in Seq([kind : {"input", "state"}, index : Nat]) /\ m.meaning \in Seq(Names)
      /\ m.schema.arguments \in Seq([kind : Kinds, index : Nat])
  BY <1>1, ModelFields
<1>3. F = 1 .. n
  <2>1. \A i \in 1 .. n : m.graph[i].kind \in {"input", "state"}
    BY <1>1, GraphKinds
  <2>2. \A i \in 1 .. n : m.graph[i].kind # "state"
    BY <1>1, <1>2 DEF Stateful, GraphRight
  <2>3. DOMAIN m.graph = 1 .. n
    BY <1>2
  <2>4. QED BY <2>1, <2>2, <2>3 DEF InputPlaces
<1>4. n \in Nat /\ d \in Nat
  BY <1>2
<1>5. F \in SUBSET (1 .. d)
  BY VisibleRight
<1>6. d <= n
  BY <1>1 DEF SchemaRight
<1>7. m.meaning = [k \in 1 .. n |-> m.meaning[k]]
  <2>1. Len(m.meaning) = n
    BY <1>1 DEF GraphRight
  <2> HIDE DEF n
  <2>2. m.meaning = [k \in 1 .. Len(m.meaning) |-> m.meaning[k]]
    BY <1>2, Elements
  <2>3. QED BY <2>1, <2>2
<1> HIDE DEF n, d, F
<1>8. d = n
  <2>1. \A k \in 1 .. n : k \in 1 .. d
    BY <1>3, <1>5
  <2>2. n # 0 => n \in 1 .. n
    BY <1>4
  <2>3. QED BY <1>4, <1>6, <2>1, <2>2
<1>9. QED BY <1>3, <1>4, <1>7, <1>8 DEF n, d, F

\* A call of a model without states.
LEMMA ModelRuns ==
    ASSUME NEW m, ModelRight(m), ~Stateful(m)
    PROVE  Bind(m) = m.meaning
<1> DEFINE n == Len(m.graph)
<1>1. InputPlaces(m.graph) = 1 .. n /\ n \in Nat /\ m.meaning = [k \in 1 .. n |-> m.meaning[k]]
  BY AllInputs
<1>2. PICK values : /\ Bind(m) = Filter(values, InputPlaces(m.graph))
                    /\ \A i \in InputPlaces(m.graph) : values[i] = m.meaning[i]
  BY VisibleRight
<1> HIDE DEF n
<1>3. Filter(values, 1 .. n) = [k \in 1 .. n |-> values[k]]
  BY <1>1, FilterAll
<1>4. [k \in 1 .. n |-> values[k]] = [k \in 1 .. n |-> m.meaning[k]]
  BY <1>1, <1>2
<1>5. QED BY <1>1, <1>2, <1>3, <1>4

\* A call of a session: each input from its place, each state from its slot.
LEMMA SessionRuns ==
    ASSUME NEW m, ModelRight(m)
    PROVE  [k \in DOMAIN m.graph |-> IF m.graph[k].kind = "input" THEN Bind(m)[m.graph[k].index]
                                     ELSE m.slots[m.graph[k].index]] = m.meaning
<1> DEFINE n == Len(m.graph)
           F == InputPlaces(m.graph)
<1>1. m \in Models /\ GraphRight(m)
  BY DEF ModelRight
<1>2. /\ m.graph \in Seq([kind : {"input", "state"}, index : Nat]) /\ m.meaning \in Seq(Names)
      /\ m.schema.arguments \in Seq([kind : Kinds, index : Nat])
  BY <1>1, ModelFields
<1>3. F \in SUBSET (1 .. Len(m.schema.arguments)) /\ Len(m.schema.arguments) \in Nat
  BY <1>2, VisibleRight
<1>4. PICK values : Bind(m) = Filter(values, F) /\ \A i \in F : values[i] = m.meaning[i]
  BY VisibleRight
<1> HIDE DEF F
<1>5. \A i \in F : Bind(m)[PlaceIn(i, F)] = m.meaning[i]
  <2>1. \A i \in F : Filter(values, F)[PlaceIn(i, F)] = values[i]
    <3> DEFINE d == Len(m.schema.arguments)
    <3>1. d \in Nat /\ F \in SUBSET (1 .. d)
      BY <1>3
    <3> HIDE DEF d
    <3>2. QED BY <3>1, FilterAt
  <2>2. QED BY <1>4, <2>1
<1>6. ASSUME NEW k \in 1 .. n
      PROVE  (IF m.graph[k].kind = "input" THEN Bind(m)[m.graph[k].index]
              ELSE m.slots[m.graph[k].index]) = m.meaning[k]
  <2>1. m.graph[k].kind \in {"input", "state"} /\ k \in DOMAIN m.graph
    BY <1>1, GraphKinds
  <2>2. CASE m.graph[k].kind = "input"
    <3>1. k \in F /\ m.graph[k].index = PlaceIn(k, F)
      BY <1>1, <2>1, <2>2 DEF GraphRight, F, InputPlaces
    <3>2. QED BY <1>5, <2>2, <3>1
  <2>3. CASE m.graph[k].kind = "state"
    BY <1>1, <2>1, <2>3 DEF GraphRight
  <2>4. QED BY <2>1, <2>2, <2>3
<1>7. m.meaning = [k \in 1 .. n |-> m.meaning[k]] /\ DOMAIN m.graph = 1 .. n
  <2>1. Len(m.meaning) = n
    BY <1>1 DEF GraphRight
  <2>2. DOMAIN m.graph = 1 .. n
    BY <1>2
  <2> HIDE DEF n
  <2>3. m.meaning = [k \in 1 .. Len(m.meaning) |-> m.meaning[k]]
    BY <1>2, Elements
  <2>4. QED BY <2>1, <2>2, <2>3
<1>8. QED BY <1>6, <1>7

\* A stage: the inputs it asks for, in the order its sources come.
LEMMA StageRuns ==
    ASSUME NEW m, ModelRight(m), ~Stateful(m), NEW needed \in SUBSET DOMAIN m.schema.arguments
    PROVE  LET sources == Ascending(needed)
               asked == StageInputs(m, sources)
               inputs == [i \in DOMAIN asked |-> Name("input", asked[i])]
           IN  StageArguments(m, sources, inputs)
                 = [k \in DOMAIN sources |-> m.meaning[sources[k]]]
<1> DEFINE args == m.schema.arguments
           d == Len(args)
           C == Cardinality(needed)
           sources == Ascending(needed)
           Q == {k \in DOMAIN sources : args[sources[k]].kind = "input"}
           ofInput == Filter(sources, Q)
           asked == [i \in DOMAIN ofInput |-> args[ofInput[i]].index]
           inputs == [i \in DOMAIN asked |-> Name("input", asked[i])]
           position(k) == Cardinality({j \in 1 .. k : args[sources[j]].kind = "input"})
<1>1. m \in Models /\ SchemaRight(m)
  BY DEF ModelRight
<1>2. args \in Seq([kind : Kinds, index : Nat]) /\ d \in Nat /\ DOMAIN args = 1 .. d
  <2>1. args \in Seq([kind : Kinds, index : Nat])
    BY <1>1, ModelFields
  <2>2. QED BY <2>1
<1>3. /\ C \in Nat /\ DOMAIN sources = 1 .. C
      /\ \A k \in 1 .. C : sources[k] \in needed
  <2>1. needed \in SUBSET (1 .. d)
    BY <1>2
  <2> HIDE DEF d
  <2>2. C \in Nat /\ \A k \in 1 .. C : Ascending(needed)[k] \in needed
    BY <1>2, <2>1, AscendingAt
  <2>3. DOMAIN sources = 1 .. C
    BY DEF Ascending
  <2>4. QED BY <2>2, <2>3
<1>4. \A i \in 1 .. d : /\ EntryRight(args[i], m.schema, m.residency, m.graph[i], m.meaning[i])
                        /\ m.graph[i].kind = "input"
  <2>1. /\ InputPlaces(m.graph) = 1 .. Len(m.graph) /\ d = Len(m.graph)
    BY AllInputs
  <2>2. \A i \in 1 .. d : m.graph[i].kind = "input"
    BY <2>1 DEF InputPlaces
  <2>3. QED BY <1>1, <1>2, <2>2 DEF SchemaRight
<1> HIDE DEF sources, C, d
<1>5. Q \in SUBSET (1 .. C)
  BY <1>3
<1>6. /\ DOMAIN ofInput = 1 .. Cardinality(Q)
      /\ \A k \in Q : ofInput[PlaceIn(k, Q)] = sources[k] /\ PlaceIn(k, Q) \in 1 .. Cardinality(Q)
  <2> HIDE DEF Q
  <2>1. /\ ofInput = [k \in 1 .. Cardinality(Q) |-> sources[Ascending(Q)[k]]]
        /\ \A k \in Q : ofInput[PlaceIn(k, Q)] = sources[k]
    <3>1. \A k \in Q : Filter(sources, Q)[PlaceIn(k, Q)] = sources[k]
      BY <1>3, <1>5, FilterAt
    <3>2. QED BY <3>1 DEF Filter
  <2>2. \A k \in Q : PlaceIn(k, Q) \in 1 .. Cardinality(Q)
    BY <1>3, <1>5, AscendingAt
  <2>3. QED BY <2>1, <2>2
<1>7. ASSUME NEW k \in 1 .. C PROVE position(k) = PlaceIn(k, Q)
  <2>1. {j \in 1 .. k : args[sources[j]].kind = "input"} = {j \in Q : j <= k}
    BY <1>3
  <2>2. QED BY <2>1 DEF PlaceIn
<1>8. ASSUME NEW k \in 1 .. C
      PROVE  (IF args[sources[k]].kind = "input" THEN inputs[position(k)]
              ELSE OrderParameters(m)[args[sources[k]].index]) = m.meaning[sources[k]]
  <2> DEFINE i == sources[k]
             a == args[i]
  <2>1. i \in 1 .. d
    BY <1>2, <1>3
  <2>2. EntryRight(a, m.schema, m.residency, m.graph[i], m.meaning[i]) /\ m.graph[i].kind = "input"
    BY <1>4, <2>1
  <2>3. CASE a.kind = "input"
    <3>1. k \in Q
      BY <1>3, <2>3
    <3> DEFINE o == PlaceIn(k, Q)
    <3>2. o \in DOMAIN ofInput /\ ofInput[o] = i /\ position(k) = o
      BY <1>6, <1>7, <3>1
    <3>3. m.meaning[i] = Name("input", a.index)
      BY <2>2, <2>3 DEF EntryRight
    <3> HIDE DEF o, ofInput, position, Q
    <3>4. inputs[o] = Name("input", a.index)
      BY <3>2
    <3> HIDE DEF inputs
    <3>5. QED BY <2>3, <3>2, <3>3, <3>4
  <2>4. CASE a.kind # "input"
    <3>1. /\ a.index \in DOMAIN m.schema.parameters
          /\ m.meaning[i] = Name("parameter", m.schema.parameters[a.index])
          /\ m.schema.parameters[a.index] \notin m.residency
      BY <2>2, <2>4 DEF EntryRight
    <3>2. OrderParameters(m)[a.index] = m.meaning[i]
      BY <3>1 DEF OrderParameters, Parameters, Resident
    <3>3. QED BY <2>4, <3>2
  <2>5. QED BY <2>3, <2>4
<1>9. /\ StageInputs(m, sources) = asked
      /\ StageArguments(m, sources, inputs)
           = [k \in DOMAIN sources |->
                IF args[sources[k]].kind = "input" THEN inputs[position(k)]
                ELSE OrderParameters(m)[args[sources[k]].index]]
  BY DEF StageInputs, StageArguments
<1> HIDE DEF Q, ofInput, asked, inputs, position, args
<1>10. StageArguments(m, sources, inputs) = [k \in DOMAIN sources |-> m.meaning[sources[k]]]
  BY <1>3, <1>8, <1>9
<1>11. inputs = [i \in DOMAIN asked |-> Name("input", asked[i])]
  BY DEF inputs
<1>12. QED BY <1>9, <1>10, <1>11 DEF sources

-----------------------------------------------------------------------------
\* The invariant.

\* What changes no model and no selection, and binds what was wanted.
LEMMA CallsKeep ==
    ASSUME AbiInv, UNCHANGED <<model, selection>>,
           call'.kind # "donating" => call'.bound = call'.wanted
    PROVE  AbiInv'
BY DEF AbiInv, SelectionRight

\* A trace that is applied is right.
LEMMA AppliedRight ==
    ASSUME AbiInv, NEW t \in {1, 2}, model[t].status # "none"
    PROVE  ModelRight(model[t]) /\ model[t] # NoModel
BY DEF AbiInv, NoModel

\* A step that makes one trace something right, and leaves the selection.
LEMMA TraceKeeps ==
    ASSUME AbiInv, NEW t \in {1, 2}, NEW n, n = NoModel \/ ModelRight(n),
           model' = [model EXCEPT ![t] = n], UNCHANGED selection, call' = NoCall,
           t = 1 /\ selection.made =>
              n.status = "applied" /\ n.schema = model[1].schema,
           t = 2 => /\ n # NoModel => selection.made
                    /\ n.status = "applied" => n.schema = selection.schema
    PROVE  AbiInv'
<1>1. model' = [u \in {1, 2} |-> IF u = t THEN n ELSE model[u]]
  BY DEF AbiInv
<1>2. /\ model' = [u \in {1, 2} |-> model'[u]]
      /\ \A u \in {1, 2} : model'[u] = NoModel \/ ModelRight(model'[u])
  BY <1>1 DEF AbiInv
<1>3. SelectionRight'
  <2>1. CASE t = 1
    <3>1. model'[1] = n /\ model'[2] = model[2]
      BY <1>1, <2>1
    <3>2. QED BY <2>1, <3>1 DEF AbiInv, SelectionRight
  <2>2. CASE t = 2
    <3>1. model'[1] = model[1] /\ model'[2] = n
      BY <1>1, <2>2
    <3>2. QED BY <2>2, <3>1 DEF AbiInv, SelectionRight
  <2>3. QED BY <2>1, <2>2
<1>4. call'.bound = call'.wanted
  BY DEF NoCall
<1>5. QED BY <1>2, <1>3, <1>4 DEF AbiInv

\* A trace begins right.
LEMMA AbiBegins ==
    ASSUME AbiInit
    PROVE  AbiInv
<1>1. PICK resident \in SUBSET ParameterPaths :
         model = [t \in {1, 2} |-> IF t = 1 THEN Fresh(1, resident) ELSE NoModel]
  BY DEF AbiInit
<1>2. model[1] = Fresh(1, resident) /\ model[2] = NoModel
  BY <1>1
<1>3. ModelRight(model[1])
  BY <1>2, FreshRight
<1>4. SelectionRight
  <2>1. selection.made = FALSE /\ NoModel.status = "none"
    BY DEF AbiInit, NotPassed, NoModel
  <2>2. QED BY <1>2, <2>1 DEF SelectionRight
<1>5. call.bound = call.wanted
  BY DEF AbiInit, NoCall
<1>6. QED BY <1>1, <1>2, <1>3, <1>4, <1>5 DEF AbiInv

\* A declaration.
LEMMA DeclareKeeps ==
    ASSUME AbiInv, NEW t \in {1, 2}, Declare(t)
    PROVE  AbiInv'
<1> DEFINE m == model[t]
<1>1. m.status = "tracing" /\ ModelRight(m) /\ m # NoModel
  BY AppliedRight DEF Declare
<1>2. t = 1 => ~selection.made
  BY <1>1 DEF AbiInv, SelectionRight
<1>3. t = 2 => selection.made
  BY <1>1 DEF AbiInv, SelectionRight
<1>4. ASSUME NEW n, ModelRight(n), Same(n, m), model' = [model EXCEPT ![t] = n]
      PROVE  AbiInv'
  <2>1. n.status = "tracing"
    BY <1>1, <1>4 DEF Same
  <2>2. call' = NoCall /\ UNCHANGED selection
    BY DEF Declare
  <2> HIDE DEF m
  <2>3. QED BY <1>2, <1>3, <1>4, <2>1, <2>2, TraceKeeps
<1>5. CASE model' = [model EXCEPT ![t] = WithInput(m)]
  BY <1>1, <1>4, <1>5, InputTraced
<1>6. CASE \E path \in ParameterPaths : model' = [model EXCEPT ![t] = WithParameter(m, path)]
  BY <1>1, <1>4, <1>6, ParameterTraced
<1>7. CASE \E path \in StatePaths : model' = [model EXCEPT ![t] = WithState(m, path)]
  BY <1>1, <1>4, <1>7, StateTraced
<1>8. QED BY <1>5, <1>6, <1>7 DEF Declare

\* The end of a trace.
LEMMA EndKeeps ==
    ASSUME AbiInv, NEW t \in {1, 2}, EndTrace(t)
    PROVE  AbiInv'
<1> DEFINE m == model[t]
<1>1. m.status = "tracing" /\ ModelRight(m) /\ m # NoModel
  BY AppliedRight DEF EndTrace
<1>2. /\ t = 1 => ~selection.made
      /\ t = 2 => selection.made /\ selection.identity \in {1, 2}
  BY <1>1 DEF AbiInv, SelectionRight
<1>3. call' = NoCall /\ UNCHANGED selection
  BY DEF EndTrace
<1>4. CASE t = 1
  <2> DEFINE n == [m EXCEPT !.status = "applied", !.identity = m.identity]
  <2>1. m \in Models
    BY <1>1 DEF ModelRight
  <2>2. n = [m EXCEPT !.status = "applied"] /\ m.identity \in {1, 2}
    BY <2>1, ModelFields
  <2>3. model' = [model EXCEPT ![t] = n]
    BY <1>4, <2>2 DEF EndTrace
  <2>4. ModelRight(n)
    BY <1>1, <2>2, TraceEnded
  <2> HIDE DEF n
  <2>5. QED BY <1>2, <1>3, <1>4, <2>3, <2>4, TraceKeeps
<1>5. CASE t = 2 /\ m.schema = selection.schema
  <2> DEFINE id == selection.identity
             n == [m EXCEPT !.status = "applied", !.identity = id]
  <2>1. model' = [model EXCEPT ![t] = n]
    BY <1>5 DEF EndTrace
  <2>2. id \in {1, 2}
    BY <1>2, <1>5
  <2> HIDE DEF id, m
  <2>3. ModelRight(n) /\ n.status = "applied" /\ n.schema = m.schema
    BY <1>1, <2>2, TraceEnded
  <2> HIDE DEF n
  <2>4. QED BY <1>2, <1>3, <1>5, <2>1, <2>3, TraceKeeps
<1>6. CASE t = 2 /\ m.schema # selection.schema
  <2>1. model' = [model EXCEPT ![t] = NoModel]
    BY <1>6 DEF EndTrace
  <2>2. NoModel.status # "applied"
    BY DEF NoModel
  <2>3. QED BY <1>2, <1>3, <1>6, <2>1, <2>2, TraceKeeps
<1>7. QED BY <1>4, <1>5, <1>6

\* A state added after tracing.
LEMMA TransformKeeps ==
    ASSUME AbiInv, NEW t \in {1, 2}, NEW path \in TransformPaths, AddTransformState(t, path)
    PROVE  AbiInv'
<1> DEFINE m == model[t]
           n == WithTransformState(m, path)
<1>1. m.status = "applied" /\ ModelRight(m) /\ m # NoModel
  BY AppliedRight DEF AddTransformState, IsApplied
<1>2. model' = [model EXCEPT ![t] = n] /\ call' = NoCall /\ UNCHANGED selection
  BY DEF AddTransformState
<1>3. ModelRight(n) /\ Same(n, m) /\ n.schema = m.schema
  BY <1>1, TransformAdded
<1>4. /\ t = 2 => selection.made /\ m.schema = selection.schema
  BY <1>1 DEF AbiInv, SelectionRight
<1> HIDE DEF n
<1>5. n.status = "applied" /\ t = 1 => n.schema = model[1].schema
  BY <1>1, <1>3 DEF Same
<1>6. n.status = "applied"
  BY <1>1, <1>3 DEF Same
<1>7. QED BY <1>2, <1>3, <1>4, <1>5, <1>6, TraceKeeps

\* A selection of the first trace's parameters.
LEMMA SelectKeeps ==
    ASSUME AbiInv, NEW ids \in SUBSET DOMAIN Parameters(model[1]), Select(ids)
    PROVE  AbiInv'
<1> DEFINE schema == model[1].schema
           d == Len(schema.parameters)
<1>1. model[1].status = "applied" /\ ModelRight(model[1])
  BY AppliedRight DEF Select, IsApplied
<1>2. model[1].identity \in {1, 2} /\ schema.parameters \in Seq(ParameterPaths)
  BY <1>1, ModelFields DEF ModelRight
<1>3. selection' = [made |-> TRUE, identity |-> model[1].identity, schema |-> schema,
                    ids |-> Ascending(ids)] /\ call' = NoCall /\ model' = model
      /\ ~selection.made
  BY DEF Select
<1>4. d \in Nat /\ DOMAIN schema.parameters = 1 .. d
  BY <1>2, Elements
<1>5. \A i \in DOMAIN Ascending(ids) : Ascending(ids)[i] \in DOMAIN schema.parameters
  <2>1. ids \in SUBSET (1 .. d)
    BY <1>4 DEF Parameters
  <2> HIDE DEF d
  <2>2. \A k \in 1 .. Cardinality(ids) : Ascending(ids)[k] \in ids
    BY <1>4, <2>1, AscendingAt
  <2>3. DOMAIN Ascending(ids) = 1 .. Cardinality(ids)
    BY DEF Ascending
  <2>4. QED BY <1>4, <2>1, <2>2, <2>3
<1>6. model[2] = NoModel /\ NoModel.status # "applied"
  BY <1>3 DEF AbiInv, SelectionRight, NoModel
<1>7. SelectionRight'
  BY <1>1, <1>2, <1>3, <1>5, <1>6 DEF SelectionRight
<1>8. call'.bound = call'.wanted
  BY <1>3 DEF NoCall
<1>9. QED BY <1>3, <1>7, <1>8 DEF AbiInv

\* The second trace begins.
LEMMA ResidentKeeps ==
    ASSUME AbiInv, TraceResident
    PROVE  AbiInv'
<1> DEFINE n == Fresh(2, Range(SelectedPaths))
<1>1. /\ selection.made /\ model' = [model EXCEPT ![2] = n] /\ call' = NoCall
      /\ UNCHANGED selection
  BY DEF TraceResident
<1>2. ModelRight(n) /\ n.status = "tracing"
  <2>1. ModelRight(model[1]) /\ selection.schema = model[1].schema
        /\ \A i \in DOMAIN selection.ids : selection.ids[i] \in DOMAIN selection.schema.parameters
    <3>1. model[1].status = "applied"
      BY <1>1 DEF AbiInv, SelectionRight
    <3>2. QED BY <1>1, <3>1, AppliedRight DEF AbiInv, SelectionRight
  <2>2. selection.schema.parameters \in Seq(ParameterPaths)
    BY <2>1, ModelFields DEF ModelRight
  <2>3. Range(SelectedPaths) \in SUBSET ParameterPaths
    <3>1. \A j \in DOMAIN selection.schema.parameters :
             selection.schema.parameters[j] \in ParameterPaths
      BY <2>2, Elements
    <3>2. QED BY <2>1, <3>1 DEF SelectedPaths, Range
  <2>4. QED BY <2>3, FreshRight
<1> DEFINE u == 2
<1>3. /\ u \in {1, 2} /\ model' = [model EXCEPT ![u] = n]
      /\ ~(u = 1 /\ selection.made) /\ n.status # "applied"
  BY <1>1, <1>2
<1> HIDE DEF n, u
<1>4. QED BY <1>1, <1>2, <1>3, TraceKeeps

\* A call binds what was wanted.
LEMMA CallsRight ==
    ASSUME AbiInv, NEW t \in {1, 2}, IsApplied(t),
           \/ UseSelection(t) \/ RunModel(t) \/ RunSession(t)
           \/ \E donated \in SUBSET (1 .. model[t].schema.inputs) : RunDonating(t, donated)
           \/ \E needed \in SUBSET DOMAIN model[t].schema.arguments : RunStage(t, needed)
    PROVE  AbiInv'
<1> DEFINE m == model[t]
<1>1. m.status = "applied" /\ ModelRight(m)
  BY AppliedRight DEF IsApplied
<1>2. CASE UseSelection(t)
  <2>1. selection.schema = m.schema
    BY <1>1, <1>2 DEF UseSelection, AbiInv, SelectionRight
  <2>2. call'.bound = call'.wanted
    BY <1>2, <2>1 DEF UseSelection, Parameters, SelectedPaths
  <2>3. QED BY <1>2, <2>2, CallsKeep DEF UseSelection
<1>3. CASE RunModel(t)
  <2>1. call'.bound = call'.wanted
    BY <1>1, <1>3, ModelRuns DEF RunModel
  <2>2. QED BY <1>3, <2>1, CallsKeep DEF RunModel
<1>4. CASE RunSession(t)
  <2>1. call'.bound = call'.wanted
    BY <1>1, <1>4, SessionRuns DEF RunSession
  <2>2. QED BY <1>4, <2>1, CallsKeep DEF RunSession
<1>5. CASE \E donated \in SUBSET (1 .. model[t].schema.inputs) : RunDonating(t, donated)
  <2>1. call'.kind = "donating" /\ UNCHANGED <<model, selection>>
    BY <1>5 DEF RunDonating
  <2>2. QED BY <2>1, CallsKeep
<1>6. CASE \E needed \in SUBSET DOMAIN model[t].schema.arguments : RunStage(t, needed)
  <2>1. PICK needed \in SUBSET DOMAIN m.schema.arguments : RunStage(t, needed)
    BY <1>6
  <2>2. ~Stateful(m) /\ UNCHANGED <<model, selection>>
    BY <2>1 DEF RunStage
  <2> HIDE DEF m
  <2>3. LET sources == Ascending(needed)
            asked == StageInputs(m, sources)
            inputs == [i \in DOMAIN asked |-> Name("input", asked[i])]
        IN  StageArguments(m, sources, inputs)
              = [k \in DOMAIN sources |-> m.meaning[sources[k]]]
    BY <1>1, <2>1, <2>2, StageRuns
  <2>4. call'.bound = call'.wanted
    BY <2>1, <2>3 DEF RunStage, m
  <2>5. QED BY <2>2, <2>4, CallsKeep
<1>7. QED BY <1>2, <1>3, <1>4, <1>5, <1>6

\* Every step keeps the invariant.
LEMMA AbiStep ==
    ASSUME AbiInv, [AbiNext]_abiVars
    PROVE  AbiInv'
<1>1. CASE UNCHANGED abiVars
  BY <1>1 DEF abiVars, AbiInv, SelectionRight
<1>2. ASSUME NEW t \in {1, 2}, Declare(t) PROVE AbiInv'
  BY <1>2, DeclareKeeps
<1>3. ASSUME NEW t \in {1, 2}, EndTrace(t) PROVE AbiInv'
  BY <1>3, EndKeeps
<1>4. ASSUME NEW t \in {1, 2}, NEW path \in TransformPaths, AddTransformState(t, path) PROVE AbiInv'
  BY <1>4, TransformKeeps
<1>5. ASSUME NEW t \in {1, 2}, UseSelection(t) \/ RunModel(t) \/ RunSession(t) PROVE AbiInv'
  <2>1. IsApplied(t)
    BY <1>5 DEF UseSelection, RunModel, RunSession
  <2>2. QED BY <1>5, <2>1, CallsRight
<1>6. ASSUME NEW t \in {1, 2}, IsApplied(t),
             \/ \E donated \in SUBSET (1 .. model[t].schema.inputs) : RunDonating(t, donated)
             \/ \E needed \in SUBSET DOMAIN model[t].schema.arguments : RunStage(t, needed)
      PROVE  AbiInv'
  BY <1>6, CallsRight
<1>7. ASSUME NEW ids \in SUBSET DOMAIN Parameters(model[1]), Select(ids) PROVE AbiInv'
  BY <1>7, SelectKeeps
<1>8. CASE TraceResident
  BY <1>8, ResidentKeeps
<1>9. QED BY <1>1, <1>2, <1>3, <1>4, <1>5, <1>6, <1>7, <1>8 DEF AbiNext

\* In every reachable state the two numberings of each model fit its declarations,
\* and a selection has the schema of the models that accept it.
THEOREM ModelInvariant == AbiSpec => []AbiInv
<1>1. AbiInit => AbiInv
  BY AbiBegins
<1>2. AbiInv /\ [AbiNext]_abiVars => AbiInv'
  BY AbiStep
<1>3. QED BY <1>1, <1>2, PTL DEF AbiSpec

\* However the inputs, parameters and states were declared, whichever parameters are
\* resident, and whatever was added after tracing: each argument of a call gets the
\* buffer made for the declaration behind it.
THEOREM CallsBind == AbiSpec => []CallsBindByName
<1>1. AbiInv => CallsBindByName
  <2>1. SUFFICES ASSUME AbiInv PROVE CallsBindByName
    OBVIOUS
  <2>2. AbiTypeOK
    <3>1. ASSUME NEW t \in {1, 2}, model[t].status # "none"
          PROVE  /\ model[t].schema.arguments \in Seq([kind : Kinds, index : Nat])
                 /\ model[t].graph \in Seq([kind : {"input", "state"}, index : Nat])
                 /\ Len(model[t].graph) = Len(model[t].meaning)
      <4>1. ModelRight(model[t])
        BY <2>1, <3>1, AppliedRight
      <4>2. QED BY <4>1, ModelFields DEF ModelRight, GraphRight
    <3>2. QED BY <3>1 DEF AbiTypeOK, Kinds
  <2>3. QED BY <2>1, <2>2 DEF AbiInv, CallsBindByName
<1>2. QED BY <1>1, ModelInvariant, PTL

==============================================================================
