----------------------------- MODULE PjrtObjects -----------------------------
(***************************************************************************)
(* The native objects behind rxla-pjrt/src/runtime.rs: buffers, one loaded *)
(* executable, their client, completion events and DMA mappings.  Rust     *)
(* releases a native object when the last Arc around it is dropped, while  *)
(* the device keeps working on what was submitted: `task` holds the calls  *)
(* whose work may still be running, and the plugin's half of the state     *)
(* (work, event, owner) moves on its own.                               *)
(*                                                                         *)
(* A Buffer value of the program is one unit of handles[b]; a guard of     *)
(* external_reference is b \in pins.  MaxHandles bounds the clones, and    *)
(* each buffer and task name is used once.                                 *)
(***************************************************************************)
EXTENDS Naturals, Sequences, FiniteSets, SequencesExt, FiniteSetsExt

CONSTANTS ThreadCount, BufferCount, TaskCount,
          Devices,       \* devices of the executable given to execute_sharded
          MaxHandles,
          Shared,        \* buffers the program clones, copies, exports or imports
          Faults,        \* null results a broken plugin may return
          Nobody         \* no task

VARIABLES handles, pins, native, owner, task, waitsOn,
          clientHandles, exeHandles, clientState, exeState, misbehaved

Threads == 1 .. ThreadCount
Buffers == 1 .. BufferCount
Tasks == 1 .. TaskCount

ASSUME ObjectsAssumption ==
    /\ {ThreadCount, BufferCount, TaskCount} \subseteq Nat
    /\ {Devices, MaxHandles} \subseteq Nat \ {0}
    /\ Shared \subseteq Buffers
    /\ Nobody \notin Threads \cup Tasks

objectVars == <<handles, pins, native, owner, task, waitsOn,
                clientHandles, exeHandles, clientState, exeState, misbehaved>>

\* A call that left work on the device.  ins are the arguments as long as Rust
\* holds or borrows them, reads the arguments the device was given; dma says
\* the transfer uses the mapping, mapped that the host memory is mapped.
Unused == [kind |-> "none", phase |-> "unused", by |-> Nobody, ins |-> << >>,
           reads |-> {}, given |-> {}, outs |-> {}, work |-> << >>, event |-> << >>,
           failed |-> FALSE, dma |-> FALSE, mapped |-> FALSE, host |-> FALSE]

ObjectsInit ==
    /\ handles = [b \in Buffers |-> 0]
    /\ pins = {}
    /\ native = [b \in Buffers |-> "unused"]
    /\ owner = [b \in Buffers |-> "none"]
    /\ task = [k \in Tasks |-> Unused]
    /\ waitsOn = [t \in Threads |-> Nobody]
    /\ clientHandles = 1 /\ exeHandles = 1
    /\ clientState = "live" /\ exeState = "live"
    /\ misbehaved = FALSE

-----------------------------------------------------------------------------
(* Arcs *)

\* Mutant: submit_impl keeps raw pointers and no Arcs of its inputs.
TaskArcsUnretained(b) == {arc \in Tasks \X {0} : b \in task[arc[1]].outs}

\* The Arcs of a buffer inside tasks: a PendingExecution retains one for each
\* argument (i > 0); every task holds the outputs it has not handed over (0).
TaskArcs(b) == {arc \in Tasks \X (0 .. 2) :
    LET holder == task[arc[1]]
        i == arc[2]
    IN  IF i = 0 THEN b \in holder.outs
        ELSE holder.kind = "exec" /\ i \in DOMAIN holder.ins /\ holder.ins[i] = b}

StrongCount(b) == handles[b] + Cardinality(pins \cap {b}) + Cardinality(TaskArcs(b))

\* Calls that take references keep their caller's values borrowed.
Borrowed(b) == \E k \in Tasks : /\ task[k].kind \in {"shard", "download"}
                                /\ task[k].phase = "waiting"
                                /\ b \in ToSet(task[k].ins)

Movable(b) == handles[b] > IF Borrowed(b) THEN 1 ELSE 0

ExecutableHeld == exeHandles > 0 \/ \E k \in Tasks :
    /\ task[k].kind \in {"exec", "shard"}
    /\ task[k].phase \in {"pending", "waiting", "forgotten"}

\* Drop of BufferInner, ExecutableInner and ClientInner: the end of every step
\* destroys what its last Arc left.  fresh are the buffers the step wrapped.
Settle(fresh) ==
    /\ native' = [b \in Buffers |->
            IF b \in fresh \/ native[b] = "live"
            THEN IF StrongCount(b)' = 0 THEN "destroyed" ELSE "live"
            ELSE native[b]]
    /\ exeState' = IF ExecutableHeld' THEN exeState ELSE "destroyed"
    /\ clientState' = IF \/ clientHandles' > 0 \/ exeState' = "live"
                         \/ \E b \in Buffers : native'[b] = "live"
                      THEN clientState ELSE "destroyed"

Keep(fresh) == UNCHANGED <<clientHandles, exeHandles>> /\ Settle(fresh)

-----------------------------------------------------------------------------
(* The program's calls *)

Idle(t) == waitsOn[t] = Nobody
\* Names are taken in order (the first task's thread is 1), and no new work is started after a plugin fault.
FreshBuffer(b) == /\ native[b] = "unused" /\ ~misbehaved
                  /\ \A a \in 1 .. b - 1 : native[a] # "unused"
FreshTask(t, k) == /\ Idle(t) /\ task[k].phase = "unused" /\ ~misbehaved
                   /\ \A j \in 1 .. k - 1 : task[j].phase # "unused"
                   /\ t <= k

NewTask(kind, phase, t, ins, outs, n) ==
    [kind |-> kind, phase |-> phase, by |-> t, ins |-> ins, reads |-> ToSet(ins),
     given |-> {}, outs |-> outs, work |-> [i \in 1 .. n |-> "running"],
     event |-> [i \in 1 .. n |-> "pending"], failed |-> FALSE,
     dma |-> FALSE, mapped |-> FALSE, host |-> FALSE]

\* Clone and drop of a Buffer value.
CloneHandle(b) ==
    /\ handles[b] \in 1 .. MaxHandles - 1 /\ b \in Shared
    /\ handles' = [handles EXCEPT ![b] = @ + 1]
    /\ UNCHANGED <<pins, owner, task, waitsOn, misbehaved>> /\ Keep({})

DropHandle(b) ==
    /\ Movable(b)
    /\ handles' = [handles EXCEPT ![b] = @ - 1]
    /\ UNCHANGED <<pins, owner, task, waitsOn, misbehaved>> /\ Keep({})

\* copy_to_device, copy_to_memory: where the buffer is already there the result
\* is another handle (CloneHandle), otherwise a new buffer.
CopyTo(b, new) ==
    /\ handles[b] > 0 /\ b \in Shared /\ FreshBuffer(new)
    /\ handles' = [handles EXCEPT ![new] = 1]
    /\ UNCHANGED <<pins, owner, task, waitsOn, misbehaved>> /\ Keep({new})

\* external_reference keeps a clone next to the pinned pointer; a failure after
\* the count was increased decreases it again and leaves nothing.
ExternalReference(b) ==
    /\ handles[b] > 0 /\ b \in Shared \ pins
    /\ pins' = pins \cup {b}
    /\ UNCHANGED <<handles, owner, task, waitsOn, misbehaved>> /\ Keep({})

DropReference(b) ==
    /\ b \in pins /\ pins' = pins \ {b}
    /\ UNCHANGED <<handles, owner, task, waitsOn, misbehaved>> /\ Keep({})

\* view_of_device_buffer: the plugin gets the owner.  When it refuses, or returns
\* no buffer, the owner is dropped at once and nothing remains.
ViewOfDeviceBuffer(b) ==
    /\ clientHandles > 0 /\ FreshBuffer(b) /\ b \in Shared
    /\ handles' = [handles EXCEPT ![b] = 1]
    /\ owner' = [owner EXCEPT ![b] = "held"]
    /\ UNCHANGED <<pins, task, waitsOn, misbehaved>> /\ Keep({b})

\* upload_pinned_on_device.  Without DMA (or with Unimplemented) the memory is
\* only kept; a failing upload unmaps it and leaves nothing.
UploadPinned(t, k, b, dma) ==
    LET started == [NewTask("upload", "pending", t, << >>, {b}, 1)
                        EXCEPT !.dma = dma, !.mapped = dma, !.host = TRUE]
    IN  /\ clientHandles > 0
        /\ UNCHANGED <<handles, pins, owner>>
        /\ \/ /\ task' = [task EXCEPT ![k] = started]
              /\ UNCHANGED <<waitsOn, misbehaved>> /\ Keep({b})
           \/ /\ "null_event" \in Faults        \* unmaps, frees, forgets the buffer
              /\ task' = [task EXCEPT ![k] =
                    [started EXCEPT !.phase = "over", !.outs = {}, !.event = <<"none">>,
                                    !.mapped = FALSE, !.host = FALSE]]
              /\ native' = [native EXCEPT ![b] = "leaked"]
              /\ misbehaved' = TRUE
              /\ UNCHANGED <<waitsOn, exeState, clientState, clientHandles, exeHandles>>
           \/ /\ "null_buffer" \in Faults       \* waits, then unmaps and fails
              /\ task' = [task EXCEPT ![k] = [started EXCEPT !.phase = "waiting",
                                                !.outs = {}, !.failed = TRUE]]
              /\ waitsOn' = [waitsOn EXCEPT ![t] = k]
              /\ misbehaved' = TRUE
              /\ Keep({})

\* buffer_on_device and buffer_in_memory (kind sync), to_host (download) and
\* execute_sharded (shard) return only after their events.
Blocking(t, k, kind, ins, outs, n) ==
    /\ \A b \in ToSet(ins) : handles[b] > 0
    /\ UNCHANGED <<handles, pins, owner>>
    /\ \/ /\ task' = [task EXCEPT ![k] = NewTask(kind, "waiting", t, ins, outs, n)]
          /\ waitsOn' = [waitsOn EXCEPT ![t] = k]
          /\ UNCHANGED misbehaved /\ Keep(outs)
       \/ /\ outs # {} /\ "null_buffer" \in Faults    \* returns, events untouched
          /\ task' = [task EXCEPT ![k] = [NewTask(kind, "over", t, ins, {}, n)
                                            EXCEPT !.ins = << >>]]
          /\ misbehaved' = TRUE
          /\ UNCHANGED waitsOn /\ Keep({})

BufferOnDevice(t, k, b) == clientHandles > 0 /\ Blocking(t, k, "sync", << >>, {b}, 1)
ToHost(t, k, b) == Blocking(t, k, "download", <<b>>, {}, 1)
ExecuteSharded(t, k, ins, b) ==
    exeHandles > 0 /\ Blocking(t, k, "shard", ins, {b}, Devices)

\* References a caller can name: its own Buffer values and the outputs of its
\* pending executions.
Visible(t) == {b \in Buffers : \/ handles[b] > 0
                               \/ \E k \in Tasks : /\ task[k].by = t
                                                   /\ task[k].phase = "pending"
                                                   /\ b \in task[k].outs}

\* submit_impl after its checks: the inputs' Arcs are cloned before the native
\* call; a null output returns early, which drops them with the work running.
Submitted(t, k, phase, ins, given, out) ==
    \/ /\ task' = [task EXCEPT ![k] = [NewTask("exec", phase, t, ins, {out}, 1)
                                         EXCEPT !.given = given]]
       /\ waitsOn' = IF phase = "waiting" THEN [waitsOn EXCEPT ![t] = k] ELSE waitsOn
       /\ UNCHANGED misbehaved /\ Keep({out})
    \/ /\ "null_output" \in Faults
       /\ task' = [task EXCEPT ![k] = [NewTask("exec", "over", t, ins, {}, 1)
                                         EXCEPT !.ins = << >>]]
       /\ misbehaved' = TRUE
       /\ UNCHANGED waitsOn /\ Keep({})

Submit(t, k, ins, out) ==
    /\ exeHandles > 0
    /\ ToSet(ins) \subseteq Visible(t)
    /\ UNCHANGED <<handles, pins, owner>>
    /\ Submitted(t, k, "pending", ins, {}, out)

\* Mutant: only external ownership is checked.
MayDonateShared(b) == owner[b] = "none"

\* validate_donation
MayDonate(b) == owner[b] = "none" /\ StrongCount(b) = 1

Count(ins, b) == Cardinality({i \in DOMAIN ins : ins[i] = b})

\* execute_donating moves every input in: a refusal drops them, a submission
\* drops them before it waits.
ExecuteDonating(t, k, ins, given, out) ==
    /\ exeHandles > 0
    /\ given \subseteq DOMAIN ins
    /\ \A b \in ToSet(ins) : handles[b] >= Count(ins, b) + (IF Borrowed(b) THEN 1 ELSE 0)
    /\ handles' = [b \in Buffers |-> handles[b] - Count(ins, b)]
    /\ UNCHANGED <<pins, owner>>
    /\ IF \A i \in given : MayDonate(ins[i])
       THEN Submitted(t, k, "waiting", ins, {ins[i] : i \in given}, out)
       ELSE UNCHANGED <<task, waitsOn, misbehaved>> /\ Keep({})
    /\ UNCHANGED <<pins, owner>>

-----------------------------------------------------------------------------
(* Waiting *)

\* wait, or the Drop that waits and discards (failed is preset: no result).
WaitFor(t, k, discard) ==
    /\ Idle(t) /\ task[k].phase = "pending" /\ task[k].by = t
    /\ task' = [task EXCEPT ![k].phase = "waiting", ![k].failed = discard]
    /\ waitsOn' = [waitsOn EXCEPT ![t] = k]
    /\ UNCHANGED <<handles, pins, owner, misbehaved>> /\ Keep({})

\* mem::forget: the owners stay for ever.
Forget(t, k) ==
    /\ Idle(t) /\ task[k].phase = "pending" /\ task[k].by = t
    /\ task' = [task EXCEPT ![k].phase = "forgotten"]
    /\ UNCHANGED <<handles, pins, owner, waitsOn, misbehaved>> /\ Keep({})

\* Mutant: nothing is awaited any more after an error.
LiveEventsUntilError(k) ==
    {i \in DOMAIN task[k].event : ~task[k].failed /\ task[k].event[i] \in {"pending", "fired"}}

LiveEvents(k) ==
    {i \in DOMAIN task[k].event : task[k].event[i] \in {"pending", "fired"}}

\* Mutant: the event is awaited but not taken, so that it is awaited again.
AwaitEventAgain(t) ==
    LET k == waitsOn[t] IN
    /\ ~Idle(t) /\ LiveEvents(k) # {}
    /\ task[k].event[Min(LiveEvents(k))] # "pending"
    /\ UNCHANGED <<task, handles, pins, owner, waitsOn, misbehaved>> /\ Keep({})

\* Plugin::wait: awaits the event and destroys it, whatever the outcome.  The
\* shards' events are awaited in order, after an error too.
AwaitEvent(t) ==
    LET k == waitsOn[t] IN
    /\ ~Idle(t) /\ LiveEvents(k) # {}
    /\ LET i == Min(LiveEvents(k)) IN
        /\ task[k].event[i] # "pending"
        /\ \E error \in BOOLEAN :
              task' = [task EXCEPT ![k].event[i] = "destroyed",
                                   ![k].failed = @ \/ error]
    /\ UNCHANGED <<handles, pins, owner, waitsOn, misbehaved>> /\ Keep({})

Unfinished(k) == IF "running" \in ToSet(task[k].work) THEN task[k].reads ELSE {}

\* finish and the end of the call: the mapping goes before the memory, a success
\* hands the outputs to the caller, and everything retained is released.
Return(t) ==
    LET k == waitsOn[t]
        results == IF task[k].failed THEN {} ELSE task[k].outs
    IN
    /\ ~Idle(t) /\ LiveEvents(k) = {}
    /\ handles' = [b \in Buffers |-> handles[b] + (IF b \in results THEN 1 ELSE 0)]
    /\ task' = [task EXCEPT ![k] =
            [Unused EXCEPT !.phase = "over", !.reads = Unfinished(k),
                           !.work = task[k].work, !.event = task[k].event]]
    /\ waitsOn' = [waitsOn EXCEPT ![t] = Nobody]
    /\ UNCHANGED <<pins, owner, misbehaved>> /\ Keep({})

\* The client's own handle goes first, the order in which the objects it made
\* must keep it alive.
DropClient ==
    /\ clientHandles = 1 /\ clientHandles' = 0
    /\ UNCHANGED <<handles, pins, owner, task, waitsOn, exeHandles, misbehaved>>
    /\ Settle({})

DropExecutable ==
    /\ exeHandles = 1 /\ exeHandles' = 0 /\ clientHandles = 0
    /\ \A k \in Tasks : ~(task[k].kind = "shard" /\ task[k].phase = "waiting")
    /\ UNCHANGED <<handles, pins, owner, task, waitsOn, clientHandles, misbehaved>>
    /\ Settle({})

-----------------------------------------------------------------------------
(* The plugin *)

\* Work runs once the work producing its arguments is over.
DeviceStep(k, i) ==
    /\ i \in DOMAIN task[k].work /\ task[k].work[i] = "running"
    /\ \A p \in Tasks \ {k} : task[p].outs \cap task[k].reads # {} =>
            \A j \in DOMAIN task[p].work : task[p].work[j] # "running"
    /\ task' = [task EXCEPT ![k].work[i] = "done",
                            ![k].event[i] = IF @ = "pending" THEN "fired" ELSE @]
    /\ UNCHANGED <<handles, pins, native, owner, waitsOn, clientHandles,
                   exeHandles, clientState, exeState, misbehaved>>

\* The on-delete callback, once nothing uses the destroyed view.
OwnerCallback(b) ==
    /\ owner[b] = "held" /\ native[b] = "destroyed"
    /\ \A k \in Tasks : b \in task[k].reads => "running" \notin ToSet(task[k].work)
    /\ owner' = [owner EXCEPT ![b] = "dropped"]
    /\ UNCHANGED <<handles, pins, native, task, waitsOn, clientHandles,
                   exeHandles, clientState, exeState, misbehaved>>

\* What goes on without the program: the device's work and the end of waits.
Progress == \/ \E t \in Threads : AwaitEvent(t) \/ Return(t)
            \/ \E k \in Tasks : \E i \in 1 .. Devices : DeviceStep(k, i)

\* One or two arguments; their order changes nothing here.
Arguments == {ins \in BoundedSeq(Buffers, 2) : ins # << >> /\ ins[1] <= Last(ins)}

\* The calls that leave a task behind.
Call(t, k) ==
    /\ FreshTask(t, k)
    /\ \/ \E b \in Buffers : ToHost(t, k, b)
       \/ \E new \in {b \in Buffers : FreshBuffer(b)} :
            \/ BufferOnDevice(t, k, new)
            \/ \E dma \in BOOLEAN : UploadPinned(t, k, new, dma)
            \/ \E ins \in Arguments :
                  \/ Submit(t, k, ins, new) \/ ExecuteSharded(t, k, ins, new)
                  \/ \E given \in SUBSET (1 .. 2) : ExecuteDonating(t, k, ins, given, new)

ObjectsNext ==
    \/ \E b \in Buffers : \/ CloneHandle(b) \/ DropHandle(b) \/ ViewOfDeviceBuffer(b)
                          \/ ExternalReference(b) \/ DropReference(b) \/ OwnerCallback(b)
                          \/ \E new \in Buffers : CopyTo(b, new)
    \/ \E t \in Threads, k \in Tasks :
          \/ Call(t, k)
          \/ \E discard \in BOOLEAN : WaitFor(t, k, discard)
          \/ Forget(t, k)
    \/ DropClient \/ DropExecutable
    \/ Progress

ObjectsSpec == ObjectsInit /\ [][ObjectsNext]_objectVars

-----------------------------------------------------------------------------
(* Properties *)

TaskType ==
    [kind : {"none", "exec", "shard", "download", "sync", "upload"},
     phase : {"unused", "pending", "waiting", "over", "forgotten"},
     by : Threads \cup {Nobody}, ins : BoundedSeq(Buffers, 2),
     reads : SUBSET Buffers, given : SUBSET Buffers, outs : SUBSET Buffers,
     work : BoundedSeq({"running", "done"}, Devices),
     event : BoundedSeq({"pending", "fired", "destroyed", "none"}, Devices),
     failed : BOOLEAN, dma : BOOLEAN, mapped : BOOLEAN, host : BOOLEAN]

ObjectsTypeOK ==
    /\ handles \in [Buffers -> 0 .. MaxHandles + 1]
    /\ pins \subseteq Buffers
    /\ native \in [Buffers -> {"unused", "live", "destroyed", "leaked"}]
    /\ owner \in [Buffers -> {"none", "held", "dropped"}]
    /\ \A k \in Tasks : task[k] \in TaskType
    /\ waitsOn \in [Threads -> Tasks \cup {Nobody}]
    /\ clientHandles \in 0 .. 1 /\ exeHandles \in 0 .. 1
    /\ {clientState, exeState} \subseteq {"live", "destroyed"}
    /\ misbehaved \in BOOLEAN

Running(k) == "running" \in ToSet(task[k].work)

\* While submitted work runs, no buffer it reads, its executable or its client
\* has been destroyed, however the program drops its handles and pending
\* values meanwhile, unless the plugin returned a null object (submit_impl then
\* returns without waiting).
BuffersOutliveWork ==
    ~misbehaved => \A k \in Tasks : Running(k) =>
        /\ \A b \in task[k].reads : native[b] = "live"
        /\ task[k].kind \in {"exec", "shard"} => exeState = "live"
        /\ clientState = "live"

\* The host memory of a pinned upload stays allocated, and mapped when it was
\* mapped, until the device is done with it.
HostMemoryStays ==
    ~misbehaved => \A k \in Tasks : task[k].kind = "upload" /\ Running(k) =>
        task[k].host /\ (task[k].dma => task[k].mapped)

\* Everything a piece of device work uses outlives it: buffers, executable,
\* client, and the host memory it reads.
NativeOutlivesWork == ObjectsTypeOK /\ BuffersOutliveWork /\ HostMemoryStays

\* A buffer given away by execute_donating is out of the program's reach: no
\* handle, exported pointer or external owner is left, and no other submitted
\* work reads it; the call's own argument is its last Arc.
DonatedUnreachable ==
    \A k \in Tasks : \A b \in task[k].given :
        /\ handles[b] = 0 /\ b \notin pins /\ owner[b] = "none"
        /\ StrongCount(b) = 1
        /\ \A j \in Tasks \ {k} : ~(Running(j) /\ b \in task[j].reads)

\* When a call is over the device has finished all of its work, also on the
\* devices after one that failed, every event is destroyed and nothing is mapped.
ReturnedMeansDone ==
    ~misbehaved => \A k \in Tasks : task[k].phase = "over" =>
        ~Running(k) /\ LiveEvents(k) = {} /\ ~task[k].mapped

\* Threads in wait, or in a Drop that waits, get out again as long as the device
\* finishes what it was given (the calls are bounded, so a state in which nobody
\* waits comes back).
WaitsReturn == []<>(\A t \in Threads : Idle(t))
==============================================================================
