----------------------------- MODULE CompilerCache -----------------------------
(***************************************************************************)
(* The bounded LRU cache of compiled executables inside `Compiler`         *)
(* (rxla-core/src/compiler.rs), with the optional persistent cache behind  *)
(* it (disk_cache.rs) reduced to what one compiler can observe of it.      *)
(*                                                                         *)
(* `Compiler` is owned exclusively (&mut self), so each call is one step.  *)
(* A lowered program is a model value; its serialized key is the program   *)
(* together with the compile options, since compile_lowered_with_options   *)
(* wraps both into the key and plain compilation uses the program alone.   *)
(* Executables are numbered in the order the backend produced them.        *)
(***************************************************************************)
EXTENDS Naturals, Sequences, FiniteSets, SequencesExt

CONSTANTS Programs,      \* lowered programs
          Options,       \* encoded compile options; NoOptions is the plain key
          NoOptions,
          Requests,      \* the <<program, options>> pairs that are compiled
          ProgramBytes,  \* length of a program's cache_key()
          OptionBytes,   \* what the option wrapper adds to the key
          MaxEntries,    \* CacheLimits.max_entries
          MaxKeyBytes,   \* CacheLimits.max_key_bytes
          WithDisk,      \* with_disk_cache attached a store
          TrimOnStore,      \* with_auto_trim_to_bytes was called on the store
          MaxCalls,      \* bound: calls explored
          MaxDamage      \* bound: changes of the directory by others

ASSUME CacheAssumption ==
    /\ NoOptions \in Options
    /\ Requests \subseteq Programs \X Options
    /\ ProgramBytes \in [Programs -> Nat]
    /\ OptionBytes \in Nat
    /\ MaxEntries \in Nat
    /\ MaxKeyBytes \in Nat
    /\ WithDisk \in BOOLEAN
    /\ TrimOnStore \in BOOLEAN
    /\ MaxCalls \in Nat
    /\ MaxDamage \in Nat

VARIABLES
    entries,    \* HashMap key -> executable
    recency,    \* VecDeque of keys, oldest access at the front
    keyBytes,   \* stats.key_bytes
    stats,      \* the counters of CacheStats
    disk,       \* the file the attached store holds under each key
    panicked,   \* an `expect` of the cache has failed
    calls,      \* bound
    damage,     \* bound
    made,       \* history: executable number -> the request it was built for
    uses,       \* history: the keys served from or put into the map, in order
    removed,    \* history: entries dropped by invalidate_memory and clear
    returned    \* history: what the last call gave back

mapVars == <<entries, recency, keyBytes, panicked>>
compilerVars == <<mapVars, stats, disk, calls, damage, made, uses, removed, returned>>

CompileKeys == [program : Programs, options : Options]
\* Mutant: the wrapped key leaves the options out.
KeyIgnoringOptions(p, o) == [program |-> p, options |-> NoOptions]
Key(p, o) == [program |-> p, options |-> o]
KeyLen(k) ==
    ProgramBytes[k.program] + IF k.options = NoOptions THEN 0 ELSE OptionBytes

\* The key bytes of the first n keys of a queue.
Bytes(queue, n) ==
    LET sum[m \in 0 .. Len(queue)] ==
          IF m = 0 THEN 0 ELSE sum[m - 1] + KeyLen(queue[m])
    IN  sum[n]

\* What DiskCache::load finds under a key: no file, bytes that decode_entry
\* rejects, or the artifact of executable `exe`.
Absent == [file |-> "absent", exe |-> 0]
Corrupt == [file |-> "corrupt", exe |-> 0]
Valid(exe) == [file |-> "valid", exe |-> exe]

NoStats == [hits |-> 0, diskHits |-> 0, readErrors |-> 0, writeErrors |-> 0,
            misses |-> 0, failures |-> 0, evictions |-> 0, bypasses |-> 0]

CompilerInit ==
    /\ entries = [k \in {} |-> 0]
    /\ recency = <<>>
    /\ keyBytes = 0
    /\ stats = NoStats
    /\ disk = [k \in CompileKeys |-> Absent]
    /\ panicked = FALSE
    /\ calls = 0
    /\ damage = 0
    /\ made = <<>>
    /\ uses = <<>>
    /\ removed = 0
    /\ returned = [op |-> "none"]

Known(k) == \E i \in DOMAIN recency : recency[i] = k
PositionOf(k) == CHOOSE i \in DOMAIN recency : recency[i] = k
Call ==
    /\ ~panicked
    /\ calls < MaxCalls
    /\ calls' = calls + 1
    /\ UNCHANGED damage

-----------------------------------------------------------------------------
\* compile_encoded, first part: the memory hit.

\* Mutant: a hit leaves the queue alone.
CompileHitFifo(p, o) ==
    LET k == Key(p, o) IN
    /\ Call
    /\ k \in DOMAIN entries
    /\ returned' = [op |-> "compile", for |-> <<p, o>>, exe |-> entries[k]]
    /\ \/ /\ Known(k)
          /\ recency' = recency
          /\ uses' = Append(uses, k)
          /\ stats' = [stats EXCEPT !.hits = @ + 1]
          /\ UNCHANGED panicked
       \/ /\ ~Known(k)  \* expect("cache recency matches entries")
          /\ panicked' = TRUE
          /\ UNCHANGED <<recency, uses, stats>>
    /\ UNCHANGED <<entries, keyBytes, disk, made, removed>>

CompileHit(p, o) ==
    LET k == Key(p, o) IN
    /\ Call
    /\ k \in DOMAIN entries
    /\ returned' = [op |-> "compile", for |-> <<p, o>>, exe |-> entries[k]]
    /\ \/ /\ Known(k)
          /\ recency' = Append(RemoveAt(recency, PositionOf(k)), k)
          /\ uses' = Append(uses, k)
          /\ stats' = [stats EXCEPT !.hits = @ + 1]
          /\ UNCHANGED panicked
       \/ /\ ~Known(k)  \* expect("cache recency matches entries")
          /\ panicked' = TRUE
          /\ UNCHANGED <<recency, uses, stats>>
    /\ UNCHANGED <<entries, keyBytes, disk, made, removed>>

\* compile_encoded, last part: retain an executable obtained from disk or from
\* the backend.  The loop pops the oldest key until there is room for k: it
\* stops at the first n that leaves room, or pops an empty queue.
PopBytes(n) == Bytes(recency, n)
RoomAfter(n, k) ==
    /\ Len(recency) - n < MaxEntries
    /\ keyBytes - PopBytes(n) + KeyLen(k) <= MaxKeyBytes
EvictAndInsert(n, k, exe) ==
    /\ recency' = Append(SubSeq(recency, n + 1, Len(recency)), k)
    /\ entries' = [x \in (DOMAIN entries \ {recency[i] : i \in 1 .. n}) \cup {k}
                     |-> IF x = k THEN exe ELSE entries[x]]
    /\ keyBytes' = keyBytes - PopBytes(n) + KeyLen(k)


Retain(k, exe, newStats) ==
    \/ /\ MaxEntries = 0 \/ KeyLen(k) > MaxKeyBytes
       /\ stats' = [newStats EXCEPT !.bypasses = @ + 1]
       /\ UNCHANGED <<mapVars, uses>>
    \/ /\ MaxEntries # 0 /\ KeyLen(k) <= MaxKeyBytes
       /\ \/ \E n \in 0 .. Len(recency) :
               /\ RoomAfter(n, k)
               /\ \A m \in 0 .. n - 1 : ~RoomAfter(m, k)
               /\ EvictAndInsert(n, k, exe)
               /\ stats' = [newStats EXCEPT !.evictions = @ + n]
               /\ uses' = Append(uses, k)
               /\ UNCHANGED panicked
          \/ /\ \A n \in 0 .. Len(recency) : ~RoomAfter(n, k)
             /\ panicked' = TRUE  \* expect("nonempty cache over capacity")
             /\ stats' = newStats
             /\ UNCHANGED <<entries, recency, keyBytes, uses>>

\* The key is on disk and the plugin accepts the artifact.
CompileFromDisk(p, o) ==
    LET k == Key(p, o)
        exe == Len(made) + 1 IN
    /\ Call
    /\ k \notin DOMAIN entries
    /\ disk[k].file = "valid"
    /\ made' = Append(made, made[disk[k].exe])
    /\ returned' = [op |-> "compile", for |-> <<p, o>>, exe |-> exe]
    /\ Retain(k, exe, [stats EXCEPT !.diskHits = @ + 1])
    /\ UNCHANGED <<disk, removed>>

\* A load that yields no executable: a missing file is no error, any I/O may
\* fail, a file that is there was rejected by decode_entry or by the plugin.
ReadErrors(k) ==
    CASE ~WithDisk -> {0}
      [] WithDisk /\ disk[k] = Absent -> {0, 1}
      [] OTHER -> {1}

\* DiskCache::store, as the set of its outcomes: serialization or publication
\* fails and nothing changes; publication never replaces a file, so over an
\* existing one it succeeds without writing; the opt-in trim that follows
\* removes valid files from the oldest on, the new one included if it must, and
\* may fail half-way.
StoreOutcomes(k, exe) ==
    LET published == IF disk[k] = Absent THEN [disk EXCEPT ![k] = Valid(exe)]
                     ELSE disk
        trimmed(oldest) == [x \in CompileKeys |->
            IF published[x].file = "valid" /\ published[x].exe <= oldest THEN Absent ELSE published[x]]
    IN {[disk |-> disk, error |-> 1]} \cup
       IF TrimOnStore THEN [disk : {trimmed(oldest) : oldest \in 0 .. exe}, error : {0, 1}]
                   ELSE {[disk |-> published, error |-> 0]}
NoStore == {[disk |-> disk, error |-> 0]}

CompileMiss(p, o) ==
    LET k == Key(p, o)
        exe == Len(made) + 1 IN
    /\ Call
    /\ k \notin DOMAIN entries
    /\ made' = Append(made, <<p, o>>)
    /\ returned' = [op |-> "compile", for |-> <<p, o>>, exe |-> exe]
    /\ \E readError \in ReadErrors(k),
          stored \in IF WithDisk THEN StoreOutcomes(k, exe) ELSE NoStore :
         /\ disk' = stored.disk
         /\ Retain(k, exe, [stats EXCEPT !.misses = @ + 1,
                                         !.readErrors = @ + readError,
                                         !.writeErrors = @ + stored.error])
    /\ UNCHANGED removed

CompileFails(p, o) ==
    LET k == Key(p, o) IN
    /\ Call
    /\ k \notin DOMAIN entries
    /\ \E readError \in ReadErrors(k) :
         stats' = [stats EXCEPT !.misses = @ + 1, !.failures = @ + 1,
                                !.readErrors = @ + readError]
    /\ returned' = [op |-> "error"]
    /\ UNCHANGED <<mapVars, disk, made, uses, removed>>

-----------------------------------------------------------------------------
\* invalidate_memory, clear, DiskCache::invalidate.

InvalidateMemory(p) ==
    LET k == Key(p, NoOptions) IN
    /\ Call
    /\ returned' = [op |-> "done"]
    /\ \/ /\ k \notin DOMAIN entries
          /\ UNCHANGED <<mapVars, removed>>
       \/ /\ k \in DOMAIN entries
          /\ Known(k)
          /\ entries' = [x \in DOMAIN entries \ {k} |-> entries[x]]
          /\ recency' = RemoveAt(recency, PositionOf(k))
          /\ keyBytes' = keyBytes - KeyLen(k)
          /\ removed' = removed + 1
          /\ UNCHANGED panicked
       \/ /\ k \in DOMAIN entries
          /\ ~Known(k)
          /\ panicked' = TRUE
          /\ UNCHANGED <<entries, recency, keyBytes, removed>>
    /\ UNCHANGED <<stats, disk, made, uses>>


Clear ==
    /\ Call
    /\ entries' = [k \in {} |-> 0]
    /\ recency' = <<>>
    /\ keyBytes' = 0
    /\ removed' = removed + Cardinality(DOMAIN entries)
    /\ returned' = [op |-> "done"]
    /\ UNCHANGED <<panicked, stats, disk, made, uses>>

InvalidateDisk(p) ==
    /\ Call
    /\ WithDisk
    /\ disk' = [disk EXCEPT ![Key(p, NoOptions)] = Absent]
    /\ returned' = [op |-> "done"]
    /\ UNCHANGED <<mapVars, stats, made, uses, removed>>

\* Another process removes a file, or its bytes rot, between two calls.
DiskChanges(k) ==
    /\ WithDisk
    /\ damage < MaxDamage
    /\ damage' = damage + 1
    /\ disk[k].file = "valid"
    /\ \E new \in {Absent, Corrupt} : disk' = [disk EXCEPT ![k] = new]
    /\ UNCHANGED <<mapVars, stats, calls, made, uses, removed, returned>>

CompilerDone ==
    /\ panicked \/ calls = MaxCalls
    /\ UNCHANGED compilerVars

CompilerNext ==
    \/ \E r \in Requests :
          \/ CompileHit(r[1], r[2]) \/ CompileFromDisk(r[1], r[2])
          \/ CompileMiss(r[1], r[2]) \/ CompileFails(r[1], r[2])
    \/ \E p \in Programs : InvalidateMemory(p) \/ InvalidateDisk(p)
    \/ Clear
    \/ \E k \in CompileKeys : DiskChanges(k)
    \/ CompilerDone

CompilerSpec == CompilerInit /\ [][CompilerNext]_compilerVars

-----------------------------------------------------------------------------
\* Properties.

CompilerTypeOK ==
    /\ DOMAIN entries \subseteq CompileKeys
    /\ \A k \in DOMAIN entries : entries[k] \in DOMAIN made
    /\ recency \in Seq(CompileKeys)
    /\ keyBytes \in Nat
    /\ \A f \in DOMAIN NoStats : stats[f] \in Nat
    /\ disk \in [CompileKeys -> {Absent, Corrupt} \cup {Valid(e) : e \in DOMAIN made}]
    /\ made \in Seq(Programs \X Options)
    /\ panicked \in BOOLEAN
    /\ calls \in 0 .. MaxCalls
    /\ damage \in 0 .. MaxDamage

\* compiler.rs:326 "oldest access is at the front": the queue lists each
\* retained key once, in the order of its last use, whatever mixture of hits,
\* evictions, invalidations and clears came before.
LastUse(k) == CHOOSE i \in DOMAIN uses :
    uses[i] = k /\ \A j \in DOMAIN uses : uses[j] = k => j <= i
RecencyIsLastUse ==
    /\ {recency[i] : i \in DOMAIN recency} = DOMAIN entries
    /\ \A i, j \in DOMAIN recency :
          i < j => LastUse(recency[i]) < LastUse(recency[j])

\* compiler.rs:220 "Bounds on retained cache entries and serialized
\* backend-program key bytes": the running byte count is exactly the retained
\* keys' total and both limits hold after every call.
WithinLimits ==
    /\ keyBytes = PopBytes(Len(recency))
    /\ Cardinality(DOMAIN entries) <= MaxEntries
    /\ keyBytes <= MaxKeyBytes

\* None of the cache's `expect` calls can fail: neither the two searches of the
\* queue nor the pop of an empty queue in the eviction loop.
NeverPanics == ~panicked

\* compiler.rs:316-318: an executable is only ever handed out for the program
\* and the compile options it was built from, from memory or from disk.
RightExecutable ==
    returned.op = "compile" => made[returned.exe] = returned.for

\* Every compile call is counted once, and every executable obtained is either
\* bypassed, still retained, evicted or explicitly removed.
StatsBalance ==
    ~panicked =>
      stats.diskHits + stats.misses =
        stats.failures + stats.bypasses + stats.evictions + removed
          + Cardinality(DOMAIN entries)

\* The accounts of the cache agree after any mixture of calls: map and queue,
\* byte count and limits, counters and entries, and no `expect` fails.
CacheAccounts ==
    /\ CompilerTypeOK
    /\ RecencyIsLastUse
    /\ WithinLimits
    /\ StatsBalance
    /\ NeverPanics

=============================================================================
