------------------------------- MODULE DiskCache -------------------------------
(***************************************************************************)
(* Several processes sharing one persistent compilation-cache directory:   *)
(* `DiskCache` (rxla-core/src/disk_cache.rs) over `FileArtifactStore`      *)
(* (rxla-cache/src/lib.rs).                                                *)
(*                                                                         *)
(* There is no lock.  Every filesystem call is a step of its own, so that  *)
(* the steps of two processes interleave between them: lookup is a stat    *)
(* and then an open, publication is a temporary file, a synced write and   *)
(* then a no-clobber rename, trimming is a directory listing, a stat and a *)
(* read per entry, and one removal at a time.  A process may die anywhere. *)
(*                                                                         *)
(* A program key is a number; an artifact id is the pair of the namespace  *)
(* (with the captured XLA_FLAGS) and the key, as blake3 does not collide.  *)
(***************************************************************************)
EXTENDS Naturals, FiniteSets, FiniteSetsExt

CONSTANTS Procs,
          KeyCount,       \* keys are 1 .. KeyCount
          Namespace,      \* process -> namespace and flags of its DiskCache
          Limit,          \* process -> max_entry_bytes
          EntryBytes,     \* key -> size of its encoded entry
          AutoTrim,       \* processes that called with_auto_trim_to_bytes
          Budget,         \* the byte budget of every trim
          MaxOps,         \* bound: operations started
          MaxCrashes,     \* bound: process deaths
          MaxRot          \* bound: files damaged from outside

Keys == 1 .. KeyCount
Namespaces == {Namespace[p] : p \in Procs}
Ids == Namespaces \X Keys

ASSUME DiskAssumption ==
    /\ KeyCount \in Nat \ {0}
    /\ Limit \in [Procs -> Nat \ {0}]     \* FileArtifactStore::new
    /\ EntryBytes \in [Keys -> Nat]
    /\ AutoTrim \subseteq Procs
    /\ Budget \in Nat
    /\ MaxOps \in Nat /\ MaxCrashes \in Nat /\ MaxRot \in Nat

VARIABLES
    files,     \* id -> the file under its final name, or NoFile
    temps,     \* process -> the NamedTempFile it owns, or NoFile
    orphans,   \* temporary files left by dead processes
    pc, op,    \* process -> its next step, and the operation it runs
    arg,       \* process -> the key it loads, stores or invalidates
    todo,      \* process -> ids its scan still has to visit
    records,   \* process -> ArtifactRecords still to be classified
    cands,     \* process -> trim candidates still to be considered
    loaded,    \* process -> the entry its last load accepted, or NoFile
    clock,     \* the filesystem's clock
    ops, crashes, rotted,  \* bounds
    grew       \* history: processes during whose scan a file was published

localVars == <<pc, op, arg, todo, records, cands>>
boundVars == <<crashes, rotted>>
directoryVars == <<files, temps, orphans, localVars, loaded, clock, ops, boundVars, grew>>

\* An entry: the namespace and key in its envelope, whether the envelope and
\* its checksum are sound, its size and its modification time.
NoFile == [kind |-> "none"]
Entry(n, k, m) == [kind |-> "entry", ns |-> n, key |-> k, sound |-> TRUE,
                   bytes |-> EntryBytes[k], mtime |-> m]
Partial == [kind |-> "partial"]
Exists(id) == files[id] # NoFile

DirectoryInit ==
    /\ files = [id \in Ids |-> NoFile]
    /\ temps = [p \in Procs |-> NoFile]
    /\ orphans = 0
    /\ pc = [p \in Procs |-> "idle"]
    /\ op = [p \in Procs |-> "none"]
    /\ arg = [p \in Procs |-> 1]
    /\ todo = [p \in Procs |-> {}]
    /\ records = [p \in Procs |-> {}]
    /\ cands = [p \in Procs |-> {}]
    /\ loaded = [p \in Procs |-> NoFile]
    /\ clock = 0
    /\ ops = 0 /\ crashes = 0 /\ rotted = 0
    /\ grew = {}

ArtifactId(p, k) == <<Namespace[p], k>>

Goto(p, to) == pc' = [pc EXCEPT ![p] = to]
Begin(p, what, k, first) ==
    /\ pc[p] = "idle"
    /\ ops < MaxOps
    /\ ops' = ops + 1
    /\ op' = [op EXCEPT ![p] = what]
    /\ arg' = [arg EXCEPT ![p] = k]
    /\ loaded' = [loaded EXCEPT ![p] = NoFile]
    /\ Goto(p, first)

-----------------------------------------------------------------------------
\* load: lookup (metadata, then read_path), then decode_entry.

BeginLoad(p, k) ==
    /\ Begin(p, "load", k, "stat")
    /\ UNCHANGED <<files, temps, orphans, todo, records, cands, clock, boundVars, grew>>

\* metadata(): a missing file is a miss, one above the limit is refused unread.
LoadStat(p) ==
    LET id == ArtifactId(p, arg[p]) IN
    /\ pc[p] = "stat"
    /\ Goto(p, IF Exists(id) /\ files[id].bytes <= Limit[p] THEN "open" ELSE "idle")
    /\ UNCHANGED <<files, temps, orphans, op, arg, todo, records, cands, loaded,
                   clock, ops, boundVars, grew>>

Compatible(p, k, e) ==
    /\ e.sound
    /\ e.ns = Namespace[p]
    /\ e.key = k
\* decode_entry: version, namespace, flags, key and checksum all match.
Decodes(p, k, e) == Compatible(p, k, e)

\* open and read at most limit + 1 bytes; a file that vanished is a miss.
LoadRead(p) ==
    LET id == ArtifactId(p, arg[p]) IN
    /\ pc[p] = "open"
    /\ IF Exists(id) /\ files[id].bytes <= Limit[p] /\ Decodes(p, arg[p], files[id])
       THEN loaded' = [loaded EXCEPT ![p] = files[id]]
       ELSE UNCHANGED loaded
    /\ Goto(p, "idle")
    /\ UNCHANGED <<files, temps, orphans, op, arg, todo, records, cands, clock,
                   ops, boundVars, grew>>

-----------------------------------------------------------------------------
\* store: publish, then the opt-in trim.

\* Mutant: the entry is written in place, under its final name.
BeginStoreInPlace(p, k) ==
    /\ Begin(p, "store", k, IF EntryBytes[k] > Limit[p] THEN "idle" ELSE "write")
    /\ files' = [files EXCEPT ![ArtifactId(p, k)] =
                   IF EntryBytes[k] > Limit[p] THEN @ ELSE Partial]
    /\ UNCHANGED <<temps, orphans, todo, records, cands, clock, boundVars, grew>>
\* publish, up to the creation of the temporary file.  An entry above the limit
\* is refused first.
BeginStore(p, k) ==
    /\ Begin(p, "store", k, IF EntryBytes[k] > Limit[p] THEN "idle" ELSE "write")
    /\ temps' = [temps EXCEPT ![p] = IF EntryBytes[k] > Limit[p] THEN NoFile ELSE Partial]
    /\ UNCHANGED <<files, orphans, todo, records, cands, clock, boundVars, grew>>

\* write_all and sync_all.  The clock may be too coarse to tell two writes apart.
StoreWrite(p) ==
    /\ pc[p] = "write"
    /\ \E tick \in {0, 1} :
         /\ clock' = clock + tick
         /\ temps' = [temps EXCEPT ![p] = Entry(Namespace[p], arg[p], clock + tick)]
    /\ Goto(p, "persist")
    /\ UNCHANGED <<files, orphans, op, arg, todo, records, cands, loaded, ops,
                   boundVars, grew>>

\* What follows publication: the end of the call, or the scan of a trim.
AfterPublish(p, now) ==
    IF p \in AutoTrim
    THEN /\ Goto(p, "visit")
         /\ todo' = [todo EXCEPT ![p] = {id \in Ids : now[id] # NoFile}]
    ELSE Goto(p, "idle") /\ UNCHANGED todo

\* Mutant: an ordinary rename replaces the existing file.
PersistOver(p) ==
    LET id == ArtifactId(p, arg[p])
        now == [files EXCEPT ![id] = temps[p]] IN
    /\ pc[p] = "persist"
    /\ files' = now
    /\ temps' = [temps EXCEPT ![p] = NoFile]
    /\ AfterPublish(p, now)
    /\ grew' = (grew \cup Procs) \ {p}
    /\ UNCHANGED <<orphans, op, arg, records, cands, loaded, clock, ops, boundVars>>
\* persist_noclobber: over an existing file the temporary one is dropped, and
\* publish still succeeds.
StorePersist(p) ==
    LET id == ArtifactId(p, arg[p])
        now == IF Exists(id) THEN files ELSE [files EXCEPT ![id] = temps[p]] IN
    /\ pc[p] = "persist"
    /\ files' = now
    /\ temps' = [temps EXCEPT ![p] = NoFile]
    /\ AfterPublish(p, now)
    /\ grew' = (IF Exists(id) THEN grew ELSE grew \cup Procs) \ {p}
    /\ UNCHANGED <<orphans, op, arg, records, cands, loaded, clock, ops, boundVars>>

-----------------------------------------------------------------------------
\* scan, shared by inspect and trim_compatible_to_bytes.

BeginScan(p, what) ==
    /\ Begin(p, what, arg[p], "visit")
    /\ todo' = [todo EXCEPT ![p] = {id \in Ids : Exists(id)}]
    /\ grew' = grew \ {p}
    /\ UNCHANGED <<files, temps, orphans, records, cands, clock, boundVars>>

\* FileArtifactStore::scan, one directory entry.  An entry that vanished after
\* the listing fails the whole scan, as item.metadata() then returns an error.
ScanVisit(p) ==
    /\ pc[p] = "visit"
    /\ \/ /\ todo[p] = {}
          /\ Goto(p, "classify")
          /\ UNCHANGED <<todo, records>>
       \/ \E id \in todo[p] :
            /\ Exists(id)
            /\ records' = [records EXCEPT ![p] =
                 @ \cup {[id |-> id, bytes |-> files[id].bytes, mtime |-> files[id].mtime]}]
            /\ todo' = [todo EXCEPT ![p] = @ \ {id}]
            /\ UNCHANGED pc
       \/ \E id \in todo[p] :
            /\ ~Exists(id)
            /\ Goto(p, "idle")
            /\ records' = [records EXCEPT ![p] = {}]
            /\ todo' = [todo EXCEPT ![p] = {}]
    /\ UNCHANGED <<files, temps, orphans, op, arg, cands, loaded, clock, ops,
                   boundVars, grew>>

\* DiskCache::scan: the entry can still be read and belongs to this cache.
IsCandidate(p, r) ==
    /\ Exists(r.id)
    /\ files[r.id].bytes <= Limit[p]
    /\ Compatible(p, r.id[2], files[r.id])

\* DiskCache::scan, one record: lookup and classification.
ScanClassify(p) ==
    /\ pc[p] = "classify"
    /\ \/ /\ records[p] = {}
          /\ Goto(p, IF op[p] = "inspect" THEN "idle" ELSE "remove")
          /\ UNCHANGED <<records, cands>>
       \/ \E r \in records[p] :
            /\ records' = [records EXCEPT ![p] = @ \ {r}]
            /\ cands' = IF op[p] # "inspect" /\ IsCandidate(p, r)
                        THEN [cands EXCEPT ![p] = @ \cup {r}] ELSE cands
            /\ UNCHANGED pc
    /\ UNCHANGED <<files, temps, orphans, op, arg, todo, loaded, clock, ops,
                   boundVars, grew>>

\* remaining_compatible_bytes is the size of the candidates not yet considered.
Remaining(p) == MapThenSumSet(LAMBDA r : r.bytes, cands[p])
\* Mutant: the budget counts files.
OverBudgetCount(p) == Cardinality(cands[p]) > Budget
OverBudget(p) == Remaining(p) > Budget
\* candidates.sort(): by modification time, then by id.
Older(r, s) == r.mtime < s.mtime \/ (r.mtime = s.mtime /\ r.id[2] <= s.id[2])
Oldest(p) == {r \in cands[p] : \A s \in cands[p] : Older(r, s)}

\* One iteration of the removal loop.  A file already gone counts as absent.
TrimRemove(p) ==
    /\ pc[p] = "remove"
    /\ OverBudget(p)
    /\ \E r \in Oldest(p) :
         /\ files' = [files EXCEPT ![r.id] = NoFile]
         /\ cands' = [cands EXCEPT ![p] = @ \ {r}]
    /\ UNCHANGED <<temps, orphans, pc, op, arg, todo, records, loaded, clock, ops,
                   boundVars, grew>>

TrimEnd(p) ==
    /\ pc[p] = "remove"
    /\ ~OverBudget(p)
    /\ Goto(p, "idle")
    /\ cands' = [cands EXCEPT ![p] = {}]
    /\ UNCHANGED <<files, temps, orphans, op, arg, todo, records, loaded, clock,
                   ops, boundVars, grew>>

Invalidate(p, k) ==
    /\ Begin(p, "invalidate", k, "idle")
    /\ files' = [files EXCEPT ![ArtifactId(p, k)] = NoFile]
    /\ UNCHANGED <<temps, orphans, todo, records, cands, clock, boundVars, grew>>

-----------------------------------------------------------------------------
\* Failures.

\* Dropping every local value of an operation.
Forget(p) ==
    /\ Goto(p, "idle")
    /\ todo' = [todo EXCEPT ![p] = {}]
    /\ records' = [records EXCEPT ![p] = {}]
    /\ cands' = [cands EXCEPT ![p] = {}]
    /\ temps' = [temps EXCEPT ![p] = NoFile]

\* Any filesystem call fails: `?` returns and NamedTempFile deletes its file.
IoError(p) ==
    /\ pc[p] # "idle"
    /\ Forget(p)
    /\ UNCHANGED <<files, orphans, op, arg, loaded, clock, ops, boundVars, grew>>

\* The process dies: nothing runs, so its temporary file stays.
Crash(p) ==
    /\ pc[p] # "idle"
    /\ crashes < MaxCrashes
    /\ crashes' = crashes + 1
    /\ Forget(p)
    /\ orphans' = IF temps[p] = NoFile THEN orphans ELSE orphans + 1
    /\ UNCHANGED <<files, op, arg, loaded, clock, ops, rotted, grew>>

\* A published file is damaged in place: other bytes, or more than a process reads.
Rot(id) ==
    /\ Exists(id)
    /\ rotted < MaxRot
    /\ rotted' = rotted + 1
    /\ \E size \in {files[id].bytes} \cup {1 + Limit[p] : p \in Procs} :
         files' = [files EXCEPT ![id].sound = FALSE, ![id].bytes = size]
    /\ UNCHANGED <<temps, orphans, localVars, loaded, clock, ops, crashes, grew>>

DirectoryDone ==
    /\ ops = MaxOps
    /\ \A p \in Procs : pc[p] = "idle"
    /\ UNCHANGED directoryVars

DirectoryNext ==
    \/ \E p \in Procs, k \in Keys : BeginLoad(p, k) \/ BeginStore(p, k) \/ Invalidate(p, k)
    \/ \E p \in Procs : BeginScan(p, "trim") \/ BeginScan(p, "inspect")
    \/ \E p \in Procs :
          \/ LoadStat(p) \/ LoadRead(p)
          \/ StoreWrite(p) \/ StorePersist(p)
          \/ ScanVisit(p) \/ ScanClassify(p) \/ TrimRemove(p) \/ TrimEnd(p)
          \/ IoError(p) \/ Crash(p)
    \/ \E id \in Ids : Rot(id)
    \/ DirectoryDone

DirectorySpec == DirectoryInit /\ [][DirectoryNext]_directoryVars

-----------------------------------------------------------------------------
\* Properties.

IsEntry(e) ==
    /\ e.kind = "entry"
    /\ e.ns \in Namespaces
    /\ e.key \in Keys
    /\ e.sound \in BOOLEAN
    /\ e.bytes \in Nat
    /\ e.mtime \in 0 .. clock
IsRecord(r) == r.id \in Ids /\ r.bytes \in Nat /\ r.mtime \in 0 .. clock

DirectoryTypeOK ==
    /\ DOMAIN files = Ids
    /\ \A id \in Ids : files[id] = NoFile \/ IsEntry(files[id])
    /\ \A p \in Procs :
          /\ temps[p] = NoFile \/ temps[p] = Partial \/ IsEntry(temps[p])
          /\ pc[p] \in {"idle", "stat", "open", "write", "persist",
                        "visit", "classify", "remove"}
          /\ arg[p] \in Keys
          /\ todo[p] \subseteq Ids
          /\ \A r \in records[p] \cup cands[p] : IsRecord(r)
    /\ orphans \in 0 .. crashes

\* rxla-cache/src/lib.rs:113 "no-clobber atomic publication": whatever crashes
\* or fails in between, a file under an entry name holds a completely written
\* entry for exactly that id.
PublishedWhole ==
    \A id \in Ids : Exists(id) => /\ files[id].kind = "entry"
                                  /\ <<files[id].ns, files[id].key>> = id

\* An executable is only restored from an undamaged entry of the caller's own
\* namespace and key, although stat, open and decoding are separate steps.
LoadsOnlySound ==
    \A p \in Procs : loaded[p] # NoFile =>
        /\ loaded[p].sound
        /\ <<loaded[p].ns, loaded[p].key>> = ArtifactId(p, arg[p])
        /\ loaded[p].bytes <= Limit[p]

\* "no-clobber": a sound published file is never replaced, only removed or
\* damaged from outside, so two processes that publish one key agree on it.
NeverReplaced ==
    [][\A id \in Ids : Exists(id) /\ Exists(id)' =>
          files'[id].mtime = files[id].mtime]_directoryVars

\* disk_cache.rs:76-83: trimming removes only compatible entries of the
\* trimming cache's namespace and flags.
TrimSparesOthers ==
    [][\A p \in Procs : TrimRemove(p) =>
          \A id \in Ids : Exists(id) /\ ~Exists(id)' => id[1] = Namespace[p]]_directoryVars

\* disk_cache.rs:76 "until their observed encoded size is at most `budget`":
\* unless another process published after the scan began, a trim that ends
\* without error leaves at most Budget compatible bytes, even when other trims
\* and invalidations remove the same files at the same time.
CompatibleBytes(p) ==
    MapThenSumSet(LAMBDA id : files[id].bytes,
      {id \in Ids : /\ Exists(id) /\ files[id].bytes <= Limit[p]
                    /\ Compatible(p, id[2], files[id])})
TrimMeetsBudget ==
    [][\A p \in Procs : TrimEnd(p) /\ p \notin grew => CompatibleBytes(p) <= Budget]_directoryVars

\* tempfile's contract as publish relies on it: every temporary file belongs to
\* a running store or to a process that died in one.
TempsAccounted ==
    \A p \in Procs : temps[p] # NoFile <=> pc[p] \in {"write", "persist"}

\* What a process may find in the directory, at any point of the others' calls.
EntriesSound ==
    /\ DirectoryTypeOK
    /\ PublishedWhole
    /\ LoadsOnlySound
    /\ TempsAccounted

\* A trim reaches its budget and touches its own entries only.
TrimIsSound == TrimMeetsBudget /\ TrimSparesOthers
=============================================================================
