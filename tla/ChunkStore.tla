----------------------------- MODULE ChunkStore -----------------------------
(***************************************************************************)
(* One chunk's Store (pkg/chunk/store.go): the entries in memory, the file *)
(* of each key, and what a crash or an I/O error between the two leaves.   *)
(*                                                                         *)
(* A write is known by its SeqNum n; a delete's tombstone is stored as any *)
(* entry.  The same write may be put several times, by the primary's       *)
(* handler, by replication and by recovery.  0 stands for no entry.        *)
(***************************************************************************)
EXTENDS Integers, FiniteSetsExt

CONSTANTS Keys,          \* the keys clients write
          Files,         \* the names sanitize gives them
          FileOf,        \* sanitize
          KeyOf,         \* keyFromFilename
          MaxSeq,        \* writes are 1..MaxSeq
          WriteKey,      \* the key of each write
          Torn,          \* a file whose text is not a whole entry
          MaxCrashes, MaxIoErrors   \* bounds on faults

Writes == 1..MaxSeq
StoredKeys == Keys \cup {KeyOf[f] : f \in Files}

(* No two files decode to one key: no key spells an escape in upper case.  *)
ASSUME CodecAssumption ==
    /\ FileOf \in [Keys -> Files]
    /\ \A f, g \in Files : KeyOf[f] = KeyOf[g] => f = g
ASSUME WriteAssumption ==
    /\ MaxSeq \in Nat
    /\ WriteKey \in [Writes -> Keys]
    /\ Torn \notin Nat

VARIABLES up,        \* the process runs
          entries,   \* Store.entries
          lastSeq,   \* Store.lastSeq
          disk,      \* the files of Store.dir
          writing,   \* the write persistEntry is at; it holds Store.mu
          acked,     \* writes for which Put or Delete has returned nil
          unsaved,   \* keys whose last write to disk failed
          crashes, ioErrors

vars == <<up, entries, lastSeq, disk, writing, acked, unsaved, crashes, ioErrors>>

File(n) == FileOf[WriteKey[n]]

Init ==
    /\ up = TRUE
    /\ entries = [k \in StoredKeys |-> 0]
    /\ lastSeq = 0
    /\ disk = [f \in Files |-> 0]
    /\ writing = 0
    /\ acked = {}
    /\ unsaved = {}
    /\ crashes = 0 /\ ioErrors = 0

(* Put's test against the entry the key has.                               *)
AlwaysNewer(n) == TRUE
Newer(n) == n > entries[WriteKey[n]]

(* How Put moves lastSeq.                                                  *)
OnePast(n) == n + 1
Later(n) == IF n > lastSeq THEN n ELSE lastSeq

(* Nobody holds the lock.                                                  *)
Ready == up /\ writing = 0

IoError == ioErrors < MaxIoErrors /\ ioErrors' = ioErrors + 1

PutInMemory(n) ==
    /\ Ready
    /\ Newer(n)
    /\ entries' = [entries EXCEPT ![WriteKey[n]] = n]
    /\ lastSeq' = Later(n)

(* "already have this or newer": OK without a look at the disk.            *)
PutOld(n) ==
    /\ Ready
    /\ ~Newer(n)
    /\ acked' = acked \cup {n}
    /\ UNCHANGED <<up, entries, lastSeq, disk, writing, unsaved, crashes, ioErrors>>

(* The entry is in memory and os.WriteFile has emptied the file.           *)
Put(n) ==
    /\ PutInMemory(n)
    /\ disk' = [disk EXCEPT ![File(n)] = Torn]
    /\ writing' = n
    /\ UNCHANGED <<up, acked, unsaved, crashes, ioErrors>>

(* os.WriteFile cannot open the file: it is as before, the memory is not.  *)
PutCannotOpen(n) ==
    /\ PutInMemory(n)
    /\ IoError
    /\ unsaved' = unsaved \cup {WriteKey[n]}
    /\ UNCHANGED <<up, disk, writing, acked, crashes>>

PersistEntry ==
    /\ writing # 0
    /\ disk' = [disk EXCEPT ![File(writing)] = writing]
    /\ acked' = acked \cup {writing}
    /\ unsaved' = unsaved \ {WriteKey[writing]}
    /\ writing' = 0
    /\ UNCHANGED <<up, entries, lastSeq, crashes, ioErrors>>

(* The disk is full: Put returns the error and keeps the entry in memory.  *)
PersistFails ==
    /\ writing # 0
    /\ IoError
    /\ unsaved' = unsaved \cup {WriteKey[writing]}
    /\ writing' = 0
    /\ UNCHANGED <<up, entries, lastSeq, disk, acked, crashes>>

(* A crash in the middle of os.WriteFile leaves the file torn.             *)
Crash ==
    /\ up
    /\ crashes < MaxCrashes
    /\ crashes' = crashes + 1
    /\ up' = FALSE
    /\ entries' = [k \in StoredKeys |-> 0]
    /\ lastSeq' = 0
    /\ writing' = 0
    /\ UNCHANGED <<disk, acked, unsaved, ioErrors>>

(* loadFromDisk gives up at the first file it cannot parse.                *)
Loadable == \A f \in Files : disk[f] # Torn

(* The entry of a key, from the file whose name decodes to the key.        *)
EntryOfRawName(k) == IF k \in Files THEN disk[k] ELSE 0
LoadedEntry(k) == IF \E f \in Files : KeyOf[f] = k
                  THEN disk[CHOOSE f \in Files : KeyOf[f] = k]
                  ELSE 0

SeqOfLastFile == disk[CHOOSE f \in Files : TRUE]
LoadedLastSeq == Max({0} \cup {disk[f] : f \in Files})

LoadFromDisk ==
    /\ ~up
    /\ Loadable
    /\ up' = TRUE
    /\ entries' = [k \in StoredKeys |-> LoadedEntry(k)]
    /\ lastSeq' = LoadedLastSeq
    /\ unsaved' = {}
    /\ UNCHANGED <<disk, writing, acked, crashes, ioErrors>>

Next ==
    \/ \E n \in Writes : PutOld(n) \/ Put(n) \/ PutCannotOpen(n)
    \/ PersistEntry \/ PersistFails
    \/ Crash \/ LoadFromDisk

Spec == Init /\ [][Next]_vars

-----------------------------------------------------------------------------
(* Every variable stays in its type.                                       *)
TypeOK ==
    /\ up \in BOOLEAN
    /\ entries \in [StoredKeys -> 0..MaxSeq]
    /\ lastSeq \in 0..MaxSeq
    /\ disk \in [Files -> 0..MaxSeq \cup {Torn}]
    /\ writing \in 0..MaxSeq
    /\ acked \subseteq Writes
    /\ unsaved \subseteq Keys
    /\ crashes \in Nat /\ ioErrors \in Nat

(* Until a file cannot be written, what Put or Delete has confirmed is in  *)
(* memory whenever the process runs, or a newer write of its key is: across *)
(* crashes, in whichever order and however often the writes are put.       *)
AckedSurvives ==
    up /\ ioErrors = 0 => \A n \in acked : entries[WriteKey[n]] >= n

(* The LastSeqNum a chunk will report is the largest SeqNum it holds, from *)
(* memory or from its files: recovery skips nothing the chunk has not, and *)
(* sends nothing older than what it has.                                   *)
LastSeqIsMax ==
    up => lastSeq = Max({0} \cup {entries[k] : k \in StoredKeys})

(* Between two operations memory and file of a key agree, unless the key's *)
(* last write to disk failed.                                              *)
MemoryOnDisk ==
    Ready => \A k \in Keys \ unsaved : entries[k] = disk[FileOf[k]]
=============================================================================
