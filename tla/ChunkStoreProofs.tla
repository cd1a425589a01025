-------------------------- MODULE ChunkStoreProofs --------------------------
(***************************************************************************)
(* What a chunk has confirmed it keeps as long as no I/O error happens,    *)
(* and memory and files differ only for keys whose last write failed,      *)
(* for any keys, writes and crashes, if every file name decodes to the key *)
(* it was made from, as those of KeyCodec do for all keys that are not     *)
(* Mangled; and LastSeqNum is the largest SeqNum held, for any file names. *)
(***************************************************************************)
EXTENDS MCChunkStore, KeyCodecProofs

NamesRoundTrip == \A k \in Keys : KeyOf[FileOf[k]] = k

(* The part of the types that the argument needs.                          *)
Types ==
    /\ up \in BOOLEAN
    /\ entries \in [StoredKeys -> 0..MaxSeq]
    /\ disk \in [Files -> 0..MaxSeq \cup {Torn}]
    /\ writing \in 0..MaxSeq
    /\ acked \subseteq Writes
    /\ ioErrors \in Nat

(* A file that can be read has all that was confirmed for its key.         *)
AckedOnDisk == \A n \in acked : disk[File(n)] = Torn \/ disk[File(n)] >= n

(* While the process runs, only the file being written is torn, its entry  *)
(* is in memory, and every other file has what memory has.                 *)
OneAtATime ==
    /\ writing # 0 => up /\ entries[WriteKey[writing]] = writing
    /\ up => \A k \in Keys :
        \/ writing # 0 /\ WriteKey[writing] = k
        \/ disk[FileOf[k]] = entries[k]

Good == Types /\ AckedOnDisk /\ AckedSurvives /\ OneAtATime

(* All this holds up to the first I/O error.                               *)
IInv == ioErrors \in Nat /\ (ioErrors = 0 => Good)

(* Two keys never share a file.                                            *)
LEMMA FilesDiffer ==
    ASSUME NamesRoundTrip
    PROVE  \A k, l \in Keys : FileOf[k] = FileOf[l] => k = l
BY DEF NamesRoundTrip

(* What loadFromDisk gives a key is what its own file has.                 *)
LEMMA OwnFile ==
    ASSUME NamesRoundTrip, NEW k \in Keys
    PROVE  LoadedEntry(k) = disk[FileOf[k]]
<1>1. FileOf[k] \in Files /\ KeyOf[FileOf[k]] = k
  BY CodecAssumption DEF NamesRoundTrip
<1>2. (CHOOSE f \in Files : KeyOf[f] = k) = FileOf[k]
  <2>1. (CHOOSE f \in Files : KeyOf[f] = k) \in {f \in Files : KeyOf[f] = k}
    BY <1>1
  <2> QED BY <1>1, <2>1, CodecAssumption
<1> QED BY <1>1, <1>2 DEF LoadedEntry

LEMMA Initially == Init => IInv
BY WriteAssumption, CodecAssumption
   DEF Init, IInv, Good, Types, AckedOnDisk, AckedSurvives, OneAtATime, Writes, StoredKeys

(* What loadFromDisk reads are entries.                                    *)
LEMMA LoadedTypes ==
    ASSUME Types, Loadable
    PROVE  \A k \in StoredKeys : LoadedEntry(k) \in 0..MaxSeq
<1>1. \A f \in Files : disk[f] \in 0..MaxSeq
  BY DEF Loadable, Types
<1> SUFFICES ASSUME NEW k \in StoredKeys PROVE LoadedEntry(k) \in 0..MaxSeq
  OBVIOUS
<1>2. CASE \E f \in Files : KeyOf[f] = k
  <2>1. (CHOOSE f \in Files : KeyOf[f] = k) \in Files
    BY <1>2
  <2> QED BY <1>1, <1>2, <2>1 DEF LoadedEntry
<1>3. CASE ~ \E f \in Files : KeyOf[f] = k
  BY <1>3, WriteAssumption DEF LoadedEntry
<1> QED BY <1>2, <1>3

(* Every step but an I/O error keeps the invariant.                        *)
LEMMA Kept ==
    ASSUME NamesRoundTrip, Good, [Next]_vars, ioErrors' = 0
    PROVE  Good'
<1>k. Keys \subseteq StoredKeys
  BY DEF StoredKeys
<1> USE WriteAssumption, CodecAssumption, FilesDiffer, <1>k DEF Writes, File
<1>0. Types /\ AckedOnDisk /\ AckedSurvives /\ OneAtATime
  BY DEF Good
<1>f. ~IoError
  BY <1>0 DEF IoError, Types
<1>1. ASSUME NEW n \in Writes, PutOld(n) PROVE Good'
  <2>1. disk[File(n)] = Torn \/ disk[File(n)] >= n
    BY <1>0, <1>1 DEF PutOld, Ready, Newer, Types, OneAtATime
  <2> QED
    BY <1>0, <1>1, <2>1 DEF PutOld, Ready, Newer, Good, Types, AckedOnDisk,
       AckedSurvives, OneAtATime
<1>2. ASSUME NEW n \in Writes, Put(n) PROVE Good'
  <2>1. Types'
    BY <1>0, <1>2 DEF Put, PutInMemory, Types
  <2>2. AckedOnDisk'
    <3> SUFFICES ASSUME NEW m \in acked
                 PROVE  disk'[File(m)] = Torn \/ disk'[File(m)] >= m
      BY <1>2 DEF Put, AckedOnDisk
    <3>1. File(m) \in Files
      BY <1>0 DEF Types
    <3>2. disk'[File(m)] = Torn \/ disk'[File(m)] = disk[File(m)]
      BY <1>0, <1>2, <3>1 DEF Put, Types
    <3> QED BY <1>0, <3>2 DEF AckedOnDisk
  <2>3. AckedSurvives'
    BY <1>0, <1>2 DEF Put, PutInMemory, Ready, Newer, Types, AckedSurvives
  <2>4. OneAtATime'
    <3>1. writing' = n /\ up' /\ entries'[WriteKey[n]] = n
      BY <1>0, <1>2 DEF Put, PutInMemory, Ready, Types
    <3>2. \A k \in Keys : k # WriteKey[n] => disk'[FileOf[k]] = entries'[k]
      <4> SUFFICES ASSUME NEW k \in Keys, k # WriteKey[n]
                   PROVE  disk'[FileOf[k]] = entries'[k]
        OBVIOUS
      <4>1. FileOf[k] # FileOf[WriteKey[n]] /\ FileOf[k] \in Files
        OBVIOUS
      <4>2. disk[FileOf[k]] = entries[k]
        BY <1>0, <1>2 DEF Put, PutInMemory, Ready, OneAtATime
      <4> QED BY <1>0, <1>2, <4>1, <4>2 DEF Put, PutInMemory, Types
    <3> QED BY <3>1, <3>2 DEF OneAtATime
  <2> QED BY <2>1, <2>2, <2>3, <2>4 DEF Good
<1>3. ASSUME NEW n \in Writes, PutCannotOpen(n) PROVE Good'
  BY <1>f, <1>3 DEF PutCannotOpen
<1>4. CASE PersistEntry
  <2>0. writing \in Writes /\ up
    BY <1>0, <1>4 DEF PersistEntry, Types, OneAtATime
  <2>1. Types'
    BY <1>0, <1>4, <2>0 DEF PersistEntry, Types
  <2>2. \A n \in acked : File(n) = File(writing) => writing >= n
    <3> SUFFICES ASSUME NEW n \in acked, File(n) = File(writing)
                 PROVE  writing >= n
      OBVIOUS
    <3>1. WriteKey[n] = WriteKey[writing]
      BY <1>0, <2>0 DEF Types
    <3> QED BY <1>0, <1>4, <2>0, <3>1
            DEF PersistEntry, AckedSurvives, OneAtATime, Types
  <2>3. AckedOnDisk'
    <3> SUFFICES ASSUME NEW n \in acked \cup {writing}
                 PROVE  disk'[File(n)] = Torn \/ disk'[File(n)] >= n
      BY <1>4 DEF PersistEntry, AckedOnDisk
    <3>1. n \in Writes /\ File(n) \in Files
      BY <1>0, <2>0 DEF Types
    <3>2. CASE File(n) = File(writing)
      <4>1. disk'[File(n)] = writing
        BY <1>0, <1>4, <2>0, <3>1, <3>2 DEF PersistEntry, Types
      <4>2. writing >= n
        BY <2>0, <2>2, <3>2
      <4> QED BY <4>1, <4>2
    <3>3. CASE File(n) # File(writing)
      <4>1. disk'[File(n)] = disk[File(n)] /\ n \in acked
        BY <1>0, <1>4, <3>1, <3>3 DEF PersistEntry, Types
      <4> QED BY <1>0, <4>1 DEF AckedOnDisk
    <3> QED BY <3>2, <3>3
  <2>4. AckedSurvives'
    BY <1>0, <1>4, <2>0 DEF PersistEntry, AckedSurvives, OneAtATime, Types
  <2>5. OneAtATime'
    <3>1. writing' = 0 /\ up'
      BY <1>4, <2>0 DEF PersistEntry
    <3>2. ASSUME NEW k \in Keys PROVE disk'[FileOf[k]] = entries'[k]
      <4>1. CASE k = WriteKey[writing]
        BY <1>0, <1>4, <2>0, <4>1 DEF PersistEntry, OneAtATime, Types
      <4>2. CASE k # WriteKey[writing]
        <5>1. FileOf[k] # FileOf[WriteKey[writing]] /\ FileOf[k] \in Files
          BY <2>0, <4>2
        <5>2. disk[FileOf[k]] = entries[k]
          BY <1>0, <2>0, <4>2 DEF OneAtATime
        <5> QED BY <1>0, <1>4, <5>1, <5>2 DEF PersistEntry, Types
      <4> QED BY <4>1, <4>2
    <3> QED BY <3>1, <3>2 DEF OneAtATime
  <2> QED BY <2>1, <2>3, <2>4, <2>5 DEF Good
<1>5. CASE PersistFails
  BY <1>f, <1>5 DEF PersistFails
<1>6. CASE Crash
  <2>0. disk' = disk /\ acked' = acked /\ ioErrors' = ioErrors
    BY <1>6 DEF Crash
  <2>1. entries' \in [StoredKeys -> 0..MaxSeq]
    <3>1. 0 \in 0..MaxSeq
      OBVIOUS
    <3> HIDE WriteAssumption, CodecAssumption, FilesDiffer
    <3> QED BY <1>6, <3>1 DEF Crash
  <2>u. up' \in BOOLEAN /\ writing' \in 0..MaxSeq
    <3>1. up' \in BOOLEAN
      BY <1>6, Zenon DEF Crash
    <3>2. writing' \in 0..MaxSeq
      BY <1>6 DEF Crash
    <3> QED BY <3>1, <3>2
  <2>t. Types'
    BY <1>0, <2>0, <2>1, <2>u DEF Types
  <2>2. AckedOnDisk'
    BY <1>0, <2>0 DEF AckedOnDisk
  <2>3. AckedSurvives' /\ OneAtATime'
    BY <1>6 DEF Crash, AckedSurvives, OneAtATime
  <2> QED BY <2>t, <2>2, <2>3 DEF Good
<1>7. CASE LoadFromDisk
  <2>0. writing = 0
    BY <1>0, <1>7 DEF LoadFromDisk, OneAtATime
  <2>1. \A k \in Keys : entries'[k] = disk[FileOf[k]]
    BY <1>7, OwnFile DEF LoadFromDisk
  <2>2. Types'
    BY <1>0, <1>7, LoadedTypes DEF LoadFromDisk, Types
  <2>3. AckedOnDisk' /\ AckedSurvives'
    BY <1>0, <1>7, <2>1 DEF LoadFromDisk, Loadable, AckedOnDisk, AckedSurvives, Types
  <2>4. OneAtATime'
    BY <1>7, <2>0, <2>1 DEF LoadFromDisk, OneAtATime
  <2> QED BY <2>2, <2>3, <2>4 DEF Good
<1>8. CASE UNCHANGED vars
  BY <1>0, <1>8 DEF vars, Good, Types, AckedOnDisk, AckedSurvives, OneAtATime
<1> QED BY <1>1, <1>2, <1>3, <1>4, <1>5, <1>6, <1>7, <1>8 DEF Next

(* I/O errors are counted and never forgotten.                             *)
LEMMA Counted ==
    ASSUME ioErrors \in Nat, [Next]_vars
    PROVE  ioErrors' \in Nat /\ (ioErrors' = 0 => ioErrors = 0)
BY DEF Next, vars, PutOld, Put, PutCannotOpen, PersistEntry, PersistFails,
   Crash, LoadFromDisk, IoError

(* Store.Put and Store.Delete keep what they have confirmed, over any      *)
(* number of restarts and until a file cannot be written.                  *)
THEOREM AckedSurvivesCorrect ==
    ASSUME NamesRoundTrip
    PROVE  Spec => []AckedSurvives
<1>1. Init => IInv
  BY Initially
<1>2. IInv /\ [Next]_vars => IInv'
  BY Kept, Counted DEF IInv
<1>3. IInv => AckedSurvives
  BY DEF IInv, Good, AckedSurvives
<1> QED BY <1>1, <1>2, <1>3, PTL DEF Spec

-----------------------------------------------------------------------------
(* Memory and files, whatever fails.                                       *)

(* Only the file being written and those of the keys whose last write      *)
(* failed can differ from memory.                                          *)
Agreement ==
    /\ writing # 0 => up /\ entries[WriteKey[writing]] = writing
    /\ up => \A k \in Keys \ unsaved :
          \/ writing # 0 /\ WriteKey[writing] = k
          \/ entries[k] = disk[FileOf[k]]

MInv == Types /\ Agreement

(* Every step keeps it, also one that fails.                               *)
LEMMA AgreementKept ==
    ASSUME NamesRoundTrip, MInv, [Next]_vars
    PROVE  MInv'
<1>k. Keys \subseteq StoredKeys
  BY DEF StoredKeys
<1> USE WriteAssumption, CodecAssumption, FilesDiffer, <1>k DEF Writes, File, MInv
<1>0. Types /\ Agreement
  OBVIOUS
<1>1. ASSUME NEW n \in Writes, PutOld(n) PROVE MInv'
  BY <1>0, <1>1 DEF PutOld, Types, Agreement
<1>2. ASSUME NEW n \in Writes, Put(n) PROVE MInv'
  <2>1. Types'
    BY <1>0, <1>2 DEF Put, PutInMemory, Types
  <2>2. up /\ up' /\ writing = 0 /\ writing' = n /\ n # 0 /\ unsaved' = unsaved
    BY <1>2 DEF Put, PutInMemory, Ready
  <2>3. entries'[WriteKey[n]] = n
    BY <1>0, <1>2 DEF Put, PutInMemory, Types
  <2>4. \A k \in Keys : k # WriteKey[n] =>
            entries'[k] = entries[k] /\ disk'[FileOf[k]] = disk[FileOf[k]]
    BY <1>0, <1>2 DEF Put, PutInMemory, Types
  <2>5. Agreement'
    BY <1>0, <2>2, <2>3, <2>4 DEF Agreement
  <2> QED BY <2>1, <2>5
<1>3. ASSUME NEW n \in Writes, PutCannotOpen(n) PROVE MInv'
  <2>1. Types'
    BY <1>0, <1>3 DEF PutCannotOpen, PutInMemory, IoError, Types
  <2>2. \A k \in Keys : k # WriteKey[n] => entries'[k] = entries[k]
    BY <1>0, <1>3 DEF PutCannotOpen, PutInMemory, Types
  <2>3. Agreement'
    BY <1>0, <1>3, <2>2 DEF PutCannotOpen, PutInMemory, Ready, Agreement
  <2> QED BY <2>1, <2>3
<1>4. CASE PersistEntry
  <2>0. writing \in Writes /\ up
    BY <1>0, <1>4 DEF PersistEntry, Types, Agreement
  <2>1. Types'
    BY <1>0, <1>4, <2>0 DEF PersistEntry, Types
  <2>2. \A k \in Keys : k # WriteKey[writing] => disk'[FileOf[k]] = disk[FileOf[k]]
    BY <1>0, <1>4, <2>0 DEF PersistEntry, Types
  <2>3. disk'[FileOf[WriteKey[writing]]] = writing
    BY <1>0, <1>4, <2>0 DEF PersistEntry, Types
  <2>4. up' /\ writing' = 0 /\ entries' = entries /\ unsaved' = unsaved \ {WriteKey[writing]}
    BY <1>4, <2>0 DEF PersistEntry
  <2>5. Agreement'
    BY <1>0, <2>0, <2>2, <2>3, <2>4 DEF Agreement
  <2> QED BY <2>1, <2>5
<1>5. CASE PersistFails
  BY <1>0, <1>5 DEF PersistFails, IoError, Types, Agreement
<1>6. CASE Crash
  <2>1. up' = FALSE /\ writing' = 0 /\ disk' = disk /\ acked' = acked /\ ioErrors' = ioErrors
    BY <1>6 DEF Crash
  <2>2. entries' \in [StoredKeys -> 0..MaxSeq]
    BY <1>6 DEF Crash
  <2>3. up' \in BOOLEAN
    BY <2>1, Zenon
  <2>4. writing' \in 0..MaxSeq
    BY <2>1
  <2>5. Types'
    BY <1>0, <2>1, <2>2, <2>3, <2>4 DEF Types
  <2>6. Agreement'
    BY <2>1 DEF Agreement
  <2> QED BY <2>5, <2>6
<1>7. CASE LoadFromDisk
  <2>1. \A k \in Keys : entries'[k] = disk[FileOf[k]]
    BY <1>7, OwnFile DEF LoadFromDisk
  <2>2. Types'
    BY <1>0, <1>7, LoadedTypes DEF LoadFromDisk, Types
  <2>3. Agreement'
    BY <1>0, <1>7, <2>1 DEF LoadFromDisk, Agreement
  <2> QED BY <2>2, <2>3
<1>8. CASE UNCHANGED vars
  BY <1>0, <1>8 DEF vars, Types, Agreement
<1> QED BY <1>1, <1>2, <1>3, <1>4, <1>5, <1>6, <1>7, <1>8 DEF Next

(* Between two operations memory and file of a key agree, over any number  *)
(* of crashes and failing writes, unless the key's last write failed.      *)
THEOREM MemoryOnDiskCorrect ==
    ASSUME NamesRoundTrip
    PROVE  Spec => []MemoryOnDisk
<1>1. Init => MInv
  BY WriteAssumption, CodecAssumption
     DEF Init, MInv, Types, Agreement, Writes, StoredKeys
<1>2. MInv /\ [Next]_vars => MInv'
  BY AgreementKept
<1>3. MInv => MemoryOnDisk
  BY DEF MInv, Agreement, MemoryOnDisk, Ready
<1> QED BY <1>1, <1>2, <1>3, PTL DEF Spec

-----------------------------------------------------------------------------
(* The largest SeqNum.                                                     *)

(* A set of numbers has a least element, so a bounded one has a greatest.  *)
LEMMA MaxOfBounded ==
    ASSUME NEW n \in Nat, NEW S, S \subseteq 0..n, S # {}
    PROVE  Max(S) \in S /\ \A x \in S : x <= Max(S)
<1>1. \A x \in S : x \in Nat /\ n - x \in Nat
  OBVIOUS
<1>2. PICK T : T = {n - x : x \in S}
  OBVIOUS
<1>3. T \subseteq Nat /\ T # {}
  BY <1>1, <1>2
<1>4. PICK t \in T : \A y \in T : t <= y
  BY <1>3, LeastNumber
<1>5. PICK m \in S : t = n - m
  BY <1>2, <1>4
<1>6. \A x \in S : x <= m
  <2> SUFFICES ASSUME NEW x \in S PROVE x <= m
    OBVIOUS
  <2>1. n - x \in T
    BY <1>2
  <2> QED
    BY <1>1, <1>4, <1>5, <2>1
<1> QED
  BY <1>5, <1>6 DEF Max

LEMMA MaxIs ==
    ASSUME NEW S, S \subseteq Nat, NEW m \in S, \A x \in S : x <= m
    PROVE  Max(S) = m
<1>1. \A y \in S : (\A x \in S : y >= x) => y = m
  OBVIOUS
<1> QED
  BY <1>1 DEF Max

(* What the files hold can be read, so it has a largest SeqNum.            *)
LEMMA LoadedLast ==
    ASSUME TypeOK, Loadable
    PROVE  /\ LoadedLastSeq \in 0..MaxSeq
           /\ \A f \in Files : disk[f] \in 0..MaxSeq /\ disk[f] <= LoadedLastSeq
           /\ LoadedLastSeq = 0 \/ \E f \in Files : disk[f] = LoadedLastSeq
<1> USE WriteAssumption
<1>1. \A f \in Files : disk[f] \in 0..MaxSeq
  BY DEF Loadable, TypeOK
<1>2. PICK S : S = {0} \cup {disk[f] : f \in Files}
  OBVIOUS
<1>3. S \subseteq 0..MaxSeq /\ S # {}
  BY <1>1, <1>2
<1>4. Max(S) \in S /\ \A x \in S : x <= Max(S)
  BY <1>3, MaxOfBounded
<1>5. LoadedLastSeq = Max(S)
  BY <1>2 DEF LoadedLastSeq
<1> QED
  BY <1>1, <1>2, <1>3, <1>4, <1>5

(* While the process runs, lastSeq bounds all entries and is one of them.  *)
LastFits ==
    up => /\ \A k \in StoredKeys : entries[k] <= lastSeq
          /\ lastSeq = 0 \/ \E k \in StoredKeys : entries[k] = lastSeq

LInv == TypeOK /\ LastFits

LEMMA PutFits ==
    ASSUME LInv, NEW n \in Writes, PutInMemory(n), up' = TRUE
    PROVE  /\ entries' \in [StoredKeys -> 0..MaxSeq] /\ lastSeq' \in 0..MaxSeq
           /\ LastFits'
<1> USE WriteAssumption DEF Writes
<1>1. WriteKey[n] \in StoredKeys /\ n \in 1..MaxSeq /\ up /\ n > entries[WriteKey[n]]
  BY DEF StoredKeys, PutInMemory, Ready, Newer
<1>2. /\ entries \in [StoredKeys -> 0..MaxSeq] /\ lastSeq \in 0..MaxSeq
      /\ entries' = [entries EXCEPT ![WriteKey[n]] = n]
      /\ lastSeq' = IF n > lastSeq THEN n ELSE lastSeq
  BY DEF LInv, TypeOK, PutInMemory, Later
<1>3. entries'[WriteKey[n]] = n /\ \A k \in StoredKeys : k # WriteKey[n] => entries'[k] = entries[k]
  BY <1>1, <1>2
<1>4. \A k \in StoredKeys : entries[k] <= lastSeq /\ entries[k] \in 0..MaxSeq
  BY <1>1, <1>2 DEF LInv, LastFits
<1>5. \A k \in StoredKeys : entries'[k] <= lastSeq'
  BY <1>1, <1>2, <1>3, <1>4
<1>6. lastSeq' = 0 \/ \E k \in StoredKeys : entries'[k] = lastSeq'
  <2>1. CASE n > lastSeq
    BY <1>1, <1>2, <1>3, <2>1
  <2>2. CASE ~(n > lastSeq)
    <3>1. PICK k \in StoredKeys : entries[k] = lastSeq
      BY <1>1, <1>2, <2>2 DEF LInv, LastFits
    <3>2. k # WriteKey[n]
      BY <1>1, <1>2, <1>4, <2>2, <3>1
    <3> QED
      BY <1>2, <1>3, <2>2, <3>1, <3>2
  <2> QED
    BY <2>1, <2>2
<1>7. entries' \in [StoredKeys -> 0..MaxSeq] /\ lastSeq' \in 0..MaxSeq
  BY <1>1, <1>2
<1> QED
  BY <1>5, <1>6, <1>7 DEF LastFits

LEMMA LInvKept ==
    ASSUME LInv, [Next]_vars PROVE LInv'
<1> USE WriteAssumption, CodecAssumption DEF Writes
<1>0. TypeOK /\ LastFits
  BY DEF LInv
<1>1. ASSUME NEW n \in Writes, PutOld(n) PROVE LInv'
  BY <1>0, <1>1 DEF PutOld, LInv, TypeOK, LastFits
<1>2. ASSUME NEW n \in Writes, Put(n) PROVE LInv'
  <2>1. up' = TRUE /\ PutInMemory(n) /\ WriteKey[n] \in Keys
    BY <1>0, <1>2 DEF Put, PutInMemory, Ready, TypeOK
  <2>2. disk' \in [Files -> 0..MaxSeq \cup {Torn}] /\ writing' \in 0..MaxSeq
    <3>1. disk' \in [Files -> 0..MaxSeq \cup {Torn}]
      BY <1>0, <1>2 DEF Put, TypeOK
    <3>2. writing' \in 0..MaxSeq
      BY <1>2 DEF Put
    <3> QED BY <3>1, <3>2
  <2>3. /\ entries' \in [StoredKeys -> 0..MaxSeq] /\ lastSeq' \in 0..MaxSeq /\ LastFits'
    BY <2>1, PutFits
  <2>4. TypeOK'
    BY <1>0, <1>2, <2>2, <2>3 DEF Put, TypeOK
  <2> QED BY <2>3, <2>4 DEF LInv
<1>3. ASSUME NEW n \in Writes, PutCannotOpen(n) PROVE LInv'
  <2>1. up' = TRUE /\ PutInMemory(n) /\ WriteKey[n] \in Keys
    BY <1>0, <1>3 DEF PutCannotOpen, PutInMemory, Ready, TypeOK
  <2>2. /\ entries' \in [StoredKeys -> 0..MaxSeq] /\ lastSeq' \in 0..MaxSeq /\ LastFits'
    BY <2>1, PutFits
  <2>3. TypeOK'
    BY <1>0, <1>3, <2>1, <2>2 DEF PutCannotOpen, IoError, TypeOK
  <2> QED BY <2>2, <2>3 DEF LInv
<1>4. CASE PersistEntry
  <2>1. writing \in Writes /\ File(writing) \in Files
    BY <1>0, <1>4 DEF PersistEntry, TypeOK, File
  <2>2. TypeOK'
    BY <1>0, <1>4, <2>1 DEF PersistEntry, TypeOK
  <2> QED BY <1>0, <1>4, <2>2 DEF PersistEntry, LInv, LastFits
<1>5. CASE PersistFails
  <2>1. WriteKey[writing] \in Keys
    BY <1>0, <1>5 DEF PersistFails, TypeOK
  <2>2. TypeOK'
    BY <1>0, <1>5, <2>1 DEF PersistFails, IoError, TypeOK
  <2> QED BY <1>0, <1>5, <2>2 DEF PersistFails, LInv, LastFits
<1>6. CASE Crash
  <2>1. up' \in BOOLEAN
    BY <1>6, Zenon DEF Crash
  <2>2. lastSeq' \in 0..MaxSeq /\ writing' \in 0..MaxSeq /\ crashes' \in Nat
    BY <1>0, <1>6 DEF Crash, TypeOK
  <2>3. entries' \in [StoredKeys -> 0..MaxSeq]
    <3>1. 0 \in 0..MaxSeq
      OBVIOUS
    <3> HIDE WriteAssumption, CodecAssumption
    <3> QED BY <1>6, <3>1 DEF Crash
  <2>4. TypeOK'
    BY <1>0, <1>6, <2>1, <2>2, <2>3 DEF Crash, TypeOK
  <2> QED BY <1>6, <2>4 DEF Crash, LInv, LastFits
<1>7. CASE LoadFromDisk
  <2>1. /\ LoadedLastSeq \in 0..MaxSeq
        /\ \A f \in Files : disk[f] \in 0..MaxSeq /\ disk[f] <= LoadedLastSeq
        /\ LoadedLastSeq = 0 \/ \E f \in Files : disk[f] = LoadedLastSeq
    BY <1>0, <1>7, LoadedLast DEF LoadFromDisk
  <2>2. ASSUME NEW k \in StoredKeys
        PROVE  LoadedEntry(k) \in 0..MaxSeq /\ LoadedEntry(k) <= LoadedLastSeq
    <3>1. CASE \E f \in Files : KeyOf[f] = k
      <4>1. (CHOOSE f \in Files : KeyOf[f] = k) \in Files
        BY <3>1
      <4> QED BY <2>1, <3>1, <4>1 DEF LoadedEntry
    <3>2. CASE ~ \E f \in Files : KeyOf[f] = k
      BY <2>1, <3>2 DEF LoadedEntry
    <3> QED BY <3>1, <3>2
  <2>3. \A f \in Files : KeyOf[f] \in StoredKeys /\ LoadedEntry(KeyOf[f]) = disk[f]
    <3> SUFFICES ASSUME NEW f \in Files
                 PROVE  KeyOf[f] \in StoredKeys /\ LoadedEntry(KeyOf[f]) = disk[f]
      OBVIOUS
    <3>1. PICK g : g = CHOOSE h \in Files : KeyOf[h] = KeyOf[f]
      OBVIOUS
    <3>2. g \in Files /\ KeyOf[g] = KeyOf[f]
      BY <3>1
    <3>3. g = f
      BY <3>2
    <3> QED BY <3>1, <3>3 DEF LoadedEntry, StoredKeys
  <2>4. /\ up' = TRUE /\ lastSeq' = LoadedLastSeq
        /\ entries' = [k \in StoredKeys |-> LoadedEntry(k)]
    BY <1>7 DEF LoadFromDisk
  <2>5. LastFits'
    BY <2>1, <2>2, <2>3, <2>4 DEF LastFits
  <2>6. TypeOK'
    BY <1>0, <1>7, <2>1, <2>2, <2>4 DEF LoadFromDisk, TypeOK
  <2> QED BY <2>5, <2>6 DEF LInv
<1>8. CASE UNCHANGED vars
  BY <1>0, <1>8 DEF vars, LInv, TypeOK, LastFits
<1> QED BY <1>1, <1>2, <1>3, <1>4, <1>5, <1>6, <1>7, <1>8 DEF Next

LEMMA LInvCorrect == Spec => []LInv
<1>1. Init => LInv
  BY WriteAssumption DEF Init, LInv, TypeOK, LastFits
<1>2. LInv /\ [Next]_vars => LInv'
  BY LInvKept
<1> QED BY <1>1, <1>2, PTL DEF Spec

(* The store's memory, files and counters stay in their types.             *)
THEOREM TypeOKCorrect == Spec => []TypeOK
<1>1. LInv => TypeOK
  BY DEF LInv
<1> QED BY <1>1, LInvCorrect, PTL

(* The LastSeqNum that a running chunk reports is the largest SeqNum it    *)
(* holds, over any number of restarts and failing writes.                  *)
THEOREM LastSeqIsMaxCorrect == Spec => []LastSeqIsMax
<1>1. LInv => LastSeqIsMax
  <2> SUFFICES ASSUME LInv, up
               PROVE  lastSeq = Max({0} \cup {entries[k] : k \in StoredKeys})
    BY DEF LastSeqIsMax
  <2>1. PICK S : S = {0} \cup {entries[k] : k \in StoredKeys}
    OBVIOUS
  <2>2. S \subseteq Nat /\ lastSeq \in S /\ \A x \in S : x <= lastSeq
    BY <2>1, WriteAssumption DEF LInv, TypeOK, LastFits
  <2> QED BY <2>1, <2>2, MaxIs
<1> QED BY <1>1, LInvCorrect, PTL

-----------------------------------------------------------------------------
(* The code's own file names.                                              *)

(* Every rune added to the keys of the run is below 2^16, so each of them  *)
(* comes back from its file name if and only if it is not Mangled.         *)
THEOREM RestoredUnlessMangledCorrect ==
    ASSUME Alphabet \subseteq Bmp
    PROVE  StoreAndNames => []RestoredUnlessMangled
<1> DEFINE KeyType == key \in Seq(Nat) /\ \A i \in DOMAIN key : key[i] \in Bmp
<1>1. StoreInit => KeyType
  <2>1. PICK s : /\ s = <<97, 47>> /\ s \in Seq(Nat) /\ Len(s) = 2
                 /\ s[1] = 97 /\ s[2] = 47
    <3>1. 97 \in Nat /\ 47 \in Nat
      OBVIOUS
    <3>2. /\ <<97, 47>> \in Seq(Nat) /\ Len(<<97, 47>>) = 2
          /\ <<97, 47>>[1] = 97 /\ <<97, 47>>[2] = 47
      BY ONLY <3>1, TwoBytes
    <3> QED
      BY ONLY <3>2, Zenon
  <2>2. 97 \in Bmp /\ 47 \in Bmp
    BY SMT, AsciiInBmp
  <2>3. \A i \in DOMAIN s : i = 1 \/ i = 2
    BY <2>1
  <2>4. StoreInit => key = s
    BY <2>1 DEF StoreInit, User
  <2> QED
    BY <2>1, <2>2, <2>3, <2>4
<1>2. KeyType /\ [\/ Next /\ key = User /\ UNCHANGED key
                  \/ Unused /\ Grow /\ UNCHANGED vars]_<<vars, key>> => KeyType'
  <2> SUFFICES ASSUME KeyType, Grow PROVE KeyType'
    BY Zenon
  <2>1. PICK c \in Bmp : key' = Append(key, c) /\ c \in Nat
    BY RuneRange DEF Grow
  <2>2. /\ Append(key, c) \in Seq(Nat) /\ Len(Append(key, c)) = Len(key) + 1
        /\ \A i \in 1..Len(key) : Append(key, c)[i] = key[i]
        /\ Append(key, c)[Len(key) + 1] = c
    BY <2>1, AppendedByte
  <2> QED
    BY <2>1, <2>2
<1>3. KeyType => RestoredUnlessMangled
  BY RestoredCorrect DEF RestoredUnlessMangled
<1> QED
  BY <1>1, <1>2, <1>3, PTL DEF StoreAndNames

(* The store with the file names of the code, and keys that sanitize does  *)
(* not mangle.                                                             *)
CodeNames ==
    /\ Keys \subseteq Seq(Nat) /\ \A k \in Keys : ~Mangled(k)
    /\ FileOf = [k \in Keys |-> Sanitize(k)]
    /\ KeyOf = [f \in Files |-> Unsanitize(f)]

LEMMA CodeNamesRoundTrip == CodeNames => NamesRoundTrip
<1> SUFFICES ASSUME CodeNames, NEW k \in Keys PROVE KeyOf[FileOf[k]] = k
  BY DEF NamesRoundTrip
<1>1. k \in Seq(Nat) /\ ~Mangled(k)
  BY DEF CodeNames
<1>2. FileOf[k] = Sanitize(k) /\ FileOf[k] \in Files
  BY CodecAssumption DEF CodeNames
<1>3. KeyOf[FileOf[k]] = Unsanitize(Sanitize(k))
  BY <1>2 DEF CodeNames
<1>4. \A i \in DOMAIN k : k[i] \in 0..127 /\ k[i] \in Bmp
  <2>1. \A i \in DOMAIN k : k[i] \in 0..127
    BY <1>1, AsciiRunes DEF Mangled
  <2> QED
    BY <2>1, AsciiInBmp
<1>5. Unsanitize(Sanitize(k)) = Utf8(k)
  BY <1>1, <1>4, RestoredCorrect DEF RoundTrips
<1> QED
  BY <1>1, <1>3, <1>4, <1>5, Utf8OfAscii

(* With the file names that store.go gives, and keys that are not mangled, *)
(* Put and Delete keep what they have confirmed over any number of         *)
(* restarts, and memory and files agree between two operations, except for *)
(* a key whose last write failed.                                          *)
THEOREM UnmangledKeysKept ==
    ASSUME CodeNames
    PROVE  Spec => [](AckedSurvives /\ MemoryOnDisk)
<1>1. NamesRoundTrip
  BY CodeNamesRoundTrip
<1>2. Spec => []AckedSurvives
  BY <1>1, AckedSurvivesCorrect
<1>3. Spec => []MemoryOnDisk
  BY <1>1, MemoryOnDiskCorrect
<1> QED BY <1>2, <1>3, PTL
=============================================================================
