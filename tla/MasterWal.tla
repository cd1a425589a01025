----------------------------- MODULE MasterWal -----------------------------
(***************************************************************************)
(* The master's log (pkg/master/wal.go): the entries in memory, the JSON   *)
(* file they are written to, and the sequence counter that starts from     *)
(* them (Server.Start).                                                    *)
(*                                                                         *)
(* An entry is the write it records.  WALNotify messages come in any order *)
(* and any time after the write has its number, also to a later process.   *)
(***************************************************************************)
EXTENDS Integers, Sequences

CONSTANTS Writes,
          Torn,         \* a file that is not JSON
          MaxLookups,   \* bounds: numbers taken by replica lookups,
          MaxCrashes,   \* deaths of the master,
          MaxErrors     \* failing calls of the file system

ASSUME WalAssumption == /\ Torn \notin Seq(Writes)
                        /\ {MaxLookups, MaxCrashes, MaxErrors} \subseteq Nat

VARIABLES
    up,        \* the master runs
    entries,   \* WAL.entries
    file,      \* wal.json: what it holds, << >> when missing or empty, or Torn
    writing,   \* persist is between the truncation and the text; it holds mu
    seqNum,    \* Metadata.seqNum
    num,       \* SeqNum given to each write, 0 before
    notified,  \* writes whose WALNotify was handled
    durable,   \* entries the file had in full and no failure has cut since
    unlogged,  \* a master died before the newest SeqNum of a write was durable
    misread,   \* the file holds a log that the process could not read
    lookups, crashes, errors

vars == <<up, entries, file, writing, seqNum, num, notified, durable, unlogged,
          misread, lookups, crashes, errors>>

Logs == Seq(Writes)
Elements(s) == {s[i] : i \in 1..Len(s)}

Init ==
    /\ up = TRUE
    /\ entries = << >> /\ file = << >>
    /\ writing = FALSE
    /\ seqNum = 0
    /\ num = [w \in Writes |-> 0]
    /\ notified = {} /\ durable = {}
    /\ unlogged = FALSE /\ misread = FALSE
    /\ lookups = 0 /\ crashes = 0 /\ errors = 0

FileError == errors < MaxErrors /\ errors' = errors + 1

-----------------------------------------------------------------------------
(* GetPrimary: NextSeqNum for a write, or for the replica lookup of the    *)
(* primary, which makes no use of the number.                              *)
NextSeqNum(w) ==
    /\ up
    /\ num[w] = 0
    /\ seqNum' = seqNum + 1
    /\ num' = [num EXCEPT ![w] = seqNum + 1]
    /\ UNCHANGED <<up, entries, file, writing, notified, durable, unlogged,
                   misread, lookups, crashes, errors>>

Lookup ==
    /\ up
    /\ lookups < MaxLookups
    /\ lookups' = lookups + 1
    /\ seqNum' = seqNum + 1
    /\ UNCHANGED <<up, entries, file, writing, num, notified, durable, unlogged,
                   misread, crashes, errors>>

(* WAL.Append, up to where os.WriteFile has emptied the file; or the file  *)
(* cannot be opened, which nobody is told.                                 *)
AppendEntry(w) ==
    /\ up /\ ~writing
    /\ num[w] # 0 /\ w \notin notified
    /\ notified' = notified \cup {w}
    /\ entries' = Append(entries, w)
    /\ \/ file' = << >> /\ writing' = TRUE /\ misread' = FALSE /\ UNCHANGED errors
       \/ FileError /\ UNCHANGED <<file, writing, misread>>
    /\ UNCHANGED <<up, seqNum, num, durable, unlogged, lookups, crashes>>

(* All entries are written, not the new one only.                          *)
NewestOnly == << entries[Len(entries)] >>
NewestFirst == [i \in 1..Len(entries) |-> entries[Len(entries) + 1 - i]]
Text == entries

Persist ==
    /\ writing
    /\ file' = Text
    /\ writing' = FALSE
    /\ durable' = Elements(entries)
    /\ UNCHANGED <<up, entries, seqNum, num, notified, unlogged,
                   misread, lookups, crashes, errors>>

(* What a write that is cut short leaves: nothing of the text or a part.   *)
Cut == {<< >>, Torn}

(* The disk is full; persist does not look at the error.                   *)
PersistFails ==
    /\ writing
    /\ FileError
    /\ file' \in Cut
    /\ writing' = FALSE
    /\ durable' = {}
    /\ UNCHANGED <<up, entries, seqNum, num, notified, unlogged, misread,
                   lookups, crashes>>

-----------------------------------------------------------------------------
(* The process dies.                                                       *)
Crash ==
    /\ up
    /\ crashes < MaxCrashes
    /\ crashes' = crashes + 1
    /\ up' = FALSE
    /\ writing' = FALSE
    /\ entries' = << >>
    /\ misread' = FALSE
    /\ IF writing THEN file' \in Cut /\ durable' = {}
                  ELSE UNCHANGED <<file, durable>>
    /\ unlogged' = (unlogged \/ \E w \in Writes : /\ num[w] # 0
                                                  /\ \A d \in durable' : num[d] < num[w])
    /\ UNCHANGED <<seqNum, num, notified, lookups, errors>>

(* NewWAL goes on with no entries when the file is not JSON.               *)
Parsed == IF file = Torn THEN << >> ELSE file

(* MaxSeqNum looks at all entries: they are in the order of their messages.*)
LastSeqNum(log) == IF log = << >> THEN 0 ELSE num[log[Len(log)]]
MaxSeqNum(log) ==
    IF log = << >> THEN 0
    ELSE num[CHOOSE w \in Elements(log) : \A x \in Elements(log) : num[x] <= num[w]]

(* NewWAL, which takes a file it cannot read for a missing one; then Start.*)
Start ==
    /\ ~up
    /\ up' = TRUE
    /\ \/ entries' = Parsed /\ UNCHANGED <<durable, unlogged, misread, errors>>
       \/ /\ FileError
          /\ entries' = << >>
          /\ durable' = {}
          /\ misread' = TRUE
          /\ unlogged' = (unlogged \/ \E w \in Writes : num[w] # 0)
    /\ seqNum' = MaxSeqNum(entries')
    /\ UNCHANGED <<file, writing, num, notified, lookups, crashes>>

Next ==
    \/ \E w \in Writes : NextSeqNum(w) \/ AppendEntry(w)
    \/ Lookup \/ Persist \/ PersistFails \/ Crash \/ Start

Spec == Init /\ [][Next]_vars

-----------------------------------------------------------------------------
(* Every variable stays in its type.                                       *)
TypeOK ==
    /\ up \in BOOLEAN /\ writing \in BOOLEAN /\ unlogged \in BOOLEAN /\ misread \in BOOLEAN
    /\ entries \in Logs
    /\ file \in Logs \cup {Torn}
    /\ num \in [Writes -> Nat]
    /\ notified \subseteq Writes /\ durable \subseteq Writes
    /\ {seqNum, lookups, crashes, errors} \subseteq Nat

(* The log of the running process, or the one the next process will have.  *)
Held == IF up THEN entries ELSE Parsed

(* An entry that was on the disk once is in the log of every process from  *)
(* then on, until a write of the file fails or is cut short or the file    *)
(* cannot be read; one good write brings back all that memory has.         *)
LoggedStays == durable \subseteq Elements(Held)

(* No SeqNum is given to two writes, as long as no master died before the  *)
(* newest one was in the file.  Numbers taken by lookups do not matter.    *)
NumbersOnce ==
    ~unlogged => \A w, x \in Writes : num[w] = num[x] /\ num[w] # 0 => w = x

PL == INSTANCE PrefixLog WITH Entries <- Writes, log <- Held

(* Whatever fails and whenever the process dies, the log loses its end or  *)
(* all of it, and never an entry before one that it keeps; except that a   *)
(* log nobody could read comes back when it has not been overwritten.      *)
RefinesPrefixLog == PL!Init /\ [][PL!Next \/ misread]_Held
=============================================================================
