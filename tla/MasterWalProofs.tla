--------------------------- MODULE MasterWalProofs ---------------------------
(***************************************************************************)
(* Theorems about MasterWal, for every set of writes and every bound on    *)
(* lookups, crashes and errors.                                            *)
(***************************************************************************)
EXTENDS MasterWal, TLAPS

-----------------------------------------------------------------------------
(* Sequences.                                                              *)

(* Append adds one element.                                                *)
LEMMA AppendElements ==
    ASSUME NEW S, NEW s \in Seq(S), NEW e \in S
    PROVE  /\ Append(s, e) \in Seq(S)
           /\ Elements(Append(s, e)) = Elements(s) \cup {e}
<1>1. /\ Append(s, e) \in Seq(S) /\ Len(Append(s, e)) = Len(s) + 1
      /\ \A i \in 1..Len(s) : Append(s, e)[i] = s[i]
      /\ Append(s, e)[Len(s) + 1] = e
      /\ Len(s) \in Nat
  OBVIOUS
<1>2. \A i \in 1..(Len(s) + 1) : i \in 1..Len(s) \/ i = Len(s) + 1
  BY <1>1
<1>3. \A i \in 1..Len(s) : i \in 1..(Len(s) + 1)
  BY <1>1
<1>4. Len(s) + 1 \in 1..(Len(s) + 1)
  BY <1>1
<1>5. Elements(Append(s, e)) \subseteq Elements(s) \cup {e}
  BY <1>1, <1>2 DEF Elements
<1>6. Elements(s) \cup {e} \subseteq Elements(Append(s, e))
  BY <1>1, <1>3, <1>4 DEF Elements
<1> QED
  BY <1>1, <1>5, <1>6

(* s is a beginning of t.                                                  *)
Begins(s, t) == \E n \in 0..Len(t) : s = SubSeq(t, 1, n)

LEMMA ZeroFirst == \A n \in Nat : 0 \in 0..n
OBVIOUS

(* The empty log and the whole log are beginnings; appending keeps them.   *)
LEMMA BeginsFacts ==
    ASSUME NEW S, NEW t \in Seq(S)
    PROVE  /\ Begins(<< >>, t) /\ Begins(t, t)
           /\ \A e \in S, s \in Seq(S) : Begins(s, t) => Begins(s, Append(t, e))
<1>1. Len(t) \in Nat
  OBVIOUS
<1>2. Begins(<< >>, t)
  <2>1. << >> = SubSeq(t, 1, 0)
    BY SMTT(30)
  <2>2. 0 \in 0..Len(t)
    BY <1>1, ZeroFirst, Zenon
  <2> QED
    BY <2>1, <2>2 DEF Begins
<1>3. Begins(t, t)
  <2>1. t = SubSeq(t, 1, Len(t)) /\ Len(t) \in 0..Len(t)
    BY <1>1
  <2> QED
    BY <2>1 DEF Begins
<1>4. ASSUME NEW e \in S, NEW s \in Seq(S), Begins(s, t) PROVE Begins(s, Append(t, e))
  <2>1. PICK n \in 0..Len(t) : s = SubSeq(t, 1, n)
    BY <1>4 DEF Begins
  <2>2. Append(t, e) \in Seq(S) /\ Len(Append(t, e)) = Len(t) + 1
    OBVIOUS
  <2>3. \A i \in 1..n : Append(t, e)[i] = t[i]
    BY <1>1
  <2>4. SubSeq(Append(t, e), 1, n) = SubSeq(t, 1, n)
    BY <1>1, <2>2, <2>3
  <2>5. n \in 0..Len(Append(t, e))
    BY <1>1, <2>2
  <2> QED
    BY <2>1, <2>4, <2>5 DEF Begins
<1> QED
  BY <1>2, <1>3, <1>4

-----------------------------------------------------------------------------
(* The invariant.                                                          *)

(* The text of the file is cut only by what is noted in durable, writing   *)
(* and misread; memory has at least what the file has.                     *)
Durability ==
    /\ writing => up
    /\ ~writing => durable \subseteq Elements(Parsed)
    /\ up => durable \subseteq Elements(entries)
    /\ up /\ ~misread /\ ~writing => Begins(Parsed, entries)

(* An entry has its number before it is logged.                            *)
Numbered == \A w \in Elements(entries) \cup Elements(Parsed) : num[w] # 0

(* Some entry has the largest number, which MaxSeqNum then finds.          *)
HasMax(f, s) ==
    s # << >> => \E w \in Elements(s) : \A x \in Elements(s) : f[x] <= f[w]

(* The counter is ahead of every number, and the file of a stopped master  *)
(* has a number at least as high as every one that was given.              *)
Counted ==
    ~unlogged =>
        /\ up => \A w \in Writes : num[w] <= seqNum
        /\ ~up => \A w \in Writes : num[w] # 0 => \E d \in durable : num[w] <= num[d]

WInv ==
    /\ TypeOK /\ Durability /\ Numbered
    /\ HasMax(num, entries) /\ HasMax(num, Parsed)
    /\ Counted /\ NumbersOnce

-----------------------------------------------------------------------------
(* MaxSeqNum of a log that has a largest number is that number.            *)
LEMMA MaxSeqNumIsMax ==
    ASSUME TypeOK, NEW s \in Logs, HasMax(num, s)
    PROVE  /\ MaxSeqNum(s) \in Nat
           /\ \A x \in Elements(s) : num[x] <= MaxSeqNum(s)
<1>1. CASE s = << >>
  BY <1>1 DEF MaxSeqNum, Elements
<1>2. CASE s # << >>
  <2> DEFINE Greatest(w) == \A x \in Elements(s) : num[x] <= num[w]
             top == CHOOSE w \in Elements(s) : Greatest(w)
  <2>1. \E w \in Elements(s) : Greatest(w)
    BY <1>2 DEF HasMax
  <2>2. top \in Elements(s) /\ Greatest(top)
    BY <2>1
  <2>3. Elements(s) \subseteq Writes
    BY DEF Elements, Logs
  <2>4. MaxSeqNum(s) = num[top]
    BY <1>2 DEF MaxSeqNum
  <2> QED
    BY <2>2, <2>3, <2>4 DEF TypeOK
<1> QED
  BY <1>1, <1>2

(* What the next process would read is a log, or none.                     *)
LEMMA ParsedType ==
    ASSUME TypeOK
    PROVE  Parsed \in Logs /\ << >> \in Logs
  BY DEF TypeOK, Parsed, Logs

(* Typing.                                                                 *)
LEMMA TypesStep ==
    ASSUME TypeOK, HasMax(num, Parsed), [Next]_vars
    PROVE  TypeOK'
<1> USE WalAssumption DEF TypeOK, FileError
<1>1. ASSUME NEW w \in Writes, NextSeqNum(w) PROVE TypeOK'
  BY <1>1 DEF NextSeqNum
<1>2. ASSUME NEW w \in Writes, AppendEntry(w) PROVE TypeOK'
  <2>1. entries' \in Logs
    BY <1>2 DEF AppendEntry, Logs
  <2>2. file' \in Logs \cup {Torn}
    BY <1>2, ParsedType DEF AppendEntry
  <2>3. errors' \in Nat
    BY <1>2 DEF AppendEntry
  <2>4. misread' \in BOOLEAN /\ writing' \in BOOLEAN
    BY <1>2, Zenon DEF AppendEntry
  <2> QED
    BY <1>2, <2>1, <2>2, <2>3, <2>4 DEF AppendEntry
<1>3. CASE Lookup
  BY <1>3 DEF Lookup
<1>4. CASE Persist
  <2>1. Elements(entries) \subseteq Writes
    BY DEF Elements, Logs
  <2> QED
    BY <1>4, <2>1 DEF Persist, Text
<1>5. CASE PersistFails
  <2>1. file' \in Logs \cup {Torn}
    BY <1>5, ParsedType DEF PersistFails, Cut
  <2>2. errors' \in Nat
    BY <1>5 DEF PersistFails
  <2> QED
    BY <1>5, <2>1, <2>2 DEF PersistFails
<1>6. CASE Crash
  <2>1. entries' \in Logs
    BY <1>6, ParsedType DEF Crash
  <2>2. file' \in Logs \cup {Torn} /\ durable' \subseteq Writes
    BY <1>6, ParsedType DEF Crash, Cut
  <2>3. unlogged' \in BOOLEAN
    BY <1>6 DEF Crash
  <2>4. up' = FALSE /\ writing' = FALSE /\ misread' = FALSE /\ crashes' \in Nat
    BY <1>6 DEF Crash
  <2>5. UNCHANGED <<seqNum, num, notified, lookups, errors>>
    BY <1>6 DEF Crash
  <2> QED
    BY <2>1, <2>2, <2>3, <2>4, <2>5
<1>7. CASE Start
  <2>1. entries' \in {Parsed, << >>}
    BY <1>7 DEF Start
  <2>2. HasMax(num, << >>)
    BY DEF HasMax
  <2>3. MaxSeqNum(Parsed) \in Nat /\ MaxSeqNum(<< >>) \in Nat
    BY <2>2, ParsedType, MaxSeqNumIsMax
  <2>4. entries' \in Logs /\ seqNum' \in Nat
    BY <1>7, <2>1, <2>3, ParsedType DEF Start
  <2>5. unlogged' \in BOOLEAN /\ misread' \in BOOLEAN /\ durable' \subseteq Writes
    BY <1>7 DEF Start
  <2>6. errors' \in Nat
    BY <1>7 DEF Start
  <2> QED
    BY <1>7, <2>4, <2>5, <2>6 DEF Start
<1>8. CASE UNCHANGED vars
  BY <1>8 DEF vars
<1> QED
  BY <1>1, <1>2, <1>3, <1>4, <1>5, <1>6, <1>7, <1>8 DEF Next

(* A process that starts finds what is durable, or is told that nothing is.*)
LEMMA DurabilityStep ==
    ASSUME TypeOK, Durability, [Next]_vars
    PROVE  Durability'
<1> USE WalAssumption DEF Durability
<1>t. /\ entries \in Seq(Writes) /\ Parsed \in Seq(Writes)
      /\ Begins(<< >>, entries) /\ Begins(Parsed, Parsed) /\ Begins(entries, entries)
  BY ParsedType, BeginsFacts DEF TypeOK, Logs
<1>1. ASSUME NEW w \in Writes, NextSeqNum(w) PROVE Durability'
  BY <1>1 DEF NextSeqNum, Parsed
<1>2. ASSUME NEW w \in Writes, AppendEntry(w) PROVE Durability'
  <2>1. entries' = Append(entries, w) /\ durable' = durable /\ up /\ up' /\ ~writing
    BY <1>2 DEF AppendEntry
  <2>2. /\ Elements(entries) \subseteq Elements(entries')
        /\ Begins(Parsed, entries) => Begins(Parsed, entries')
    BY <1>t, <2>1, AppendElements, BeginsFacts
  <2>3. CASE file' = << >> /\ writing'
    BY <2>1, <2>2, <2>3
  <2>4. CASE UNCHANGED <<file, writing, misread>>
    <3>1. Parsed' = Parsed
      BY <2>4 DEF Parsed
    <3> QED
      BY <2>1, <2>2, <2>4, <3>1
  <2> QED
    BY <1>2, <2>3, <2>4 DEF AppendEntry
<1>3. CASE Lookup
  BY <1>3 DEF Lookup, Parsed
<1>4. CASE Persist
  <2>1. entries' = entries /\ file' = entries /\ ~writing' /\ durable' = Elements(entries)
    BY <1>4 DEF Persist, Text
  <2>2. Parsed' = entries
    BY <1>t, <2>1 DEF Parsed
  <2> QED
    BY <1>t, <2>1, <2>2
<1>5. CASE PersistFails
  <2>1. UNCHANGED <<up, entries>> /\ ~writing' /\ durable' = {}
    BY <1>5 DEF PersistFails
  <2>2. Parsed' = << >>
    BY <1>5 DEF PersistFails, Cut, Parsed
  <2> QED
    BY <1>t, <2>1, <2>2
<1>6. CASE Crash
  <2>1. ~up' /\ ~writing'
    BY <1>6 DEF Crash
  <2>2. CASE writing
    BY <1>6, <2>1, <2>2 DEF Crash
  <2>3. CASE ~writing
    <3>1. file' = file /\ durable' = durable
      BY <1>6, <2>3 DEF Crash
    <3>2. Parsed' = Parsed
      BY <3>1 DEF Parsed
    <3> QED
      BY <2>1, <2>3, <3>1, <3>2
  <2> QED
    BY <2>2, <2>3
<1>7. CASE Start
  <2>1. ~up /\ up' /\ ~writing /\ ~writing'
    BY <1>7 DEF Start
  <2>2. Parsed' = Parsed
    BY <1>7 DEF Start, Parsed
  <2>3. CASE entries' = Parsed /\ durable' = durable
    BY <1>t, <2>1, <2>2, <2>3
  <2>4. CASE durable' = {} /\ misread'
    BY <2>1, <2>4
  <2> QED
    BY <1>7, <2>3, <2>4 DEF Start
<1>8. CASE UNCHANGED vars
  BY <1>8 DEF vars, Parsed
<1> QED
  BY <1>1, <1>2, <1>3, <1>4, <1>5, <1>6, <1>7, <1>8 DEF Next

(* A step gives out the next number, or leaves the numbers alone.          *)
LEMMA NumSteps ==
    ASSUME [Next]_vars
    PROVE  \/ num' = num
           \/ \E w \in Writes : NextSeqNum(w)
  BY DEF Next, AppendEntry, Lookup, Persist, PersistFails, Crash, Start, vars

(* The logs of memory and of the file are of the logs before the step, but *)
(* for the entry that is appended.                                         *)
LEMMA LogSteps ==
    ASSUME TypeOK, [Next]_vars
    PROVE  /\ \/ entries' \in {entries, Parsed, << >>}
              \/ \E w \in Writes : num[w] # 0 /\ num' = num /\ entries' = Append(entries, w)
           /\ Parsed' \in {entries, Parsed, << >>}
<1> USE WalAssumption
<1>1. ASSUME NEW w \in Writes, AppendEntry(w)
      PROVE  /\ num[w] # 0 /\ num' = num /\ entries' = Append(entries, w)
             /\ Parsed' \in {Parsed, << >>}
  BY <1>1 DEF AppendEntry, Parsed
<1>2. CASE Persist
  BY <1>2 DEF Persist, Text, Parsed, TypeOK, Logs
<1>3. CASE PersistFails
  BY <1>3 DEF PersistFails, Cut, Parsed
<1>4. CASE Crash
  BY <1>4 DEF Crash, Cut, Parsed
<1>5. CASE Start
  BY <1>5 DEF Start, Parsed
<1>6. ASSUME Lookup \/ UNCHANGED vars \/ \E w \in Writes : NextSeqNum(w)
      PROVE  entries' = entries /\ Parsed' = Parsed
  BY <1>6 DEF Lookup, vars, NextSeqNum, Parsed
<1> QED
  BY <1>1, <1>2, <1>3, <1>4, <1>5, <1>6 DEF Next

(* Logged writes have numbers, and keep them.                              *)
LEMMA NumberedStep ==
    ASSUME TypeOK, Numbered, [Next]_vars
    PROVE  /\ Numbered'
           /\ \A w \in Elements(entries) \cup Elements(Parsed) : num'[w] = num[w]
<1>1. Elements(entries) \cup Elements(Parsed) \subseteq Writes
  <2>1. entries \in Seq(Writes) /\ Parsed \in Seq(Writes)
    BY ParsedType DEF TypeOK, Logs
  <2>2. \A s \in Seq(Writes) : Elements(s) \subseteq Writes
    BY ONLY DEF Elements
  <2> QED
    BY <2>1, <2>2
<1>2. \A w \in Writes : num[w] # 0 => num'[w] = num[w]
  BY NumSteps DEF NextSeqNum, TypeOK
<1>3. \A w \in Elements(entries) \cup Elements(Parsed) : num'[w] = num[w] /\ num'[w] # 0
  BY <1>1, <1>2 DEF Numbered
<1>4. Elements(<< >>) = {}
  BY DEF Elements
<1>5. \A w \in Elements(Parsed') : num'[w] # 0
  BY <1>3, <1>4, LogSteps
<1>6. \A w \in Elements(entries') : num'[w] # 0
  <2>1. CASE entries' \in {entries, Parsed, << >>}
    BY <2>1, <1>3, <1>4
  <2>2. ASSUME NEW w \in Writes, num[w] # 0, num' = num, entries' = Append(entries, w)
        PROVE  \A x \in Elements(entries') : num'[x] # 0
    <3>1. Elements(entries') = Elements(entries) \cup {w}
      BY <2>2, AppendElements DEF TypeOK, Logs
    <3> QED
      BY <2>2, <3>1, <1>3
  <2> QED
    BY <2>1, <2>2, LogSteps
<1>7. Numbered'
  <2>1. (Elements(entries) \cup Elements(Parsed))' = Elements(entries') \cup Elements(Parsed')
    BY DEF Elements
  <2> QED
    BY <1>5, <1>6, <2>1 DEF Numbered
<1> QED
  BY <1>3, <1>7

(* A log that is not empty has an entry with the largest number.           *)
LEMMA HasMaxStep ==
    ASSUME TypeOK, TypeOK', Numbered, HasMax(num, entries), HasMax(num, Parsed), [Next]_vars
    PROVE  HasMax(num', entries') /\ HasMax(num', Parsed')
<1>1. /\ \A w \in Elements(entries) : num'[w] = num[w]
      /\ \A w \in Elements(Parsed) : num'[w] = num[w]
  BY NumberedStep
<1>2. \A s \in {entries, Parsed, << >>} : HasMax(num', s)
  BY <1>1 DEF HasMax
<1>3. ASSUME NEW w \in Writes, num' = num, entries' = Append(entries, w)
      PROVE  HasMax(num, entries')
  <2>1. Elements(entries') = Elements(entries) \cup {w}
    BY <1>3, AppendElements DEF TypeOK, Logs
  <2>2. \A x \in Elements(entries') : num[x] \in Nat
    <3>1. entries \in Seq(Writes) /\ num \in [Writes -> Nat]
      BY DEF TypeOK, Logs
    <3>2. Elements(entries) \subseteq Writes
      BY ONLY <3>1 DEF Elements
    <3> QED
      BY ONLY <1>3, <2>1, <3>1, <3>2
  <2>3. CASE entries = << >>
    <3>1. Elements(entries') = {w}
      BY <2>1, <2>3 DEF Elements
    <3>2. num[w] <= num[w]
      BY <2>2, <3>1
    <3> QED
      BY <3>1, <3>2 DEF HasMax
  <2>4. CASE entries # << >>
    <3>1. PICK m \in Elements(entries) : \A x \in Elements(entries) : num[x] <= num[m]
      BY <2>4 DEF HasMax
    <3>2. CASE num[w] <= num[m]
      <4>1. m \in Elements(entries') /\ \A x \in Elements(entries') : num[x] <= num[m]
        BY <2>1, <3>1, <3>2
      <4> QED
        BY <4>1 DEF HasMax
    <3>3. CASE num[m] <= num[w]
      <4>1. w \in Elements(entries') /\ \A x \in Elements(entries') : num[x] <= num[w]
        BY <2>1, <2>2, <3>1, <3>3
      <4> QED
        BY <4>1 DEF HasMax
    <3> QED
      BY <2>1, <2>2, <3>2, <3>3
  <2> QED
    BY <2>3, <2>4
<1> QED
  BY <1>2, <1>3, LogSteps

(* The counter stays ahead of the numbers, so that a number is new.        *)
LEMMA CountedStep ==
    ASSUME WInv, TypeOK', [Next]_vars
    PROVE  Counted' /\ NumbersOnce'
<1> USE DEF Counted, NumbersOnce, TypeOK
<1>i. TypeOK /\ Durability /\ HasMax(num, Parsed) /\ Counted /\ NumbersOnce
  BY DEF WInv
<1>1. ASSUME NEW w \in Writes, NextSeqNum(w) PROVE Counted' /\ NumbersOnce'
  <2>1. /\ up /\ up' /\ unlogged' = unlogged /\ num[w] = 0
        /\ seqNum' = seqNum + 1 /\ num' = [num EXCEPT ![w] = seqNum + 1]
    BY <1>1 DEF NextSeqNum
  <2>2. num'[w] = seqNum + 1 /\ \A x \in Writes : x # w => num'[x] = num[x]
    BY <1>i, <2>1
  <2>3. ~unlogged => \A x \in Writes : num[x] <= seqNum
    BY <1>i, <2>1
  <2>4. ~unlogged => \A x \in Writes : num'[x] <= seqNum'
    BY <1>i, <2>1, <2>2, <2>3
  <2>5. ~unlogged => \A x \in Writes : x # w => num'[x] # num'[w]
    BY <1>i, <2>2, <2>3
  <2>6. NumbersOnce'
    BY <1>i, <2>1, <2>2, <2>5
  <2> QED
    BY <2>1, <2>4, <2>6
<1>2. ASSUME num' = num, up, up', unlogged' = unlogged, seqNum' \in {seqNum, seqNum + 1}
      PROVE  Counted' /\ NumbersOnce'
  BY <1>i, <1>2
<1>3. CASE Crash
  <2>1. num' = num /\ ~up' /\ (~unlogged' => ~unlogged)
    BY <1>3 DEF Crash
  <2>2. ~unlogged' => \A w \in Writes : num[w] # 0 => \E d \in durable' : ~(num[d] < num[w])
    BY <1>3 DEF Crash
  <2>3. \A d \in durable' : num[d] \in Nat
    BY <1>i, <2>1
  <2> QED
    BY <1>i, <2>1, <2>2, <2>3
<1>4. CASE Start
  <2>1. ~up /\ up' /\ num' = num
    BY <1>4 DEF Start
  <2>2. CASE entries' = Parsed /\ unlogged' = unlogged
    <3>1. seqNum' = MaxSeqNum(Parsed)
      BY <1>4, <2>2 DEF Start
    <3>2. /\ MaxSeqNum(Parsed) \in Nat
          /\ \A x \in Elements(Parsed) : num[x] <= MaxSeqNum(Parsed)
      BY <1>i, ParsedType, MaxSeqNumIsMax
    <3>3. durable \subseteq Elements(Parsed)
      BY <1>i, <2>1 DEF Durability
    <3>4. ASSUME ~unlogged, NEW w \in Writes PROVE num[w] <= seqNum'
      <4>1. CASE num[w] = 0
        BY <3>1, <3>2, <4>1
      <4>2. CASE num[w] # 0
        <5>1. PICK d \in durable : num[w] <= num[d]
          BY <1>i, <2>1, <3>4, <4>2
        <5>2. num[d] <= seqNum' /\ num[d] \in Nat /\ num[w] \in Nat
          BY <1>i, <3>1, <3>2, <3>3
        <5> QED
          BY <3>1, <3>2, <5>1, <5>2
      <4> QED
        BY <4>1, <4>2
    <3> QED
      BY <1>i, <2>1, <2>2, <3>4
  <2>3. CASE unlogged' = (unlogged \/ \E w \in Writes : num[w] # 0)
    <3>1. ~unlogged' => \A w \in Writes : num'[w] = 0
      BY <2>1, <2>3
    <3>2. seqNum' \in Nat
      OBVIOUS
    <3> QED
      BY <2>1, <3>1, <3>2
  <2> QED
    BY <1>4, <2>2, <2>3 DEF Start
<1>5. ASSUME Persist \/ PersistFails \/ Lookup \/ \E w \in Writes : AppendEntry(w)
      PROVE  num' = num /\ up /\ up' /\ unlogged' = unlogged /\ seqNum' \in {seqNum, seqNum + 1}
  BY <1>i, <1>5 DEF Persist, PersistFails, Lookup, AppendEntry, Durability
<1>6. CASE UNCHANGED vars
  BY <1>i, <1>6 DEF vars
<1> QED
  BY <1>1, <1>2, <1>3, <1>4, <1>5, <1>6 DEF Next

(* It holds of an empty log.                                               *)
LEMMA WInvInit == Init => WInv
<1> SUFFICES ASSUME Init PROVE WInv
  OBVIOUS
<1>1. Parsed = << >> /\ entries = << >> /\ Elements(<< >>) = {}
  BY WalAssumption DEF Init, Parsed, Elements, Logs
<1>2. TypeOK
  <2>1. << >> \in Logs
    BY DEF Logs
  <2>2. up \in BOOLEAN /\ writing \in BOOLEAN /\ unlogged \in BOOLEAN /\ misread \in BOOLEAN
    BY DEF Init
  <2>3. {seqNum, lookups, crashes, errors} \subseteq Nat /\ num \in [Writes -> Nat]
    BY DEF Init
  <2> QED
    BY <2>1, <2>2, <2>3 DEF Init, TypeOK
<1>3. Durability
  <2>1. << >> \in Seq(Writes)
    OBVIOUS
  <2>2. Begins(<< >>, << >>)
    BY <2>1, BeginsFacts
  <2> QED
    BY <1>1, <2>2 DEF Init, Durability
<1>4. Numbered /\ HasMax(num, entries) /\ HasMax(num, Parsed)
  BY <1>1 DEF Numbered, HasMax
<1>5. Counted /\ NumbersOnce
  BY DEF Init, Counted, NumbersOnce
<1> QED
  BY <1>2, <1>3, <1>4, <1>5 DEF WInv

(* Every step keeps it.                                                    *)
LEMMA WInvStep == WInv /\ [Next]_vars => WInv'
<1> SUFFICES ASSUME WInv, [Next]_vars PROVE WInv'
  OBVIOUS
<1>1. TypeOK'
  BY TypesStep DEF WInv
<1>2. Durability' /\ Numbered'
  BY DurabilityStep, NumberedStep DEF WInv
<1>3. HasMax(num', entries') /\ HasMax(num', Parsed')
  BY <1>1, HasMaxStep DEF WInv
<1>4. Counted' /\ NumbersOnce'
  BY <1>1, CountedStep
<1> QED
  BY <1>1, <1>2, <1>3, <1>4 DEF WInv

(* The invariant holds throughout.                                         *)
THEOREM WInvCorrect == Spec => []WInv
<1> QED
  BY WInvInit, WInvStep, PTL DEF Spec

-----------------------------------------------------------------------------
(* An entry that was on the disk once is in the log of every process from  *)
(* then on, until a write of wal.json fails or is cut short or it cannot   *)
(* be read.                                                                *)
THEOREM LoggedStaysCorrect == Spec => []LoggedStays
<1>1. WInv => LoggedStays
  BY DEF WInv, Durability, LoggedStays, Held
<1> QED
  BY WInvCorrect, <1>1, PTL

(* No SeqNum is given to two writes while no master died before the newest *)
(* one was in the file, whatever order the WALNotify messages come in.     *)
THEOREM NumbersOnceCorrect == Spec => []NumbersOnce
<1>1. WInv => NumbersOnce
  BY DEF WInv
<1> QED
  BY WInvCorrect, <1>1, PTL

-----------------------------------------------------------------------------
(* Each step adds an entry to the log or keeps a beginning of it.          *)
LEMMA HeldStep ==
    ASSUME WInv, [Next]_vars
    PROVE  PL!Next \/ misread \/ Held' = Held
<1>1. WInv /\ entries \in Seq(Writes) /\ Parsed \in Seq(Writes) /\ (writing => up)
  BY ParsedType DEF WInv, TypeOK, Logs, Durability
<1>2. ASSUME Begins(Held', Held) PROVE PL!Next
  BY <1>2 DEF Begins, PL!Next, PL!Keep
<1>3. Begins(<< >>, Held)
  BY <1>1, BeginsFacts DEF Held
<1>4. ASSUME NEW w \in Writes, AppendEntry(w) PROVE PL!Next
  <2>1. Held' = Append(Held, w)
    BY <1>4 DEF AppendEntry, Held
  <2> QED
    BY <2>1 DEF PL!Next, PL!Add
<1>5. ASSUME Crash, ~misread PROVE PL!Next
  <2>1. Held = entries /\ Held' = Parsed'
    BY <1>5 DEF Crash, Held
  <2>2. CASE writing
    <3>1. Parsed' = << >>
      BY <1>5, <2>2 DEF Crash, Cut, Parsed
    <3> QED
      BY <1>2, <1>3, <2>1, <3>1
  <2>3. CASE ~writing
    <3>1. Parsed' = Parsed /\ up
      BY <1>5, <2>3 DEF Crash, Parsed
    <3>2. Begins(Parsed, entries)
      BY <1>1, <1>5, <2>3, <3>1 DEF WInv, Durability
    <3> QED
      BY <1>2, <2>1, <3>1, <3>2
  <2> QED
    BY <2>2, <2>3
<1>6. CASE Start
  <2>1. Held = Parsed /\ Held' = entries' /\ entries' \in {Parsed, << >>}
    BY <1>6 DEF Start, Held
  <2> QED
    BY <1>2, <1>3, <2>1
<1>7. ASSUME \/ Persist \/ PersistFails \/ Lookup \/ UNCHANGED vars
             \/ \E w \in Writes : NextSeqNum(w)
      PROVE  Held' = Held
  BY <1>1, <1>7 DEF Persist, PersistFails, Lookup, vars, NextSeqNum, Held, Parsed
<1> QED
  BY <1>4, <1>5, <1>6, <1>7 DEF Next

(* MasterWal implements PrefixLog: whatever fails and whenever the process *)
(* dies, the log loses its end or all of it.                               *)
THEOREM RefinesPrefixLogCorrect == Spec => RefinesPrefixLog
<1>1. Init => PL!Init
  BY DEF Init, PL!Init, Held
<1>2. WInv /\ [Next]_vars => [PL!Next \/ misread]_Held
  BY HeldStep
<1> QED
  BY WInvCorrect, <1>1, <1>2, PTL DEF Spec, RefinesPrefixLog
=============================================================================
